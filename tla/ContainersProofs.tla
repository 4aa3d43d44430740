-------------------------- MODULE ContainersProofs --------------------------
(***************************************************************************)
(* Five of the data types of core/, for every size.  A handle of a         *)
(* HandleTable finds its own object exactly while it is held, for every    *)
(* table size, every index width that fits it and whatever the slots'      *)
(* memory held.  The reference counts of Result and ResultOr are exact and *)
(* errors stay errors, for any finite number of objects and every set of   *)
(* codes.  The rings of IntrusiveList stay intact for any lists and hooks. *)
(* A FlatMap is the map its callers built, for every set of keys; so is a  *)
(* SmallMap, whose InlinedVector loses no cell and no heap block for every *)
(* inline capacity and any finite number of maps.                          *)
(***************************************************************************)
EXTENDS HandleTable, Result, IntrusiveList, FlatMap, SmallMap,
        FiniteSetTheorems, SequenceTheorems, WellFoundedInduction, TLAPS

(***************************************************************************)
(* HandleTable                                                             *)
(***************************************************************************)
(* Handle::kInvalid cannot match a slot that was never written: its index  *)
(* bits are all ones, so it names no slot unless N is a power of two (the  *)
(* one table of the program, Silo's, has 100 * 1024), and if it does, the  *)
(* memory of the slots must not hold that very word.  Nothing in Free      *)
(* checks this.                                                            *)
InvalidUnmatched == ValidateHandle(kInvalid) => kInvalid \notin Garbage

HandleTypeOK ==
    /\ slot \in [Indexes -> Nat]
    /\ next_allocate \in 0..Slots
    /\ generation \in Nat \ {0}
    /\ free_indexes \in Seq(Indexes)
    /\ built \in [Indexes -> Nat]
    /\ issued \subseteq Nat
    /\ held \subseteq issued
    /\ gone \in BOOLEAN

(* Indexes on the free stack are distinct and their slots have been        *)
(* written and given back: Allocate never takes a slot that is in use.     *)
FreeIndexesAreFree ==
    /\ \A a \in 1..Len(free_indexes) :
          free_indexes[a] < next_allocate /\ slot[free_indexes[a]] = 0
    /\ \A a, b \in 1..Len(free_indexes) :
          free_indexes[a] = free_indexes[b] => a = b

(* An issued handle is not 0, is below every handle of a later generation  *)
(* and names a slot that Allocate has reached.                             *)
IssuedInPast ==
    \A h \in issued : /\ 0 < h /\ h < generation * 2^IndexBits
                      /\ GetIndex(h) < next_allocate

(* The word of a slot that Allocate has reached is 0 or a handle that      *)
(* names this slot.                                                        *)
SlotNamesItself ==
    \A i \in Indexes :
        (i < next_allocate /\ slot[i] # 0)
            => slot[i] \in issued /\ GetIndex(slot[i]) = i

(* The memory of the other slots does not pass for Handle::kInvalid.       *)
UnwrittenUnmatched ==
    \A i \in Indexes :
        next_allocate <= i => ~(GetIndex(kInvalid) = i /\ slot[i] = kInvalid)

HeldIsStored == \A h \in issued : h \in held <=> (~gone /\ slot[GetIndex(h)] = h)

Occupied(i) == ~gone /\ i < next_allocate /\ slot[i] # 0

BuiltIsOccupied == \A i \in Indexes : built[i] = IF Occupied(i) THEN 1 ELSE 0

HandleInv ==
    /\ HandleTypeOK /\ FreeIndexesAreFree /\ IssuedInPast /\ SlotNamesItself
    /\ UnwrittenUnmatched /\ HeldIsStored /\ BuiltIsOccupied

(* A new handle carries its index in its low bits and is above all handles *)
(* of earlier generations.                                                 *)
LEMMA HandleEncoding ==
  ASSUME generation \in Nat \ {0}, NEW index \in Indexes
  PROVE  LET h == AllocateHandle(index)
         IN  /\ h \in Nat
             /\ GetIndex(h) = index
             /\ generation * 2^IndexBits <= h
             /\ h < (generation + 1) * 2^IndexBits
             /\ 0 < h
<1>1. 2^IndexBits \in Nat \ {0} /\ Slots <= 2^IndexBits /\ Slots \in Nat
  BY HandleTableAssumption
<1>2. \A B \in Nat \ {0} : \A g \in Nat \ {0} : \A i \in 0..(B - 1) :
         /\ (g * B + i) % B = i /\ g * B + i \in Nat
         /\ g * B <= g * B + i /\ g * B + i < (g + 1) * B
         /\ 0 < g * B + i
  OBVIOUS
<1>3. index \in 0..(2^IndexBits - 1)
  BY <1>1 DEF Indexes
<1> QED BY <1>1, <1>2, <1>3 DEF AllocateHandle, GetIndex

(* The index of a word is a natural number.                                *)
LEMMA IndexIsNat == \A h \in Nat : GetIndex(h) \in Nat
BY HandleTableAssumption DEF GetIndex

LEMMA HandleInvInit == InvalidUnmatched /\ HandleInit => HandleInv
<1> SUFFICES ASSUME InvalidUnmatched, HandleInit PROVE HandleInv
  OBVIOUS
<1> USE HandleTableAssumption
<1>1. HandleTypeOK
  <2>1. slot \in [Indexes -> Nat]
    <3>1. slot \in [Indexes -> Garbage] /\ Garbage \subseteq Nat
      BY DEF HandleInit
    <3> QED BY <3>1, Zenon
  <2>4. built \in [Indexes -> Nat]
    BY DEF HandleInit
  <2>2. free_indexes \in Seq(Indexes)
    BY DEF HandleInit
  <2>5. gone \in BOOLEAN
    BY DEF HandleInit
  <2>3. /\ next_allocate \in 0..Slots /\ generation \in Nat \ {0}
        /\ issued \subseteq Nat /\ held \subseteq issued
    BY DEF HandleInit
  <2> QED BY <2>1, <2>2, <2>3, <2>4, <2>5 DEF HandleTypeOK
<1>2. UnwrittenUnmatched
  BY DEF HandleInit, UnwrittenUnmatched, InvalidUnmatched, ValidateHandle, Indexes
<1>3. FreeIndexesAreFree /\ IssuedInPast /\ HeldIsStored
  BY DEF HandleInit, FreeIndexesAreFree, IssuedInPast, HeldIsStored
<1>4. SlotNamesItself /\ BuiltIsOccupied
  BY DEF HandleInit, SlotNamesItself, BuiltIsOccupied, Occupied, Indexes
<1> QED BY <1>1, <1>2, <1>3, <1>4 DEF HandleInv

(* pop_back.                                                               *)
LEMMA PopBack ==
  ASSUME NEW S, NEW s \in Seq(S), Len(s) > 0
  PROVE  LET r == SubSeq(s, 1, Len(s) - 1)
         IN  /\ r \in Seq(S) /\ Len(r) = Len(s) - 1
             /\ \A a \in 1..(Len(s) - 1) : r[a] = s[a]
<1> DEFINE n == Len(s) - 1
<1>1. n \in Nat /\ \A i \in 1..n : s[i] \in S
  OBVIOUS
<1> HIDE DEF n
<1>2. /\ SubSeq(s, 1, n) \in Seq(S)
      /\ Len(SubSeq(s, 1, n)) = IF 1 <= n THEN n - 1 + 1 ELSE 0
      /\ \A i \in 1..(n - 1 + 1) : SubSeq(s, 1, n)[i] = s[1 + i - 1]
  BY <1>1, SubSeqProperties
<1>3. \A i \in 1..n : i \in 1..(n - 1 + 1) /\ 1 + i - 1 = i
  BY <1>1
<1>4. Len(SubSeq(s, 1, n)) = n
  BY <1>1, <1>2
<1> QED BY <1>2, <1>3, <1>4 DEF n

(* What Allocate does once it has chosen an index.                         *)
AllocatesAt(index) ==
    /\ ~Occupied(index) /\ index < next_allocate'
    /\ next_allocate' \in 0..Slots /\ next_allocate <= next_allocate'
    /\ \A i \in Indexes : i < next_allocate' => i < next_allocate \/ i = index
    /\ generation' = generation + 1
    /\ slot' = [slot EXCEPT ![index] = AllocateHandle(index)]
    /\ built' = [built EXCEPT ![index] = @ + 1]
    /\ issued' = issued \cup {AllocateHandle(index)}
    /\ held' = held \cup {AllocateHandle(index)}
    /\ ~gone /\ gone' = gone

(* The stack of free indexes shrinks at its end and loses this index.      *)
LeavesStack(index) ==
    /\ free_indexes' \in Seq(Indexes)
    /\ Len(free_indexes') <= Len(free_indexes)
    /\ \A a \in 1..Len(free_indexes') :
          free_indexes'[a] = free_indexes[a] /\ free_indexes'[a] # index

(* Allocate takes an index whose slot is not in use, from the stack or     *)
(* from the slots not yet reached, and leaves the rest of the stack.       *)
LEMMA AllocateTakesFree ==
  ASSUME HandleInv, Allocate
  PROVE  \E index \in Indexes : AllocatesAt(index) /\ LeavesStack(index)
<1> USE HandleTableAssumption DEF HandleInv, HandleTypeOK
<1>1. CASE Len(free_indexes) > 0
  <2> DEFINE top == Len(free_indexes)
             index == free_indexes[top]
             rest == SubSeq(free_indexes, 1, top - 1)
  <2>1. top \in Nat /\ top > 0 /\ top \in 1..top
    BY <1>1
  <2>2. index \in Indexes /\ index < next_allocate /\ slot[index] = 0
    BY <2>1 DEF FreeIndexesAreFree
  <2>3. /\ rest \in Seq(Indexes) /\ Len(rest) = top - 1
        /\ \A a \in 1..(top - 1) : rest[a] = free_indexes[a]
    BY <2>1, PopBack
  <2>4. \A a \in 1..(top - 1) : free_indexes[a] # index
    BY <2>1, SMTT(30) DEF FreeIndexesAreFree
  <2>5. free_indexes' = rest /\ next_allocate' = next_allocate
    BY <2>1 DEF Allocate
  <2>6. /\ generation' = generation + 1
        /\ slot' = [slot EXCEPT ![index] = AllocateHandle(index)]
        /\ built' = [built EXCEPT ![index] = @ + 1]
        /\ issued' = issued \cup {AllocateHandle(index)}
        /\ held' = held \cup {AllocateHandle(index)}
        /\ ~gone /\ gone' = gone
    BY <2>1 DEF Allocate
  <2> HIDE DEF index, rest
  <2>7. AllocatesAt(index)
    BY <2>2, <2>5, <2>6 DEF AllocatesAt, Occupied, Indexes
  <2>8. LeavesStack(index)
    <3>1. \A a \in 1..(top - 1) : rest[a] = free_indexes[a] /\ rest[a] # index
      BY <2>3, <2>4
    <3>2. Len(free_indexes') = top - 1 /\ Len(free_indexes') <= top
      BY <2>1, <2>3, <2>5
    <3> QED BY <2>3, <2>5, <3>1, <3>2 DEF LeavesStack
  <2> QED BY <2>2, <2>7, <2>8
<1>2. CASE ~(Len(free_indexes) > 0)
  <2> DEFINE index == next_allocate
  <2>1. free_indexes = <<>> /\ Len(free_indexes) = 0
    BY <1>2
  <2>2. free_indexes' = free_indexes /\ next_allocate' = next_allocate + 1
    BY <1>2 DEF Allocate
  <2>3. /\ generation' = generation + 1
        /\ slot' = [slot EXCEPT ![index] = AllocateHandle(index)]
        /\ built' = [built EXCEPT ![index] = @ + 1]
        /\ issued' = issued \cup {AllocateHandle(index)}
        /\ held' = held \cup {AllocateHandle(index)}
        /\ ~gone /\ gone' = gone
    BY <1>2 DEF Allocate
  <2>4. next_allocate < Slots /\ index \in Indexes
    BY <2>1 DEF Allocate, CanAllocate, Indexes
  <2>5. AllocatesAt(index)
    BY <2>2, <2>3, <2>4 DEF AllocatesAt, Occupied, Indexes
  <2>6. LeavesStack(index)
    BY <2>1, <2>2 DEF LeavesStack
  <2> QED BY <2>4, <2>5, <2>6
<1> QED BY <1>1, <1>2

(* The invariant survives Allocate.                                        *)
LEMMA AllocateKeepsInv == HandleInv /\ Allocate => HandleInv'
<1> SUFFICES ASSUME HandleInv, Allocate PROVE HandleInv'
  OBVIOUS
<1>1. PICK index \in Indexes : AllocatesAt(index) /\ LeavesStack(index)
  BY AllocateTakesFree
<1> DEFINE h == AllocateHandle(index)
<1>2. /\ h \in Nat /\ GetIndex(h) = index /\ 0 < h
      /\ generation * 2^IndexBits <= h /\ h < (generation + 1) * 2^IndexBits
  BY HandleEncoding DEF HandleInv, HandleTypeOK
<1>3. h \notin issued
  BY <1>2, HandleTableAssumption DEF IssuedInPast, HandleInv, HandleTypeOK
<1>4. /\ ~Occupied(index) /\ index < next_allocate'
      /\ next_allocate' \in 0..Slots /\ next_allocate <= next_allocate'
      /\ \A i \in Indexes : i < next_allocate' => i < next_allocate \/ i = index
      /\ generation' = generation + 1
      /\ slot' = [slot EXCEPT ![index] = h]
      /\ built' = [built EXCEPT ![index] = @ + 1]
      /\ issued' = issued \cup {h}
      /\ held' = held \cup {h}
      /\ ~gone /\ gone' = gone
  BY <1>1 DEF AllocatesAt
<1> HIDE DEF h
<1> USE DEF HandleInv
<1>5. HandleTypeOK'
  <2>1. slot' \in [Indexes -> Nat] /\ built' \in [Indexes -> Nat]
    BY <1>2, <1>4 DEF HandleTypeOK
  <2>2. /\ next_allocate' \in 0..Slots /\ generation' \in Nat \ {0}
        /\ free_indexes' \in Seq(Indexes) /\ gone' \in BOOLEAN
    BY <1>1, <1>4 DEF HandleTypeOK, LeavesStack
  <2>3. issued' \subseteq Nat /\ held' \subseteq issued'
    BY <1>2, <1>4 DEF HandleTypeOK
  <2> QED BY <2>1, <2>2, <2>3 DEF HandleTypeOK
<1>6. FreeIndexesAreFree'
  <2>1. \A a \in 1..Len(free_indexes') :
            /\ a \in 1..Len(free_indexes)
            /\ free_indexes'[a] = free_indexes[a]
            /\ free_indexes[a] \in Indexes /\ free_indexes[a] # index
    <3>1. Len(free_indexes) \in Nat /\ Len(free_indexes') \in Nat
          /\ Len(free_indexes') <= Len(free_indexes)
      BY <1>1 DEF LeavesStack, HandleTypeOK
    <3>2. \A a \in 1..Len(free_indexes') : a \in 1..Len(free_indexes)
      BY <3>1
    <3>3. \A a \in 1..Len(free_indexes) : free_indexes[a] \in Indexes
      BY DEF HandleTypeOK
    <3> QED BY <1>1, <3>2, <3>3 DEF LeavesStack
  <2>2. \A a \in 1..Len(free_indexes') :
            free_indexes'[a] < next_allocate' /\ slot'[free_indexes'[a]] = 0
    <3> SUFFICES ASSUME NEW a \in 1..Len(free_indexes')
                 PROVE  free_indexes'[a] < next_allocate' /\ slot'[free_indexes'[a]] = 0
      OBVIOUS
    <3> DEFINE f == free_indexes[a]
    <3>1. free_indexes'[a] = f /\ f \in Indexes /\ f # index
      BY <2>1
    <3>2. f < next_allocate /\ slot[f] = 0
      BY <2>1 DEF FreeIndexesAreFree
    <3> HIDE DEF f
    <3>3. slot'[f] = slot[f]
      BY <1>4, <3>1 DEF HandleTypeOK
    <3>4. f < next_allocate'
      BY <1>4, <3>1, <3>2, HandleTableAssumption DEF HandleTypeOK, Indexes
    <3> QED BY <3>1, <3>2, <3>3, <3>4
  <2>3. \A a, b \in 1..Len(free_indexes') :
            free_indexes'[a] = free_indexes'[b] => a = b
    BY <2>1 DEF FreeIndexesAreFree
  <2> QED BY <2>2, <2>3 DEF FreeIndexesAreFree
<1>7. IssuedInPast'
  <2>1. generation * 2^IndexBits \in Nat /\ generation' * 2^IndexBits \in Nat
        /\ generation * 2^IndexBits <= generation' * 2^IndexBits
    BY <1>2, <1>4, HandleTableAssumption DEF HandleTypeOK
  <2>2. \A g \in issued : GetIndex(g) \in Nat /\ g \in Nat
    BY IndexIsNat DEF HandleTypeOK
  <2>3. \A g \in issued : /\ 0 < g /\ g < generation' * 2^IndexBits
                          /\ GetIndex(g) < next_allocate'
    BY <2>1, <2>2, <1>4 DEF IssuedInPast, HandleTypeOK
  <2>4. /\ 0 < h /\ h < generation' * 2^IndexBits
        /\ GetIndex(h) < next_allocate'
    BY <1>2, <1>4
  <2> QED BY <2>3, <2>4, <1>4 DEF IssuedInPast, GetIndex
<1>8. SlotNamesItself'
  BY <1>2, <1>4 DEF SlotNamesItself, HandleTypeOK
<1>9. UnwrittenUnmatched'
  BY <1>4 DEF UnwrittenUnmatched, HandleTypeOK, Indexes
<1>10. HeldIsStored'
  <2>1. \A g \in issued : GetIndex(g) \in Indexes
    BY IndexIsNat, HandleTableAssumption DEF IssuedInPast, HandleTypeOK, Indexes
  <2>2. \A g \in issued : GetIndex(g) = index => slot[index] # g
    BY <1>4, <2>1 DEF Occupied, IssuedInPast, HandleTypeOK
  <2>3. \A g \in issued : (g \in held') <=> (~gone' /\ slot'[GetIndex(g)] = g)
    BY <1>2, <1>3, <1>4, <2>1, <2>2 DEF HeldIsStored, HandleTypeOK
  <2>4. h \in held' /\ ~gone' /\ slot'[GetIndex(h)] = h
    BY <1>2, <1>4 DEF HandleTypeOK
  <2> QED BY <2>3, <2>4, <1>4 DEF HeldIsStored, GetIndex
<1>11. BuiltIsOccupied'
  BY <1>2, <1>4 DEF BuiltIsOccupied, Occupied, HandleTypeOK, Indexes
<1> QED BY <1>5, <1>6, <1>7, <1>8, <1>9, <1>10, <1>11

(* What Free accepts is a handle that was issued and whose slot is in use. *)
LEMMA FreeTakesOccupied ==
  ASSUME HandleInv, NEW h \in issued \cup {kInvalid}, ~gone, Resolves(h)
  PROVE  GetIndex(h) \in Indexes /\ Occupied(GetIndex(h)) /\ h \in issued
<1> USE DEF HandleInv
<1>1. h \in Nat
  BY InvalidIsNat DEF HandleTypeOK
<1>2. GetIndex(h) \in Indexes
  BY <1>1, IndexIsNat, HandleTableAssumption DEF Resolves, ValidateHandle, Indexes
<1>3. slot[GetIndex(h)] = h /\ h # 0
  BY DEF Resolves
<1>4. GetIndex(h) < next_allocate
  BY <1>2, <1>3 DEF IssuedInPast, UnwrittenUnmatched, HandleTypeOK, Indexes
<1> QED BY <1>2, <1>3, <1>4 DEF Occupied, SlotNamesItself

(* The invariant survives Free.                                            *)
LEMMA FreeKeepsInv ==
  ASSUME HandleInv, NEW h \in issued \cup {kInvalid}, FreeHandle(h)
  PROVE  HandleInv'
<1> DEFINE index == GetIndex(h)
<1>1. /\ ~gone /\ gone' = gone /\ Resolves(h)
      /\ slot' = [slot EXCEPT ![index] = 0]
      /\ built' = [built EXCEPT ![index] = @ - 1]
      /\ free_indexes' = Append(free_indexes, index)
      /\ held' = held \ {h}
      /\ next_allocate' = next_allocate /\ generation' = generation
      /\ issued' = issued
  BY DEF FreeHandle
<1>2. index \in Indexes /\ Occupied(index) /\ h \in issued /\ slot[index] = h
  BY <1>1, FreeTakesOccupied DEF Resolves
<1>3. index < next_allocate /\ h # 0
  BY <1>2 DEF Occupied
<1> USE DEF HandleInv
<1>4. \A g \in issued : GetIndex(g) \in Indexes
  BY IndexIsNat, HandleTableAssumption DEF IssuedInPast, HandleTypeOK, Indexes
<1>5. \A g \in issued : GetIndex(g) = index /\ slot[index] = g => g = h
  BY <1>2
<1> HIDE DEF index
<1>6. HandleTypeOK'
  <2>1. built[index] = 1
    BY <1>2 DEF BuiltIsOccupied
  <2>2. built' \in [Indexes -> Nat] /\ slot' \in [Indexes -> Nat]
    BY <1>1, <1>2, <2>1 DEF HandleTypeOK
  <2>3. free_indexes' \in Seq(Indexes)
    BY <1>1, <1>2 DEF HandleTypeOK
  <2>4. /\ next_allocate' \in 0..Slots /\ generation' \in Nat \ {0}
        /\ issued' \subseteq Nat /\ held' \subseteq issued'
    BY <1>1 DEF HandleTypeOK
  <2>5. gone' \in BOOLEAN
    BY <1>1 DEF HandleTypeOK
  <2> QED BY <2>2, <2>3, <2>4, <2>5 DEF HandleTypeOK
<1>7. FreeIndexesAreFree'
  <2> DEFINE n == Len(free_indexes)
  <2>1. /\ n \in Nat /\ Len(free_indexes') = n + 1
        /\ free_indexes'[n + 1] = index
        /\ \A a \in 1..n : free_indexes'[a] = free_indexes[a]
                           /\ free_indexes[a] \in Indexes
    BY <1>1, <1>2 DEF HandleTypeOK
  <2>2. \A a \in 1..n : free_indexes[a] # index
    BY <1>2, <1>3 DEF FreeIndexesAreFree
  <2> HIDE DEF n
  <2>3. \A a \in 1..(n + 1) : a \in 1..n \/ a = n + 1
    BY <2>1
  <2>4. \A a \in 1..(n + 1) :
            free_indexes'[a] < next_allocate' /\ slot'[free_indexes'[a]] = 0
    BY <2>1, <2>3, <1>1, <1>2, <1>3 DEF FreeIndexesAreFree, HandleTypeOK, n
  <2>5. \A a, b \in 1..(n + 1) : free_indexes'[a] = free_indexes'[b] => a = b
    BY <2>1, <2>2, <2>3 DEF FreeIndexesAreFree, n
  <2> QED BY <2>1, <2>4, <2>5 DEF FreeIndexesAreFree
<1>8. IssuedInPast'
  BY <1>1 DEF IssuedInPast, GetIndex
<1>9. SlotNamesItself'
  BY <1>1, <1>2 DEF SlotNamesItself, HandleTypeOK, GetIndex
<1>10. UnwrittenUnmatched'
  BY <1>1, <1>2, <1>3 DEF UnwrittenUnmatched, HandleTypeOK, Indexes, GetIndex, kInvalid
<1>11. HeldIsStored'
  <2>1. \A g \in issued : (g \in held') <=> (~gone' /\ slot'[GetIndex(g)] = g)
    BY <1>1, <1>2, <1>3, <1>4, <1>5 DEF HeldIsStored, HandleTypeOK, IssuedInPast, index
  <2> QED BY <2>1, <1>1 DEF HeldIsStored, GetIndex
<1>12. BuiltIsOccupied'
  BY <1>1, <1>2 DEF BuiltIsOccupied, Occupied, HandleTypeOK
<1> QED BY <1>6, <1>7, <1>8, <1>9, <1>10, <1>11, <1>12

(* The destructor destroys exactly the objects of occupied slots.          *)
LEMMA DestroyKeepsInv == HandleInv /\ DestroyTable => HandleInv'
<1> SUFFICES ASSUME HandleInv, DestroyTable PROVE HandleInv'
  OBVIOUS
<1> USE DEF HandleInv
<1>1. BuiltIsOccupied' /\ built' \in [Indexes -> Nat]
  BY DEF DestroyTable, BuiltIsOccupied, Occupied, HandleTypeOK
<1>2. HandleTypeOK'
  <2>1. gone' \in BOOLEAN
    BY DEF DestroyTable
  <2> QED BY <1>1, <2>1 DEF DestroyTable, HandleTypeOK
<1>3. FreeIndexesAreFree' /\ SlotNamesItself' /\ IssuedInPast' /\ UnwrittenUnmatched'
  BY DEF DestroyTable, FreeIndexesAreFree, SlotNamesItself, IssuedInPast,
         UnwrittenUnmatched, GetIndex, kInvalid
<1>4. HeldIsStored'
  BY DEF DestroyTable, HeldIsStored
<1> QED BY <1>1, <1>2, <1>3, <1>4

LEMMA HandleInvStep == HandleInv /\ [HandleNext]_handleVars => HandleInv'
<1>1. HandleInv /\ UNCHANGED handleVars => HandleInv'
  BY DEF handleVars, HandleInv, HandleTypeOK, FreeIndexesAreFree, IssuedInPast,
         SlotNamesItself, UnwrittenUnmatched, HeldIsStored, BuiltIsOccupied,
         Occupied, GetIndex, kInvalid
<1> QED BY <1>1, AllocateKeepsInv, FreeKeepsInv, DestroyKeepsInv DEF HandleNext

(* What the invariant says of handles and objects.                         *)
LEMMA HandleInvIsSound == HandleInv => HandlesSound
<1> SUFFICES ASSUME HandleInv PROVE HandlesSound
  OBVIOUS
<1> USE DEF HandleInv
<1>1. \A h \in issued : /\ h \in Nat /\ h # 0 /\ GetIndex(h) \in Nat
                        /\ GetIndex(h) < next_allocate /\ GetIndex(h) < Slots
  <2> SUFFICES ASSUME NEW h \in issued
               PROVE  /\ h \in Nat /\ h # 0 /\ GetIndex(h) \in Nat
                      /\ GetIndex(h) < next_allocate /\ GetIndex(h) < Slots
    OBVIOUS
  <2>1. h \in Nat /\ GetIndex(h) \in Nat
    BY IndexIsNat DEF HandleTypeOK
  <2>2. 0 < h /\ GetIndex(h) < next_allocate
    BY DEF IssuedInPast
  <2> QED BY <2>1, <2>2, HandleTableAssumption DEF HandleTypeOK
<1>2. ResolvesWhileHeld
  BY <1>1 DEF ResolvesWhileHeld, Resolves, ValidateHandle, HeldIsStored
<1>3. ASSUME NEW i \in Indexes
      PROVE  built[i] = Cardinality({h \in held : GetIndex(h) = i})
  <2>1. CASE Occupied(i)
    <3>1. {h \in held : GetIndex(h) = i} = {slot[i]}
      BY <2>1 DEF Occupied, HeldIsStored, SlotNamesItself, HandleTypeOK
    <3> QED BY <2>1, <3>1, FS_Singleton DEF BuiltIsOccupied
  <2>2. CASE ~Occupied(i)
    <3>1. {h \in held : GetIndex(h) = i} = {}
      BY <2>2, <1>1 DEF Occupied, HeldIsStored, HandleTypeOK
    <3> QED BY <2>2, <3>1, FS_EmptySet DEF BuiltIsOccupied
  <2> QED BY <2>1, <2>2
<1> QED BY <1>2, <1>3 DEF HandlesSound, ObjectPerHandle

(* Lookup and Free answer for a handle from the Allocate that returned it  *)
(* to the Free that took it back, whatever generation reuses its slot and  *)
(* whatever its memory held before; and every object is destroyed once.    *)
THEOREM HandleTableIsSound ==
  ASSUME InvalidUnmatched
  PROVE  HandleSpec => []HandlesSound
<1>1. HandleInit => HandleInv  BY HandleInvInit
<1> QED BY <1>1, HandleInvStep, HandleInvIsSound, PTL DEF HandleSpec

(***************************************************************************)
(* Result and ResultOr                                                     *)
(***************************************************************************)
AllCodes == Codes \cup {kOk}

(* The word of an object.                                                  *)
WordOK(w) ==
    /\ w \in [kind : {"code", "erp", "value"}, code : AllCodes, at : Nat]
    /\ w.kind = "erp" => w = Extended(w.at) /\ w.at \in Reps

ResultTypeOK ==
    /\ rep \in [Objects -> [kind : {"code", "erp", "value"},
                            code : AllCodes, at : Nat]]
    /\ \A x \in Objects : WordOK(rep[x])
    /\ erp \in [Reps -> [refs : Nat, code : AllCodes]]

(* A representation that is in use carries an error: the constructors that *)
(* allocate one are given an error code.                                   *)
LiveIsError == \A a \in Reps : erp[a].refs > 0 => erp[a].code \in Codes

(* A ResultOr that holds a bare code holds an error.                       *)
BareIsError ==
    \A q \in ResultOrs : rep[q].kind = "code" => rep[q].code \in Codes

ResultInv == ResultTypeOK /\ RefsExact /\ LiveIsError /\ BareIsError

(* The objects that point to a representation when r gives their words.    *)
Owners(r, a) == {x \in Objects : r[x] = Extended(a)}
Refers(w, a) == IF w = Extended(a) THEN 1 ELSE 0

(* Giving one object another word moves one reference.                     *)
LEMMA OwnersOfUpdate ==
  ASSUME NEW r, NEW r2, NEW x \in Objects, NEW a \in Reps,
         \A z \in Objects \ {x} : r2[z] = r[z]
  PROVE  /\ Cardinality(Owners(r2, a)) \in Nat
         /\ Cardinality(Owners(r, a)) \in Nat
         /\ Cardinality(Owners(r2, a))
              = Cardinality(Owners(r, a)) - Refers(r[x], a) + Refers(r2[x], a)
<1> DEFINE w == r2[x]
           S == Owners(r, a)
<1>1. IsFiniteSet(S) /\ S \subseteq Objects
  BY ResultAssumption, FS_Subset DEF Owners, Objects
<1>2. (x \in S) <=> (r[x] = Extended(a))
  BY DEF Owners
<1>3. Cardinality(S) \in Nat
  BY <1>1, FS_CardinalityType
<1> DEFINE Goal ==
        /\ Cardinality(Owners(r2, a)) \in Nat
        /\ Cardinality(Owners(r2, a))
             = Cardinality(S) - (IF r[x] = Extended(a) THEN 1 ELSE 0)
                              + (IF w = Extended(a) THEN 1 ELSE 0)
<1>4. ASSUME w = Extended(a) PROVE Goal
  <2>1. Owners(r2, a) = S \cup {x}
    BY <1>4 DEF Owners
  <2>2. /\ IsFiniteSet(S \cup {x})
        /\ Cardinality(S \cup {x}) = IF x \in S THEN Cardinality(S)
                                     ELSE Cardinality(S) + 1
    BY <1>1, FS_AddElement
  <2> HIDE DEF S
  <2> QED BY <1>2, <1>3, <1>4, <2>1, <2>2
<1>5. ASSUME w # Extended(a) PROVE Goal
  <2>1. Owners(r2, a) = S \ {x}
    BY <1>5 DEF Owners
  <2>2. /\ IsFiniteSet(S \ {x})
        /\ Cardinality(S \ {x}) = IF x \in S THEN Cardinality(S) - 1
                                  ELSE Cardinality(S)
    BY <1>1, FS_RemoveElement
  <2>3. Cardinality(S \ {x}) \in Nat
    BY <2>2, FS_CardinalityType
  <2> HIDE DEF S
  <2> QED BY <1>2, <1>3, <1>5, <2>1, <2>2, <2>3
<1>6. Goal
  BY <1>4, <1>5
<1> QED BY <1>3, <1>6 DEF Refers

LEMMA OwnersOfWord ==
  ASSUME ResultTypeOK, NEW x \in Objects, NEW w, NEW a \in Reps
  PROVE  Cardinality(Owners([rep EXCEPT ![x] = w], a))
           = Cardinality(Owners(rep, a)) - Refers(rep[x], a) + Refers(w, a)
<1> DEFINE u == [rep EXCEPT ![x] = w]
<1>1. u[x] = w /\ \A z \in Objects \ {x} : u[z] = rep[z]
  BY DEF ResultTypeOK
<1> HIDE DEF u
<1>2. Cardinality(Owners(u, a))
         = Cardinality(Owners(rep, a)) - Refers(rep[x], a) + Refers(u[x], a)
  BY <1>1, OwnersOfUpdate, ZenonT(40)
<1> QED BY <1>1, <1>2 DEF u

(* An object that points to a representation keeps it alive.               *)
LEMMA OwnedIsLive ==
  ASSUME ResultTypeOK, RefsExact, NEW x \in Objects, rep[x].kind = "erp"
  PROVE  rep[x].at \in Reps /\ erp[rep[x].at].refs > 0
<1> DEFINE a == rep[x].at
<1>1. a \in Reps /\ rep[x] = Extended(a)
  BY DEF ResultTypeOK, WordOK
<1>2. x \in Owners(rep, a) /\ IsFiniteSet(Owners(rep, a))
  BY <1>1, ResultAssumption, FS_Subset DEF Owners, Objects
<1>3. Cardinality(Owners(rep, a)) # 0 /\ Cardinality(Owners(rep, a)) \in Nat
  BY <1>2, FS_EmptySet, FS_CardinalityType
<1> QED BY <1>1, <1>3 DEF RefsExact, Owners

(* The representations once x has dropped its reference.                   *)
DropErp(x) == IF rep[x].kind = "erp" THEN [erp EXCEPT ![rep[x].at].refs = @ - 1]
              ELSE erp

LEMMA DropRefIs ==
  ASSUME NEW x PROVE DropRef(Heap0, x) = [rep |-> rep, erp |-> DropErp(x)]
BY DEF DropRef, Heap0, DropErp, ErpEngaged

(* DropRef takes one reference away and keeps every code.                  *)
LEMMA DropErpCounts ==
  ASSUME ResultInv, NEW x \in Objects
  PROVE  /\ DropErp(x) \in [Reps -> [refs : Nat, code : AllCodes]]
         /\ \A a \in Reps :
               /\ DropErp(x)[a].code = erp[a].code
               /\ DropErp(x)[a].refs = erp[a].refs - Refers(rep[x], a)
               /\ DropErp(x)[a].refs <= erp[a].refs
<1> USE DEF ResultInv
<1>1. CASE rep[x].kind = "erp"
  <2>1. rep[x].at \in Reps /\ erp[rep[x].at].refs > 0
    BY <1>1, OwnedIsLive
  <2>2. \A a \in Reps : (rep[x] = Extended(a)) <=> (a = rep[x].at)
    BY <1>1 DEF ResultTypeOK, WordOK, Extended
  <2>3. DropErp(x) = [erp EXCEPT ![rep[x].at].refs = @ - 1]
    BY <1>1 DEF DropErp
  <2> QED BY <2>1, <2>2, <2>3 DEF ResultTypeOK, Refers
<1>2. CASE rep[x].kind # "erp"
  <2>1. \A a \in Reps : rep[x] # Extended(a)
    BY <1>2 DEF Extended
  <2> QED BY <1>2, <2>1 DEF DropErp, ResultTypeOK, Refers
<1> QED BY <1>1, <1>2

(* The invariant survives a step that gives one object another word and    *)
(* counts the reference it drops and the one it takes.                     *)
LEMMA OneWordStep ==
  ASSUME ResultInv, NEW x \in Objects, NEW w, WordOK(w),
         rep' = [rep EXCEPT ![x] = w],
         erp' \in [Reps -> [refs : Nat, code : AllCodes]],
         \A a \in Reps : erp'[a].refs = DropErp(x)[a].refs + Refers(w, a),
         \A a \in Reps : erp'[a].refs > 0 => erp'[a].code \in Codes,
         x \in ResultOrs /\ w.kind = "code" => w.code \in Codes
  PROVE  ResultInv'
<1> USE DEF ResultInv
<1>1. ResultTypeOK'
  <2>1. rep' \in [Objects -> [kind : {"code", "erp", "value"},
                              code : AllCodes, at : Nat]]
    BY DEF ResultTypeOK, WordOK
  <2>2. \A z \in Objects : WordOK(rep'[z])
    BY DEF ResultTypeOK
  <2> QED BY <2>1, <2>2 DEF ResultTypeOK
<1>2. RefsExact'
  <2> SUFFICES ASSUME NEW a \in Reps
               PROVE  erp'[a].refs = Cardinality(Owners(rep', a))
    BY DEF RefsExact, Owners
  <2>1. erp[a].refs = Cardinality(Owners(rep, a)) /\ erp[a].refs \in Nat
    BY DEF RefsExact, Owners, ResultTypeOK
  <2>2. Cardinality(Owners(rep', a))
           = Cardinality(Owners(rep, a)) - Refers(rep[x], a)
                                         + Refers(w, a)
    BY OwnersOfWord
  <2>3. DropErp(x)[a].refs = erp[a].refs - Refers(rep[x], a)
    BY DropErpCounts
  <2> QED BY <2>1, <2>2, <2>3
<1>3. LiveIsError' /\ BareIsError'
  BY DEF LiveIsError, BareIsError, ResultTypeOK, Objects
<1> QED BY <1>1, <1>2, <1>3

(* Assigning a bare code or a value.                                       *)
LEMMA BareStep ==
  ASSUME ResultInv, NEW x \in Objects, NEW w,
         w \in {Plain(c) : c \in AllCodes} \cup {Value},
         x \in ResultOrs => w = Value,
         Become([DropRef(Heap0, x) EXCEPT !.rep[x] = w])
  PROVE  ResultInv'
<1>1. rep' = [rep EXCEPT ![x] = w] /\ erp' = DropErp(x)
  BY DropRefIs DEF Become
<1>2. /\ WordOK(w) /\ \A a \in Reps : w # Extended(a)
      /\ x \in ResultOrs /\ w.kind = "code" => w.code \in Codes
  BY DEF WordOK, Plain, Value, Extended, AllCodes
<1>3. \A a \in Reps : erp'[a].refs = DropErp(x)[a].refs + Refers(w, a)
  BY <1>1, <1>2, DropErpCounts DEF Refers
<1>4. \A a \in Reps : erp'[a].refs > 0 => erp'[a].code \in Codes
  BY <1>1, DropErpCounts DEF ResultInv, LiveIsError, ResultTypeOK
<1> QED BY <1>1, <1>2, <1>3, <1>4, DropErpCounts, OneWordStep

(* While one object gives up its word there is a representation to spare:  *)
(* each one in use has an owner of its own among the other objects.        *)
LEMMA SpareRep ==
  ASSUME ResultInv, NEW x \in Objects
  PROVE  \E b \in Reps : DropErp(x)[b].refs = 0
<1> SUFFICES ASSUME \A b \in Reps : DropErp(x)[b].refs # 0 PROVE FALSE
  OBVIOUS
<1> DEFINE Others == Objects \ {x}
<1> USE DEF ResultInv
<1>1. \A b \in Reps : \E y \in Others : rep[y] = Extended(b)
  <2> SUFFICES ASSUME NEW b \in Reps, \A y \in Others : rep[y] # Extended(b)
               PROVE  FALSE
    OBVIOUS
  <2>1. DropErp(x)[b].refs = erp[b].refs - Refers(rep[x], b)
    BY DropErpCounts
  <2>2. erp[b].refs = Cardinality(Owners(rep, b))
    BY DEF RefsExact, Owners
  <2>3. CASE rep[x] = Extended(b)
    <3>1. Owners(rep, b) = {x}
      BY <2>3 DEF Owners
    <3>2. Cardinality({x}) = 1
      BY FS_Singleton
    <3> QED BY <2>1, <2>2, <2>3, <3>1, <3>2 DEF Refers
  <2>4. CASE rep[x] # Extended(b)
    <3>1. Owners(rep, b) = {}
      BY <2>4 DEF Owners
    <3> QED BY <2>1, <2>2, <2>4, <3>1, FS_EmptySet DEF Refers
  <2> QED BY <2>3, <2>4
<1> DEFINE f == [b \in Reps |-> CHOOSE y \in Others : rep[y] = Extended(b)]
<1>2. f \in [Reps -> Others] /\ \A b \in Reps : rep[f[b]] = Extended(b)
  BY <1>1
<1>3. \A b, e \in Reps : f[b] = f[e] => b = e
  BY <1>2 DEF Extended
<1>4. /\ IsFiniteSet(Others) /\ Cardinality(Others) = Cardinality(Objects) - 1
      /\ Cardinality(Objects) \in Nat /\ Cardinality(Reps) \in Nat
  BY ResultAssumption, FS_RemoveElement, FS_CardinalityType DEF Objects
<1>5. Cardinality(Others) < Cardinality(Reps)
  BY <1>4, ResultAssumption DEF Objects
<1> HIDE DEF f, Others
<1>6. IsFiniteSet(Reps) /\ IsFiniteSet(Others)
  BY <1>4, ResultAssumption
<1>7. f \in [Reps -> Others]
  BY <1>2
<1>8. \E b, e \in Reps : b # e /\ f[b] = f[e]
  BY <1>5, <1>6, <1>7, FS_PigeonHole
<1> QED BY <1>3, <1>8

(* The least spare representation, which NewExtended takes, exists.        *)
LEMMA LeastOf ==
  ASSUME NEW T \in SUBSET Nat, T # {}
  PROVE  \E b \in T : \A e \in T : b <= e
<1> DEFINE R == OpToRel(<, Nat)
<1>0. IsWellFoundedOn(R, Nat)
  BY NatLessThanWellFounded
<1>2. \A b, e \in Nat : <<e, b>> \in R <=> e < b
  BY DEF OpToRel
<1> HIDE DEF R
<1>1. PICK b \in T : \A e \in T : ~(<<e, b>> \in R)
  BY <1>0, WFMin
<1>3. \A e \in T : ~(e < b)
  BY <1>1, <1>2
<1> QED BY <1>3

(* Creating an error with a message.                                       *)
LEMMA SetErrorStep ==
  ASSUME ResultInv, NEW x \in Results, NEW c \in Codes, SetError(x, c)
  PROVE  ResultInv'
<1> DEFINE d == DropErp(x)
           Spare == {b \in Reps : d[b].refs = 0}
           a == FreshRep(d)
<1>x. x \in Objects
  BY DEF Objects
<1>1. a \in Reps /\ d[a].refs = 0
  <2>1. \E b \in Spare : \A e \in Spare : b <= e
    BY <1>x, SpareRep, LeastOf, ResultAssumption
  <2> QED BY <2>1 DEF FreshRep
<1>2. rep' = [rep EXCEPT ![x] = Extended(a)]
      /\ erp' = [d EXCEPT ![a] = [refs |-> 1, code |-> c]]
  <2>1. DropRef(Heap0, x) = [rep |-> rep, erp |-> d]
    BY DropRefIs
  <2>2. NewExtended(Heap0, x, c)
           = [rep |-> [rep EXCEPT ![x] = Extended(a)],
              erp |-> [d EXCEPT ![a] = [refs |-> 1, code |-> c]]]
    <3>1. DropRef(Heap0, x).erp = d
      BY <2>1
    <3>2. NewExtended(Heap0, x, c)
             = [[rep |-> rep, erp |-> d] EXCEPT
                   !.rep[x] = Extended(a), !.erp[a] = [refs |-> 1, code |-> c]]
      BY <2>1, <3>1 DEF NewExtended
    <3> HIDE DEF a, d
    <3> QED BY <3>2
  <2> QED BY <2>2 DEF SetError, Become
<1> HIDE DEF a, d
<1>3. /\ d \in [Reps -> [refs : Nat, code : AllCodes]]
      /\ \A b \in Reps : d[b].refs > 0 => d[b].code \in Codes
  BY <1>x, DropErpCounts DEF d, ResultInv, LiveIsError, ResultTypeOK
<1>4. WordOK(Extended(a)) /\ Extended(a).kind = "erp"
  BY <1>1, ResultAssumption DEF WordOK, Extended, AllCodes
<1>5. \A b \in Reps : (Extended(a) = Extended(b)) <=> (a = b)
  BY DEF Extended
<1>6. \A b \in Reps : erp'[b].refs = d[b].refs + Refers(Extended(a), b)
  BY <1>1, <1>2, <1>3, <1>5 DEF Refers
<1>7. /\ erp' \in [Reps -> [refs : Nat, code : AllCodes]]
      /\ \A b \in Reps : erp'[b].refs > 0 => erp'[b].code \in Codes
  BY <1>1, <1>2, <1>3 DEF AllCodes
<1> QED BY <1>x, <1>2, <1>4, <1>6, <1>7, OneWordStep DEF d

(* Copying takes a second reference to the source's representation.        *)
LEMMA CopyStep ==
  ASSUME ResultInv, NEW x \in Objects, NEW y \in Objects,
         x \in ResultOrs /\ rep[y].kind = "code" => rep[y].code \in Codes,
         Become(CopyResult(Heap0, x, y))
  PROVE  ResultInv'
<1>1. CASE x = y
  BY <1>1 DEF CopyResult, Become, Heap0, ResultInv, ResultTypeOK, RefsExact,
              LiveIsError, BareIsError
<1>2. CASE x # y
  <2> DEFINE d == DropErp(x)
             w == rep[y]
             s == [rep |-> [rep EXCEPT ![x] = w], erp |-> d]
  <2>1. CopyResult(Heap0, x, y) = AddRef(s, x)
    <3>1. DropRef(Heap0, x) = [rep |-> rep, erp |-> d] /\ Heap0.rep[y] = w
      BY DropRefIs DEF Heap0
    <3> HIDE DEF d, w
    <3>2. [DropRef(Heap0, x) EXCEPT !.rep[x] = Heap0.rep[y]] = s
      BY <3>1
    <3> QED BY <1>2, <3>2 DEF CopyResult
  <2>2. s.rep[x] = w /\ s.rep = [rep EXCEPT ![x] = w] /\ s.erp = d
    BY DEF ResultInv, ResultTypeOK
  <2>3. WordOK(w)
    BY DEF ResultInv, ResultTypeOK
  <2>4. /\ d \in [Reps -> [refs : Nat, code : AllCodes]]
        /\ \A b \in Reps : d[b].refs > 0 => d[b].code \in Codes
        /\ \A b \in Reps : d[b].code = erp[b].code
    BY DropErpCounts DEF ResultInv, LiveIsError, ResultTypeOK
  <2>5. CASE w.kind = "erp"
    <3>1. /\ w.at \in Reps /\ w = Extended(w.at) /\ d[w.at].code \in Codes
          /\ \A b \in Reps : (w = Extended(b)) <=> (b = w.at)
      BY <2>3, <2>4, <2>5, OwnedIsLive DEF WordOK, ResultInv, LiveIsError, Extended
    <3>2. rep' = [rep EXCEPT ![x] = w] /\ erp' = [d EXCEPT ![w.at].refs = @ + 1]
      <4> HIDE DEF s, d, w
      <4>1. AddRef(s, x) = [s EXCEPT !.erp[w.at].refs = @ + 1]
        BY <2>2, <2>5 DEF AddRef, ErpEngaged
      <4>2. /\ AddRef(s, x).rep = [rep EXCEPT ![x] = w]
            /\ AddRef(s, x).erp = [d EXCEPT ![w.at].refs = @ + 1]
        BY <4>1, <2>2 DEF s
      <4> QED BY <2>1, <4>2 DEF Become
    <3> HIDE DEF d, w
    <3>3. \A b \in Reps : erp'[b].refs = d[b].refs + Refers(w, b)
      BY <2>4, <3>1, <3>2 DEF Refers
    <3>4. /\ erp' \in [Reps -> [refs : Nat, code : AllCodes]]
          /\ \A b \in Reps : erp'[b].refs > 0 => erp'[b].code \in Codes
      BY <2>4, <3>1, <3>2
    <3> QED BY <2>3, <3>2, <3>3, <3>4, OneWordStep DEF d, w
  <2>6. CASE w.kind # "erp"
    <3>1. rep' = [rep EXCEPT ![x] = w] /\ erp' = d
      BY <2>1, <2>2, <2>6 DEF AddRef, ErpEngaged, Become
    <3>2. \A b \in Reps : w # Extended(b)
      BY <2>6 DEF Extended
    <3> HIDE DEF d, w
    <3>3. \A b \in Reps : erp'[b].refs = d[b].refs + Refers(w, b)
      BY <2>4, <3>1, <3>2 DEF Refers
    <3> QED BY <2>3, <2>4, <3>1, <3>3, OneWordStep DEF d, w
  <2> QED BY <2>5, <2>6
<1> QED BY <1>1, <1>2

(* Moving hands the source's reference over; the source keeps its code.    *)
LEMMA MoveStep ==
  ASSUME ResultInv, NEW x \in Objects, NEW y \in Objects,
         x \in ResultOrs /\ rep[y].kind = "code" => rep[y].code \in Codes,
         Become(MoveResult(Heap0, x, y))
  PROVE  ResultInv'
<1>1. CASE x = y
  BY <1>1 DEF MoveResult, Become, Heap0, ResultInv, ResultTypeOK, RefsExact,
              LiveIsError, BareIsError
<1>2. CASE x # y
  <2> DEFINE d == DropErp(x)
             w == rep[y]
             r == [rep EXCEPT ![x] = w]
             s == [rep |-> r, erp |-> d]
  <2>1. MoveResult(Heap0, x, y) = Disengage(s, y)
    <3>1. DropRef(Heap0, x) = [rep |-> rep, erp |-> d] /\ Heap0.rep[y] = w
      BY DropRefIs DEF Heap0
    <3> HIDE DEF d, w
    <3>2. [DropRef(Heap0, x) EXCEPT !.rep[x] = Heap0.rep[y]] = s
      BY <3>1
    <3> QED BY <1>2, <3>2 DEF MoveResult
  <2>2. /\ s.rep[y] = w /\ s.rep = r /\ s.erp = d
        /\ r \in [Objects -> [kind : {"code", "erp", "value"},
                              code : AllCodes, at : Nat]]
    BY <1>2 DEF ResultInv, ResultTypeOK
  <2>3. WordOK(w)
    BY DEF ResultInv, ResultTypeOK
  <2>4. /\ d \in [Reps -> [refs : Nat, code : AllCodes]]
        /\ \A b \in Reps : d[b].refs > 0 => d[b].code \in Codes
        /\ \A b \in Reps : d[b].code = erp[b].code
    BY DropErpCounts DEF ResultInv, LiveIsError, ResultTypeOK
  <2>5. CASE w.kind = "erp"
    <3> DEFINE v == Plain(d[w.at].code)
    <3>1. w.at \in Reps /\ w = Extended(w.at) /\ d[w.at].code \in Codes
      BY <2>3, <2>4, <2>5, OwnedIsLive DEF WordOK, ResultInv, LiveIsError
    <3>2. rep' = [r EXCEPT ![y] = v] /\ erp' = d
      <4> HIDE DEF s, r, d, w
      <4>1. Disengage(s, y) = [s EXCEPT !.rep[y] = v]
        BY <2>2, <2>5 DEF Disengage, ErpEngaged, Code
      <4> HIDE DEF v
      <4>2. Disengage(s, y).rep = [r EXCEPT ![y] = v] /\ Disengage(s, y).erp = d
        BY <4>1, <2>2 DEF s
      <4> QED BY <2>1, <4>2 DEF Become
    <3>3. /\ WordOK(v) /\ v.kind = "code" /\ v.code \in Codes
          /\ \A b \in Reps : v # Extended(b)
      BY <3>1 DEF WordOK, Plain, Extended, AllCodes
    <3> HIDE DEF v
    <3>4. ResultTypeOK'
      <4>1. \A z \in Objects : WordOK(rep'[z])
        BY <2>2, <2>3, <3>2, <3>3 DEF ResultInv, ResultTypeOK
      <4>2. rep' \in [Objects -> [kind : {"code", "erp", "value"},
                                  code : AllCodes, at : Nat]]
        BY <2>2, <3>2, <3>3 DEF WordOK
      <4> QED BY <4>1, <4>2, <2>4, <3>2 DEF ResultTypeOK
    <3>5. RefsExact'
      <4> SUFFICES ASSUME NEW a \in Reps
                   PROVE  d[a].refs = Cardinality(Owners(rep', a))
        BY <3>2 DEF RefsExact, Owners
      <4> DEFINE u == [r EXCEPT ![y] = v]
      <4>0. r[x] = w /\ \A z \in Objects \ {x} : r[z] = rep[z]
        BY DEF ResultInv, ResultTypeOK
      <4>1. u[y] = v /\ \A z \in Objects \ {y} : u[z] = r[z]
        BY <2>2
      <4>2. Cardinality(Owners(r, a))
               = Cardinality(Owners(rep, a)) - Refers(rep[x], a) + Refers(r[x], a)
        <5> HIDE DEF r, w
        <5> QED BY <4>0, OwnersOfUpdate
      <4>3. Cardinality(Owners(u, a))
               = Cardinality(Owners(r, a)) - Refers(r[y], a) + Refers(u[y], a)
        <5> HIDE DEF r, u
        <5> QED BY <4>1, OwnersOfUpdate
      <4>4. r[y] = w
        BY <2>2
      <4>5. Refers(v, a) = 0 /\ Refers(w, a) \in Nat /\ Refers(rep[x], a) \in Nat
        BY <3>3 DEF Refers
      <4>6. /\ d[a].refs = erp[a].refs - Refers(rep[x], a)
            /\ erp[a].refs = Cardinality(Owners(rep, a)) /\ erp[a].refs \in Nat
        BY DropErpCounts DEF ResultInv, RefsExact, Owners, ResultTypeOK
      <4>7. rep' = u
        BY <3>2
      <4> HIDE DEF r, u, w, d
      <4> QED BY <4>0, <4>1, <4>2, <4>3, <4>4, <4>5, <4>6, <4>7
    <3>6. LiveIsError'
      BY <2>4, <3>2 DEF LiveIsError
    <3>7. BareIsError'
      BY <2>5, <3>2, <3>3 DEF BareIsError, ResultInv, ResultTypeOK, Objects
    <3> QED BY <3>4, <3>5, <3>6, <3>7 DEF ResultInv
  <2>6. CASE w.kind # "erp"
    <3>1. rep' = r /\ erp' = d
      BY <2>1, <2>2, <2>6 DEF Disengage, ErpEngaged, Become
    <3>2. \A b \in Reps : w # Extended(b)
      BY <2>6 DEF Extended
    <3> HIDE DEF d, w
    <3>3. \A b \in Reps : erp'[b].refs = d[b].refs + Refers(w, b)
      BY <2>4, <3>1, <3>2 DEF Refers
    <3> QED BY <2>3, <2>4, <3>1, <3>3, OneWordStep DEF d, w
  <2> QED BY <2>5, <2>6
<1> QED BY <1>1, <1>2

LEMMA ResultInvInit == ResultInit => ResultInv
<1> SUFFICES ASSUME ResultInit PROVE ResultInv
  OBVIOUS
<1>1. ResultTypeOK /\ \A a \in Reps : \A x \in Objects : rep[x] # Extended(a)
  BY DEF ResultInit, ResultTypeOK, WordOK, Plain, Value, Extended, AllCodes
<1>2. RefsExact
  <2>1. \A a \in Reps : {x \in Objects : rep[x] = Extended(a)} = {}
    BY <1>1
  <2>2. \A a \in Reps : erp[a].refs = 0
    BY DEF ResultInit
  <2> QED BY <2>1, <2>2, FS_EmptySet DEF RefsExact
<1>3. LiveIsError /\ BareIsError
  BY ResultAssumption
     DEF ResultInit, LiveIsError, BareIsError, Objects, Plain, Value
<1> QED BY <1>1, <1>2, <1>3 DEF ResultInv

LEMMA ResultInvStep == ResultInv /\ [ResultNext]_resultVars => ResultInv'
<1> SUFFICES ASSUME ResultInv, [ResultNext]_resultVars PROVE ResultInv'
  OBVIOUS
<1>0. Results \subseteq Objects /\ ResultOrs \subseteq Objects
      /\ \A x \in Results : x \notin ResultOrs
  BY ResultAssumption DEF Objects
<1>1. CASE UNCHANGED resultVars
  BY <1>1 DEF resultVars, ResultInv, ResultTypeOK, RefsExact, LiveIsError,
              BareIsError
<1>2. ASSUME NEW x \in Results, NEW c \in AllCodes, SetCode(x, c)
      PROVE  ResultInv'
  BY <1>0, <1>2, BareStep DEF SetCode
<1>3. ASSUME NEW x \in Results, NEW c \in Codes, SetError(x, c) PROVE ResultInv'
  BY <1>3, SetErrorStep
<1>4. ASSUME NEW x \in Results, NEW y \in Results,
             CopyAssignResult(x, y) \/ MoveAssignResult(x, y)
      PROVE  ResultInv'
  BY <1>0, <1>4, CopyStep, MoveStep DEF CopyAssignResult, MoveAssignResult
<1>5. ASSUME NEW q \in ResultOrs, NEW p \in ResultOrs,
             CopyResultOr(q, p) \/ MoveResultOr(q, p)
      PROVE  ResultInv'
  BY <1>0, <1>5, CopyStep, MoveStep
     DEF CopyResultOr, MoveResultOr, ResultInv, BareIsError
<1>6. ASSUME NEW q \in ResultOrs, NEW r \in Results, FromResult(q, r)
      PROVE  ResultInv'
  <2>1. rep[r].kind = "code" => rep[r].code \in Codes
    BY <1>0, <1>6 DEF FromResult, Code, ErpEngaged, Heap0, ResultInv,
                      ResultTypeOK, AllCodes
  <2> QED BY <1>0, <1>6, <2>1, CopyStep DEF FromResult
<1>7. ASSUME NEW q \in ResultOrs, NEW r \in Results, TakeResult(r, q)
      PROVE  ResultInv'
  <2>1. CASE Holds(Heap0, q)
    <3>1. kOk \in AllCodes
      BY DEF AllCodes
    <3> QED BY <1>0, <1>7, <2>1, <3>1, BareStep DEF TakeResult
  <2>2. CASE ~Holds(Heap0, q)
    BY <1>0, <1>7, <2>2, MoveStep DEF TakeResult
  <2> QED BY <2>1, <2>2
<1>8. ASSUME NEW q \in ResultOrs, FromValue(q) PROVE ResultInv'
  BY <1>0, <1>8, BareStep DEF FromValue
<1> QED BY <1>1, <1>2, <1>3, <1>4, <1>5, <1>6, <1>7, <1>8 DEF ResultNext, AllCodes

(* A representation is freed with its last reference and never before, and *)
(* an error that was copied, moved or taken out never turns into kOk.      *)
THEOREM ResultCountsAreExact == ResultSpec => []ResultsSound
<1>1. ResultInv => ResultsSound
  <2> SUFFICES ASSUME ResultInv PROVE ErrorStaysError
    BY DEF ResultsSound, ResultInv
  <2> SUFFICES ASSUME NEW q \in ResultOrs, ~Holds(Heap0, q)
               PROVE  Code(Heap0, q) \in Codes
    BY DEF ErrorStaysError
  <2>1. q \in Objects
    BY DEF Objects
  <2>2. rep[q].kind \in {"code", "erp"}
    BY <2>1 DEF Holds, Heap0, ResultInv, ResultTypeOK
  <2>3. CASE rep[q].kind = "code"
    BY <2>3 DEF Code, ErpEngaged, Heap0, ResultInv, BareIsError
  <2>4. CASE rep[q].kind = "erp"
    BY <2>1, <2>4, OwnedIsLive DEF Code, ErpEngaged, Heap0, ResultInv, LiveIsError
  <2> QED BY <2>2, <2>3, <2>4
<1> QED BY <1>1, ResultInvInit, ResultInvStep, PTL DEF ResultSpec

(***************************************************************************)
(* IntrusiveList                                                           *)
(***************************************************************************)
(* Position i of the ring of l: positions 0 and Len + 1 are the sentinel.  *)
Node(l, i) == IF i \in 1..Len(order[l]) THEN order[l][i] ELSE l

ListTypeOK ==
    /\ prev \in [Hooks -> Hooks \cup {Null}]
    /\ next \in [Hooks -> Hooks \cup {Null}]
    /\ order \in [Lists -> Seq(Items)]

(* Only a running Clear has a donor, and it is another list.               *)
DonorIsOther ==
    /\ clearing \in Lists \cup {Null} /\ donor \in Lists \cup {Null}
    /\ clearing = Null => donor = Null
    /\ donor # Null => donor # clearing

(* An element is in one list, once.                                        *)
InOnePlace ==
    \A l, m \in Lists : \A i \in 1..Len(order[l]), j \in 1..Len(order[m]) :
        order[l][i] = order[m][j] => l = m /\ i = j

RingsLinked ==
    \A l \in Lists : \A i \in 0..Len(order[l]) :
        next[Node(l, i)] = Node(l, i + 1) /\ prev[Node(l, i + 1)] = Node(l, i)

OthersUnlinked ==
    \A x \in Items : (\A l \in Lists : \A i \in 1..Len(order[l]) : order[l][i] # x)
                        => prev[x] = Null /\ next[x] = Null

RingInv == ListTypeOK /\ InOnePlace /\ RingsLinked /\ OthersUnlinked
ListInv == RingInv /\ DonorIsOther

(* Positions of rings are distinct hooks, none of them Null.               *)
LEMMA NodesDistinct ==
  ASSUME ListTypeOK, InOnePlace
  PROVE  /\ \A l \in Lists, i \in Int : Node(l, i) \in Hooks /\ Node(l, i) # Null
         /\ \A l, m \in Lists : \A i \in 0..Len(order[l]), j \in 0..Len(order[m]) :
               Node(l, i) = Node(m, j) => l = m /\ i = j
         /\ \A l, m \in Lists :
               \A i \in 1..(Len(order[l]) + 1), j \in 1..(Len(order[m]) + 1) :
                  Node(l, i) = Node(m, j) => l = m /\ i = j
<1>1. \A l \in Lists : /\ order[l] \in Seq(Items) /\ Len(order[l]) \in Nat
                       /\ \A i \in 1..Len(order[l]) : order[l][i] \in Items
  BY DEF ListTypeOK
<1>2. \A l \in Lists : l \notin Items /\ l # Null
  BY IntrusiveListAssumption
<1>3. \A x \in Items : x # Null
  BY IntrusiveListAssumption
<1>4. \A l \in Lists, i \in Int : Node(l, i) \in Hooks /\ Node(l, i) # Null
  BY <1>1, <1>2, <1>3 DEF Node, Hooks
<1>5. ASSUME NEW l \in Lists, NEW m \in Lists,
             NEW i \in 0..Len(order[l]), NEW j \in 0..Len(order[m]),
             Node(l, i) = Node(m, j)
      PROVE  l = m /\ i = j
  BY <1>1, <1>2, <1>5 DEF Node, InOnePlace
<1>6. ASSUME NEW l \in Lists, NEW m \in Lists,
             NEW i \in 1..(Len(order[l]) + 1), NEW j \in 1..(Len(order[m]) + 1),
             Node(l, i) = Node(m, j)
      PROVE  l = m /\ i = j
  BY <1>1, <1>2, <1>6 DEF Node, InOnePlace
<1> QED BY <1>4, <1>5, <1>6

(* Only the pointers and the places of elements matter.                    *)
LEMMA SamePlacesKeepRings ==
  ASSUME RingInv, prev' = prev, next' = next, order' \in [Lists -> Seq(Items)],
         \A m \in Lists : order'[m] = order[m]
  PROVE  RingInv'
<1>0. /\ ListTypeOK /\ InOnePlace /\ RingsLinked /\ OthersUnlinked
  BY DEF RingInv
<1>1. \A m \in Lists : Len(order[m]) \in Nat
  BY <1>0 DEF ListTypeOK
<1>2. \A m \in Lists, j \in Int : Node(m, j)' = Node(m, j)
  BY DEF Node
<1>3. ListTypeOK' /\ InOnePlace' /\ OthersUnlinked'
  BY <1>0 DEF ListTypeOK, InOnePlace, OthersUnlinked
<1>4. RingsLinked'
  BY <1>0, <1>1, <1>2 DEF RingsLinked
<1> QED BY <1>3, <1>4 DEF RingInv

(* A hook that is linked is at a position of a ring.                       *)
LEMMA LinkedIsPlaced ==
  ASSUME RingInv, NEW x \in Items, HookLinked(prev, x)
  PROVE  \E l \in Lists : \E i \in 1..Len(order[l]) : order[l][i] = x
BY DEF RingInv, OthersUnlinked, HookLinked

(* Unlink of the element at position i takes it out of its ring.           *)
LEMMA UnlinkKeepsRings ==
  ASSUME RingInv, NEW l \in Lists, NEW i \in 1..Len(order[l]),
         SetPointers(Unlink(Pointers, order[l][i])),
         order' \in [Lists -> Seq(Items)],
         \A m \in Lists \ {l} : order'[m] = order[m],
         Len(order'[l]) = Len(order[l]) - 1,
         \A j \in 1..(Len(order[l]) - 1) :
             order'[l][j] = order[l][IF j < i THEN j ELSE j + 1]
  PROVE  RingInv'
<1> DEFINE x == order[l][i]
           a == Node(l, i - 1)
           b == Node(l, i + 1)
<1>0. /\ ListTypeOK /\ InOnePlace /\ RingsLinked /\ OthersUnlinked
  BY DEF RingInv
<1>1. \A m \in Lists : /\ order[m] \in Seq(Items) /\ Len(order[m]) \in Nat
                       /\ \A j \in 1..Len(order[m]) : order[m][j] \in Items
  BY <1>0 DEF ListTypeOK
<1>1a. Len(order[l]) \in Nat /\ i \in Nat /\ i >= 1 /\ i <= Len(order[l])
  BY <1>1
<1>2. x \in Items /\ x = Node(l, i) /\ x # Null /\ x \in Hooks
  BY <1>1, <1>1a, IntrusiveListAssumption DEF Node, Hooks
<1>3. a \in Hooks /\ b \in Hooks /\ a # Null /\ b # Null
  BY <1>0, <1>1a, NodesDistinct
<1>4. prev[x] = a /\ next[x] = b
  <2>1. i - 1 \in 0..Len(order[l]) /\ i \in 0..Len(order[l]) /\ (i - 1) + 1 = i
    BY <1>1a
  <2>2. prev[Node(l, (i - 1) + 1)] = Node(l, i - 1) /\ next[Node(l, i)] = Node(l, i + 1)
    BY <1>0, <2>1 DEF RingsLinked
  <2> QED BY <1>2, <2>1, <2>2
<1>5. /\ prev' = [prev EXCEPT ![b] = a, ![x] = Null]
      /\ next' = [next EXCEPT ![a] = b, ![x] = Null]
  BY <1>3, <1>4 DEF SetPointers, Unlink, Pointers, HookLinked
<1> HIDE DEF x, a, b
<1>6. ListTypeOK'
  BY <1>0, <1>2, <1>3, <1>5 DEF ListTypeOK
<1>7. InOnePlace'
  <2> SUFFICES ASSUME NEW m \in Lists, NEW n \in Lists,
                      NEW j \in 1..Len(order'[m]), NEW k \in 1..Len(order'[n]),
                      order'[m][j] = order'[n][k]
               PROVE  m = n /\ j = k
    BY DEF InOnePlace
  <2> DEFINE J == IF m = l /\ j >= i THEN j + 1 ELSE j
             K == IF n = l /\ k >= i THEN k + 1 ELSE k
  <2>1. J \in 1..Len(order[m]) /\ order'[m][j] = order[m][J]
    BY <1>1, <1>1a, SMTT(30)
  <2>2. K \in 1..Len(order[n]) /\ order'[n][k] = order[n][K]
    BY <1>1, <1>1a, SMTT(30)
  <2>3. m = n /\ J = K
    <3> HIDE DEF J, K
    <3>1. order[m][J] = order[n][K]
      BY <2>1, <2>2
    <3>2. \A u \in 1..Len(order[m]), v \in 1..Len(order[n]) :
             order[m][u] = order[n][v] => m = n /\ u = v
      BY <1>0 DEF InOnePlace
    <3> QED BY <2>1, <2>2, <3>1, <3>2
  <2> QED BY <2>3, <1>1, <1>1a
<1>8. OthersUnlinked'
  <2> SUFFICES ASSUME NEW y \in Items,
                      \A m \in Lists : \A j \in 1..Len(order'[m]) : order'[m][j] # y
               PROVE  prev'[y] = Null /\ next'[y] = Null
    BY DEF OthersUnlinked
  <2>1. CASE y = x
    BY <1>0, <1>2, <1>5, <2>1 DEF ListTypeOK
  <2>2. CASE y # x
    <3>1. ASSUME NEW m \in Lists, NEW j \in 1..Len(order[m]), order[m][j] = y
          PROVE  FALSE
      <4>1. CASE m # l
        BY <3>1, <4>1
      <4>2. CASE m = l /\ j < i
        BY <3>1, <4>2, <1>1a, SMTT(30)
      <4>3. CASE m = l /\ j > i
        <5>1. j - 1 \in 1..(Len(order[l]) - 1) /\ ~(j - 1 < i) /\ (j - 1) + 1 = j
          BY <4>3, <1>1a
        <5>2. order'[l][j - 1] = order[l][j]
          BY <5>1
        <5> QED BY <5>1, <5>2, <3>1, <4>3
      <4>4. CASE m = l /\ j = i
        BY <3>1, <4>4, <2>2 DEF x
      <4> QED BY <4>1, <4>2, <4>3, <4>4, <1>1a, <1>1
    <3>2. prev[y] = Null /\ next[y] = Null
      BY <1>0, <3>1 DEF OthersUnlinked
    <3>3. a = y => next[a] # Null
      <4>1. i - 1 \in 0..Len(order[l]) /\ i \in 0..Len(order[l]) /\ (i - 1) + 1 = i
        BY <1>1a
      <4> QED BY <1>0, <1>2, <4>1 DEF RingsLinked, a
    <3>4. b = y => prev[b] # Null
      BY <1>0, <1>1a, <1>2 DEF RingsLinked, b
    <3> QED BY <1>0, <1>5, <2>2, <3>2, <3>3, <3>4 DEF ListTypeOK, Hooks
  <2> QED BY <2>1, <2>2
<1>9. RingsLinked'
  <2> SUFFICES ASSUME NEW m \in Lists, NEW j \in 0..Len(order'[m])
               PROVE  /\ next'[Node(m, j)'] = Node(m, j + 1)'
                      /\ prev'[Node(m, j + 1)'] = Node(m, j)'
    BY DEF RingsLinked
  <2>a. j \in Nat /\ j <= Len(order'[m]) /\ Len(order'[m]) \in Nat
        /\ (m # l => Len(order'[m]) = Len(order[m]))
    BY <1>1, <1>1a
  <2>u. \A h \in Hooks : /\ h # a /\ h # x => next'[h] = next[h]
                         /\ h # b /\ h # x => prev'[h] = prev[h]
    BY <1>0, <1>5 DEF ListTypeOK
  <2>v. a # x /\ b # x
    <3>1. i - 1 \in 0..Len(order[l]) /\ i \in 0..Len(order[l])
          /\ i \in 1..(Len(order[l]) + 1) /\ i + 1 \in 1..(Len(order[l]) + 1)
      BY <1>1a
    <3> QED BY <1>0, <1>2, <3>1, <1>1a, NodesDistinct DEF a, b
  <2>w. next'[a] = b /\ prev'[b] = a
    BY <1>0, <1>3, <1>5, <2>v DEF ListTypeOK
  <2>1. CASE m # l
    <3>1. Node(m, j)' = Node(m, j) /\ Node(m, j + 1)' = Node(m, j + 1)
      BY <2>1 DEF Node
    <3>2. /\ Node(m, j) # a /\ Node(m, j) # x
          /\ Node(m, j + 1) # b /\ Node(m, j + 1) # x
      <4>1. i - 1 \in 0..Len(order[l]) /\ i \in 0..Len(order[l])
            /\ i \in 1..(Len(order[l]) + 1) /\ i + 1 \in 1..(Len(order[l]) + 1)
            /\ j \in 0..Len(order[m]) /\ j + 1 \in 1..(Len(order[m]) + 1)
        BY <1>1a, <2>a, <2>1
      <4> QED BY <1>0, <1>2, <2>1, <4>1, NodesDistinct DEF a, b
    <3>3. Node(m, j) \in Hooks /\ Node(m, j + 1) \in Hooks
      BY <1>0, <2>a, NodesDistinct
    <3>4. next[Node(m, j)] = Node(m, j + 1) /\ prev[Node(m, j + 1)] = Node(m, j)
      BY <1>0, <2>a, <2>1 DEF RingsLinked
    <3> QED BY <2>u, <3>1, <3>2, <3>3, <3>4
  <2>2. CASE m = l
    <3>a. \A k \in 0..(Len(order[l]) + 1) :
             Node(l, k)' = Node(l, IF k < i THEN k ELSE k + 1)
      BY <1>1a DEF Node
    <3>b. j <= Len(order[l]) - 1
      BY <2>a, <2>2
    <3>1. CASE j = i - 1
      <4>1. Node(l, j)' = a /\ Node(l, j + 1)' = b
        BY <3>a, <3>b, <3>1, <1>1a DEF a, b
      <4> QED BY <4>1, <2>w, <2>2
    <3>2. CASE j # i - 1
      <4> DEFINE k == IF j < i THEN j ELSE j + 1
      <4>1. Node(l, j)' = Node(l, k) /\ Node(l, j + 1)' = Node(l, k + 1)
        <5>1. CASE j < i
          <6>1. j + 1 < i /\ j + 1 \in 0..(Len(order[l]) + 1)
                /\ j \in 0..(Len(order[l]) + 1)
            BY <3>b, <3>2, <2>a, <1>1a, <5>1
          <6> QED BY <3>a, <5>1, <6>1
        <5>2. CASE ~(j < i)
          <6>1. ~(j + 1 < i) /\ j + 1 \in 0..(Len(order[l]) + 1)
                /\ j \in 0..(Len(order[l]) + 1)
            BY <3>b, <3>2, <2>a, <1>1a, <5>2
          <6> QED BY <3>a, <5>2, <6>1
        <5> QED BY <5>1, <5>2
      <4>2. k \in 0..Len(order[l]) /\ k # i - 1 /\ k # i
        BY <3>b, <3>2, <2>a, <1>1a
      <4> HIDE DEF k
      <4>3. /\ Node(l, k) # a /\ Node(l, k) # x
            /\ Node(l, k + 1) # b /\ Node(l, k + 1) # x
        <5>1. i - 1 \in 0..Len(order[l]) /\ i \in 0..Len(order[l])
              /\ i \in 1..(Len(order[l]) + 1) /\ i + 1 \in 1..(Len(order[l]) + 1)
          BY <1>1a
        <5>2. k + 1 \in 1..(Len(order[l]) + 1)
          BY <1>1a, <4>2
        <5>3. k + 1 # i /\ k + 1 # i + 1
          BY <1>1a, <4>2
        <5> QED BY <1>0, <1>2, <4>2, <5>1, <5>2, <5>3, NodesDistinct DEF a, b
      <4>4. Node(l, k) \in Hooks /\ Node(l, k + 1) \in Hooks
        BY <1>0, <4>2, NodesDistinct
      <4>5. next[Node(l, k)] = Node(l, k + 1) /\ prev[Node(l, k + 1)] = Node(l, k)
        BY <1>0, <4>2 DEF RingsLinked
      <4> QED BY <2>u, <2>2, <4>1, <4>3, <4>4, <4>5
    <3> QED BY <3>1, <3>2
  <2> QED BY <2>1, <2>2
<1> QED BY <1>6, <1>7, <1>8, <1>9 DEF RingInv

(* Two neighbours of a ring take an unlinked element between them.         *)
LEMMA InsertKeepsRings ==
  ASSUME RingInv, NEW l \in Lists, NEW i \in 0..Len(order[l]),
         NEW x \in Items, ~HookLinked(prev, x),
         prev' = [prev EXCEPT ![x] = Node(l, i), ![Node(l, i + 1)] = x],
         next' = [next EXCEPT ![x] = Node(l, i + 1), ![Node(l, i)] = x],
         order' \in [Lists -> Seq(Items)],
         \A m \in Lists \ {l} : order'[m] = order[m],
         Len(order'[l]) = Len(order[l]) + 1,
         \A j \in 1..Len(order[l]) :
             order'[l][IF j <= i THEN j ELSE j + 1] = order[l][j],
         order'[l][i + 1] = x
  PROVE  RingInv'
<1> DEFINE a == Node(l, i)
           b == Node(l, i + 1)
<1>0. /\ ListTypeOK /\ InOnePlace /\ RingsLinked /\ OthersUnlinked
  BY DEF RingInv
<1>1. \A m \in Lists : /\ order[m] \in Seq(Items) /\ Len(order[m]) \in Nat
                       /\ \A j \in 1..Len(order[m]) : order[m][j] \in Items
  BY <1>0 DEF ListTypeOK
<1>1a. Len(order[l]) \in Nat /\ i \in Nat /\ i <= Len(order[l])
  BY <1>1
<1>2. x \in Hooks /\ x # Null /\ prev[x] = Null
  BY IntrusiveListAssumption DEF Hooks, HookLinked
<1>3. a \in Hooks /\ b \in Hooks /\ a # Null /\ b # Null
  BY <1>0, <1>1a, NodesDistinct
<1>4. \A m \in Lists : \A j \in 0..Len(order[m]) : Node(m, j) # x /\ Node(m, j + 1) # x
  <2> SUFFICES ASSUME NEW m \in Lists, NEW j \in 0..Len(order[m])
               PROVE  Node(m, j) # x /\ Node(m, j + 1) # x
    OBVIOUS
  <2>1. \A k \in 0..Len(order[m]) : Node(m, k + 1) # x
    <3> SUFFICES ASSUME NEW k \in 0..Len(order[m]) PROVE Node(m, k + 1) # x
      OBVIOUS
    <3>1. prev[Node(m, k + 1)] = Node(m, k) /\ Node(m, k) # Null
      BY <1>0, NodesDistinct DEF RingsLinked
    <3> QED BY <1>2, <3>1
  <2>2. CASE j = 0
    BY <2>1, <2>2, <1>1, IntrusiveListAssumption DEF Node
  <2>3. CASE j # 0
    <3>1. j - 1 \in 0..Len(order[m]) /\ (j - 1) + 1 = j
      BY <2>3, <1>1
    <3> QED BY <2>1, <3>1
  <2> QED BY <2>2, <2>3
<1>5. a # x /\ b # x
  BY <1>4, <1>1a
<1> HIDE DEF a, b
<1>6. /\ prev' = [prev EXCEPT ![x] = a, ![b] = x]
      /\ next' = [next EXCEPT ![x] = b, ![a] = x]
  BY DEF a, b
<1>7. /\ prev'[x] = a /\ next'[x] = b /\ next'[a] = x /\ prev'[b] = x
      /\ \A h \in Hooks : /\ h # a /\ h # x => next'[h] = next[h]
                          /\ h # b /\ h # x => prev'[h] = prev[h]
  BY <1>0, <1>2, <1>3, <1>5, <1>6 DEF ListTypeOK
<1>8. ListTypeOK'
  <2>1. prev' \in [Hooks -> Hooks \cup {Null}]
    BY <1>0, <1>2, <1>3, <1>6 DEF ListTypeOK
  <2>2. next' \in [Hooks -> Hooks \cup {Null}]
    BY <1>0, <1>2, <1>3, <1>6 DEF ListTypeOK
  <2> QED BY <2>1, <2>2 DEF ListTypeOK
<1>9. \A m \in Lists : \A j \in 1..Len(order[m]) : order[m][j] # x
  <2> SUFFICES ASSUME NEW m \in Lists, NEW j \in 1..Len(order[m])
               PROVE  order[m][j] # x
    OBVIOUS
  <2>1. j \in 0..Len(order[m]) /\ Node(m, j) = order[m][j]
    BY <1>1 DEF Node
  <2> QED BY <1>4, <2>1
<1>10. \A j \in 1..(Len(order[l]) + 1) :
          /\ j <= i => order'[l][j] = order[l][j]
          /\ j > i + 1 => j - 1 \in 1..Len(order[l]) /\ order'[l][j] = order[l][j - 1]
  <2> SUFFICES ASSUME NEW j \in 1..(Len(order[l]) + 1)
               PROVE  /\ j <= i => order'[l][j] = order[l][j]
                      /\ j > i + 1 => /\ j - 1 \in 1..Len(order[l])
                                      /\ order'[l][j] = order[l][j - 1]
    OBVIOUS
  <2>1. CASE j <= i
    BY <2>1, <1>1a
  <2>2. CASE j > i + 1
    <3>1. j - 1 \in 1..Len(order[l]) /\ ~(j - 1 <= i) /\ (j - 1) + 1 = j
      BY <2>2, <1>1a
    <3>2. order'[l][IF j - 1 <= i THEN j - 1 ELSE (j - 1) + 1] = order[l][j - 1]
      BY <3>1
    <3>3. ~(j <= i)
      BY <2>2, <1>1a
    <3> QED BY <3>1, <3>2, <3>3
  <2>3. CASE j = i + 1
    BY <2>3, <1>1a
  <2> QED BY <2>1, <2>2, <2>3, <1>1a
<1>11. InOnePlace'
  <2> DEFINE Old(m, j) == IF m = l /\ j > i THEN j - 1 ELSE j
  <2>1. ASSUME NEW m \in Lists, NEW j \in 1..Len(order'[m]), m # l \/ j # i + 1
        PROVE  /\ Old(m, j) \in 1..Len(order[m])
               /\ order'[m][j] = order[m][Old(m, j)] /\ order'[m][j] # x
    <3>1. CASE m # l
      BY <2>1, <3>1, <1>9
    <3>2. CASE m = l /\ j <= i
      <4>1. j \in 1..Len(order[l]) /\ j \in 1..(Len(order[l]) + 1) /\ ~(j > i)
        BY <3>2, <1>1a
      <4> QED BY <3>2, <4>1, <1>9, <1>10
    <3>3. CASE m = l /\ j > i + 1
      <4>1. j \in 1..(Len(order[l]) + 1) /\ j > i
        BY <3>3, <1>1a
      <4> QED BY <3>3, <4>1, <1>9, <1>10
    <3> QED BY <2>1, <3>1, <3>2, <3>3, <1>1a
  <2> SUFFICES ASSUME NEW m \in Lists, NEW n \in Lists,
                      NEW j \in 1..Len(order'[m]), NEW k \in 1..Len(order'[n]),
                      order'[m][j] = order'[n][k]
               PROVE  m = n /\ j = k
    BY DEF InOnePlace
  <2>2. (m = l /\ j = i + 1) <=> (n = l /\ k = i + 1)
    BY <2>1
  <2>3. CASE m = l /\ j = i + 1
    BY <2>2, <2>3
  <2>4. CASE ~(m = l /\ j = i + 1)
    <3>1. m = n /\ Old(m, j) = Old(n, k)
      <4> HIDE DEF Old
      <4>1. \A u \in 1..Len(order[m]), v \in 1..Len(order[n]) :
               order[m][u] = order[n][v] => m = n /\ u = v
        BY <1>0 DEF InOnePlace
      <4>2. /\ Old(m, j) \in 1..Len(order[m]) /\ order'[m][j] = order[m][Old(m, j)]
            /\ Old(n, k) \in 1..Len(order[n]) /\ order'[n][k] = order[n][Old(n, k)]
        BY <2>1, <2>2, <2>4
      <4> QED BY <4>1, <4>2, ZenonT(40)
    <3> QED BY <3>1, <2>2, <2>4, <1>1, <1>1a
  <2> QED BY <2>3, <2>4
<1>12. OthersUnlinked'
  <2> SUFFICES ASSUME NEW y \in Items,
                      \A m \in Lists : \A j \in 1..Len(order'[m]) : order'[m][j] # y
               PROVE  prev'[y] = Null /\ next'[y] = Null
    BY DEF OthersUnlinked
  <2>1. y # x
    <3>1. i + 1 \in 1..Len(order'[l])
      BY <1>1a
    <3> QED BY <3>1
  <2>2. ASSUME NEW m \in Lists, NEW j \in 1..Len(order[m]) PROVE order[m][j] # y
    <3>1. CASE m # l
      BY <3>1
    <3>2. CASE m = l
      <4> DEFINE k == IF j <= i THEN j ELSE j + 1
      <4>1. k \in 1..Len(order'[l]) /\ order'[l][k] = order[l][j]
        BY <3>2, <1>1a
      <4> QED BY <3>2, <4>1
    <3> QED BY <3>1, <3>2
  <2>3. prev[y] = Null /\ next[y] = Null
    BY <1>0, <2>2 DEF OthersUnlinked
  <2>4. next[a] # Null /\ prev[b] # Null
    BY <1>0, <1>1a, <1>3 DEF RingsLinked, a, b
  <2> QED BY <1>7, <2>1, <2>3, <2>4 DEF Hooks
<1>13. RingsLinked'
  <2> SUFFICES ASSUME NEW m \in Lists, NEW j \in 0..Len(order'[m])
               PROVE  /\ next'[Node(m, j)'] = Node(m, j + 1)'
                      /\ prev'[Node(m, j + 1)'] = Node(m, j)'
    BY DEF RingsLinked
  <2>a. j \in Nat /\ j <= Len(order'[m]) /\ Len(order'[m]) \in Nat
        /\ (m # l => Len(order'[m]) = Len(order[m]))
    BY <1>1, <1>1a
  <2>b. ASSUME NEW k \in 0..Len(order[m]), m # l \/ k # i
        PROVE  /\ next'[Node(m, k)] = Node(m, k + 1)
               /\ prev'[Node(m, k + 1)] = Node(m, k)
    <3>1. /\ i \in 0..Len(order[l]) /\ i + 1 \in 1..(Len(order[l]) + 1)
          /\ k + 1 \in 1..(Len(order[m]) + 1)
          /\ m # l \/ k + 1 # i + 1
      BY <1>1, <1>1a, <2>b, SMTT(30)
    <3>2. Node(m, k) # a /\ Node(m, k + 1) # b
      BY <1>0, <2>b, <3>1, NodesDistinct DEF a, b
    <3>3. Node(m, k) # x /\ Node(m, k + 1) # x
      BY <1>4
    <3>4. Node(m, k) \in Hooks /\ Node(m, k + 1) \in Hooks
      BY <1>0, <1>1, NodesDistinct
    <3>5. next[Node(m, k)] = Node(m, k + 1) /\ prev[Node(m, k + 1)] = Node(m, k)
      BY <1>0 DEF RingsLinked
    <3> QED BY <1>7, <3>2, <3>3, <3>4, <3>5
  <2>1. CASE m # l
    <3>1. Node(m, j)' = Node(m, j) /\ Node(m, j + 1)' = Node(m, j + 1)
      BY <2>1 DEF Node
    <3> QED BY <2>a, <2>b, <2>1, <3>1
  <2>2. CASE m = l
    <3>a. /\ \A k \in 0..i : Node(l, k)' = Node(l, k)
          /\ Node(l, i + 1)' = x
          /\ \A k \in (i + 2)..(Len(order[l]) + 2) : Node(l, k)' = Node(l, k - 1)
      <4>1. ASSUME NEW k \in 0..i PROVE Node(l, k)' = Node(l, k)
        <5>1. CASE k = 0
          BY <5>1 DEF Node
        <5>2. CASE k # 0
          <6>1. k \in 1..Len(order[l]) /\ k \in 1..Len(order'[l])
                /\ k \in 1..(Len(order[l]) + 1) /\ k <= i
            BY <1>1a, <5>2
          <6> QED BY <1>10, <6>1 DEF Node
        <5> QED BY <5>1, <5>2
      <4>2. Node(l, i + 1)' = x
        <5>1. i + 1 \in 1..Len(order'[l])
          BY <1>1a
        <5> QED BY <5>1 DEF Node
      <4>3. ASSUME NEW k \in (i + 2)..(Len(order[l]) + 2)
            PROVE  Node(l, k)' = Node(l, k - 1)
        <5>1. CASE k = Len(order[l]) + 2
          <6>1. k \notin 1..Len(order'[l]) /\ k - 1 \notin 1..Len(order[l])
            BY <1>1a, <5>1
          <6> QED BY <6>1 DEF Node
        <5>2. CASE k # Len(order[l]) + 2
          <6>1. k \in 1..Len(order'[l]) /\ k \in 1..(Len(order[l]) + 1) /\ k > i + 1
            BY <1>1a, <5>2
          <6>2. k - 1 \in 1..Len(order[l]) /\ order'[l][k] = order[l][k - 1]
            BY <1>10, <6>1
          <6> QED BY <6>1, <6>2 DEF Node
        <5> QED BY <5>1, <5>2
      <4> QED BY <4>1, <4>2, <4>3
    <3>b. j <= Len(order[l]) + 1
      BY <2>a, <2>2
    <3>1. CASE j < i
      <4>1. j \in 0..i /\ j + 1 \in 0..i /\ j \in 0..Len(order[l])
        BY <3>1, <1>1a, <2>a
      <4>2. Node(l, j)' = Node(l, j) /\ Node(l, j + 1)' = Node(l, j + 1)
        BY <3>a, <4>1
      <4>3. j \in 0..Len(order[m]) /\ j # i
        BY <2>2, <3>1, <4>1, <1>1a
      <4> QED BY <2>b, <2>2, <4>2, <4>3
    <3>2. CASE j = i
      BY <2>2, <3>2, <3>a, <1>7, <1>1a DEF a
    <3>3. CASE j = i + 1
      <4>1. i + 2 \in (i + 2)..(Len(order[l]) + 2) /\ j + 1 = i + 2 /\ (i + 2) - 1 = i + 1
        BY <3>3, <1>1a
      <4>2. Node(l, j)' = x /\ Node(l, j + 1)' = b
        BY <3>3, <3>a, <4>1 DEF b
      <4> QED BY <2>2, <4>2, <1>7
    <3>4. CASE j > i + 1
      <4>1. /\ j \in (i + 2)..(Len(order[l]) + 2)
            /\ j + 1 \in (i + 2)..(Len(order[l]) + 2)
        BY <3>4, <3>b, <1>1a, <2>a
      <4>2. j - 1 \in 0..Len(order[m]) /\ j - 1 # i
        BY <2>2, <3>4, <3>b, <1>1a, <2>a
      <4>3. (j + 1) - 1 = (j - 1) + 1
        BY <2>a
      <4>4. Node(l, j)' = Node(l, j - 1) /\ Node(l, j + 1)' = Node(l, (j + 1) - 1)
        BY <3>a, <4>1
      <4> QED BY <2>b, <2>2, <4>2, <4>3, <4>4
    <3> QED BY <3>1, <3>2, <3>3, <3>4, <1>1a, <2>a
  <2> QED BY <2>1, <2>2
<1> QED BY <1>8, <1>11, <1>12, <1>13 DEF RingInv

(* The sentinel of an empty list takes the place of the donor's.           *)
LEMMA MoveKeepsRings ==
  ASSUME RingInv, NEW l \in Lists, NEW o \in Lists, l # o, order[l] = <<>>,
         SetPointers(MoveList(Pointers, l, o)),
         order' \in [Lists -> Seq(Items)],
         order'[l] = order[o] /\ order'[o] = <<>>,
         \A m \in Lists \ {l, o} : order'[m] = order[m]
  PROVE  RingInv'
<1> DEFINE f == next[o]
           t == prev[o]
<1>0. /\ ListTypeOK /\ InOnePlace /\ RingsLinked /\ OthersUnlinked
  BY DEF RingInv
<1>1. \A m \in Lists : /\ order[m] \in Seq(Items) /\ Len(order[m]) \in Nat
                       /\ \A j \in 1..Len(order[m]) : order[m][j] \in Items
  BY <1>0 DEF ListTypeOK
<1>2. /\ \A m \in Lists : m \notin Items /\ m \in Hooks
      /\ \A x \in Items : x \notin Lists /\ x \in Hooks /\ x # Null
  BY IntrusiveListAssumption DEF Hooks
<1> SUFFICES ASSUME NEW k \in Nat, k = Len(order[o]) PROVE RingInv'
  BY <1>1
<1>3. k \in Nat /\ Len(order[l]) = 0
  BY <1>1
<1>4. /\ order' \in [Lists -> Seq(Items)]
      /\ order'[l] = order[o] /\ order'[o] = <<>>
      /\ \A m \in Lists \ {l, o} : order'[m] = order[m]
  OBVIOUS
<1>5. f = Node(o, 1) /\ t = Node(o, k) /\ next[l] = l /\ prev[l] = l
  <2>1. /\ 0 \in 0..Len(order[o]) /\ k \in 0..Len(order[o]) /\ 0 \in 0..Len(order[l])
        /\ 0 + 1 = 1
    BY <1>3
  <2>2. /\ Node(o, 0) = o /\ Node(o, k + 1) = o
        /\ Node(l, 0) = l /\ Node(l, 1) = l
    BY <1>3 DEF Node
  <2>3. /\ next[Node(o, 0)] = Node(o, 0 + 1) /\ prev[Node(o, k + 1)] = Node(o, k)
        /\ next[Node(l, 0)] = Node(l, 0 + 1) /\ prev[Node(l, 0 + 1)] = Node(l, 0)
    BY <1>0, <2>1 DEF RingsLinked
  <2> QED BY <2>1, <2>2, <2>3
<1>6. CASE k = 0
  <2>1. f = o
    BY <1>5, <1>6 DEF Node
  <2>2. prev' = prev /\ next' = next
    BY <1>0, <1>2, <1>5, <2>1 DEF SetPointers, MoveList, Pointers, ListEmpty, ListTypeOK
  <2>3. order[o] = <<>>
    BY <1>1, <1>6, EmptySeq
  <2>4. \A m \in Lists : order'[m] = order[m]
    BY <1>4, <2>3
  <2> QED BY <1>4, <2>2, <2>4, SamePlacesKeepRings
<1>7. CASE k # 0
  <2>1. 1 \in 1..Len(order[o]) /\ k \in 1..Len(order[o])
    BY <1>3, <1>7
  <2>2. f = order[o][1] /\ t = order[o][k] /\ f \in Items /\ t \in Items
    BY <1>1, <1>5, <2>1 DEF Node
  <2>3. /\ prev' = [prev EXCEPT ![f] = l, ![l] = t, ![o] = o]
        /\ next' = [next EXCEPT ![t] = l, ![l] = f, ![o] = o]
    BY <1>2, <2>2 DEF SetPointers, MoveList, Pointers, ListEmpty
  <2>5. ListTypeOK'
    BY <1>0, <1>2, <1>4, <2>2, <2>3 DEF ListTypeOK
  <2>6. /\ prev'[f] = l /\ prev'[l] = t /\ prev'[o] = o
        /\ next'[t] = l /\ next'[l] = f /\ next'[o] = o
        /\ \A h \in Hooks \ {l, o} : /\ h # f => prev'[h] = prev[h]
                                     /\ h # t => next'[h] = next[h]
    BY <1>0, <1>2, <2>2, <2>3 DEF ListTypeOK
  <2> HIDE DEF f, t
  <2>7. InOnePlace'
    <3> DEFINE Old(m) == IF m = l THEN o ELSE m
    <3>1. ASSUME NEW m \in Lists, NEW j \in 1..Len(order'[m])
          PROVE  /\ m # o /\ Old(m) \in Lists /\ j \in 1..Len(order[Old(m)])
                 /\ order'[m][j] = order[Old(m)][j]
      BY <1>4
    <3> SUFFICES ASSUME NEW m \in Lists, NEW n \in Lists,
                        NEW i \in 1..Len(order'[m]), NEW j \in 1..Len(order'[n]),
                        order'[m][i] = order'[n][j]
                 PROVE  m = n /\ i = j
      BY DEF InOnePlace
    <3>2. Old(m) = Old(n) /\ i = j
      <4> HIDE DEF Old
      <4>1. Old(m) \in Lists /\ Old(n) \in Lists
            /\ order[Old(m)][i] = order[Old(n)][j]
            /\ i \in 1..Len(order[Old(m)]) /\ j \in 1..Len(order[Old(n)])
        BY <3>1
      <4> QED BY <1>0, <4>1 DEF InOnePlace
    <3> QED BY <3>1, <3>2
  <2>8. OthersUnlinked'
    <3> SUFFICES ASSUME NEW y \in Items,
                        \A m \in Lists : \A j \in 1..Len(order'[m]) : order'[m][j] # y
                 PROVE  prev'[y] = Null /\ next'[y] = Null
      BY DEF OthersUnlinked
    <3>1. ASSUME NEW m \in Lists, NEW j \in 1..Len(order[m]) PROVE order[m][j] # y
      BY <1>3, <1>4
    <3>2. prev[y] = Null /\ next[y] = Null
      BY <1>0, <3>1 DEF OthersUnlinked
    <3>3. y # f /\ y # t
      BY <2>1, <2>2, <3>1
    <3> QED BY <1>2, <2>6, <3>2, <3>3
  <2>9. RingsLinked'
    <3> SUFFICES ASSUME NEW m \in Lists, NEW j \in 0..Len(order'[m])
                 PROVE  /\ next'[Node(m, j)'] = Node(m, j + 1)'
                        /\ prev'[Node(m, j + 1)'] = Node(m, j)'
      BY DEF RingsLinked
    <3>1. CASE m # l /\ m # o
      <4>1. Node(m, j)' = Node(m, j) /\ Node(m, j + 1)' = Node(m, j + 1)
        BY <1>4, <3>1 DEF Node
      <4>2. /\ j \in 0..Len(order[m]) /\ j + 1 \in 1..(Len(order[m]) + 1)
            /\ 0 \in 0..Len(order[o]) /\ k \in 0..Len(order[o])
            /\ 0 \in 0..Len(order[l]) /\ 1 \in 1..(Len(order[o]) + 1)
            /\ k + 1 \in 1..(Len(order[o]) + 1) /\ 1 \in 1..(Len(order[l]) + 1)
        BY <1>1, <1>3, <1>4, <3>1
      <4>3. /\ Node(o, 0) = o /\ Node(o, k + 1) = o
            /\ Node(l, 0) = l /\ Node(l, 1) = l
        BY <1>3 DEF Node
      <4>4. /\ Node(m, j) # t /\ Node(m, j) # l /\ Node(m, j) # o
            /\ Node(m, j + 1) # f /\ Node(m, j + 1) # l /\ Node(m, j + 1) # o
        BY <1>0, <1>5, <3>1, <4>2, <4>3, NodesDistinct
      <4>5. next[Node(m, j)] = Node(m, j + 1) /\ prev[Node(m, j + 1)] = Node(m, j)
        BY <1>0, <4>2 DEF RingsLinked
      <4>6. Node(m, j) \in Hooks /\ Node(m, j + 1) \in Hooks
        BY <1>0, <4>2, NodesDistinct
      <4> QED BY <2>6, <4>1, <4>4, <4>5, <4>6
    <3>2. CASE m = o
      <4>1. Node(o, j)' = o /\ Node(o, j + 1)' = o
        BY <1>4 DEF Node
      <4> QED BY <2>6, <3>2, <4>1
    <3>3. CASE m = l
      <4>1. j \in 0..k /\ Len(order'[l]) = k
        BY <1>4, <3>3
      <4>2. /\ \A i \in 1..k : Node(l, i)' = order[o][i] /\ Node(o, i) = order[o][i]
            /\ Node(l, 0)' = l /\ Node(l, k + 1)' = l
        BY <1>3, <1>4, <4>1 DEF Node
      <4>3. ASSUME NEW i \in 1..k, NEW n \in 1..k, order[o][i] = order[o][n]
            PROVE  i = n
        <5>1. \A u, v \in 1..Len(order[o]) : order[o][u] = order[o][v] => u = v
          BY <1>0 DEF InOnePlace
        <5> QED BY <4>3, <5>1
      <4>4. next'[Node(l, j)'] = Node(l, j + 1)'
        <5>1. CASE j = 0
          BY <1>3, <2>1, <2>2, <2>6, <4>2, <5>1
        <5>2. CASE j = k
          BY <2>1, <2>2, <2>6, <4>2, <5>2
        <5>3. CASE j # 0 /\ j # k
          <6>1. j \in 1..k /\ j + 1 \in 1..k /\ k \in 1..k /\ j \in 0..Len(order[o])
            BY <1>3, <4>1, <5>3
          <6>2. order[o][j] # t
            BY <2>2, <4>3, <5>3, <6>1
          <6>3. order[o][j] \in Items
            BY <1>1, <6>1
          <6>4. next[order[o][j]] = order[o][j + 1]
            BY <1>0, <4>2, <6>1 DEF RingsLinked
          <6> QED BY <1>2, <2>6, <4>2, <6>1, <6>2, <6>3, <6>4, SMTT(30)
        <5> QED BY <5>1, <5>2, <5>3
      <4>5. prev'[Node(l, j + 1)'] = Node(l, j)'
        <5>1. CASE j = 0
          BY <1>3, <2>1, <2>2, <2>6, <4>2, <5>1
        <5>2. CASE j = k
          BY <2>1, <2>2, <2>6, <4>2, <5>2
        <5>3. CASE j # 0 /\ j # k
          <6>1. /\ j \in 1..k /\ j + 1 \in 1..k /\ 1 \in 1..k /\ j \in 0..Len(order[o])
                /\ j + 1 # 1
            BY <1>3, <4>1, <5>3
          <6>2. order[o][j + 1] # f
            BY <2>2, <4>3, <6>1
          <6>3. order[o][j + 1] \in Items
            BY <1>1, <6>1
          <6>4. prev[order[o][j + 1]] = order[o][j]
            BY <1>0, <4>2, <6>1 DEF RingsLinked
          <6> QED BY <1>2, <2>6, <4>2, <6>1, <6>2, <6>3, <6>4
        <5> QED BY <5>1, <5>2, <5>3
      <4> QED BY <3>3, <4>4, <4>5
    <3> QED BY <3>1, <3>2, <3>3
  <2> QED BY <2>5, <2>7, <2>8, <2>9 DEF RingInv
<1> QED BY <1>6, <1>7

LEMMA ListInvInit == ListInit => ListInv
<1> SUFFICES ASSUME ListInit PROVE ListInv
  OBVIOUS
<1>1. \A l \in Lists : order[l] = <<>> /\ Len(order[l]) = 0
  BY DEF ListInit
<1>2. ListTypeOK /\ DonorIsOther
  BY DEF ListInit, ListTypeOK, DonorIsOther, Hooks
<1>3. InOnePlace
  BY <1>1 DEF InOnePlace
<1>4. RingsLinked
  BY <1>1 DEF RingsLinked, ListInit, Node, Hooks
<1>5. OthersUnlinked
  BY IntrusiveListAssumption DEF OthersUnlinked, ListInit, Hooks
<1> QED BY <1>2, <1>3, <1>4, <1>5 DEF ListInv, RingInv

(* Popping the front, also as a step of Clear.                             *)
LEMMA PopFrontKeepsRings ==
  ASSUME RingInv, NEW l \in Lists, PopFront(l)
  PROVE  RingInv'
<1>1. order \in [Lists -> Seq(Items)] /\ order[l] \in Seq(Items) /\ Len(order[l]) \in Nat
  BY DEF RingInv, ListTypeOK
<1>2. 0 \in 0..Len(order[l]) /\ Node(l, 0) = l /\ 0 + 1 = 1
  BY <1>1 DEF Node
<1>3. next[l] = Node(l, 1) /\ Node(l, 1) # l
  BY <1>2 DEF RingInv, RingsLinked, PopFront, ListEmpty
<1>4. 1 \in 1..Len(order[l]) /\ next[l] = order[l][1] /\ Len(order[l]) >= 1
  BY <1>1, <1>3 DEF Node
<1>5. order[l] # <<>>
  BY <1>4
<1>6. /\ Tail(order[l]) \in Seq(Items) /\ Len(Tail(order[l])) = Len(order[l]) - 1
      /\ \A j \in 1..(Len(order[l]) - 1) : Tail(order[l])[j] = order[l][j + 1]
  BY <1>1, <1>5, HeadTailProperties
<1>7. /\ order' = [order EXCEPT ![l] = Tail(order[l])]
      /\ SetPointers(Unlink(Pointers, order[l][1]))
  BY <1>4 DEF PopFront
<1>8. /\ order' \in [Lists -> Seq(Items)] /\ order'[l] = Tail(order[l])
      /\ \A m \in Lists \ {l} : order'[m] = order[m]
  BY <1>1, <1>6, <1>7
<1>9. \A j \in 1..(Len(order[l]) - 1) :
         order'[l][j] = order[l][IF j < 1 THEN j ELSE j + 1]
  BY <1>1, <1>6, <1>8
<1> QED BY <1>4, <1>6, <1>7, <1>8, <1>9, UnlinkKeepsRings

LEMMA PopBackKeepsRings ==
  ASSUME RingInv, NEW l \in Lists, ListPopBack(l)
  PROVE  RingInv'
<1>1. order \in [Lists -> Seq(Items)] /\ order[l] \in Seq(Items) /\ Len(order[l]) \in Nat
  BY DEF RingInv, ListTypeOK
<1> SUFFICES ASSUME NEW k \in Nat, k = Len(order[l]) PROVE RingInv'
  BY <1>1
<1>2. 0 \in 0..k /\ Node(l, 0) = l /\ 0 + 1 = 1 /\ k \in 0..k /\ Node(l, k + 1) = l
  BY <1>1 DEF Node
<1>3. next[l] = Node(l, 1) /\ Node(l, 1) # l /\ prev[l] = Node(l, k)
  BY <1>2 DEF RingInv, RingsLinked, ListPopBack, ListEmpty
<1>4. k >= 1
  BY <1>3 DEF Node
<1>5. k \in 1..Len(order[l]) /\ prev[l] = order[l][k]
  BY <1>3, <1>4 DEF Node
<1>6. /\ SubSeq(order[l], 1, k - 1) \in Seq(Items)
      /\ Len(SubSeq(order[l], 1, k - 1)) = k - 1
      /\ \A j \in 1..(k - 1) : SubSeq(order[l], 1, k - 1)[j] = order[l][j]
  BY <1>1, <1>4
<1>7. /\ order' = [order EXCEPT ![l] = SubSeq(order[l], 1, k - 1)]
      /\ SetPointers(Unlink(Pointers, order[l][k]))
  BY <1>5 DEF ListPopBack
<1>8. /\ order' \in [Lists -> Seq(Items)] /\ order'[l] = SubSeq(order[l], 1, k - 1)
      /\ \A m \in Lists \ {l} : order'[m] = order[m]
  BY <1>1, <1>6, <1>7
<1>9. \A j \in 1..(Len(order[l]) - 1) :
         order'[l][j] = order[l][IF j < k THEN j ELSE j + 1]
  BY <1>6, <1>8
<1> QED BY <1>5, <1>6, <1>7, <1>8, <1>9, UnlinkKeepsRings

LEMMA PushKeepsRings ==
  ASSUME RingInv, NEW l \in Lists, NEW x \in Items,
         ListPushBack(l, x) \/ ListPushFront(l, x)
  PROVE  RingInv'
<1>1. order \in [Lists -> Seq(Items)] /\ order[l] \in Seq(Items) /\ Len(order[l]) \in Nat
  BY DEF RingInv, ListTypeOK
<1> SUFFICES ASSUME NEW k \in Nat, k = Len(order[l]) PROVE RingInv'
  BY <1>1
<1>2. /\ 0 \in 0..k /\ Node(l, 0) = l /\ 0 + 1 = 1
      /\ k \in 0..k /\ Node(l, k + 1) = l
  BY <1>1 DEF Node
<1>3. next[l] = Node(l, 1) /\ prev[l] = Node(l, k)
  BY <1>2 DEF RingInv, RingsLinked
<1>4. CASE ListPushBack(l, x)
  <2>1. /\ prev' = [prev EXCEPT ![x] = Node(l, k), ![l] = x]
        /\ next' = [next EXCEPT ![x] = l, ![Node(l, k)] = x]
    BY <1>3, <1>4 DEF ListPushBack, SetPointers, InsertBefore, Pointers
  <2>2. /\ Append(order[l], x) \in Seq(Items) /\ Len(Append(order[l], x)) = k + 1
        /\ \A j \in 1..k : Append(order[l], x)[j] = order[l][j]
        /\ Append(order[l], x)[k + 1] = x
    BY <1>1
  <2>3. /\ order' \in [Lists -> Seq(Items)] /\ order'[l] = Append(order[l], x)
        /\ \A m \in Lists \ {l} : order'[m] = order[m]
    BY <1>1, <1>4, <2>2 DEF ListPushBack
  <2>4. \A j \in 1..Len(order[l]) :
           order'[l][IF j <= k THEN j ELSE j + 1] = order[l][j]
    BY <2>2, <2>3
  <2>5. order'[l][k + 1] = x /\ Len(order'[l]) = Len(order[l]) + 1
    BY <2>2, <2>3
  <2>6. ~HookLinked(prev, x)
    BY <1>4 DEF ListPushBack
  <2> QED BY <1>2, <2>1, <2>3, <2>4, <2>5, <2>6, InsertKeepsRings
<1>5. CASE ListPushFront(l, x)
  <2>1. /\ prev' = [prev EXCEPT ![x] = l, ![Node(l, 1)] = x]
        /\ next' = [next EXCEPT ![x] = Node(l, 1), ![l] = x]
    BY <1>3, <1>5 DEF ListPushFront, SetPointers, InsertAfter, Pointers
  <2>2. /\ <<x>> \o order[l] \in Seq(Items) /\ Len(<<x>> \o order[l]) = k + 1
        /\ \A j \in 1..k : (<<x>> \o order[l])[j + 1] = order[l][j]
        /\ (<<x>> \o order[l])[1] = x
    BY <1>1
  <2>3. /\ order' \in [Lists -> Seq(Items)] /\ order'[l] = <<x>> \o order[l]
        /\ \A m \in Lists \ {l} : order'[m] = order[m]
    BY <1>1, <1>5, <2>2 DEF ListPushFront
  <2>4. \A j \in 1..Len(order[l]) :
           order'[l][IF j <= 0 THEN j ELSE j + 1] = order[l][j]
    BY <2>2, <2>3
  <2>5. order'[l][0 + 1] = x /\ Len(order'[l]) = Len(order[l]) + 1
    BY <2>2, <2>3
  <2>6. ~HookLinked(prev, x)
    BY <1>5 DEF ListPushFront
  <2>7. /\ prev' = [prev EXCEPT ![x] = Node(l, 0), ![Node(l, 0 + 1)] = x]
        /\ next' = [next EXCEPT ![x] = Node(l, 0 + 1), ![Node(l, 0)] = x]
        /\ 0 \in 0..Len(order[l])
    BY <1>2, <2>1
  <2> QED BY <2>3, <2>4, <2>5, <2>6, <2>7, InsertKeepsRings
<1> QED BY <1>4, <1>5

(* RemoveFirst of an element that occurs once.                             *)
LEMMA RemoveFirstOnce ==
  ASSUME NEW q \in Seq(Items), NEW x
  PROVE  /\ (\A j \in 1..Len(q) : q[j] # x) => RemoveFirst(q, x) = q
         /\ \A i \in 1..Len(q) :
               (q[i] = x /\ \A j \in 1..Len(q) : q[j] = x => j = i)
                 => /\ RemoveFirst(q, x) \in Seq(Items)
                    /\ Len(RemoveFirst(q, x)) = Len(q) - 1
                    /\ \A j \in 1..(Len(q) - 1) :
                          RemoveFirst(q, x)[j] = q[IF j < i THEN j ELSE j + 1]
<1>1. (\A j \in 1..Len(q) : q[j] # x) => RemoveFirst(q, x) = q
  BY DEF RemoveFirst
<1>2. ASSUME NEW i \in 1..Len(q), q[i] = x, \A j \in 1..Len(q) : q[j] = x => j = i
      PROVE  /\ RemoveFirst(q, x) \in Seq(Items)
             /\ Len(RemoveFirst(q, x)) = Len(q) - 1
             /\ \A j \in 1..(Len(q) - 1) :
                   RemoveFirst(q, x)[j] = q[IF j < i THEN j ELSE j + 1]
  <2>0. Len(q) \in Nat /\ i \in Nat /\ i >= 1 /\ i <= Len(q)
    OBVIOUS
  <2>1. {j \in 1..Len(q) : q[j] = x} = {i}
    BY <1>2
  <2>2. Min({i}) = i
    BY <2>0 DEF Min
  <2>3. RemoveFirst(q, x) = RemoveAt(q, i)
    <3>1. SelectInSeq(q, LAMBDA v : v = x) = i
      BY <2>1, <2>2 DEF SelectInSeq
    <3> QED BY <1>2, <3>1 DEF RemoveFirst
  <2> DEFINE u == SubSeq(q, 1, i - 1)
             v == SubSeq(q, i + 1, Len(q))
  <2>4. u \in Seq(Items) /\ Len(u) = i - 1 /\ \A j \in 1..(i - 1) : u[j] = q[j]
    BY <2>0
  <2>5. /\ v \in Seq(Items) /\ Len(v) = Len(q) - i
        /\ \A j \in 1..(Len(q) - i) : v[j] = q[i + j]
    BY <2>0
  <2>6. RemoveFirst(q, x) = u \o v
    BY <2>3 DEF RemoveAt
  <2> HIDE DEF u, v
  <2>7. /\ u \o v \in Seq(Items) /\ Len(u \o v) = Len(q) - 1
        /\ \A j \in 1..(Len(q) - 1) : (u \o v)[j] = IF j < i THEN u[j] ELSE v[j - (i - 1)]
    <3>1. u \o v \in Seq(Items) /\ Len(u \o v) = Len(u) + Len(v)
      BY <2>4, <2>5, ConcatProperties
    <3>2. \A j \in 1..(Len(u) + Len(v)) :
             (u \o v)[j] = IF j <= Len(u) THEN u[j] ELSE v[j - Len(u)]
      BY <2>4, <2>5, ConcatProperties
    <3> QED BY <2>0, <2>4, <2>5, <3>1, <3>2
  <2>8. ASSUME NEW j \in 1..(Len(q) - 1)
        PROVE  (u \o v)[j] = q[IF j < i THEN j ELSE j + 1]
    <3>1. CASE j < i
      BY <2>0, <2>4, <2>7, <3>1
    <3>2. CASE ~(j < i)
      <4>1. j - (i - 1) \in 1..(Len(q) - i) /\ i + (j - (i - 1)) = j + 1
        BY <2>0, <3>2
      <4> QED BY <2>5, <2>7, <3>2, <4>1
    <3> QED BY <3>1, <3>2
  <2> QED BY <2>6, <2>7, <2>8
<1> QED BY <1>1, <1>2

(* Erase of an element wherever it is, and of one that is in no list.      *)
LEMMA EraseKeepsRings ==
  ASSUME RingInv, NEW x \in Items, ListErase(x)
  PROVE  RingInv'
<1>1. \A m \in Lists : order[m] \in Seq(Items) /\ order'[m] = RemoveFirst(order[m], x)
  BY DEF RingInv, ListTypeOK, ListErase
<1>2. order' \in [Lists -> Seq(Items)] <=> \A m \in Lists : order'[m] \in Seq(Items)
  BY DEF ListErase
<1>3. ASSUME NEW m \in Lists, \A j \in 1..Len(order[m]) : order[m][j] # x
      PROVE  order'[m] = order[m]
  BY <1>1, <1>3, RemoveFirstOnce
<1> HIDE DEF ListErase
<1>4. CASE HookLinked(prev, x)
  <2>1. PICK l \in Lists : \E i \in 1..Len(order[l]) : order[l][i] = x
    BY <1>4, LinkedIsPlaced
  <2>2. PICK i \in 1..Len(order[l]) : order[l][i] = x
    BY <2>1
  <2>3. \A m \in Lists : \A j \in 1..Len(order[m]) : order[m][j] = x => m = l /\ j = i
    BY <2>2 DEF RingInv, InOnePlace
  <2>4. \A m \in Lists \ {l} : order'[m] = order[m]
    BY <1>3, <2>3
  <2>5. /\ order'[l] \in Seq(Items) /\ Len(order'[l]) = Len(order[l]) - 1
        /\ \A j \in 1..(Len(order[l]) - 1) :
              order'[l][j] = order[l][IF j < i THEN j ELSE j + 1]
    <3>1. \A j \in 1..Len(order[l]) : order[l][j] = x => j = i
      BY <2>3
    <3>2. /\ RemoveFirst(order[l], x) \in Seq(Items)
          /\ Len(RemoveFirst(order[l], x)) = Len(order[l]) - 1
          /\ \A j \in 1..(Len(order[l]) - 1) :
                RemoveFirst(order[l], x)[j] = order[l][IF j < i THEN j ELSE j + 1]
      BY <1>1, <2>2, <3>1, RemoveFirstOnce
    <3> QED BY <1>1, <3>2
  <2>6. order' \in [Lists -> Seq(Items)]
    BY <1>1, <1>2, <2>4, <2>5
  <2>7. SetPointers(Unlink(Pointers, order[l][i]))
    BY <2>2 DEF ListErase
  <2> QED BY <2>4, <2>5, <2>6, <2>7, UnlinkKeepsRings
<1>5. CASE ~HookLinked(prev, x)
  <2>1. ASSUME NEW m \in Lists, NEW j \in 1..Len(order[m]) PROVE order[m][j] # x
    <3>1. j - 1 \in 0..Len(order[m]) /\ (j - 1) + 1 = j /\ Node(m, j) = order[m][j]
      BY <1>1 DEF Node
    <3>2. prev[Node(m, j)] = Node(m, j - 1)
      BY <3>1 DEF RingInv, RingsLinked
    <3>3. Node(m, j - 1) # Null
      BY <3>1, NodesDistinct DEF RingInv
    <3> QED BY <1>5, <3>1, <3>2, <3>3 DEF HookLinked
  <2>2. \A m \in Lists : order'[m] = order[m]
    BY <1>3, <2>1
  <2>3. prev' = prev /\ next' = next
    BY <1>5 DEF ListErase, SetPointers, Unlink, Pointers
  <2>4. order' \in [Lists -> Seq(Items)]
    BY <1>1, <1>2, <2>2
  <2> QED BY <2>2, <2>3, <2>4, SamePlacesKeepRings
<1> QED BY <1>4, <1>5

LEMMA ListInvStep == ListInv /\ [ListNext]_listVars => ListInv'
<1> SUFFICES ASSUME ListInv, [ListNext]_listVars PROVE ListInv'
  OBVIOUS
<1>0. RingInv /\ DonorIsOther
  BY DEF ListInv
<1>1. CASE UNCHANGED listVars
  <2>1. DonorIsOther'
    BY <1>0, <1>1 DEF listVars, DonorIsOther
  <2>2. RingInv'
    BY <1>0, <1>1, SamePlacesKeepRings DEF listVars, RingInv, ListTypeOK
  <2> QED BY <2>1, <2>2 DEF ListInv
<1>2. ASSUME Alone PROVE DonorIsOther'
  BY <1>0, <1>2 DEF Alone, DonorIsOther
<1>3. ASSUME NEW l \in Lists, NEW x \in Items, ListPushBack(l, x) \/ ListPushFront(l, x)
      PROVE  ListInv'
  BY <1>0, <1>2, <1>3, PushKeepsRings DEF ListInv, ListPushBack, ListPushFront
<1>4. ASSUME NEW l \in Lists, ListPopFront(l) PROVE ListInv'
  BY <1>0, <1>2, <1>4, PopFrontKeepsRings DEF ListInv, ListPopFront
<1>5. ASSUME NEW l \in Lists, ListPopBack(l) PROVE ListInv'
  BY <1>0, <1>2, <1>5, PopBackKeepsRings DEF ListInv, ListPopBack
<1>6. ASSUME NEW x \in Items, ListErase(x) PROVE ListInv'
  BY <1>0, <1>2, <1>6, EraseKeepsRings DEF ListInv, ListErase
<1>7. ASSUME NEW l \in Lists, ListClear(l) PROVE ListInv'
  <2>1. DonorIsOther'
    BY <1>0, <1>7 DEF ListClear, DonorIsOther
  <2>2. RingInv'
    BY <1>0, <1>7, SamePlacesKeepRings DEF ListClear, RingInv, ListTypeOK
  <2> QED BY <2>1, <2>2 DEF ListInv
<1>8. ASSUME NEW l \in Lists, NEW o \in Lists, ListMove(l, o) PROVE ListInv'
  <2>1. DonorIsOther'
    BY <1>0, <1>8, IntrusiveListAssumption DEF ListMove, DonorIsOther
  <2>2. RingInv'
    BY <1>0, <1>8, SamePlacesKeepRings DEF ListMove, RingInv, ListTypeOK
  <2> QED BY <2>1, <2>2 DEF ListInv
<1>9. ASSUME NEW l \in Lists, ClearStep(l) PROVE ListInv'
  <2>1. DonorIsOther'
    BY <1>0, <1>9 DEF ClearStep, DonorIsOther
  <2> QED BY <1>0, <1>9, <2>1, PopFrontKeepsRings DEF ListInv, ClearStep
<1>10. ASSUME NEW l \in Lists, ClearEnd(l) PROVE ListInv'
  <2>1. DonorIsOther'
    BY <1>10 DEF ClearEnd, DonorIsOther
  <2>2. CASE donor = Null
    <3>1. RingInv'
      BY <1>0, <1>10, <2>2, SamePlacesKeepRings DEF ClearEnd, RingInv, ListTypeOK
    <3> QED BY <2>1, <3>1 DEF ListInv
  <2>3. CASE donor # Null
    <3> SUFFICES ASSUME NEW o \in Lists, o = donor PROVE ListInv'
      BY <1>0, <2>3 DEF DonorIsOther
    <3>1. l # o
      BY <1>0, <1>10, <2>3 DEF DonorIsOther, ClearEnd
    <3>2. order \in [Lists -> Seq(Items)] /\ order[l] \in Seq(Items)
          /\ Len(order[l]) \in Nat
      BY <1>0 DEF RingInv, ListTypeOK
    <3>3. order[l] = <<>>
      <4>1. 0 \in 0..Len(order[l]) /\ Node(l, 0) = l /\ 0 + 1 = 1
        BY <3>2 DEF Node
      <4>2. Node(l, 1) = l
        BY <1>0, <1>10, <4>1 DEF RingInv, RingsLinked, ClearEnd, ListEmpty
      <4>3. ASSUME Len(order[l]) # 0 PROVE FALSE
        <5>1. 1 \in 1..Len(order[l]) /\ order[l][1] \in Items
          BY <3>2, <4>3
        <5> QED BY <4>2, <5>1, IntrusiveListAssumption DEF Node
      <4> QED BY <3>2, <4>3, EmptySeq
    <3>4. /\ SetPointers(MoveList(Pointers, l, o))
          /\ order' = [order EXCEPT ![l] = order[o], ![o] = <<>>]
      BY <1>10, <2>3 DEF ClearEnd
    <3>5. /\ order' \in [Lists -> Seq(Items)]
          /\ order'[l] = order[o] /\ order'[o] = <<>>
          /\ \A m \in Lists \ {l, o} : order'[m] = order[m]
      <4>1. order[o] \in Seq(Items) /\ <<>> \in Seq(Items)
        BY <3>2
      <4>2. order' \in [Lists -> Seq(Items)]
        BY <3>2, <3>4, <4>1
      <4>3. order'[l] = order[o] /\ order'[o] = <<>>
        BY <3>1, <3>2, <3>4
      <4> QED BY <3>2, <3>4, <4>2, <4>3
    <3>6. RingInv'
      BY <1>0, <3>1, <3>3, <3>4, <3>5, MoveKeepsRings
    <3> QED BY <2>1, <3>6 DEF ListInv
  <2> QED BY <2>2, <2>3
<1> QED BY <1>1, <1>3, <1>4, <1>5, <1>6, <1>7, <1>8, <1>9, <1>10 DEF ListNext

LEMMA RingInvIsIntact == RingInv => RingsIntact
<1> SUFFICES ASSUME RingInv PROVE RingsIntact
  OBVIOUS
<1>1. \A l \in Lists : order[l] \in Seq(Items) /\ Len(order[l]) \in Nat
  BY DEF RingInv, ListTypeOK
<1>2. ASSUME NEW l \in Lists,
             NEW i \in 1..(Len(<<l>> \o order[l] \o <<l>>) - 1)
      PROVE  LET ring == <<l>> \o order[l] \o <<l>>
             IN  next[ring[i]] = ring[i + 1] /\ prev[ring[i + 1]] = ring[i]
  <2> DEFINE ring == <<l>> \o order[l] \o <<l>>
             n == Len(order[l])
             q == order[l]
  <2>1. q \in Seq(Items \cup {l}) /\ <<l>> \in Seq(Items \cup {l}) /\ n \in Nat
        /\ Len(<<l>>) = 1
    BY <1>1
  <2>2. /\ <<l>> \o q \in Seq(Items \cup {l}) /\ Len(<<l>> \o q) = n + 1
        /\ \A j \in 1..(n + 1) : (<<l>> \o q)[j] = IF j = 1 THEN l ELSE q[j - 1]
    BY <2>1
  <2>3. /\ Len(ring) = n + 2
        /\ \A j \in 1..(n + 2) : ring[j] = IF j <= n + 1 THEN (<<l>> \o q)[j] ELSE l
    BY <2>1, <2>2
  <2>4. \A j \in 1..(n + 2) : ring[j] = Node(l, j - 1)
    BY <2>1, <2>2, <2>3 DEF Node
  <2>5. i \in 1..(n + 1) /\ i - 1 \in 0..n /\ i \in 1..(n + 2) /\ i + 1 \in 1..(n + 2)
        /\ (i - 1) + 1 = i /\ (i + 1) - 1 = i
    BY <2>1, <2>3
  <2>6. ring[i] = Node(l, i - 1) /\ ring[i + 1] = Node(l, i)
    BY <2>4, <2>5
  <2>7. /\ next[Node(l, i - 1)] = Node(l, (i - 1) + 1)
        /\ prev[Node(l, (i - 1) + 1)] = Node(l, i - 1)
    BY <2>5 DEF RingInv, RingsLinked
  <2> QED BY <2>5, <2>6, <2>7
<1>3. ASSUME NEW x \in Items, \A l \in Lists : x \notin Range(order[l])
      PROVE  prev[x] = Null /\ next[x] = Null
  <2>1. \A l \in Lists : \A i \in 1..Len(order[l]) : order[l][i] # x
    BY <1>1, <1>3 DEF Range
  <2> QED BY <2>1 DEF RingInv, OthersUnlinked
<1> QED BY <1>2, <1>3 DEF RingsIntact

(* The rings of all lists stay intact in both directions, hold exactly the *)
(* elements their callers put there, in order, and every other hook is     *)
(* null, through pushes, pops, blind erasure, Clear and moves of whole     *)
(* lists: for any number of lists and elements.                            *)
THEOREM RingsStayIntact == ListSpec => []RingsIntact
<1>1. ListInv => RingsIntact
  BY RingInvIsIntact DEF ListInv
<1> QED BY <1>1, ListInvInit, ListInvStep, PTL DEF ListSpec

(***************************************************************************)
(* FlatMap                                                                 *)
(***************************************************************************)
(* A nonempty set of natural numbers has a least element.                  *)
LEMMA LeastNatural ==
  ASSUME NEW T, T \subseteq Nat, T # {}
  PROVE  \E n \in T : \A i \in T : n <= i
<1>1. \E n \in T : \A i \in T : ~(<<i, n>> \in OpToRel(<, Nat))
  BY NatLessThanWellFounded, WFMin
<1>2. PICK n \in T : \A i \in T : ~(<<i, n>> \in OpToRel(<, Nat))
  BY <1>1
<1>3. ASSUME NEW i \in T PROVE n <= i
  <2>1. ~(<<i, n>> \in {ss \in Nat \X Nat : ss[1] < ss[2]})
    BY <1>2 DEF OpToRel
  <2>2. i \in Nat /\ n \in Nat
    OBVIOUS
  <2> QED BY <2>1, <2>2
<1> QED BY <1>3

(* A set that holds every smaller position with a position is a prefix.    *)
LEMMA PrefixSet ==
  ASSUME NEW n \in Nat, NEW S, S \subseteq 1..n,
         \A i \in S : \A j \in 1..n : j < i => j \in S
  PROVE  Cardinality(S) \in 0..n /\ \A i \in 1..n : i \in S <=> i < 1 + Cardinality(S)
<1> DEFINE T == (1..(n + 1)) \ S
<1>1. T \subseteq Nat /\ n + 1 \in T
  OBVIOUS
<1>2. PICK m \in T : \A i \in T : m <= i
  BY <1>1, LeastNatural
<1>3. m \in 1..(n + 1) /\ m \notin S
  OBVIOUS
<1>4. ASSUME NEW i \in 1..n PROVE i \in S <=> i < m
  <2>1. ASSUME i \in S, ~(i < m) PROVE FALSE
    <3>1. m \in 1..n /\ m < i
      BY <1>3, <2>1
    <3> QED BY <1>3, <2>1, <3>1
  <2>2. ASSUME i < m, i \notin S PROVE FALSE
    <3>1. i \in T
      BY <2>2
    <3> QED BY <1>2, <1>3, <2>2, <3>1
  <2> QED BY <2>1, <2>2
<1>5. S = 1..(m - 1)
  <2>1. \A i \in S : i \in 1..(m - 1)
    BY <1>3, <1>4
  <2>2. \A i \in 1..(m - 1) : i \in S
    BY <1>3, <1>4
  <2> QED BY <2>1, <2>2
<1>6. Cardinality(S) = m - 1
  BY <1>3, <1>5, FS_Interval
<1> QED BY <1>3, <1>4, <1>6

Entries == [key : FlatKeys, val : FlatVals]

(* The vector c is ordered by key and represents the map m.                *)
Ordered(c) == \A i, j \in 1..Len(c) : i < j => c[i].key < c[j].key

Represents(c, m) ==
    /\ c \in Seq(Entries)
    /\ Ordered(c)
    /\ m = [k \in DOMAIN m |-> m[k]]
    /\ \A i \in 1..Len(c) : c[i].key \in DOMAIN m /\ m[c[i].key] = c[i].val
    /\ \A k \in DOMAIN m : \E i \in 1..Len(c) : c[i].key = k

FlatInv ==
    /\ flat = [f \in Flats |-> flat[f]] /\ meant = [f \in Flats |-> meant[f]]
    /\ \A f \in Flats : Represents(flat[f], meant[f])

(* What the entries of a vector are made of.                               *)
LEMMA EntriesOf ==
  ASSUME NEW c \in Seq(Entries)
  PROVE  /\ Len(c) \in Nat /\ DOMAIN c = 1..Len(c)
         /\ \A i \in 1..Len(c) : /\ c[i] \in Entries /\ c[i].key \in FlatKeys
                                  /\ c[i].key \in Nat /\ c[i].val \in FlatVals
                                  /\ c[i] = [key |-> c[i].key, val |-> c[i].val]
<1>1. Len(c) \in Nat /\ DOMAIN c = 1..Len(c) /\ \A i \in 1..Len(c) : c[i] \in Entries
  OBVIOUS
<1>2. \A e \in Entries : /\ e.key \in FlatKeys /\ e.val \in FlatVals
                         /\ e = [key |-> e.key, val |-> e.val]
  BY DEF Entries
<1> QED BY <1>1, <1>2, FlatMapAssumption

(* The binary searches on an ordered vector.                               *)
LEMMA Bounds ==
  ASSUME NEW c \in Seq(Entries), Ordered(c), NEW k \in Nat
  PROVE  /\ FindLowerBound(c, k) \in 1..(Len(c) + 1)
         /\ \A i \in 1..Len(c) : c[i].key < k <=> i < FindLowerBound(c, k)
         /\ upper_bound(c, k) \in 1..(Len(c) + 1)
         /\ \A i \in 1..Len(c) : c[i].key <= k <=> i < upper_bound(c, k)
<1> DEFINE L == {i \in DOMAIN c : c[i].key < k}
           U == {i \in DOMAIN c : ~(k < c[i].key)}
<1>1. /\ Len(c) \in Nat /\ DOMAIN c = 1..Len(c)
      /\ \A i \in 1..Len(c) : c[i].key \in Nat
  BY EntriesOf
<1>2. L \subseteq 1..Len(c) /\ U \subseteq 1..Len(c)
  BY <1>1
<1>3. \A i \in L : \A j \in 1..Len(c) : j < i => j \in L
  BY <1>1 DEF Ordered
<1>4. \A i \in U : \A j \in 1..Len(c) : j < i => j \in U
  BY <1>1 DEF Ordered
<1>5. /\ \A i \in 1..Len(c) : i \in L <=> c[i].key < k
      /\ \A i \in 1..Len(c) : i \in U <=> c[i].key <= k
  BY <1>1
<1>6. FindLowerBound(c, k) = 1 + Cardinality(L) /\ upper_bound(c, k) = 1 + Cardinality(U)
  BY DEF FindLowerBound, upper_bound
<1> HIDE DEF L, U
<1>7. /\ Cardinality(L) \in 0..Len(c)
      /\ \A i \in 1..Len(c) : i \in L <=> i < 1 + Cardinality(L)
  BY <1>1, <1>2, <1>3, PrefixSet
<1>8. /\ Cardinality(U) \in 0..Len(c)
      /\ \A i \in 1..Len(c) : i \in U <=> i < 1 + Cardinality(U)
  BY <1>1, <1>2, <1>4, PrefixSet
<1>9. FindLowerBound(c, k) \in 1..(Len(c) + 1) /\ upper_bound(c, k) \in 1..(Len(c) + 1)
  BY <1>1, <1>6, <1>7, <1>8
<1> QED BY <1>5, <1>6, <1>7, <1>8, <1>9

(* A key that is present is where the search ends, and nowhere else.       *)
LEMMA LookUp ==
  ASSUME NEW c, NEW m, Represents(c, m), NEW k \in FlatKeys
  PROVE  LET n == FindLowerBound(c, k)
         IN  /\ Hit(c, n, k) <=> k \in DOMAIN m
             /\ n \in 1..(Len(c) + 1)
             /\ Hit(c, n, k) => n \in 1..Len(c) /\ c[n].key = k /\ c[n].val = m[k]
             /\ \A i \in 1..Len(c) : i < n => c[i].key < k
             /\ \A i \in 1..Len(c) : i >= n => c[i].key >= k
<1> DEFINE n == FindLowerBound(c, k)
<1>1. /\ c \in Seq(Entries) /\ Ordered(c) /\ k \in Nat
  BY FlatMapAssumption DEF Represents
<1>2. /\ Len(c) \in Nat /\ \A i \in 1..Len(c) : c[i].key \in Nat
  BY <1>1, EntriesOf
<1>3. n \in 1..(Len(c) + 1) /\ \A i \in 1..Len(c) : c[i].key < k <=> i < n
  BY <1>1, Bounds
<1> HIDE DEF n
<1>4. Hit(c, n, k) => n \in 1..Len(c) /\ c[n].key = k
  BY <1>1, <1>2, <1>3 DEF Hit
<1>5. Hit(c, n, k) => k \in DOMAIN m /\ c[n].val = m[k]
  BY <1>4 DEF Represents
<1>6. ASSUME k \in DOMAIN m PROVE Hit(c, n, k)
  <2>1. PICK i \in 1..Len(c) : c[i].key = k
    BY <1>6 DEF Represents
  <2>2. n <= i
    BY <1>1, <1>2, <1>3, <2>1
  <2>3. n \in 1..Len(c) /\ ~(c[n].key < k)
    BY <1>2, <1>3, <2>2
  <2>4. ~(k < c[n].key)
    <3>1. CASE n = i
      BY <1>1, <2>1, <3>1
    <3>2. CASE n < i
      BY <1>1, <1>2, <2>1, <2>3, <3>2 DEF Ordered
    <3> QED BY <1>2, <1>3, <2>2, <3>1, <3>2
  <2> QED BY <1>2, <2>3, <2>4 DEF Hit
<1>7. /\ \A i \in 1..Len(c) : i < n => c[i].key < k
      /\ \A i \in 1..Len(c) : i >= n => c[i].key >= k
  BY <1>1, <1>2, <1>3
<1> QED BY <1>3, <1>4, <1>5, <1>6, <1>7 DEF n

(* Where the entries are after an insertion and after an erasure.          *)
LEMMA Inserted ==
  ASSUME NEW c \in Seq(Entries), NEW n \in 1..(Len(c) + 1), NEW e \in Entries
  PROVE  /\ InsertAt(c, n, e) \in Seq(Entries)
         /\ Len(InsertAt(c, n, e)) = Len(c) + 1
         /\ \A j \in 1..(Len(c) + 1) :
               InsertAt(c, n, e)[j] = IF j < n THEN c[j] ELSE IF j = n THEN e ELSE c[j - 1]
<1> DEFINE u == SubSeq(c, 1, n - 1)
           v == SubSeq(c, n, Len(c))
           w == u \o <<e>>
<1>0. Len(c) \in Nat /\ n \in Nat /\ n >= 1 /\ n <= Len(c) + 1
      /\ \A j \in 1..Len(c) : c[j] \in Entries
  OBVIOUS
<1>1. u \in Seq(Entries) /\ Len(u) = n - 1 /\ \A j \in 1..(n - 1) : u[j] = c[j]
  BY <1>0
<1>2. /\ v \in Seq(Entries) /\ Len(v) = Len(c) + 1 - n
      /\ \A j \in 1..(Len(c) + 1 - n) : v[j] = c[n + j - 1]
  BY <1>0
<1>3. InsertAt(c, n, e) = w \o v
  BY DEF InsertAt
<1>4. <<e>> \in Seq(Entries) /\ Len(<<e>>) = 1 /\ <<e>>[1] = e
  OBVIOUS
<1> HIDE DEF u, v
<1>5. /\ w \in Seq(Entries) /\ Len(w) = n
      /\ \A j \in 1..n : w[j] = IF j < n THEN u[j] ELSE e
  <2>1. w \in Seq(Entries) /\ Len(w) = Len(u) + 1
    BY <1>1, <1>4, ConcatProperties
  <2>2. \A j \in 1..(Len(u) + 1) : w[j] = IF j <= Len(u) THEN u[j] ELSE <<e>>[j - Len(u)]
    BY <1>1, <1>4, ConcatProperties
  <2> QED BY <1>0, <1>1, <1>4, <2>1, <2>2
<1> HIDE DEF w
<1>6. /\ w \o v \in Seq(Entries) /\ Len(w \o v) = Len(w) + Len(v)
      /\ \A j \in 1..(Len(w) + Len(v)) :
            (w \o v)[j] = IF j <= Len(w) THEN w[j] ELSE v[j - Len(w)]
  BY <1>2, <1>5, ConcatProperties
<1>7. Len(w \o v) = Len(c) + 1 /\ Len(w) + Len(v) = Len(c) + 1
  BY <1>0, <1>2, <1>5, <1>6
<1>8. ASSUME NEW j \in 1..(Len(c) + 1)
      PROVE  (w \o v)[j] = IF j < n THEN c[j] ELSE IF j = n THEN e ELSE c[j - 1]
  <2>1. CASE j <= n
    <3>1. j \in 1..n /\ (w \o v)[j] = w[j]
      BY <1>0, <1>5, <1>6, <1>7, <2>1
    <3>2. j < n => j \in 1..(n - 1)
      BY <1>0
    <3> QED BY <1>0, <1>1, <1>5, <2>1, <3>1, <3>2
  <2>2. CASE ~(j <= n)
    <3>1. (w \o v)[j] = v[j - n]
      BY <1>0, <1>5, <1>6, <1>7, <2>2
    <3>2. j - n \in 1..(Len(c) + 1 - n) /\ n + (j - n) - 1 = j - 1
      BY <1>0, <2>2
    <3>3. v[j - n] = c[n + (j - n) - 1]
      BY <1>2, <3>2
    <3> QED BY <1>0, <2>2, <3>1, <3>2, <3>3
  <2> QED BY <2>1, <2>2
<1> QED BY <1>3, <1>6, <1>7, <1>8

LEMMA Erased ==
  ASSUME NEW c \in Seq(Entries), NEW a \in 1..(Len(c) + 1), NEW b \in a..(Len(c) + 1)
  PROVE  /\ eraseRange(c, a, b) \in Seq(Entries)
         /\ Len(eraseRange(c, a, b)) = Len(c) - (b - a)
         /\ \A j \in 1..(Len(c) - (b - a)) :
               eraseRange(c, a, b)[j] = IF j < a THEN c[j] ELSE c[j + (b - a)]
<1> DEFINE u == SubSeq(c, 1, a - 1)
           v == SubSeq(c, b, Len(c))
<1>0. /\ Len(c) \in Nat /\ a \in Nat /\ a >= 1 /\ a <= Len(c) + 1
      /\ b \in Nat /\ a <= b /\ b <= Len(c) + 1
      /\ \A j \in 1..Len(c) : c[j] \in Entries
  OBVIOUS
<1>1. u \in Seq(Entries) /\ Len(u) = a - 1 /\ \A j \in 1..(a - 1) : u[j] = c[j]
  BY <1>0
<1>2. /\ v \in Seq(Entries) /\ Len(v) = Len(c) + 1 - b
      /\ \A j \in 1..(Len(c) + 1 - b) : v[j] = c[b + j - 1]
  BY <1>0
<1>3. eraseRange(c, a, b) = u \o v
  BY DEF eraseRange
<1> HIDE DEF u, v
<1>4. /\ u \o v \in Seq(Entries) /\ Len(u \o v) = Len(u) + Len(v)
      /\ \A j \in 1..(Len(u) + Len(v)) :
            (u \o v)[j] = IF j <= Len(u) THEN u[j] ELSE v[j - Len(u)]
  BY <1>1, <1>2, ConcatProperties
<1>5. Len(u) + Len(v) = Len(c) - (b - a)
  BY <1>0, <1>1, <1>2
<1>6. ASSUME NEW j \in 1..(Len(c) - (b - a))
      PROVE  (u \o v)[j] = IF j < a THEN c[j] ELSE c[j + (b - a)]
  <2>1. CASE j < a
    BY <1>0, <1>1, <1>4, <1>5, <2>1
  <2>2. CASE ~(j < a)
    <3>1. /\ j - (a - 1) \in 1..(Len(c) + 1 - b)
          /\ b + (j - (a - 1)) - 1 = j + (b - a)
      BY <1>0, <2>2
    <3>2. (u \o v)[j] = v[j - (a - 1)]
      BY <1>0, <1>1, <1>4, <1>5, <2>2, SMTT(30)
    <3>3. v[j - (a - 1)] = c[b + (j - (a - 1)) - 1]
      BY <1>2, <3>1
    <3> QED BY <2>2, <3>1, <3>2, <3>3
  <2> QED BY <2>1, <2>2
<1> QED BY <1>3, <1>4, <1>5, <1>6

(* insert, emplace and operator[] of a key that is not there.              *)
LEMMA InsertRepresents ==
  ASSUME NEW c, NEW m, Represents(c, m), NEW k \in FlatKeys, k \notin DOMAIN m,
         NEW x \in FlatVals
  PROVE  Represents(InsertAt(c, FindLowerBound(c, k), [key |-> k, val |-> x]),
                    KeepOrAdd(m, k, x))
<1> DEFINE n == FindLowerBound(c, k)
           e == [key |-> k, val |-> x]
           d == InsertAt(c, n, e)
           m2 == KeepOrAdd(m, k, x)
<1>1. c \in Seq(Entries) /\ Ordered(c) /\ k \in Nat /\ e \in Entries
      /\ e.key = k /\ e.val = x
  BY FlatMapAssumption DEF Represents, Entries
<1>2. /\ Len(c) \in Nat /\ \A i \in 1..Len(c) : c[i] \in Entries /\ c[i].key \in Nat
  BY <1>1, EntriesOf
<1>3. /\ n \in 1..(Len(c) + 1)
      /\ \A i \in 1..Len(c) : i < n => c[i].key < k
      /\ \A i \in 1..Len(c) : i >= n => c[i].key > k
  <2>1. /\ n \in 1..(Len(c) + 1)
        /\ \A i \in 1..Len(c) : i < n => c[i].key < k
        /\ \A i \in 1..Len(c) : i >= n => c[i].key >= k
    BY LookUp
  <2>2. \A i \in 1..Len(c) : c[i].key # k
    BY DEF Represents
  <2> QED BY <1>1, <1>2, <2>1, <2>2
<1> HIDE DEF n, e
<1>4. /\ d \in Seq(Entries) /\ Len(d) = Len(c) + 1
      /\ \A j \in 1..(Len(c) + 1) :
            d[j] = IF j < n THEN c[j] ELSE IF j = n THEN e ELSE c[j - 1]
  BY <1>1, <1>3, Inserted
<1>5. /\ DOMAIN m2 = DOMAIN m \cup {k} /\ m2[k] = x
      /\ \A j \in DOMAIN m : m2[j] = m[j]
      /\ m2 = [j \in DOMAIN m2 |-> m2[j]]
  BY DEF KeepOrAdd
<1> HIDE DEF d, m2
<1>6. Ordered(d)
  <2> SUFFICES ASSUME NEW i \in 1..Len(d), NEW j \in 1..Len(d), i < j
               PROVE  d[i].key < d[j].key
    BY DEF Ordered
  <2>0. /\ i \in Nat /\ j \in Nat /\ n \in Nat /\ 1 <= i /\ 1 <= n /\ j <= Len(c) + 1
        /\ i \in 1..(Len(c) + 1) /\ j \in 1..(Len(c) + 1)
    BY <1>2, <1>3, <1>4
  <2>1. CASE j < n
    <3>1. i \in 1..Len(c) /\ j \in 1..Len(c) /\ i < n
      BY <1>2, <1>3, <2>0, <2>1
    <3> QED BY <1>1, <1>4, <2>0, <2>1, <3>1 DEF Ordered
  <2>2. CASE j = n
    <3>1. i \in 1..Len(c) /\ i < n
      BY <1>2, <1>3, <2>0, <2>2
    <3>2. d[i] = c[i] /\ d[j] = e
      BY <1>4, <2>0, <2>2, <3>1
    <3> QED BY <1>1, <1>3, <3>1, <3>2
  <2>3. CASE j > n
    <3>1. j - 1 \in 1..Len(c) /\ j - 1 >= n /\ d[j] = c[j - 1]
      BY <1>2, <1>4, <2>0, <2>3
    <3>2. CASE i < n
      <4>1. i \in 1..Len(c) /\ i < j - 1 /\ d[i] = c[i]
        BY <1>2, <1>4, <2>0, <2>3, <3>2
      <4> QED BY <1>1, <3>1, <4>1 DEF Ordered
    <3>3. CASE i = n
      <4>1. d[i] = e
        BY <1>4, <2>0, <3>3
      <4> QED BY <1>1, <1>2, <1>3, <3>1, <4>1
    <3>4. CASE i > n
      <4>1. i - 1 \in 1..Len(c) /\ i - 1 < j - 1 /\ d[i] = c[i - 1]
        BY <1>2, <1>4, <2>0, <3>4
      <4> QED BY <1>1, <3>1, <4>1 DEF Ordered
    <3> QED BY <2>0, <3>2, <3>3, <3>4
  <2> QED BY <2>0, <2>1, <2>2, <2>3
<1>7. ASSUME NEW j \in 1..Len(d)
      PROVE  d[j].key \in DOMAIN m2 /\ m2[d[j].key] = d[j].val
  <2>1. CASE j = n
    BY <1>1, <1>4, <1>5, <2>1
  <2>2. CASE j # n
    <3>1. \E i \in 1..Len(c) : d[j] = c[i]
      <4>1. CASE j < n
        <5>1. j \in 1..Len(c) /\ d[j] = c[j]
          BY <1>2, <1>3, <1>4, <4>1
        <5> QED BY <5>1
      <4>2. CASE j > n
        <5>1. j - 1 \in 1..Len(c) /\ d[j] = c[j - 1]
          BY <1>2, <1>3, <1>4, <4>2
        <5> QED BY <5>1
      <4> QED BY <1>2, <1>3, <1>4, <2>2, <4>1, <4>2
    <3> QED BY <1>5, <3>1 DEF Represents
  <2> QED BY <2>1, <2>2
<1>8. ASSUME NEW j \in DOMAIN m2 PROVE \E i \in 1..Len(d) : d[i].key = j
  <2>1. CASE j = k
    <3>1. n \in 1..Len(d) /\ d[n] = e
      BY <1>2, <1>3, <1>4
    <3> QED BY <1>1, <2>1, <3>1
  <2>2. CASE j # k
    <3>1. PICK i \in 1..Len(c) : c[i].key = j
      BY <1>5, <2>2 DEF Represents
    <3>2. CASE i < n
      <4>1. i \in 1..Len(d) /\ d[i] = c[i]
        BY <1>2, <1>3, <1>4, <3>2
      <4> QED BY <3>1, <4>1
    <3>3. CASE i >= n
      <4>1. i + 1 \in 1..Len(d) /\ (i + 1) - 1 = i /\ ~(i + 1 < n) /\ i + 1 # n
        BY <1>2, <1>3, <1>4, <3>3
      <4>2. d[i + 1] = c[i]
        BY <1>4, <4>1
      <4> QED BY <3>1, <4>1, <4>2
    <3> QED BY <1>2, <1>3, <3>2, <3>3
  <2> QED BY <2>1, <2>2
<1>9. Represents(d, m2)
  BY <1>4, <1>5, <1>6, <1>7, <1>8 DEF Represents
<1> QED BY <1>9 DEF d, m2, n, e

(* An assignment through the iterator of a key that is there.              *)
LEMMA AssignRepresents ==
  ASSUME NEW c, NEW m, Represents(c, m), NEW i \in 1..Len(c), NEW x \in FlatVals
  PROVE  Represents([c EXCEPT ![i].val = x], [m EXCEPT ![c[i].key] = x])
<1> DEFINE k == c[i].key
           d == [c EXCEPT ![i].val = x]
           m2 == [m EXCEPT ![k] = x]
<1>1. c \in Seq(Entries) /\ Ordered(c) /\ k \in DOMAIN m
  BY DEF Represents
<1>2. /\ Len(c) \in Nat /\ DOMAIN c = 1..Len(c)
      /\ \A j \in 1..Len(c) : c[j] \in Entries /\ c[j].key \in Nat
      /\ c[i] = [key |-> k, val |-> c[i].val] /\ k \in FlatKeys
  BY <1>1, EntriesOf
<1>3. /\ d \in Seq(Entries) /\ Len(d) = Len(c)
      /\ \A j \in 1..Len(c) : d[j] = IF j = i THEN [c[i] EXCEPT !.val = x] ELSE c[j]
  <2>1. [c[i] EXCEPT !.val = x] \in Entries
    BY <1>2 DEF Entries
  <2> QED BY <1>1, <1>2, <2>1
<1>4. [c[i] EXCEPT !.val = x].key = k /\ [c[i] EXCEPT !.val = x].val = x
  BY <1>2
<1>5. \A j \in 1..Len(c) : /\ d[j].key = c[j].key
                           /\ d[j].val = IF j = i THEN x ELSE c[j].val
  BY <1>3, <1>4
<1>6. /\ DOMAIN m2 = DOMAIN m /\ m2[k] = x
      /\ \A j \in DOMAIN m : j # k => m2[j] = m[j]
      /\ m2 = [j \in DOMAIN m2 |-> m2[j]]
  BY <1>1 DEF Represents
<1> HIDE DEF d, m2
<1>7. Ordered(d)
  BY <1>1, <1>3, <1>5 DEF Ordered
<1>8. ASSUME NEW j \in 1..Len(d)
      PROVE  d[j].key \in DOMAIN m2 /\ m2[d[j].key] = d[j].val
  <2>1. j \in 1..Len(c)
    BY <1>3
  <2>2. CASE j = i
    BY <1>1, <1>5, <1>6, <2>1, <2>2
  <2>3. CASE j # i
    <3>1. c[j].key # k
      <4>1. j < i \/ i < j
        BY <1>2, <2>1, <2>3
      <4> QED BY <1>1, <1>2, <2>1, <4>1 DEF Ordered
    <3>2. c[j].key \in DOMAIN m /\ m[c[j].key] = c[j].val
      BY <2>1 DEF Represents
    <3> QED BY <1>5, <1>6, <2>1, <2>3, <3>1, <3>2
  <2> QED BY <2>2, <2>3
<1>9. ASSUME NEW j \in DOMAIN m2 PROVE \E n \in 1..Len(d) : d[n].key = j
  BY <1>3, <1>5, <1>6, SMTT(30) DEF Represents
<1>10. Represents(d, m2)
  BY <1>3, <1>6, <1>7, <1>8, <1>9 DEF Represents
<1> QED BY <1>10 DEF d, m2

(* Erasing the entries of the keys in K, which stand next to each other.   *)
LEMMA EraseRepresents ==
  ASSUME NEW c, NEW m, Represents(c, m), NEW K,
         NEW a \in 1..(Len(c) + 1), NEW b \in a..(Len(c) + 1),
         \A i \in 1..Len(c) : (a <= i /\ i < b) <=> c[i].key \in K
  PROVE  Represents(eraseRange(c, a, b), [j \in DOMAIN m \ K |-> m[j]])
<1> DEFINE d == eraseRange(c, a, b)
           m2 == [j \in DOMAIN m \ K |-> m[j]]
<1>1. c \in Seq(Entries) /\ Ordered(c)
  BY DEF Represents
<1>2. /\ Len(c) \in Nat /\ a \in Nat /\ b \in Nat /\ 1 <= a /\ a <= b /\ b <= Len(c) + 1
      /\ \A j \in 1..Len(c) : c[j].key \in Nat
  <2>1. Len(c) \in Nat /\ \A j \in 1..Len(c) : c[j].key \in Nat
    BY <1>1, EntriesOf
  <2> QED BY <2>1
<1>3. /\ d \in Seq(Entries) /\ Len(d) = Len(c) - (b - a)
      /\ \A j \in 1..(Len(c) - (b - a)) : d[j] = IF j < a THEN c[j] ELSE c[j + (b - a)]
  BY <1>1, Erased
<1>4. /\ DOMAIN m2 = DOMAIN m \ K /\ \A j \in DOMAIN m2 : m2[j] = m[j]
      /\ m2 = [j \in DOMAIN m2 |-> m2[j]]
  OBVIOUS
<1> HIDE DEF d, m2
<1> DEFINE Old(j) == IF j < a THEN j ELSE j + (b - a)
<1>5. ASSUME NEW j \in 1..Len(d)
      PROVE  /\ Old(j) \in 1..Len(c) /\ d[j] = c[Old(j)] /\ c[Old(j)].key \notin K
             /\ j \in Nat
  <2>1. Old(j) \in 1..Len(c) /\ ~(a <= Old(j) /\ Old(j) < b) /\ j \in Nat
    BY <1>2, <1>3
  <2>2. d[j] = c[Old(j)]
    BY <1>2, <1>3
  <2> HIDE DEF Old
  <2> QED BY <2>1, <2>2
<1>6. Ordered(d)
  <2> SUFFICES ASSUME NEW i \in 1..Len(d), NEW j \in 1..Len(d), i < j
               PROVE  d[i].key < d[j].key
    BY DEF Ordered
  <2>1. Old(i) < Old(j)
    BY <1>2, <1>5
  <2> HIDE DEF Old
  <2> QED BY <1>1, <1>5, <2>1 DEF Ordered
<1>7. ASSUME NEW j \in 1..Len(d)
      PROVE  d[j].key \in DOMAIN m2 /\ m2[d[j].key] = d[j].val
  <2> HIDE DEF Old
  <2>1. c[Old(j)].key \in DOMAIN m /\ m[c[Old(j)].key] = c[Old(j)].val
    BY <1>5 DEF Represents
  <2> QED BY <1>4, <1>5, <2>1
<1>8. ASSUME NEW k \in DOMAIN m2 PROVE \E j \in 1..Len(d) : d[j].key = k
  <2>1. PICK i \in 1..Len(c) : c[i].key = k
    BY <1>4 DEF Represents
  <2>2. ~(a <= i /\ i < b)
    BY <1>4, <2>1
  <2>3. CASE i < a
    <3>1. i \in 1..Len(d) /\ Old(i) = i
      BY <1>2, <1>3, <2>3
    <3> QED BY <1>5, <2>1, <3>1
  <2>4. CASE ~(i < a)
    <3>1. i - (b - a) \in 1..Len(d) /\ Old(i - (b - a)) = i
      BY <1>2, <1>3, <2>2, <2>4
    <3>2. d[i - (b - a)] = c[i]
      BY <1>5, <3>1
    <3> QED BY <2>1, <3>1, <3>2
  <2> QED BY <2>3, <2>4
<1>9. Represents(d, m2)
  BY <1>3, <1>4, <1>6, <1>7, <1>8 DEF Represents
<1> QED BY <1>9 DEF d, m2

(* A vector represents one map, and its ordered vectors are equal.         *)
LEMMA RepresentsOne ==
  ASSUME NEW c, NEW m, NEW p, Represents(c, m), Represents(c, p)
  PROVE  m = p
<1>1. ASSUME NEW k \in DOMAIN m PROVE k \in DOMAIN p /\ m[k] = p[k]
  <2>1. PICK i \in 1..Len(c) : c[i].key = k
    BY DEF Represents
  <2>2. /\ c[i].key \in DOMAIN p /\ p[c[i].key] = c[i].val
        /\ m[c[i].key] = c[i].val
    BY DEF Represents
  <2> QED BY <2>1, <2>2
<1>2. ASSUME NEW k \in DOMAIN p PROVE k \in DOMAIN m
  BY DEF Represents
<1>3. DOMAIN m = DOMAIN p
  BY <1>1, <1>2
<1>4. [k \in DOMAIN m |-> m[k]] = [k \in DOMAIN p |-> p[k]]
  BY <1>1, <1>3
<1> QED BY <1>4 DEF Represents

LEMMA RepresentedOnce ==
  ASSUME NEW c, NEW d, NEW m, Represents(c, m), Represents(d, m)
  PROVE  c = d
<1>1. /\ c \in Seq(Entries) /\ Ordered(c) /\ d \in Seq(Entries) /\ Ordered(d)
  BY DEF Represents
<1>2. /\ Len(c) \in Nat /\ Len(d) \in Nat
      /\ \A i \in 1..Len(c) : c[i].key \in Nat
      /\ \A i \in 1..Len(d) : d[i].key \in Nat
  BY <1>1, EntriesOf
<1>2a. /\ \A i \in 1..Len(c) : c[i] = [key |-> c[i].key, val |-> c[i].val]
       /\ \A i \in 1..Len(d) : d[i] = [key |-> d[i].key, val |-> d[i].val]
  BY <1>1, EntriesOf
<1>3. /\ \A i \in 1..Len(c) : \E j \in 1..Len(d) : c[i].key = d[j].key
      /\ \A j \in 1..Len(d) : \E i \in 1..Len(c) : c[i].key = d[j].key
  BY DEF Represents
<1>4. \A i \in 1..Len(c) : i \in 1..Len(d) => c[i].key = d[i].key
  <2> DEFINE T == {i \in 1..Len(c) : i \in 1..Len(d) /\ c[i].key # d[i].key}
  <2>1. ASSUME T # {} PROVE FALSE
    <3>0. T \subseteq Nat
      BY <1>2
    <3>1. PICK n \in T : \A i \in T : n <= i
      BY <2>1, <3>0, LeastNatural
    <3>2. n \in 1..Len(c) /\ n \in 1..Len(d) /\ c[n].key # d[n].key
      OBVIOUS
    <3>3. \A i \in 1..Len(c) : i \in 1..Len(d) /\ i < n => c[i].key = d[i].key
      BY <3>1, <3>2
    <3> HIDE DEF T
    <3>4. CASE c[n].key < d[n].key
      <4>1. PICK j \in 1..Len(d) : c[n].key = d[j].key
        BY <1>3, <3>2
      <4>2. CASE j < n
        <5>1. j \in 1..Len(c) /\ c[j].key = d[j].key
          BY <1>2, <3>2, <3>3, <4>2
        <5>2. c[j].key < c[n].key
          BY <1>1, <3>2, <4>2, <5>1 DEF Ordered
        <5> QED BY <1>2, <3>2, <4>1, <5>1, <5>2
      <4>3. CASE n < j
        <5>1. d[n].key < d[j].key
          BY <1>1, <3>2, <4>3 DEF Ordered
        <5> QED BY <1>2, <3>2, <3>4, <4>1, <5>1
      <4> QED BY <1>2, <3>2, <3>4, <4>1, <4>2, <4>3
    <3>5. CASE d[n].key < c[n].key
      <4>1. PICK j \in 1..Len(c) : c[j].key = d[n].key
        BY <1>3, <3>2
      <4>2. CASE j < n
        <5>1. j \in 1..Len(d) /\ c[j].key = d[j].key
          BY <1>2, <3>2, <3>3, <4>2
        <5>2. d[j].key < d[n].key
          BY <1>1, <3>2, <4>2, <5>1 DEF Ordered
        <5> QED BY <1>2, <3>2, <4>1, <5>1, <5>2
      <4>3. CASE n < j
        <5>1. c[n].key < c[j].key
          BY <1>1, <3>2, <4>3 DEF Ordered
        <5> QED BY <1>2, <3>2, <3>5, <4>1, <5>1
      <4> QED BY <1>2, <3>2, <3>5, <4>1, <4>2, <4>3
    <3> QED BY <1>2, <3>2, <3>4, <3>5
  <2> QED BY <2>1
<1>5. Len(c) = Len(d)
  <2>1. ASSUME Len(c) < Len(d) PROVE FALSE
    <3>1. Len(c) + 1 \in 1..Len(d)
      BY <1>2, <2>1
    <3>2. PICK i \in 1..Len(c) : c[i].key = d[Len(c) + 1].key
      BY <1>3, <3>1
    <3>3. i \in 1..Len(d) /\ i < Len(c) + 1
      BY <1>2, <2>1
    <3>4. d[i].key = d[Len(c) + 1].key
      BY <1>4, <3>2, <3>3
    <3>5. d[i].key < d[Len(c) + 1].key
      BY <1>1, <3>1, <3>3 DEF Ordered
    <3> QED BY <1>2, <3>1, <3>3, <3>4, <3>5
  <2>2. ASSUME Len(d) < Len(c) PROVE FALSE
    <3>1. Len(d) + 1 \in 1..Len(c)
      BY <1>2, <2>2
    <3>2. PICK i \in 1..Len(d) : c[Len(d) + 1].key = d[i].key
      BY <1>3, <3>1
    <3>3. i \in 1..Len(c) /\ i < Len(d) + 1
      BY <1>2, <2>2
    <3>4. c[i].key = c[Len(d) + 1].key
      BY <1>4, <3>2, <3>3
    <3>5. c[i].key < c[Len(d) + 1].key
      BY <1>1, <3>1, <3>3 DEF Ordered
    <3> QED BY <1>2, <3>1, <3>3, <3>4, <3>5
  <2> QED BY <1>2, <2>1, <2>2
<1>6. \A i \in 1..Len(c) : c[i] = d[i]
  <2> SUFFICES ASSUME NEW i \in 1..Len(c) PROVE c[i] = d[i]
    OBVIOUS
  <2>1. i \in 1..Len(d) /\ c[i].key = d[i].key
    BY <1>4, <1>5
  <2>2. c[i].val = m[c[i].key] /\ d[i].val = m[d[i].key]
    BY <2>1 DEF Represents
  <2> QED BY <1>2a, <2>1, <2>2
<1> QED BY <1>1, <1>5, <1>6, SeqEqual

LEMMA FlatInvInit == FlatInit => FlatInv
<1> SUFFICES ASSUME FlatInit PROVE FlatInv
  OBVIOUS
<1>1. Represents(<<>>, NoKeys)
  BY DEF Represents, Ordered, NoKeys
<1> QED BY <1>1 DEF FlatInit, FlatInv

(* One map changes and keeps representing what it should.                  *)
LEMMA OneFlatStep ==
  ASSUME FlatInv, NEW f \in Flats, NEW c, NEW m, Represents(c, m),
         flat' = [flat EXCEPT ![f] = c], meant' = [meant EXCEPT ![f] = m]
  PROVE  FlatInv'
<1>1. /\ flat' = [g \in Flats |-> flat'[g]] /\ meant' = [g \in Flats |-> meant'[g]]
      /\ flat'[f] = c /\ meant'[f] = m
      /\ \A g \in Flats \ {f} : flat'[g] = flat[g] /\ meant'[g] = meant[g]
  BY DEF FlatInv
<1>2. \A g \in Flats : Represents(flat'[g], meant'[g])
  BY <1>1 DEF FlatInv
<1> QED BY <1>1, <1>2 DEF FlatInv

LEMMA FlatInvStep == FlatInv /\ [FlatNext]_flatVars => FlatInv'
<1> SUFFICES ASSUME FlatInv, [FlatNext]_flatVars PROVE FlatInv'
  OBVIOUS
<1>0. \A f \in Flats : Represents(flat[f], meant[f])
  BY DEF FlatInv
<1>1. CASE UNCHANGED flatVars
  BY <1>1 DEF flatVars, FlatInv
<1>2. ASSUME NEW f \in Flats, NEW k \in FlatKeys, NEW x \in FlatVals, FlatInsert(f, k, x)
      PROVE  FlatInv'
  <2> DEFINE c == flat[f]
             m == meant[f]
  <2>1. /\ flat' = [flat EXCEPT ![f] = insert(c, k, x)]
        /\ meant' = [meant EXCEPT ![f] = KeepOrAdd(m, k, x)]
    BY <1>2 DEF FlatInsert, emplace
  <2>2. Represents(insert(c, k, x), KeepOrAdd(m, k, x))
    <3>1. Represents(c, m)
      BY <1>0
    <3> HIDE DEF c, m
    <3>2. Hit(c, FindLowerBound(c, k), k) <=> k \in DOMAIN m
      BY <3>1, LookUp
    <3>3. CASE k \in DOMAIN m
      <4>1. insert(c, k, x) = c
        BY <3>2, <3>3 DEF insert
      <4>2. KeepOrAdd(m, k, x) = m
        <5>1. DOMAIN m \cup {k} = DOMAIN m
          BY <3>3
        <5>2. KeepOrAdd(m, k, x) = [j \in DOMAIN m |-> m[j]]
          BY <5>1 DEF KeepOrAdd
        <5> QED BY <3>1, <5>2 DEF Represents
      <4> QED BY <3>1, <4>1, <4>2
    <3>4. CASE k \notin DOMAIN m
      <4>1. insert(c, k, x) = InsertAt(c, FindLowerBound(c, k), [key |-> k, val |-> x])
        BY <3>2, <3>4 DEF insert
      <4> QED BY <3>1, <3>4, <4>1, InsertRepresents
    <3> QED BY <3>3, <3>4
  <2> QED BY <2>1, <2>2, OneFlatStep
<1>3. ASSUME NEW f \in Flats, NEW k \in FlatKeys, NEW x \in FlatVals, FlatIndex(f, k, x)
      PROVE  FlatInv'
  <2> DEFINE c == flat[f]
             m == meant[f]
             n == FindLowerBound(c, k)
             d == IF Hit(c, n, k) THEN [c EXCEPT ![n].val = x]
                  ELSE [InsertAt(c, n, [key |-> k, val |-> FlatZero]) EXCEPT ![n].val = x]
             m2 == [KeepOrAdd(m, k, x) EXCEPT ![k] = x]
  <2>1. flat' = [flat EXCEPT ![f] = d] /\ meant' = [meant EXCEPT ![f] = m2]
    BY <1>3 DEF FlatIndex
  <2>2. Represents(d, m2)
    <3>1. Represents(c, m)
      BY <1>0
    <3> HIDE DEF c, m
    <3>2. /\ Hit(c, n, k) <=> k \in DOMAIN m
          /\ Hit(c, n, k) => n \in 1..Len(c) /\ c[n].key = k
          /\ n \in 1..(Len(c) + 1)
      BY <3>1, LookUp
    <3>3. CASE k \in DOMAIN m
      <4>1. KeepOrAdd(m, k, x) = m
        <5>1. DOMAIN m \cup {k} = DOMAIN m
          BY <3>3
        <5>2. KeepOrAdd(m, k, x) = [j \in DOMAIN m |-> m[j]]
          BY <5>1 DEF KeepOrAdd
        <5> QED BY <3>1, <5>2 DEF Represents
      <4>2. n \in 1..Len(c) /\ c[n].key = k
        BY <3>2, <3>3
      <4> HIDE DEF n
      <4>3. Represents([c EXCEPT ![n].val = x], [m EXCEPT ![c[n].key] = x])
        BY <3>1, <4>2, AssignRepresents
      <4> QED BY <3>2, <3>3, <4>1, <4>2, <4>3
    <3>4. CASE k \notin DOMAIN m
      <4> DEFINE e == [key |-> k, val |-> FlatZero]
                 i == InsertAt(c, n, e)
                 p == KeepOrAdd(m, k, FlatZero)
      <4>1. Represents(i, p)
        BY <3>1, <3>4, FlatMapAssumption, InsertRepresents
      <4>2. n \in 1..Len(i) /\ i[n].key = k
        <5>1. c \in Seq(Entries) /\ e \in Entries /\ e.key = k /\ Len(c) \in Nat
          BY <3>1, FlatMapAssumption DEF Represents, Entries
        <5> HIDE DEF n, e
        <5>2. Len(i) = Len(c) + 1 /\ i[n] = e
          BY <3>2, <5>1, Inserted
        <5> QED BY <3>2, <5>1, <5>2
      <4>3. [p EXCEPT ![k] = x] = m2
        <5>1. /\ [p EXCEPT ![k] = x]
                    = [j \in DOMAIN m \cup {k} |-> IF j = k THEN x ELSE m[j]]
              /\ m2 = [j \in DOMAIN m \cup {k} |-> IF j = k THEN x ELSE m[j]]
          BY <3>4 DEF KeepOrAdd
        <5> QED BY <5>1
      <4>4. d = [i EXCEPT ![n].val = x]
        BY <3>2, <3>4
      <4> HIDE DEF i, p, n, d, m2
      <4>5. Represents([i EXCEPT ![n].val = x], [p EXCEPT ![i[n].key] = x])
        BY <4>1, <4>2, AssignRepresents
      <4> QED BY <4>2, <4>3, <4>4, <4>5
    <3> QED BY <3>3, <3>4
  <2> HIDE DEF d, m2
  <2> QED BY <2>1, <2>2, OneFlatStep
<1>4. ASSUME NEW f \in Flats, NEW k \in FlatKeys, FlatErase(f, k) PROVE FlatInv'
  <2> DEFINE c == flat[f]
             m == meant[f]
             m2 == [j \in DOMAIN m \ {k} |-> m[j]]
  <2>1. flat' = [flat EXCEPT ![f] = eraseKey(c, k)] /\ meant' = [meant EXCEPT ![f] = m2]
    BY <1>4 DEF FlatErase
  <2>2. Represents(eraseKey(c, k), m2)
    <3>1. Represents(c, m)
      BY <1>0
    <3> HIDE DEF c, m
    <3> DEFINE n == FindLowerBound(c, k)
    <3>2. /\ Hit(c, n, k) <=> k \in DOMAIN m
          /\ Hit(c, n, k) => n \in 1..Len(c) /\ c[n].key = k
      BY <3>1, LookUp
    <3>3. c \in Seq(Entries) /\ Ordered(c) /\ Len(c) \in Nat
          /\ \A i \in 1..Len(c) : c[i].key \in Nat
      BY <3>1, EntriesOf DEF Represents
    <3>4. CASE k \notin DOMAIN m
      <4>1. eraseKey(c, k) = c
        BY <3>2, <3>4 DEF eraseKey, find
      <4>2. m2 = m
        <5>1. DOMAIN m \ {k} = DOMAIN m
          BY <3>4
        <5>2. m2 = [j \in DOMAIN m |-> m[j]]
          BY <5>1
        <5> QED BY <3>1, <5>2 DEF Represents
      <4> QED BY <3>1, <4>1, <4>2
    <3>5. CASE k \in DOMAIN m
      <4>1. n \in 1..Len(c) /\ c[n].key = k /\ find(c, k) = n
        BY <3>2, <3>5 DEF find
      <4> HIDE DEF n
      <4>2. n # Len(c) + 1 /\ n \in 1..(Len(c) + 1) /\ n + 1 \in n..(Len(c) + 1)
        BY <3>3, <4>1
      <4>3. eraseKey(c, k) = eraseRange(c, n, n + 1)
        BY <4>1, <4>2 DEF eraseKey, eraseRange, RemoveAt
      <4>4. \A i \in 1..Len(c) : (n <= i /\ i < n + 1) <=> c[i].key \in {k}
        <5> SUFFICES ASSUME NEW i \in 1..Len(c)
                     PROVE  (n <= i /\ i < n + 1) <=> c[i].key = k
          OBVIOUS
        <5>1. n < i => k < c[i].key
          BY <3>3, <4>1 DEF Ordered
        <5>2. i < n => c[i].key < k
          BY <3>3, <4>1 DEF Ordered
        <5>3. CASE i = n
          BY <3>3, <4>1, <5>3
        <5>4. CASE n < i
          <6>1. ~(i < n + 1) /\ c[i].key # k
            BY <3>3, <4>1, <5>1, <5>4
          <6> QED BY <6>1
        <5>5. CASE i < n
          <6>1. ~(n <= i) /\ c[i].key # k
            BY <3>3, <4>1, <5>2, <5>5
          <6> QED BY <6>1
        <5>6. i \in Nat /\ n \in Nat
          BY <4>1
        <5>7. i = n \/ n < i \/ i < n
          BY <5>6
        <5> QED BY <5>3, <5>4, <5>5, <5>7
      <4> DEFINE K == {k}
      <4>5. \A i \in 1..Len(c) : (n <= i /\ i < n + 1) <=> c[i].key \in K
        BY <4>4
      <4> HIDE DEF K
      <4>6. Represents(eraseRange(c, n, n + 1), [j \in DOMAIN m \ K |-> m[j]])
        BY <3>1, <4>2, <4>5, EraseRepresents
      <4> QED BY <4>3, <4>6 DEF K
    <3> QED BY <3>4, <3>5
  <2> HIDE DEF m2
  <2> QED BY <2>1, <2>2, OneFlatStep
<1>5. ASSUME NEW f \in Flats, NEW lo \in FlatKeys, NEW hi \in FlatKeys,
             FlatEraseRange(f, lo, hi)
      PROVE  FlatInv'
  <2> DEFINE c == flat[f]
             m == meant[f]
             a == FindLowerBound(c, lo)
             b == upper_bound(c, hi)
             m2 == [j \in DOMAIN m \ lo..hi |-> m[j]]
  <2>1. /\ a <= b /\ flat' = [flat EXCEPT ![f] = eraseRange(c, a, b)]
        /\ meant' = [meant EXCEPT ![f] = m2]
    BY <1>5 DEF FlatEraseRange
  <2>2. Represents(c, m)
    BY <1>0
  <2>3. c \in Seq(Entries) /\ Ordered(c) /\ lo \in Nat /\ hi \in Nat /\ Len(c) \in Nat
        /\ \A i \in 1..Len(c) : c[i].key \in Nat
    BY <2>2, EntriesOf, FlatMapAssumption DEF Represents
  <2>4. Represents(eraseRange(c, a, b), m2)
    <3> HIDE DEF c, m
    <3>1. /\ a \in 1..(Len(c) + 1) /\ b \in 1..(Len(c) + 1)
          /\ \A i \in 1..Len(c) : c[i].key < lo <=> i < a
          /\ \A i \in 1..Len(c) : c[i].key <= hi <=> i < b
      BY <2>3, Bounds
    <3> HIDE DEF a, b
    <3>2. b \in a..(Len(c) + 1)
      BY <2>1, <2>3, <3>1
    <3>3. \A i \in 1..Len(c) : (a <= i /\ i < b) <=> c[i].key \in lo..hi
      BY <2>3, <3>1
    <3> QED BY <2>2, <3>1, <3>2, <3>3, EraseRepresents
  <2> HIDE DEF m2
  <2> QED BY <2>1, <2>4, OneFlatStep
<1>6. ASSUME NEW f \in Flats, FlatClear(f) PROVE FlatInv'
  <2>1. Represents(<<>>, NoKeys)
    BY DEF Represents, Ordered, NoKeys
  <2> QED BY <1>6, <2>1, OneFlatStep DEF FlatClear
<1>7. ASSUME NEW f \in Flats, NEW g \in Flats, FlatSwap(f, g) PROVE FlatInv'
  <2>1. /\ flat' = [h \in Flats |-> flat'[h]] /\ meant' = [h \in Flats |-> meant'[h]]
        /\ flat'[g] = flat[f] /\ meant'[g] = meant[f]
        /\ flat'[f] = flat[g] /\ meant'[f] = meant[g]
        /\ \A h \in Flats \ {f, g} : flat'[h] = flat[h] /\ meant'[h] = meant[h]
    BY <1>7 DEF FlatSwap, FlatInv
  <2>2. \A h \in Flats : Represents(flat'[h], meant'[h])
    BY <1>0, <2>1
  <2> QED BY <2>1, <2>2 DEF FlatInv
<1> QED BY <1>1, <1>2, <1>3, <1>4, <1>5, <1>6, <1>7 DEF FlatNext

(* The vector of a FlatMap stays strictly ordered, and every lookup,       *)
(* equal_range and operator== agrees with the map its callers built, for   *)
(* every set of keys and values and any number of maps.                    *)
THEOREM FlatMapsAgree == FlatSpec => []FlatAgrees
<1>1. FlatInv => FlatAgrees
  <2> SUFFICES ASSUME FlatInv PROVE FlatAgrees
    OBVIOUS
  <2>1. ASSUME NEW f \in Flats
        PROVE  \A i, j \in DOMAIN flat[f] : i < j => flat[f][i].key < flat[f][j].key
    <3>1. flat[f] \in Seq(Entries) /\ Ordered(flat[f])
      BY DEF FlatInv, Represents
    <3>2. DOMAIN flat[f] = 1..Len(flat[f])
      BY <3>1
    <3> QED BY <3>1, <3>2 DEF Ordered
  <2>2. ASSUME NEW c, NEW m, Represents(c, m), NEW k \in FlatKeys
        PROVE  IF k \in DOMAIN m
               THEN /\ contains(c, k) /\ c[find(c, k)].val = m[k]
                    /\ equal_range(c, k) = <<find(c, k), find(c, k) + 1>>
               ELSE /\ ~contains(c, k) /\ find(c, k) = Len(c) + 1
                    /\ equal_range(c, k)[1] = equal_range(c, k)[2]
    <3> DEFINE n == FindLowerBound(c, k)
               p == upper_bound(c, k)
    <3>1. /\ Hit(c, n, k) <=> k \in DOMAIN m
          /\ n \in 1..(Len(c) + 1)
          /\ Hit(c, n, k) => n \in 1..Len(c) /\ c[n].key = k /\ c[n].val = m[k]
      BY <2>2, LookUp
    <3>2. /\ c \in Seq(Entries) /\ Ordered(c) /\ k \in Nat /\ Len(c) \in Nat
          /\ \A i \in 1..Len(c) : c[i].key \in Nat
      BY <2>2, EntriesOf, FlatMapAssumption DEF Represents
    <3>3. /\ \A i \in 1..Len(c) : c[i].key < k <=> i < n
          /\ p \in 1..(Len(c) + 1)
          /\ \A i \in 1..Len(c) : c[i].key <= k <=> i < p
      BY <3>2, Bounds
    <3>4. /\ equal_range(c, k) = <<n, p>>
          /\ find(c, k) = (IF Hit(c, n, k) THEN n ELSE Len(c) + 1)
          /\ (contains(c, k) <=> Hit(c, n, k))
      BY DEF equal_range, find, contains
    <3> HIDE DEF n, p
    <3>5. CASE k \in DOMAIN m
      <4>1. n < p
        BY <3>1, <3>2, <3>3, <3>5
      <4>2. ASSUME n + 1 < p PROVE FALSE
        <5>1. n + 1 \in 1..Len(c)
          BY <3>1, <3>2, <3>3, <4>2
        <5>2. c[n + 1].key <= k
          BY <3>3, <4>2, <5>1
        <5>3. c[n].key < c[n + 1].key
          BY <3>1, <3>2, <3>5, <5>1 DEF Ordered
        <5> QED BY <3>1, <3>2, <3>5, <5>1, <5>2, <5>3
      <4>3. p = n + 1
        BY <3>1, <3>2, <3>3, <4>1, <4>2
      <4> QED BY <3>1, <3>4, <3>5, <4>3
    <3>6. CASE k \notin DOMAIN m
      <4>1. \A i \in 1..Len(c) : c[i].key # k
        BY <2>2, <3>6 DEF Represents
      <4>2. \A i \in 1..Len(c) : i < n <=> i < p
        BY <3>2, <3>3, <4>1
      <4>3. n = p
        <5>1. ASSUME n < p PROVE FALSE
          <6>1. n \in 1..Len(c)
            BY <3>1, <3>2, <3>3, <5>1
          <6> QED BY <4>2, <5>1, <6>1
        <5>2. ASSUME p < n PROVE FALSE
          <6>1. p \in 1..Len(c)
            BY <3>1, <3>2, <3>3, <5>2
          <6> QED BY <4>2, <5>2, <6>1
        <5> QED BY <3>1, <3>3, <5>1, <5>2
      <4> QED BY <3>1, <3>4, <3>6, <4>3
    <3> QED BY <3>5, <3>6
  <2>3. ASSUME NEW f \in Flats, NEW g \in Flats
        PROVE  flat[f] = flat[g] <=> meant[f] = meant[g]
    <3>0. Represents(flat[f], meant[f]) /\ Represents(flat[g], meant[g])
      BY DEF FlatInv
    <3>1. ASSUME flat[f] = flat[g] PROVE meant[f] = meant[g]
      BY <3>0, <3>1, RepresentsOne
    <3>2. ASSUME meant[f] = meant[g] PROVE flat[f] = flat[g]
      BY <3>0, <3>2, RepresentedOnce
    <3> QED BY <3>1, <3>2
  <2>4. \A f \in Flats : Represents(flat[f], meant[f])
    BY DEF FlatInv
  <2> QED BY <2>1, <2>2, <2>3, <2>4 DEF FlatAgrees
<1> QED BY <1>1, FlatInvInit, FlatInvStep, PTL DEF FlatSpec

(***************************************************************************)
(* SmallMap                                                                *)
(***************************************************************************)
Blocks == Maps \cup Heap
Objs == [raw : {FALSE}, key : Keys, val : Vals]
Cells == Objs \cup {Raw}
Vecs == [size : Nat, capacity : Nat, data : Blocks]
AllVecs == [Maps -> Vecs]
AllCells == [Blocks -> Seq(Cells)]

Clean == FALSE   \* what mem.fault says of a sound memory

(* The memory with vectors V and cells C.                                  *)
Memory(V, C, unpaired) == [vec |-> V, cell |-> C, fault |-> Clean, unpaired |-> unpaired]

MemShape(m) ==
    /\ m = Memory(m.vec, m.cell, m.unpaired)
    /\ m.vec \in AllVecs
    /\ m.cell \in AllCells

(* Exactly the first n cells of the block c hold objects.                  *)
Filled(c, n) ==
    /\ n \in Nat /\ n <= Len(c) /\ Len(c) > 0
    /\ \A i \in 1..n : c[i] \in Objs
    /\ \A i \in (n + 1)..Len(c) : c[i] = Raw

(* A vector uses its inline storage or a block of the heap, whose length   *)
(* is capacity_ and whose cells below size_ hold objects; inline storage   *)
(* not in use is raw.                                                      *)
SoundVec(d, c, own, v) ==
    /\ d.data \in Heap \cup {v}
    /\ d.capacity = Len(c) /\ Filled(c, d.size)
    /\ Len(own) = N /\ (d.data # v => \A i \in 1..N : own[i] = Raw)

VecSound(m, v) == SoundVec(m.vec[v], m.cell[m.vec[v].data], m.cell[v], v)

(* A block of the heap has one owner if it is allocated, and none if not.  *)
MemSound(m) ==
    /\ MemShape(m)
    /\ \A v \in Maps : VecSound(m, v)
    /\ \A v, w \in Maps : m.vec[v].data = m.vec[w].data => v = w
    /\ \A b \in Heap : m.cell[b] # <<>> => \E v \in Maps : m.vec[v].data = b

IsMap(f) == f \in [DOMAIN f -> Vals] /\ DOMAIN f \subseteq Keys

(* The first n cells of c are the pairs of the map f, each key once.       *)
Carries(c, n, f) ==
    /\ IsMap(f)
    /\ \A i \in 1..n : c[i].key \in DOMAIN f /\ c[i].val = f[c[i].key]
    /\ \A k \in DOMAIN f : \E i \in 1..n : c[i].key = k
    /\ \A i, j \in 1..n : c[i].key = c[j].key => i = j

Holding(m, v, f) == Carries(m.cell[m.vec[v].data], m.vec[v].size, f)

MapInv ==
    /\ MemSound(mem)
    /\ shadow = [v \in Maps |-> shadow[v]]
    /\ \A v \in Maps : Holding(mem, v, shadow[v])

LEMMA FilledIs ==
  ASSUME NEW c \in Seq(Cells), NEW n, Filled(c, n)
  PROVE  /\ n <= Len(c) /\ Len(c) > 0 /\ Len(c) \in Nat /\ n \in Nat
         /\ \A j \in 1..n : c[j] \in Objs
         /\ \A j \in (n + 1)..Len(c) : c[j] = Raw
<1>1. Len(c) \in Nat
  OBVIOUS
<1> QED BY <1>1 DEF Filled

(* One more object in the first raw cell.                                  *)
LEMMA FilledMore ==
  ASSUME NEW q \in Seq(Cells), NEW p, Filled(q, p), p < Len(q),
         NEW c \in Seq(Cells), Len(c) = Len(q), c[p + 1] \in Objs,
         \A i \in 1..Len(q) : i # p + 1 => c[i] = q[i]
  PROVE  Filled(c, p + 1)
<1>1. /\ p \in Nat /\ Len(q) \in Nat /\ \A i \in 1..p : q[i] \in Objs
      /\ \A i \in (p + 1)..Len(q) : q[i] = Raw
  BY FilledIs
<1>2. ASSUME NEW i \in 1..(p + 1) PROVE c[i] \in Objs
  <2>1. CASE i = p + 1
    BY <2>1
  <2>2. CASE i # p + 1
    <3>1. i \in 1..p /\ i \in 1..Len(q)
      BY <1>1, <2>2
    <3> QED BY <1>1, <2>2, <3>1
  <2> QED BY <2>1, <2>2
<1>3. ASSUME NEW i \in (p + 2)..Len(c) PROVE c[i] = Raw
  <2>1. i \in (p + 1)..Len(q) /\ i \in 1..Len(q) /\ i # p + 1
    BY <1>1
  <2> QED BY <1>1, <2>1
<1>4. p + 1 \in Nat /\ p + 1 <= Len(c) /\ Len(c) > 0 /\ (p + 1) + 1 = p + 2
  BY <1>1
<1> QED BY <1>2, <1>3, <1>4 DEF Filled

LEMMA CarriedKey ==
  ASSUME NEW c, NEW n, NEW f, Carries(c, n, f), NEW i \in 1..n
  PROVE  c[i].key \in DOMAIN f /\ c[i].val = f[c[i].key]
BY DEF Carries

LEMMA TupleIs ==
  ASSUME NEW S, NEW n \in Nat, NEW f \in [1..n -> S]
  PROVE  Tuple(f) = f /\ f \in Seq(S) /\ Len(f) = n
<1>1. f \in Seq(S) /\ Len(f) = n
  BY LenProperties, SeqDef
<1>2. SubSeq(f, 1, Len(f)) = f
  BY <1>1, SubSeqProperties
<1> QED BY <1>1, <1>2 DEF Tuple

LEMMA RawIs ==
  /\ Raw \in Cells /\ Objs \subseteq Cells
  /\ \A o \in Objs : o # Raw /\ o.val # Moved /\ o.key \in Keys /\ o.val \in Vals
<1>1. ASSUME NEW o \in Objs
      PROVE  o # Raw /\ o.val # Moved /\ o.key \in Keys /\ o.val \in Vals
  <2>1. o.raw = FALSE /\ o.key \in Keys /\ o.val \in Vals
    BY DEF Objs
  <2>2. Raw.raw = TRUE
    BY DEF Raw
  <2>3. o # Raw
    BY <2>1, <2>2
  <2> QED BY <2>1, <2>3, SmallMapAssumption
<1> QED BY <1>1 DEF Cells

LEMMA BlankIs ==
  ASSUME NEW n \in Nat
  PROVE  /\ Blank(n) \in Seq(Cells) /\ Len(Blank(n)) = n
         /\ \A i \in 1..n : Blank(n)[i] = Raw
<1>1. [i \in 1..n |-> Raw] \in [1..n -> Cells]
  BY RawIs
<1> QED BY <1>1, TupleIs DEF Blank

LEMMA VecFacts ==
  ASSUME NEW m, MemSound(m), NEW v \in Maps
  PROVE  /\ m.vec[v] \in Vecs /\ m.vec[v].data \in Blocks /\ m.vec[v].size \in Nat
         /\ m.vec[v].capacity \in Nat /\ m.vec[v].size <= m.vec[v].capacity
         /\ m.vec[v] = [size |-> m.vec[v].size, capacity |-> m.vec[v].capacity,
                        data |-> m.vec[v].data]
         /\ VecSound(m, v) /\ v \in Blocks /\ v \notin Heap
         /\ \A b \in Blocks : m.cell[b] \in Seq(Cells)
         /\ DOMAIN m.cell = Blocks /\ DOMAIN m.vec = Maps
         /\ m.cell[m.vec[v].data] \in Seq(Cells) /\ m.cell[m.vec[v].data] # <<>>
         /\ Block(m, v) = m.cell[m.vec[v].data]
<1>1. /\ m.vec \in AllVecs /\ m.cell \in AllCells /\ VecSound(m, v)
  BY DEF MemSound, MemShape
<1>2. m.vec[v] \in Vecs
  BY <1>1 DEF AllVecs
<1>3. /\ m.vec[v].data \in Blocks /\ m.vec[v].size \in Nat /\ m.vec[v].capacity \in Nat
      /\ m.vec[v] = [size |-> m.vec[v].size, capacity |-> m.vec[v].capacity,
                     data |-> m.vec[v].data]
  BY <1>2 DEF Vecs
<1>4. /\ m.cell[m.vec[v].data] \in Seq(Cells) /\ Len(m.cell[m.vec[v].data]) > 0
      /\ m.vec[v].size <= m.vec[v].capacity /\ DOMAIN m.cell = Blocks /\ DOMAIN m.vec = Maps
      /\ \A b \in Blocks : m.cell[b] \in Seq(Cells)
  BY <1>1, <1>3 DEF VecSound, SoundVec, Filled, AllCells, AllVecs
<1>5. v \in Blocks /\ v \notin Heap
  BY SmallMapAssumption DEF Blocks
<1>6. m.cell[m.vec[v].data] # <<>>
  BY <1>4
<1> QED BY <1>1, <1>2, <1>3, <1>4, <1>5, <1>6 DEF Block

LEMMA VecFills ==
  ASSUME NEW m, MemSound(m), NEW v \in Maps
  PROVE  /\ m.vec[v].data \in Heap \cup {v}
         /\ m.vec[v].capacity = Len(m.cell[m.vec[v].data]) /\ m.vec[v].capacity > 0
         /\ Filled(m.cell[m.vec[v].data], m.vec[v].size)
<1>1. VecSound(m, v)
  BY VecFacts
<1> QED BY <1>1 DEF VecSound, SoundVec, Filled

(* What a step of v leaves alone: the vector w and its elements.           *)
KeepsVec(m, t, w) ==
    t.vec[w] = m.vec[w] /\ t.cell[t.vec[w].data] = m.cell[m.vec[w].data]

(* A step of v that makes it sound again, uses a free block if a new one,  *)
(* and frees the old one if it lets go of it.                              *)
LEMMA MemStep ==
  ASSUME NEW m, MemSound(m), NEW t, MemShape(t), NEW v \in Maps, VecSound(t, v),
         \A w \in Maps : w # v => t.vec[w] = m.vec[w],
         \A b \in Blocks : b \notin {v, m.vec[v].data, t.vec[v].data}
                             => t.cell[b] = m.cell[b],
         t.vec[v].data \in {v, m.vec[v].data} \/ m.cell[t.vec[v].data] = <<>>,
         m.vec[v].data \in Heap /\ t.vec[v].data # m.vec[v].data
            => t.cell[m.vec[v].data] = <<>>
  PROVE  MemSound(t) /\ \A w \in Maps : w # v => KeepsVec(m, t, w)
<1>1. ASSUME NEW w \in Maps, w # v
      PROVE  KeepsVec(m, t, w) /\ VecSound(t, w) /\ t.vec[w].data # t.vec[v].data
  <2>1. /\ VecSound(m, w) /\ m.vec[w].data \in Blocks /\ m.cell[m.vec[w].data] # <<>>
        /\ VecSound(m, v) /\ w \in Blocks /\ w \notin Heap /\ v \notin Heap
    BY <1>1, VecFacts
  <2>2. /\ m.vec[w].data \in Heap \cup {w} /\ m.vec[v].data \in Heap \cup {v}
        /\ t.vec[v].data \in Heap \cup {v}
    BY <2>1 DEF VecSound, SoundVec
  <2>3. m.vec[w].data # m.vec[v].data
    BY <1>1 DEF MemSound
  <2>4. m.vec[w].data \notin {v, m.vec[v].data, t.vec[v].data}
    BY <1>1, <2>1, <2>2, <2>3
  <2>5. t.cell[m.vec[w].data] = m.cell[m.vec[w].data] /\ t.vec[w] = m.vec[w]
    BY <1>1, <2>1, <2>4
  <2>6. t.cell[w] = m.cell[w]
    BY <1>1, <2>1, <2>2
  <2>7. KeepsVec(m, t, w) /\ t.vec[w].data # t.vec[v].data
    BY <2>4, <2>5 DEF KeepsVec
  <2>8. VecSound(t, w)
    BY <2>1, <2>5, <2>6 DEF VecSound
  <2> QED BY <2>7, <2>8
<1>2. \A w \in Maps : VecSound(t, w)
  BY <1>1
<1>3. \A w, u \in Maps : t.vec[w].data = t.vec[u].data => w = u
  <2> TAKE w, u \in Maps
  <2>1. CASE w = v \/ u = v
    BY <1>1, <2>1
  <2>2. CASE w # v /\ u # v
    BY <2>2 DEF MemSound
  <2> QED BY <2>1, <2>2
<1>4. ASSUME NEW b \in Heap, t.cell[b] # <<>>
      PROVE  \E w \in Maps : t.vec[w].data = b
  <2>0. b \in Blocks /\ b # v
    BY VecFacts, ZenonT(40) DEF Blocks
  <2>1. CASE b = t.vec[v].data
    BY <2>1
  <2>2. CASE b # t.vec[v].data
    <3>1. b # m.vec[v].data
      BY <1>4, <2>2
    <3>2. t.cell[b] = m.cell[b]
      BY <2>0, <2>2, <3>1
    <3>3. PICK w \in Maps : m.vec[w].data = b
      BY <1>4, <3>2 DEF MemSound
    <3> QED BY <3>1, <3>3
  <2> QED BY <2>1, <2>2
<1> QED BY <1>1, <1>2, <1>3, <1>4 DEF MemSound

With(f, x, y) == [f EXCEPT ![x] = y]
Sized(d, n) == [size |-> n, capacity |-> d.capacity, data |-> d.data]
Cleared(c, at) == [i \in DOMAIN c |-> IF i \in at THEN Raw ELSE c[i]]

LEMMA WithVec ==
  ASSUME NEW f \in AllVecs, NEW x \in Maps, NEW y \in Vecs
  PROVE  /\ With(f, x, y) \in AllVecs /\ With(f, x, y)[x] = y
         /\ \A z \in Maps : z # x => With(f, x, y)[z] = f[z]
BY DEF With, AllVecs

LEMMA WithCell ==
  ASSUME NEW f \in AllCells, NEW x \in Blocks, NEW y \in Seq(Cells)
  PROVE  /\ With(f, x, y) \in AllCells /\ With(f, x, y)[x] = y
         /\ \A z \in Blocks : z # x => With(f, x, y)[z] = f[z]
BY DEF With, AllCells

LEMMA SizedIs ==
  ASSUME NEW d, NEW n
  PROVE  /\ Sized(d, n).size = n /\ Sized(d, n).capacity = d.capacity
         /\ Sized(d, n).data = d.data
         /\ (d \in Vecs /\ n \in Nat => Sized(d, n) \in Vecs)
         /\ (d \in Vecs => [d EXCEPT !.size = n] = Sized(d, n))
BY DEF Sized, Vecs

LEMMA ClearedIs ==
  ASSUME NEW c \in Seq(Cells), NEW at
  PROVE  /\ Cleared(c, at) \in Seq(Cells) /\ Len(Cleared(c, at)) = Len(c)
         /\ Tuple(Cleared(c, at)) = Cleared(c, at)
         /\ \A i \in 1..Len(c) : Cleared(c, at)[i] = IF i \in at THEN Raw ELSE c[i]
<1>2. DOMAIN c = 1..Len(c) /\ Len(c) \in Nat /\ \A i \in 1..Len(c) : c[i] \in Cells
  OBVIOUS
<1>3. /\ Cleared(c, at) \in [1..Len(c) -> Cells]
      /\ \A i \in 1..Len(c) : Cleared(c, at)[i] = IF i \in at THEN Raw ELSE c[i]
  BY <1>2, RawIs DEF Cleared
<1> QED BY <1>2, <1>3, TupleIs

LEMMA Parts ==
  ASSUME NEW V, NEW C, NEW unpaired
  PROVE  /\ Memory(V, C, unpaired).vec = V /\ Memory(V, C, unpaired).cell = C
         /\ Memory(V, C, unpaired).unpaired = unpaired /\ Memory(V, C, unpaired).fault = Clean
BY DEF Memory

SetCell(m, b, c) == [m EXCEPT !.cell[b] = c]
SetVec(m, v, e) == [m EXCEPT !.vec[v] = e]
SetSize(m, v, n) == [m EXCEPT !.vec[v].size = n]

LEMMA Edits ==
  ASSUME NEW V, NEW C, NEW unpaired, NEW b, NEW c
  PROVE  /\ SetCell(Memory(V, C, unpaired), b, c) = Memory(V, With(C, b, c), unpaired)
         /\ SetVec(Memory(V, C, unpaired), b, c) = Memory(With(V, b, c), C, unpaired)
BY DEF Memory, With, SetCell, SetVec

SetTwo(m, b, c, x, y) == [m EXCEPT !.cell[b] = c, !.cell[x] = y]

LEMMA EditTwo ==
  ASSUME NEW V, NEW C, NEW unpaired, NEW b, NEW c, NEW x, NEW y
  PROVE  SetTwo(Memory(V, C, unpaired), b, c, x, y)
            = Memory(V, With(With(C, b, c), x, y), unpaired)
<1> DEFINE m == Memory(V, C, unpaired)
           D == With(C, b, c)
<1>1. SetTwo(m, b, c, x, y) = SetCell(SetCell(m, b, c), x, y)
  BY DEF SetCell, SetTwo
<1>2. SetCell(m, b, c) = Memory(V, D, unpaired)
  BY Edits
<1> HIDE DEF D
<1>3. SetCell(Memory(V, D, unpaired), x, y) = Memory(V, With(D, x, y), unpaired)
  BY Edits
<1> QED BY <1>1, <1>2, <1>3 DEF D

LEMMA Relocated ==
  ASSUME NEW d \in Vecs, NEW b, NEW n
  PROVE  [d EXCEPT !.data = b, !.capacity = n]
            = [size |-> d.size, capacity |-> n, data |-> b]
<1>1. [d EXCEPT !.data = b] = [size |-> d.size, capacity |-> d.capacity, data |-> b]
  BY DEF Vecs
<1>2. [d EXCEPT !.data = b, !.capacity = n] = [[d EXCEPT !.data = b] EXCEPT !.capacity = n]
  OBVIOUS
<1>3. PICK p, q : p = d.size /\ q = d.capacity
  OBVIOUS
<1>4. [[size |-> p, capacity |-> q, data |-> b] EXCEPT !.capacity = n]
        = [size |-> p, capacity |-> n, data |-> b]
  OBVIOUS
<1> QED BY <1>1, <1>2, <1>3, <1>4

LEMMA EditSize ==
  ASSUME NEW V \in AllVecs, NEW C, NEW unpaired, NEW v \in Maps, NEW n
  PROVE  SetSize(Memory(V, C, unpaired), v, n)
            = Memory(With(V, v, Sized(V[v], n)), C, unpaired)
<1>1. [V[v] EXCEPT !.size = n] = Sized(V[v], n)
  BY SizedIs DEF AllVecs
<1>3. [V EXCEPT ![v].size = n] = With(V, v, Sized(V[v], n))
  BY <1>1 DEF With
<1>4. SetSize(Memory(V, C, unpaired), v, n) = Memory([V EXCEPT ![v].size = n], C, unpaired)
  BY DEF Memory, SetSize
<1> QED BY <1>3, <1>4

LEMMA MemoryIs ==
  ASSUME NEW m, MemSound(m)
  PROVE  /\ m = Memory(m.vec, m.cell, m.unpaired)
         /\ m.vec \in AllVecs /\ m.cell \in AllCells
BY DEF MemSound, MemShape

(* m with the cells C, and with the vector e of v as well.                 *)
Celled(m, C) == Memory(m.vec, C, m.unpaired)
Stepped(m, v, e, C, unpaired) == Memory(With(m.vec, v, e), C, unpaired)

LEMMA SetSizeIs ==
  ASSUME NEW m, MemSound(m), NEW v \in Maps, NEW C, NEW n
  PROVE  SetSize(Celled(m, C), v, n) = Stepped(m, v, Sized(m.vec[v], n), C, m.unpaired)
<1>1. m.vec \in AllVecs
  BY MemoryIs
<1>2. PICK V \in AllVecs : V = m.vec
  BY <1>1
<1>3. SetSize(Memory(V, C, m.unpaired), v, n)
        = Memory(With(V, v, Sized(V[v], n)), C, m.unpaired)
  BY EditSize
<1> QED BY <1>2, <1>3 DEF Celled, Stepped

(* What may become of v and the cells in a step of v.                      *)
Allowed(m, v, e, C) ==
    /\ e \in Vecs /\ C \in AllCells /\ SoundVec(e, C[e.data], C[v], v)
    /\ \A b \in Blocks : b \notin {v, m.vec[v].data, e.data} => C[b] = m.cell[b]
    /\ e.data \in {v, m.vec[v].data} \/ m.cell[e.data] = <<>>
    /\ m.vec[v].data \in Heap /\ e.data # m.vec[v].data => C[m.vec[v].data] = <<>>

(* A step of v that gives it the vector e and changes the cells to C.      *)
LEMMA Put ==
  ASSUME NEW m, MemSound(m), NEW v \in Maps, NEW e, NEW C, NEW unpaired,
         Allowed(m, v, e, C),
         NEW t, t = Stepped(m, v, e, C, unpaired)
  PROVE  /\ MemSound(t) /\ t.vec[v] = e /\ t.cell = C /\ t.unpaired = unpaired
         /\ \A w \in Maps : w # v => KeepsVec(m, t, w)
<1>0. e \in Vecs /\ C \in AllCells /\ SoundVec(e, C[e.data], C[v], v)
  BY DEF Allowed
<1>1. t.vec = With(m.vec, v, e) /\ t.cell = C /\ t.unpaired = unpaired
  BY Parts DEF Stepped
<1>2. m.vec \in AllVecs
  BY MemoryIs
<1>3. /\ t.vec \in AllVecs /\ t.vec[v] = e
      /\ \A w \in Maps : w # v => t.vec[w] = m.vec[w]
  BY <1>0, <1>1, <1>2, WithVec
<1>4. t = Memory(t.vec, t.cell, t.unpaired)
  BY <1>1 DEF Stepped
<1>5. MemShape(t)
  BY <1>0, <1>1, <1>3, <1>4 DEF MemShape
<1>6. VecSound(t, v)
  BY <1>0, <1>1, <1>3 DEF VecSound
<1>7. \A b \in Blocks : b \notin {v, m.vec[v].data, t.vec[v].data}
                             => t.cell[b] = m.cell[b]
  BY <1>1, <1>3 DEF Allowed
<1>8. t.vec[v].data \in {v, m.vec[v].data} \/ m.cell[t.vec[v].data] = <<>>
  BY <1>3 DEF Allowed
<1>9. m.vec[v].data \in Heap /\ t.vec[v].data # m.vec[v].data
            => t.cell[m.vec[v].data] = <<>>
  BY <1>1, <1>3 DEF Allowed
<1>10. MemSound(t) /\ \A w \in Maps : w # v => KeepsVec(m, t, w)
  BY <1>3, <1>5, <1>6, <1>7, <1>8, <1>9, MemStep
<1> QED BY <1>1, <1>3, <1>10

(* Destructors of cells that hold objects.                                 *)
LEMMA DestroyIs ==
  ASSUME NEW m, MemSound(m), NEW b \in Blocks, NEW at, \A i \in at : m.cell[b][i] # Raw
  PROVE  Destroy(m, b, at) = Celled(m, With(m.cell, b, Cleared(m.cell[b], at)))
<1>1. m = Memory(m.vec, m.cell, m.unpaired) /\ m.cell[b] \in Seq(Cells)
  BY MemoryIs DEF AllCells
<1>2. Tuple(Cleared(m.cell[b], at)) = Cleared(m.cell[b], at)
  BY <1>1, ClearedIs
<1>7. Destroy(m, b, at) = SetCell(m, b, Cleared(m.cell[b], at))
  BY <1>2 DEF Destroy, Cleared, SetCell
<1>8. PICK V, C, tw, c : /\ V = m.vec /\ C = m.cell /\ tw = m.unpaired
                         /\ c = Cleared(m.cell[b], at)
  OBVIOUS
<1>9. SetCell(Memory(V, C, tw), b, c) = Memory(V, With(C, b, c), tw)
  BY Edits
<1> QED BY <1>1, <1>7, <1>8, <1>9 DEF Celled

(* v with n elements, in the same block with the cells c.                  *)
Refilled(m, v, n, c, unpaired) ==
    Stepped(m, v, Sized(m.vec[v], n), With(m.cell, m.vec[v].data, c), unpaired)

LEMMA SameBlock ==
  ASSUME NEW m, MemSound(m), NEW v \in Maps, NEW c \in Seq(Cells), NEW n, NEW unpaired,
         Len(c) = m.vec[v].capacity, Filled(c, n),
         NEW t, t = Refilled(m, v, n, c, unpaired)
  PROVE  /\ MemSound(t) /\ t.unpaired = unpaired /\ t.cell[t.vec[v].data] = c
         /\ t.vec[v] = Sized(m.vec[v], n)
         /\ \A w \in Maps : w # v => KeepsVec(m, t, w)
<1> DEFINE d == m.vec[v]
           b == d.data
           e == Sized(d, n)
           C == With(m.cell, b, c)
<1>0. n \in Nat
  BY DEF Filled
<1>1. /\ b \in Blocks /\ d.size \in Nat /\ d.capacity \in Nat /\ VecSound(m, v)
      /\ v \in Blocks /\ v \notin Heap /\ d \in Vecs
  BY VecFacts
<1>2. SoundVec(d, m.cell[b], m.cell[v], v)
  BY <1>1 DEF VecSound
<1>3. m.vec \in AllVecs /\ m.cell \in AllCells
  BY MemoryIs
<1>4. e \in Vecs /\ e.size = n /\ e.capacity = d.capacity /\ e.data = b
  BY <1>0, <1>1, SizedIs
<1>5. C \in AllCells /\ C[b] = c /\ \A x \in Blocks : x # b => C[x] = m.cell[x]
  BY <1>1, <1>3, WithCell
<1>6. b \in Heap \cup {v} /\ d.capacity = Len(m.cell[b])
  BY <1>2 DEF SoundVec
<1>7. Len(C[v]) = N /\ (b # v => \A i \in 1..N : C[v][i] = Raw)
  <2>1. Len(m.cell[v]) = N /\ (b # v => \A i \in 1..N : m.cell[v][i] = Raw)
    BY <1>2 DEF SoundVec
  <2>2. CASE b = v
    BY <1>5, <1>6, <2>1, <2>2
  <2>3. CASE b # v
    BY <1>1, <1>5, <2>1, <2>3
  <2> QED BY <2>2, <2>3
<1>9. t = Stepped(m, v, e, C, unpaired) /\ b = m.vec[v].data
  BY DEF Refilled
<1> HIDE DEF b, e, C
<1>8. SoundVec(e, C[e.data], C[v], v)
  BY <1>4, <1>5, <1>6, <1>7 DEF SoundVec
<1>10. Allowed(m, v, e, C)
  BY <1>4, <1>5, <1>8, <1>9 DEF Allowed
<1>12. /\ MemSound(t) /\ t.vec[v] = e /\ t.cell = C /\ t.unpaired = unpaired
       /\ \A w \in Maps : w # v => KeepsVec(m, t, w)
  BY <1>9, <1>10, Put
<1>13. t.cell[t.vec[v].data] = c
  BY <1>4, <1>5, <1>12
<1> QED BY <1>12, <1>13 DEF e

LEMMA ClearIs ==
  ASSUME NEW m, MemSound(m), NEW v \in Maps
  PROVE  /\ MemSound(clear(m, v)) /\ clear(m, v).unpaired = m.unpaired
         /\ clear(m, v).vec[v] = Sized(m.vec[v], 0)
         /\ \A w \in Maps : w # v => KeepsVec(m, clear(m, v), w)
<1> DEFINE d == m.vec[v]
           b == d.data
           at == 1..d.size
           c == Cleared(m.cell[b], at)
<1>1. /\ b \in Blocks /\ d.size \in Nat /\ d.capacity \in Nat
      /\ SoundVec(d, m.cell[b], m.cell[v], v) /\ m.cell[b] \in Seq(Cells)
  BY VecFacts DEF VecSound
<1>2. /\ m = Memory(m.vec, m.cell, m.unpaired) /\ m.vec \in AllVecs
  BY MemoryIs
<1>0. d.capacity = Len(m.cell[b]) /\ Filled(m.cell[b], d.size)
  BY <1>1 DEF SoundVec
<1>3. \A i \in at : m.cell[b][i] # Raw
  BY <1>0, RawIs DEF Filled
<1>4. clear(m, v) = SetSize(Destroy(m, b, at), v, 0)
  BY DEF clear, SetSize
<1> HIDE DEF b, at, c
<1>5. Destroy(m, b, at) = Celled(m, With(m.cell, b, c))
  BY <1>1, <1>3, DestroyIs DEF c
<1>7. clear(m, v) = Refilled(m, v, 0, c, m.unpaired)
  BY <1>4, <1>5, SetSizeIs DEF b, Refilled
<1>8. /\ c \in Seq(Cells) /\ Len(c) = Len(m.cell[b])
      /\ \A i \in 1..Len(m.cell[b]) : c[i] = IF i \in at THEN Raw ELSE m.cell[b][i]
  BY <1>1, ClearedIs DEF c
<1>9. Filled(c, 0)
  BY <1>0, <1>8 DEF Filled, at
<1>10. Len(c) = m.vec[v].capacity
  BY <1>0, <1>8
<1> QED BY <1>7, <1>8, <1>9, <1>10, SameBlock

LEMMA SetVecIs ==
  ASSUME NEW m, NEW v, NEW C, NEW e
  PROVE  SetVec(Celled(m, C), v, e) = Stepped(m, v, e, C, m.unpaired)
<1>1. PICK V, tw : V = m.vec /\ tw = m.unpaired
  OBVIOUS
<1>2. SetVec(Memory(V, C, tw), v, e) = Memory(With(V, v, e), C, tw)
  BY Edits
<1> QED BY <1>1, <1>2 DEF Celled, Stepped

(* The cells once the block of v, if it is one of the heap, is freed.      *)
Freed(m, v, C) ==
    IF m.vec[v].data = v THEN C ELSE With(C, m.vec[v].data, <<>>)

LEMMA DeallocateIs ==
  ASSUME NEW m, NEW v, NEW C, C[m.vec[v].data] \in Seq(Cells), Filled(C[m.vec[v].data], 0)
  PROVE  DeallocateIfHeap(Celled(m, C), v) = Celled(m, Freed(m, v, C))
<1> DEFINE b == m.vec[v].data
           c == C[b]
           s == Celled(m, C)
<1>1. s.vec = m.vec /\ s.cell = C
  BY Parts DEF Celled
<1>2. CASE b = v
  BY <1>1, <1>2 DEF DeallocateIfHeap, IsInline, Freed
<1>3. CASE b # v
  <2>1. DOMAIN c = 1..Len(c) /\ Len(c) \in Nat /\ Len(c) > 0
    BY DEF Filled
  <2>2. 1 \in DOMAIN c /\ \A i \in DOMAIN c : c[i] = Raw
    BY <2>1 DEF Filled
  <2>3. c # <<>> /\ Range(c) = {Raw}
    BY <2>1, <2>2 DEF Range
  <2>4. DeallocateIfHeap(s, v) = SetCell(s, b, <<>>)
    BY <1>1, <1>3, <2>3 DEF DeallocateIfHeap, IsInline, Release, SetCell
  <2>5. PICK V, tw : V = m.vec /\ tw = m.unpaired
    OBVIOUS
  <2> HIDE DEF b
  <2>6. SetCell(Memory(V, C, tw), b, <<>>) = Memory(V, With(C, b, <<>>), tw)
    BY Edits
  <2>7. Freed(m, v, C) = With(C, b, <<>>)
    BY <1>3 DEF Freed, b
  <2> QED BY <2>4, <2>5, <2>6, <2>7 DEF Celled
<1> QED BY <1>2, <1>3

LEMMA FreedIs ==
  ASSUME NEW m, NEW v, NEW C \in AllCells, m.vec[v].data \in Blocks, v \in Blocks
  PROVE  /\ Freed(m, v, C) \in AllCells
         /\ (m.vec[v].data # v => Freed(m, v, C)[m.vec[v].data] = <<>>)
         /\ \A b \in Blocks : b # m.vec[v].data \/ b = v => Freed(m, v, C)[b] = C[b]
<1>1. <<>> \in Seq(Cells)
  OBVIOUS
<1> DEFINE b == m.vec[v].data
<1>2. /\ With(C, b, <<>>) \in AllCells /\ With(C, b, <<>>)[b] = <<>>
      /\ \A z \in Blocks : z # b => With(C, b, <<>>)[z] = C[z]
  BY <1>1, WithCell, ZenonT(40)
<1> QED BY <1>2 DEF Freed

(* ~InlinedVector, and the beginning of a move.                            *)
LEMMA DestructIs ==
  ASSUME NEW m, MemSound(m), NEW v \in Maps
  PROVE  /\ MemSound(Destruct(m, v)) /\ Destruct(m, v).vec[v] = InlineVector(v)
         /\ Destruct(m, v).unpaired = m.unpaired
         /\ \A w \in Maps : w # v => KeepsVec(m, Destruct(m, v), w)
<1> DEFINE s == clear(m, v)
           b == s.vec[v].data
           C == Freed(s, v, s.cell)
           e == InlineVector(v)
           t == Destruct(m, v)
<1>1. /\ MemSound(s) /\ s.vec[v].size = 0 /\ s.unpaired = m.unpaired
      /\ \A w \in Maps : w # v => KeepsVec(m, s, w)
  BY ClearIs, SizedIs
<1>2. t = SetVec(DeallocateIfHeap(s, v), v, e)
  BY DEF Destruct, SetVec
<1> HIDE DEF s, t, e
<1>3. /\ s = Celled(s, s.cell) /\ s.cell \in AllCells
  BY <1>1, MemoryIs DEF Celled
<1>4. /\ b \in Blocks /\ v \in Blocks /\ v \notin Heap
      /\ SoundVec(s.vec[v], s.cell[b], s.cell[v], v) /\ s.cell[b] \in Seq(Cells)
      /\ s.cell[v] \in Seq(Cells)
  BY <1>1, VecFacts DEF VecSound
<1>5. Filled(s.cell[b], 0) /\ Len(s.cell[v]) = N /\ (b # v => \A i \in 1..N : s.cell[v][i] = Raw)
  BY <1>1, <1>4 DEF SoundVec
<1>6. e \in Vecs /\ N \in Nat /\ N > 0 /\ e.data = v /\ e.size = 0 /\ e.capacity = N
  BY <1>4, SmallMapAssumption DEF InlineVector, Vecs, e
<1>7. Filled(s.cell[v], 0)
  <2>1. CASE b = v
    BY <1>5, <2>1
  <2>2. CASE b # v
    BY <1>5, <1>6, <2>2 DEF Filled
  <2> QED BY <2>1, <2>2
<1>8. /\ C \in AllCells /\ (b # v => C[b] = <<>>) /\ C[v] = s.cell[v]
      /\ \A x \in Blocks : x # b => C[x] = s.cell[x]
  BY <1>3, <1>4, FreedIs
<1>9. DeallocateIfHeap(s, v) = Celled(s, C)
  BY <1>3, <1>4, <1>5, DeallocateIs
<1> HIDE DEF C
<1>10. t = Stepped(s, v, e, C, s.unpaired)
  BY <1>2, <1>9, SetVecIs
<1>11. SoundVec(e, C[e.data], C[v], v)
  BY <1>5, <1>6, <1>7, <1>8 DEF SoundVec
<1>12. Allowed(s, v, e, C)
  BY <1>4, <1>6, <1>8, <1>11 DEF Allowed
<1>13. /\ MemSound(t) /\ t.vec[v] = e /\ t.unpaired = s.unpaired
       /\ \A w \in Maps : w # v => KeepsVec(s, t, w)
  BY <1>1, <1>10, <1>12, Put
<1>14. \A w \in Maps : w # v => KeepsVec(m, t, w)
  BY <1>1, <1>13 DEF KeepsVec
<1> QED BY <1>1, <1>13, <1>14 DEF t, e

(* Reallocate finds a block: every allocated one has an owner, and there   *)
(* are more blocks than owners.                                            *)
LEMMA FreeBlock ==
  ASSUME NEW m, MemSound(m)
  PROVE  \E b \in Heap : m.cell[b] = <<>>
<1> SUFFICES ASSUME \A b \in Heap : m.cell[b] # <<>> PROVE FALSE
  OBVIOUS
<1>1. \A b \in Heap : \E v \in Maps : m.vec[v].data = b
  BY DEF MemSound
<1> DEFINE f == [b \in Heap |-> CHOOSE v \in Maps : m.vec[v].data = b]
<1>2. \A b \in Heap : f[b] \in Maps /\ m.vec[f[b]].data = b
  BY <1>1
<1>3. f \in [Heap -> Maps]
  BY <1>2
<1>4. IsFiniteSet(Heap) /\ IsFiniteSet(Maps) /\ Cardinality(Maps) < Cardinality(Heap)
  <2>1. Cardinality(Heap) \in Nat /\ Cardinality(Maps) \in Nat
    BY SmallMapAssumption, FS_CardinalityType
  <2> QED BY <2>1, SmallMapAssumption
<1> HIDE DEF f
<1>5. \E b, c \in Heap : b # c /\ f[b] = f[c]
  BY <1>3, <1>4, FS_PigeonHole
<1> QED BY <1>2, <1>5

FreshBlock(m) == CHOOSE b \in Heap : /\ m.cell[b] = <<>>
                                     /\ \A c \in Heap : m.cell[c] = <<>> => b <= c

LEMMA FreshBlockIs ==
  ASSUME NEW m, MemSound(m)
  PROVE  FreshBlock(m) \in Heap /\ m.cell[FreshBlock(m)] = <<>>
<1> DEFINE T == {b \in Heap : m.cell[b] = <<>>}
<1>1. T \subseteq Nat /\ T # {}
  BY FreeBlock, SmallMapAssumption
<1>2. PICK b \in T : \A c \in T : b <= c
  BY <1>1, LeastNatural
<1>3. \E x \in Heap : m.cell[x] = <<>> /\ \A c \in Heap : m.cell[c] = <<>> => x <= c
  BY <1>2
<1> QED BY <1>3 DEF FreshBlock

(* The elements of v are where they were, whichever block they are in.     *)
SameElems(m, t, v) ==
    /\ t.vec[v].size = m.vec[v].size
    /\ \A i \in 1..m.vec[v].size : t.cell[t.vec[v].data][i] = m.cell[m.vec[v].data][i]

Filling(m, v, n) == [i \in 1..n |-> IF i <= m.vec[v].size
                                    THEN m.cell[m.vec[v].data][i] ELSE Raw]

LEMMA FillingIs ==
  ASSUME NEW m, MemSound(m), NEW v \in Maps, NEW n \in Nat, n > 0, m.vec[v].size <= n
  PROVE  /\ Filling(m, v, n) \in Seq(Cells) /\ Tuple(Filling(m, v, n)) = Filling(m, v, n)
         /\ Len(Filling(m, v, n)) = n /\ Filled(Filling(m, v, n), m.vec[v].size)
         /\ \A i \in 1..m.vec[v].size : Filling(m, v, n)[i] = m.cell[m.vec[v].data][i]
<1> DEFINE d == m.vec[v]
           c == m.cell[d.data]
           f == Filling(m, v, n)
<1>1. d.size \in Nat /\ Filled(c, d.size)
  BY VecFacts DEF VecSound, SoundVec
<1>2. \A i \in 1..d.size : c[i] \in Objs
  BY <1>1 DEF Filled
<1>3. f \in [1..n -> Cells]
  BY <1>1, <1>2, RawIs DEF Filling
<1>4. Tuple(f) = f /\ f \in Seq(Cells) /\ Len(f) = n
  BY <1>3, TupleIs
<1>5. \A i \in 1..d.size : f[i] = c[i]
  BY <1>1 DEF Filling
<1>6. \A i \in (d.size + 1)..n : f[i] = Raw
  BY <1>1 DEF Filling
<1>7. Filled(f, d.size)
  BY <1>1, <1>2, <1>4, <1>5, <1>6 DEF Filled
<1> QED BY <1>4, <1>5, <1>7

LEMMA ReallocateIs ==
  ASSUME NEW m, MemSound(m), NEW v \in Maps, NEW n \in Nat, n > 0, m.vec[v].size <= n
  PROVE  /\ MemSound(Reallocate(m, v, n)) /\ Reallocate(m, v, n).unpaired = m.unpaired
         /\ Reallocate(m, v, n).vec[v].capacity = n
         /\ SameElems(m, Reallocate(m, v, n), v)
         /\ \A w \in Maps : w # v => KeepsVec(m, Reallocate(m, v, n), w)
<1> DEFINE d == m.vec[v]
           b == d.data
           new == FreshBlock(m)
           f == Filling(m, v, n)
           bl == Blank(Len(m.cell[b]))
           C1 == With(m.cell, new, f)
           C2 == With(C1, b, bl)
           C == Freed(m, v, C2)
           e == [size |-> d.size, capacity |-> n, data |-> new]
           t == Reallocate(m, v, n)
<1>1. /\ b \in Blocks /\ d.size \in Nat /\ d.capacity \in Nat /\ d \in Vecs
      /\ SoundVec(d, m.cell[b], m.cell[v], v) /\ m.cell[b] \in Seq(Cells)
      /\ v \in Blocks /\ v \notin Heap /\ m.cell[b] # <<>>
  BY VecFacts DEF VecSound
<1>2. /\ m = Memory(m.vec, m.cell, m.unpaired) /\ m.cell \in AllCells /\ m.vec \in AllVecs
  BY MemoryIs
<1>3. new \in Heap /\ m.cell[new] = <<>> /\ new \in Blocks
  BY FreshBlockIs DEF Blocks
<1>4. new # b /\ new # v
  BY <1>1, <1>3
<1>5. /\ f \in Seq(Cells) /\ Tuple(f) = f /\ Len(f) = n /\ Filled(f, d.size)
      /\ \A i \in 1..d.size : f[i] = m.cell[b][i]
  BY FillingIs
<1>6. /\ Len(m.cell[b]) \in Nat /\ Len(m.cell[b]) > 0 /\ Len(m.cell[v]) = N
      /\ (b # v => \A i \in 1..N : m.cell[v][i] = Raw)
  BY <1>1 DEF SoundVec, Filled
<1>7. /\ bl \in Seq(Cells) /\ Len(bl) = Len(m.cell[b]) /\ Filled(bl, 0)
      /\ \A i \in 1..Len(m.cell[b]) : bl[i] = Raw
  <2>1. PICK k \in Nat : k = Len(m.cell[b])
    BY <1>6
  <2>2. Blank(k) \in Seq(Cells) /\ Len(Blank(k)) = k /\ \A i \in 1..k : Blank(k)[i] = Raw
    BY BlankIs
  <2>3. Filled(Blank(k), 0)
    BY <1>6, <2>1, <2>2, SMTT(30) DEF Filled
  <2> QED BY <2>1, <2>2, <2>3
<1> HIDE DEF b, f, bl, e, new
<1>8. C1 \in AllCells /\ C1[new] = f /\ \A x \in Blocks : x # new => C1[x] = m.cell[x]
  BY <1>2, <1>3, <1>5, WithCell
<1> HIDE DEF C1
<1>9. C2 \in AllCells /\ C2[b] = bl /\ \A x \in Blocks : x # b => C2[x] = C1[x]
  BY <1>1, <1>7, <1>8, WithCell
<1> HIDE DEF C2
<1>10. /\ C \in AllCells /\ (b # v => C[b] = <<>>) /\ C[v] = C2[v]
       /\ \A x \in Blocks : x # b => C[x] = C2[x]
  BY <1>1, <1>9, FreedIs DEF b
<1>11. DeallocateIfHeap(Celled(m, C2), v) = Celled(m, C)
  BY <1>7, <1>9, DeallocateIs DEF b
<1> HIDE DEF C
<1>12. e \in Vecs /\ e.size = d.size /\ e.capacity = n /\ e.data = new
  BY <1>1, <1>3 DEF e, Vecs
<1>13. t = SetVec(Celled(m, C), v, e)
  <2>1. PICK V, K, tw : V = m.vec /\ K = m.cell /\ tw = m.unpaired
    OBVIOUS
  <2>2. m = Memory(V, K, tw)
    BY <1>2, <2>1
  <2>3. SetTwo(Memory(V, K, tw), new, f, b, bl)
          = Memory(V, With(With(K, new, f), b, bl), tw)
    BY EditTwo
  <2>4. [m EXCEPT !.cell[new] = f, !.cell[b] = bl] = Celled(m, C2)
    BY <2>1, <2>2, <2>3 DEF Celled, C2, C1, SetTwo
  <2>5. Tuple(f) = Tuple([i \in 1..n |-> IF i <= d.size THEN m.cell[d.data][i] ELSE Raw])
    BY DEF f, Filling
  <2> DEFINE s == DeallocateIfHeap([m EXCEPT !.cell[new] = Tuple(f), !.cell[b] = bl], v)
  <2>6. t = [s EXCEPT !.vec[v] = [@ EXCEPT !.data = new, !.capacity = n]]
    BY <2>5 DEF Reallocate, FreshBlock, b, bl, new
  <2>7. s = Celled(m, C)
    BY <1>5, <1>11, <2>4
  <2>8. s.vec = m.vec
    BY <2>7, Parts DEF Celled
  <2> HIDE DEF s
  <2>9. t = [s EXCEPT !.vec[v] = [s.vec[v] EXCEPT !.data = new, !.capacity = n]]
    BY <2>6
  <2>10. [d EXCEPT !.data = new, !.capacity = n] = e
    BY <1>1, Relocated DEF e
  <2> QED BY <2>7, <2>8, <2>9, <2>10 DEF SetVec
<1>14. t = Stepped(m, v, e, C, m.unpaired)
  BY <1>13, SetVecIs
<1>15. C[new] = f
  BY <1>3, <1>4, <1>8, <1>9, <1>10
<1>16. Len(C[v]) = N /\ \A i \in 1..N : C[v][i] = Raw
  <2>1. CASE b = v
    BY <1>6, <1>7, <1>9, <1>10, <2>1
  <2>2. CASE b # v
    BY <1>1, <1>4, <1>6, <1>8, <1>9, <1>10, <2>2
  <2> QED BY <2>1, <2>2
<1>17. SoundVec(e, C[e.data], C[v], v)
  BY <1>3, <1>5, <1>12, <1>15, <1>16 DEF SoundVec
<1>18. b = m.vec[v].data
  BY DEF b
<1> HIDE DEF t
<1>19. \A x \in Blocks : x \notin {v, b, new} => C[x] = m.cell[x]
  BY <1>8, <1>9, <1>10
<1>20. Allowed(m, v, e, C)
  BY <1>1, <1>3, <1>10, <1>12, <1>17, <1>18, <1>19 DEF Allowed
<1>21. /\ MemSound(t) /\ t.vec[v] = e /\ t.cell = C /\ t.unpaired = m.unpaired
       /\ \A w \in Maps : w # v => KeepsVec(m, t, w)
  BY <1>14, <1>20, Put
<1>22. t.vec[v].size = m.vec[v].size /\ t.cell[t.vec[v].data] = f
  BY <1>12, <1>15, <1>21
<1>23. SameElems(m, t, v)
  BY <1>5, <1>18, <1>22 DEF SameElems
<1> QED BY <1>12, <1>21, <1>23 DEF t

LEMMA ReserveIs ==
  ASSUME NEW m, MemSound(m), NEW v \in Maps, NEW n \in Nat
  PROVE  /\ MemSound(reserve(m, v, n)) /\ reserve(m, v, n).unpaired = m.unpaired
         /\ n <= reserve(m, v, n).vec[v].capacity
         /\ SameElems(m, reserve(m, v, n), v)
         /\ \A w \in Maps : w # v => KeepsVec(m, reserve(m, v, n), w)
<1>1. m.vec[v].size \in Nat /\ m.vec[v].capacity \in Nat /\ m.vec[v].size <= m.vec[v].capacity
  BY VecFacts
<1>2. CASE n <= m.vec[v].capacity
  BY <1>2 DEF reserve, SameElems, KeepsVec
<1>3. CASE ~(n <= m.vec[v].capacity)
  <2>1. n > 0 /\ m.vec[v].size <= n /\ reserve(m, v, n) = Reallocate(m, v, n)
    BY <1>1, <1>3 DEF reserve
  <2> QED BY <2>1, ReallocateIs
<1> QED BY <1>2, <1>3

(* The block of v before an element is added has room for it.              *)
LEMMA GrowIs ==
  ASSUME NEW m, MemSound(m), NEW v \in Maps
  PROVE  LET g == IF m.vec[v].size = m.vec[v].capacity THEN Grow(m, v) ELSE m
         IN  /\ MemSound(g) /\ g.unpaired = m.unpaired /\ g.vec[v].size < g.vec[v].capacity
             /\ SameElems(m, g, v) /\ \A w \in Maps : w # v => KeepsVec(m, g, w)
<1>1. /\ m.vec[v].size \in Nat /\ m.vec[v].capacity \in Nat /\ m.vec[v].size <= m.vec[v].capacity
      /\ m.vec[v].capacity > 0
  BY VecFacts, VecFills
<1>2. CASE m.vec[v].size # m.vec[v].capacity
  BY <1>1, <1>2 DEF SameElems, KeepsVec
<1>3. CASE m.vec[v].size = m.vec[v].capacity
  <2> DEFINE n == 2 * m.vec[v].capacity
  <2>1. n \in Nat /\ n > 0 /\ m.vec[v].size <= n /\ m.vec[v].size < n
    BY <1>1, <1>3
  <2>2. Grow(m, v) = Reallocate(m, v, n)
    BY DEF Grow
  <2> HIDE DEF n
  <2>3. /\ MemSound(Grow(m, v)) /\ Grow(m, v).unpaired = m.unpaired
        /\ Grow(m, v).vec[v].capacity = n /\ SameElems(m, Grow(m, v), v)
        /\ \A w \in Maps : w # v => KeepsVec(m, Grow(m, v), w)
    BY <2>1, <2>2, ReallocateIs
  <2>4. Grow(m, v).vec[v].size < Grow(m, v).vec[v].capacity
    BY <2>1, <2>3 DEF SameElems
  <2> QED BY <1>3, <2>3, <2>4
<1> QED BY <1>2, <1>3

LEMMA SetCellIs ==
  ASSUME NEW m, MemSound(m), NEW b, NEW c
  PROVE  SetCell(m, b, c) = Celled(m, With(m.cell, b, c))
<1>1. m = Memory(m.vec, m.cell, m.unpaired)
  BY MemoryIs
<1>2. PICK V, C, tw : V = m.vec /\ C = m.cell /\ tw = m.unpaired
  OBVIOUS
<1>3. SetCell(Memory(V, C, tw), b, c) = Memory(V, With(C, b, c), tw)
  BY Edits
<1> QED BY <1>1, <1>2, <1>3 DEF Celled

LEMMA PushBackIs ==
  ASSUME NEW m, MemSound(m), NEW v \in Maps, NEW o \in Objs
  PROVE  LET t == push_back(m, v, o)
             n == m.vec[v].size + 1
         IN  /\ MemSound(t) /\ t.unpaired = m.unpaired /\ t.vec[v].size = n
             /\ t.cell[t.vec[v].data][n] = o
             /\ \A i \in 1..m.vec[v].size :
                   t.cell[t.vec[v].data][i] = m.cell[m.vec[v].data][i]
             /\ \A w \in Maps : w # v => KeepsVec(m, t, w)
<1> DEFINE g == IF m.vec[v].size = m.vec[v].capacity THEN Grow(m, v) ELSE m
           b == g.vec[v].data
           n == g.vec[v].size + 1
           c == With(g.cell[b], n, o)
           t == push_back(m, v, o)
<1>1. /\ MemSound(g) /\ g.unpaired = m.unpaired /\ g.vec[v].size < g.vec[v].capacity
      /\ SameElems(m, g, v) /\ \A w \in Maps : w # v => KeepsVec(m, g, w)
  BY GrowIs
<1>2. t = [Construct(g, g.vec[v].data, g.vec[v].size + 1, o) EXCEPT !.vec[v].size = @ + 1]
  BY DEF push_back
<1> HIDE DEF g, t
<1>3. /\ b \in Blocks /\ g.vec[v].size \in Nat /\ g.vec[v].capacity \in Nat
      /\ g.cell[b] \in Seq(Cells) /\ g.vec[v].capacity = Len(g.cell[b])
      /\ Filled(g.cell[b], g.vec[v].size) /\ g.cell \in AllCells
  BY <1>1, VecFacts, VecFills, MemoryIs
<1>4. PICK q \in Seq(Cells) : q = g.cell[b]
  BY <1>3
<1>5. n \in 1..Len(q) /\ DOMAIN q = 1..Len(q) /\ q[n] = Raw /\ n \in Nat /\ Len(q) \in Nat
  BY <1>1, <1>3, <1>4, SMTT(30) DEF Filled
<1>6. c \in Seq(Cells) /\ Len(c) = Len(q) /\ c[n] = o /\ \A i \in 1..Len(q) : i # n => c[i] = q[i]
  BY <1>4, <1>5, RawIs, SMTT(30) DEF With
<1>7. Construct(g, b, n, o) = SetCell(g, b, c)
  BY <1>4, <1>5 DEF Construct, SetCell, With
<1> DEFINE C == With(g.cell, b, c)
<1>8. SetCell(g, b, c) = Celled(g, C)
  BY <1>1, SetCellIs
<1>9. Celled(g, C).vec = g.vec
  BY Parts DEF Celled
<1>10. t = SetSize(Celled(g, C), v, n)
  BY <1>2, <1>7, <1>8, <1>9 DEF SetSize
<1>11. Filled(c, n)
  <2>1. Filled(q, g.vec[v].size) /\ g.vec[v].size < Len(q)
    BY <1>1, <1>3, <1>4
  <2>2. c[g.vec[v].size + 1] \in Objs
    BY <1>6
  <2> HIDE DEF c
  <2> QED BY <1>6, <2>1, <2>2, FilledMore
<1>12. t = Refilled(g, v, n, c, g.unpaired)
  BY <1>1, <1>10, SetSizeIs DEF Refilled
<1>13. Len(c) = g.vec[v].capacity
  BY <1>3, <1>4, <1>6
<1> HIDE DEF c, n, b, C
<1>14. /\ MemSound(t) /\ t.unpaired = g.unpaired /\ t.cell[t.vec[v].data] = c
       /\ t.vec[v] = Sized(g.vec[v], n)
       /\ \A w \in Maps : w # v => KeepsVec(g, t, w)
  BY <1>1, <1>6, <1>11, <1>12, <1>13, SameBlock
<1>15. t.vec[v].size = n /\ n = m.vec[v].size + 1
  BY <1>1, <1>14, SizedIs DEF n, SameElems
<1>16. \A i \in 1..m.vec[v].size : c[i] = m.cell[m.vec[v].data][i]
  <2> TAKE i \in 1..m.vec[v].size
  <2>1. m.vec[v].size \in Nat
    BY VecFacts
  <2>2. i \in 1..Len(q) /\ i # n
    BY <1>5, <1>15, <2>1
  <2>3. q[i] = m.cell[m.vec[v].data][i]
    BY <1>1, <1>4 DEF SameElems, b
  <2> QED BY <1>6, <2>2, <2>3
<1>17. \A w \in Maps : w # v => KeepsVec(m, t, w)
  BY <1>1, <1>14 DEF KeepsVec
<1> QED BY <1>1, <1>6, <1>14, <1>15, <1>16, <1>17 DEF t

LEMMA ElemsIs ==
  ASSUME NEW m, MemSound(m), NEW v \in Maps
  PROVE  /\ Elems(m, v) \in Seq(Objs) /\ Len(Elems(m, v)) = m.vec[v].size
         /\ \A i \in 1..m.vec[v].size : Elems(m, v)[i] = m.cell[m.vec[v].data][i]
<1>1. PICK c \in Seq(Cells) : c = m.cell[m.vec[v].data]
  BY VecFacts
<1>2. PICK n \in Nat : n = m.vec[v].size
  BY VecFacts
<1>3. n <= Len(c) /\ \A i \in 1..n : c[i] \in Objs
  BY <1>1, <1>2, VecFills DEF Filled
<1> DEFINE s == SubSeq(c, 1, n)
<1>4. s \in Seq(Cells) /\ Len(s) = n /\ \A i \in 1..n : s[i] = c[i]
  BY <1>3
<1>5. s \in Seq(Objs)
  BY <1>3, <1>4, SeqDef, LenProperties
<1>6. Elems(m, v) = s
  BY <1>1, <1>2 DEF Elems, Block
<1> QED BY <1>1, <1>2, <1>4, <1>5, <1>6

(* The cells c once the elements s are in front.                           *)
Fronted(c, s) == [i \in DOMAIN c |-> IF i \in 1..Len(s) THEN s[i] ELSE c[i]]

LEMMA FrontedIs ==
  ASSUME NEW c \in Seq(Cells), Filled(c, 0), NEW s \in Seq(Objs), Len(s) <= Len(c)
  PROVE  /\ Fronted(c, s) \in Seq(Cells) /\ Tuple(Fronted(c, s)) = Fronted(c, s)
         /\ Len(Fronted(c, s)) = Len(c) /\ Filled(Fronted(c, s), Len(s))
         /\ \A i \in 1..Len(s) : Fronted(c, s)[i] = s[i]
<1> DEFINE f == Fronted(c, s)
<1>1. /\ DOMAIN c = 1..Len(c) /\ Len(c) \in Nat /\ Len(s) \in Nat
      /\ \A i \in 1..Len(s) : s[i] \in Objs
  OBVIOUS
<1>2. Len(c) > 0 /\ \A i \in 1..Len(c) : c[i] = Raw
  BY DEF Filled
<1>3. f \in [1..Len(c) -> Cells]
  BY <1>1, <1>2, RawIs DEF Fronted
<1>4. Tuple(f) = f /\ f \in Seq(Cells) /\ Len(f) = Len(c)
  BY <1>1, <1>3, TupleIs
<1>5. \A i \in 1..Len(s) : f[i] = s[i]
  BY <1>1 DEF Fronted
<1>6. \A i \in (Len(s) + 1)..Len(c) : f[i] = Raw
  BY <1>1, <1>2 DEF Fronted
<1> HIDE DEF f
<1>7. Filled(f, Len(s))
  BY <1>1, <1>2, <1>4, <1>5, <1>6 DEF Filled
<1> QED BY <1>4, <1>5, <1>7 DEF f

LEMMA PushAllIs ==
  ASSUME NEW m, MemSound(m), NEW v \in Maps, m.vec[v].size = 0, NEW s \in Seq(Objs)
  PROVE  LET t == PushAll(m, v, s)
         IN  /\ MemSound(t) /\ t.unpaired = m.unpaired /\ t.vec[v].size = Len(s)
             /\ \A i \in 1..Len(s) : t.cell[t.vec[v].data][i] = s[i]
             /\ \A w \in Maps : w # v => KeepsVec(m, t, w)
<1> DEFINE r == reserve(m, v, Len(s))
           b == r.vec[v].data
           c == Fronted(r.cell[b], s)
           t == PushAll(m, v, s)
<1>0. Len(s) \in Nat
  OBVIOUS
<1>1. /\ MemSound(r) /\ r.unpaired = m.unpaired /\ Len(s) <= r.vec[v].capacity
      /\ SameElems(m, r, v) /\ \A w \in Maps : w # v => KeepsVec(m, r, w)
  BY <1>0, ReserveIs
<1>2. r.vec[v].size = 0
  BY <1>1 DEF SameElems
<1>3. t = LET f == IF \A i \in 1..Len(s) : i \in DOMAIN r.cell[b] /\ r.cell[b][i] = Raw
                   THEN r ELSE Fail(r)
          IN  [f EXCEPT !.cell[b] = Tuple(c), !.vec[v].size = Len(s)]
  BY DEF PushAll, Fronted
<1> HIDE DEF r, t
<1>4. /\ b \in Blocks /\ r.vec[v].capacity \in Nat
      /\ r.cell[b] \in Seq(Cells) /\ r.vec[v].capacity = Len(r.cell[b])
      /\ Filled(r.cell[b], 0)
  <2>1. Filled(r.cell[b], r.vec[v].size)
    BY <1>1, VecFills
  <2>2. Filled(r.cell[b], 0)
    BY <1>2, <2>1
  <2> QED BY <1>1, <2>2, VecFacts, VecFills, ZenonT(60)
<1>5. /\ c \in Seq(Cells) /\ Tuple(c) = c /\ Len(c) = r.vec[v].capacity /\ Filled(c, Len(s))
      /\ \A i \in 1..Len(s) : c[i] = s[i]
  <2>1. PICK q \in Seq(Cells) : q = r.cell[b]
    BY <1>4
  <2> QED BY <1>1, <1>4, <2>1, FrontedIs
<1>6. \A i \in 1..Len(s) : i \in DOMAIN r.cell[b] /\ r.cell[b][i] = Raw
  BY <1>0, <1>1, <1>4 DEF Filled
<1> HIDE DEF c, b
<1>7. t = [r EXCEPT !.cell[b] = c, !.vec[v].size = Len(s)]
  BY <1>3, <1>5, <1>6
<1>8. t = SetSize(SetCell(r, b, c), v, Len(s))
  BY <1>7 DEF SetSize, SetCell
<1> DEFINE C == With(r.cell, b, c)
<1>9. SetCell(r, b, c) = Celled(r, C)
  BY <1>1, SetCellIs
<1>12. t = Refilled(r, v, Len(s), c, r.unpaired)
  BY <1>1, <1>8, <1>9, SetSizeIs DEF Refilled, b
<1>14. /\ MemSound(t) /\ t.unpaired = r.unpaired /\ t.cell[t.vec[v].data] = c
       /\ t.vec[v] = Sized(r.vec[v], Len(s))
       /\ \A w \in Maps : w # v => KeepsVec(r, t, w)
  BY <1>1, <1>5, <1>12, SameBlock
<1>15. t.vec[v].size = Len(s)
  BY <1>14, SizedIs
<1>17. \A w \in Maps : w # v => KeepsVec(m, t, w)
  BY <1>1, <1>14 DEF KeepsVec
<1> QED BY <1>1, <1>5, <1>14, <1>15, <1>17 DEF t

(* A copy of w in v: the elements of w, and w as it was.                   *)
CopyOf(m, t, v, w) ==
    /\ MemSound(t) /\ t.unpaired = m.unpaired /\ t.vec[v].size = m.vec[w].size
    /\ \A i \in 1..m.vec[w].size : t.cell[t.vec[v].data][i] = m.cell[m.vec[w].data][i]
    /\ \A u \in Maps : u # v => KeepsVec(m, t, u)

LEMMA CopyIs ==
  ASSUME NEW m, MemSound(m), NEW v \in Maps, NEW w \in Maps
  PROVE  /\ CopyOf(m, CopyAssign(m, v, w), v, w)
         /\ v # w => CopyOf(m, CopyConstruct(m, v, w), v, w)
<1> DEFINE s == Elems(m, w)
<1>1. /\ s \in Seq(Objs) /\ Len(s) = m.vec[w].size
      /\ \A i \in 1..m.vec[w].size : s[i] = m.cell[m.vec[w].data][i]
  BY ElemsIs
<1>2. /\ MemSound(clear(m, v)) /\ clear(m, v).unpaired = m.unpaired /\ clear(m, v).vec[v].size = 0
      /\ \A u \in Maps : u # v => KeepsVec(m, clear(m, v), u)
  BY ClearIs, SizedIs
<1>3. /\ MemSound(Destruct(m, v)) /\ Destruct(m, v).unpaired = m.unpaired
      /\ Destruct(m, v).vec[v].size = 0
      /\ \A u \in Maps : u # v => KeepsVec(m, Destruct(m, v), u)
  <2>1. InlineVector(v).size = 0
    BY DEF InlineVector
  <2> QED BY <2>1, DestructIs
<1>4. ASSUME NEW d, MemSound(d), d.unpaired = m.unpaired, d.vec[v].size = 0,
             \A u \in Maps : u # v => KeepsVec(m, d, u)
      PROVE  CopyOf(m, PushAll(d, v, s), v, w)
  <2> DEFINE t == PushAll(d, v, s)
  <2> HIDE DEF s
  <2>1. /\ MemSound(t) /\ t.unpaired = d.unpaired /\ t.vec[v].size = Len(s)
        /\ \A i \in 1..Len(s) : t.cell[t.vec[v].data][i] = s[i]
        /\ \A u \in Maps : u # v => KeepsVec(d, t, u)
    BY <1>1, <1>4, PushAllIs
  <2> HIDE DEF t
  <2>2. \A u \in Maps : u # v => KeepsVec(m, t, u)
    BY <1>4, <2>1 DEF KeepsVec
  <2>3. CopyOf(m, t, v, w)
    BY <1>1, <1>4, <2>1, <2>2 DEF CopyOf
  <2> QED BY <2>3 DEF t
<1>5. CASE v = w
  <2>1. CopyAssign(m, v, w) = m
    BY <1>5 DEF CopyAssign
  <2> QED BY <1>5, <2>1 DEF CopyOf, KeepsVec
<1>6. CASE v # w
  <2>1. CopyAssign(m, v, w) = PushAll(clear(m, v), v, s)
    BY <1>6 DEF CopyAssign
  <2>2. CopyConstruct(m, v, w) = PushAll(Destruct(m, v), v, s)
    BY DEF CopyConstruct
  <2> HIDE DEF s
  <2> QED BY <1>2, <1>3, <1>4, <2>1, <2>2
<1> QED BY <1>5, <1>6

(* What a move of w into v gives: the elements of w in v, and w empty.     *)
MovedTo(m, t, v, w) ==
    /\ MemSound(t) /\ t.unpaired = m.unpaired /\ t.vec[v].size = m.vec[w].size
    /\ t.vec[w].size = 0
    /\ \A i \in 1..m.vec[w].size : t.cell[t.vec[v].data][i] = m.cell[m.vec[w].data][i]
    /\ \A u \in Maps : u # v /\ u # w => KeepsVec(m, t, u)

(* The destructors of a block run over moved-from elements as well.        *)
LEMMA ClearMoved ==
  ASSUME NEW p, MemSound(p), NEW w \in Maps, p.vec[w].data = w
  PROVE  LET mv == [i \in DOMAIN p.cell[w] |->
                       IF i <= p.vec[w].size THEN MovedFrom(p.cell[w][i]) ELSE Raw]
             t == clear([p EXCEPT !.cell[w] = Tuple(mv)], w)
         IN  /\ MemSound(t) /\ t.unpaired = p.unpaired /\ t.vec[w].size = 0
             /\ \A u \in Maps : u # w => KeepsVec(p, t, u)
<1> DEFINE q == p.cell[w]
           n == p.vec[w].size
           mv == [i \in DOMAIN q |-> IF i <= n THEN MovedFrom(q[i]) ELSE Raw]
           C1 == With(p.cell, w, mv)
           cl == [i \in DOMAIN mv |-> IF i \in 1..n THEN Raw ELSE mv[i]]
           C2 == With(C1, w, cl)
           s == [p EXCEPT !.cell[w] = Tuple(mv)]
           t == clear(s, w)
<1>1. /\ q \in Seq(Cells) /\ n \in Nat /\ Filled(q, n) /\ p.vec[w].capacity = Len(q)
      /\ w \in Blocks
  <2>1. /\ p.cell[p.vec[w].data] \in Seq(Cells) /\ n \in Nat /\ w \in Blocks
        /\ p.vec[w].capacity = Len(p.cell[p.vec[w].data])
        /\ Filled(p.cell[p.vec[w].data], n)
    BY VecFacts, VecFills, ZenonT(40)
  <2>2. p.cell[p.vec[w].data] = q
    OBVIOUS
  <2> QED BY <2>1, <2>2
<1>2. /\ DOMAIN q = 1..Len(q) /\ Len(q) \in Nat /\ Len(q) > 0 /\ n <= Len(q)
      /\ \A i \in 1..n : q[i] \in Objs
  BY <1>1 DEF Filled
<1>3. \A i \in 1..n : MovedFrom(q[i]) # Raw
  <2> TAKE i \in 1..n
  <2>1. PICK o \in Objs : o = q[i]
    BY <1>2
  <2>2. MovedFrom(o).raw = FALSE
    BY DEF MovedFrom, Objs
  <2>3. Raw.raw = TRUE
    BY DEF Raw
  <2> QED BY <2>1, <2>2, <2>3
<1>4. DOMAIN mv = 1..Len(q) /\ mv \in [1..Len(q) -> {mv[i] : i \in 1..Len(q)}]
  BY <1>2
<1>5. \A i \in 1..n : mv[i] # Raw
  <2> TAKE i \in 1..n
  <2>1. i \in DOMAIN q /\ i <= n
    BY <1>1, <1>2
  <2>2. mv[i] = MovedFrom(q[i])
    BY <2>1
  <2> HIDE DEF mv
  <2> QED BY <1>3, <2>2
<1>6. \A i \in 1..Len(q) : i \notin 1..n => mv[i] = Raw
  BY <1>1, <1>2
<1>7. /\ s = [p EXCEPT !.cell[w] = Tuple(mv)] /\ t = clear(s, w)
  OBVIOUS
<1> HIDE DEF mv, s, t
<1>8. Tuple(mv) = mv
  BY <1>2, <1>4, TupleIs
<1>9. s = Celled(p, C1)
  BY <1>7, <1>8, SetCellIs DEF SetCell
<1>10. s.vec = p.vec /\ s.cell = C1 /\ s.unpaired = p.unpaired
  BY <1>9, Parts DEF Celled
<1>11. C1[w] = mv /\ With(C1, w, cl) = With(p.cell, w, cl)
  <2>1. w \in DOMAIN p.cell
    BY <1>1, MemoryIs DEF AllCells
  <2> QED BY <2>1 DEF With
<1>12. \A i \in 1..Len(q) : cl[i] = Raw
  BY <1>4, <1>6
<1>13. cl \in [1..Len(q) -> Cells]
  BY <1>4, <1>12, RawIs
<1>14. cl = [i \in DOMAIN C1[w] |-> IF i \in 1..n THEN Raw ELSE C1[w][i]]
  BY <1>11
<1> HIDE DEF cl
<1>15. Tuple(cl) = cl /\ cl \in Seq(Cells) /\ Len(cl) = Len(q)
  BY <1>2, <1>13, TupleIs
<1>16. Filled(cl, 0)
  BY <1>2, <1>12, <1>15 DEF Filled
<1> HIDE DEF C1
<1>17. Destroy(s, w, 1..n) = SetCell(s, w, cl)
  <2>1. \A i \in 1..n : s.cell[w][i] # Raw
    BY <1>5, <1>10, <1>11
  <2>2. Tuple([i \in DOMAIN s.cell[w] |-> IF i \in 1..n THEN Raw ELSE s.cell[w][i]]) = cl
    BY <1>10, <1>14, <1>15
  <2> QED BY <2>1, <2>2 DEF Destroy, SetCell
<1>18. t = SetSize(SetCell(s, w, cl), w, 0)
  <2>1. s.vec[w].data = w /\ s.vec[w].size = n
    BY <1>10
  <2> QED BY <1>7, <1>17, <2>1 DEF clear, SetSize
<1>19. SetCell(s, w, cl) = Celled(p, With(p.cell, w, cl))
  <2>1. PICK V, tw : V = p.vec /\ tw = p.unpaired
    OBVIOUS
  <2>2. SetCell(Memory(V, C1, tw), w, cl) = Memory(V, With(C1, w, cl), tw)
    BY Edits
  <2> QED BY <1>9, <1>11, <2>1, <2>2 DEF Celled
<1>20. t = Refilled(p, w, 0, cl, p.unpaired)
  BY <1>18, <1>19, SetSizeIs DEF Refilled
<1>21. Len(cl) = p.vec[w].capacity
  BY <1>1, <1>15
<1>22. /\ MemSound(t) /\ t.unpaired = p.unpaired /\ t.vec[w] = Sized(p.vec[w], 0)
       /\ \A u \in Maps : u # w => KeepsVec(p, t, u)
  BY <1>15, <1>16, <1>20, <1>21, SameBlock
<1>23. t.vec[w].size = 0
  BY <1>22, SizedIs
<1> QED BY <1>22, <1>23 DEF t, s, mv

LEMMA MoveInline ==
  ASSUME NEW m, MemSound(m), NEW v \in Maps, NEW w \in Maps, v # w,
         IsInline(Destruct(m, v), w)
  PROVE  MovedTo(m, MoveFrom(m, v, w), v, w)
<1> DEFINE d == Destruct(m, v)
           e == Elems(d, w)
           p == PushAll(d, v, e)
           mv == [i \in DOMAIN p.cell[w] |->
                     IF i <= p.vec[w].size THEN MovedFrom(p.cell[w][i]) ELSE Raw]
           t == MoveFrom(m, v, w)
<1>1. /\ MemSound(d) /\ d.unpaired = m.unpaired /\ d.vec[v] = InlineVector(v)
      /\ \A u \in Maps : u # v => KeepsVec(m, d, u)
  BY DestructIs
<1>2. InlineVector(v).size = 0
  BY DEF InlineVector
<1>3. t = clear([p EXCEPT !.cell[w] = Tuple([i \in DOMAIN d.cell[w] |->
                     IF i <= d.vec[w].size THEN MovedFrom(d.cell[w][i]) ELSE Raw])], w)
  BY DEF MoveFrom
<1>4. d.vec[w].data = w
  BY DEF IsInline
<1> HIDE DEF d, t
<1>5. /\ e \in Seq(Objs) /\ Len(e) = d.vec[w].size
      /\ \A i \in 1..d.vec[w].size : e[i] = d.cell[d.vec[w].data][i]
  BY <1>1, ElemsIs
<1> HIDE DEF e
<1>6. /\ MemSound(p) /\ p.unpaired = d.unpaired /\ p.vec[v].size = Len(e)
      /\ \A i \in 1..Len(e) : p.cell[p.vec[v].data][i] = e[i]
      /\ \A u \in Maps : u # v => KeepsVec(d, p, u)
  BY <1>1, <1>2, <1>5, PushAllIs
<1> HIDE DEF p
<1>7. p.vec[w] = d.vec[w] /\ p.cell[w] = d.cell[w] /\ p.vec[w].data = w
  BY <1>4, <1>6 DEF KeepsVec
<1>8. t = clear([p EXCEPT !.cell[w] = Tuple(mv)], w)
  BY <1>3, <1>7
<1>9. /\ MemSound(t) /\ t.unpaired = p.unpaired /\ t.vec[w].size = 0
      /\ \A u \in Maps : u # w => KeepsVec(p, t, u)
  BY <1>6, <1>7, <1>8, ClearMoved
<1>10. d.vec[w] = m.vec[w] /\ d.cell[d.vec[w].data] = m.cell[m.vec[w].data]
  BY <1>1 DEF KeepsVec
<1>11. t.vec[v].size = m.vec[w].size /\ t.cell[t.vec[v].data] = p.cell[p.vec[v].data]
  BY <1>5, <1>6, <1>9, <1>10 DEF KeepsVec
<1>12. \A i \in 1..m.vec[w].size : t.cell[t.vec[v].data][i] = m.cell[m.vec[w].data][i]
  BY <1>5, <1>6, <1>10, <1>11
<1>13. \A u \in Maps : u # v /\ u # w => KeepsVec(m, t, u)
  BY <1>1, <1>6, <1>9 DEF KeepsVec
<1>14. MovedTo(m, t, v, w)
  BY <1>1, <1>6, <1>9, <1>11, <1>12, <1>13 DEF MovedTo
<1> QED BY <1>14 DEF t

LEMMA MoveHeap ==
  ASSUME NEW m, MemSound(m), NEW v \in Maps, NEW w \in Maps, v # w,
         ~IsInline(Destruct(m, v), w)
  PROVE  MovedTo(m, MoveFrom(m, v, w), v, w)
<1> DEFINE d == Destruct(m, v)
           t == MoveFrom(m, v, w)
<1>1. /\ MemSound(d) /\ d.unpaired = m.unpaired /\ d.vec[v] = InlineVector(v)
      /\ \A u \in Maps : u # v => KeepsVec(m, d, u)
  BY DestructIs
<1>3. t = [d EXCEPT !.vec[v] = d.vec[w], !.vec[w] = InlineVector(w)]
  BY DEF MoveFrom
<1>4. d.vec[w].data # w
  BY DEF IsInline
<1> HIDE DEF d, t
<1> DEFINE V1 == With(d.vec, v, d.vec[w])
           V == With(V1, w, InlineVector(w))
<1>5. /\ d = Memory(d.vec, d.cell, d.unpaired) /\ d.vec \in AllVecs /\ d.cell \in AllCells
  BY <1>1, MemoryIs
<1>6. t = Memory(V, d.cell, d.unpaired)
  <2>1. t = SetVec(SetVec(d, v, d.vec[w]), w, InlineVector(w))
    BY <1>3 DEF SetVec
  <2>2. PICK A, C, tw, e, f : /\ A = d.vec /\ C = d.cell /\ tw = d.unpaired
                              /\ e = d.vec[w] /\ f = InlineVector(w)
    OBVIOUS
  <2>3. SetVec(Memory(A, C, tw), v, e) = Memory(With(A, v, e), C, tw)
    BY Edits
  <2>4. PICK B : B = With(A, v, e)
    OBVIOUS
  <2>5. SetVec(Memory(B, C, tw), w, f) = Memory(With(B, w, f), C, tw)
    BY Edits
  <2> QED BY <1>5, <2>1, <2>2, <2>3, <2>4, <2>5
<1>7. t.vec = V /\ t.cell = d.cell /\ t.unpaired = d.unpaired
  BY <1>6, Parts
<1>8. /\ InlineVector(w) \in Vecs /\ InlineVector(w).data = w /\ InlineVector(w).size = 0
      /\ InlineVector(w).capacity = N /\ N \in Nat /\ N > 0
  BY SmallMapAssumption DEF InlineVector, Vecs, Blocks
<1>9. V1 \in AllVecs /\ V1[v] = d.vec[w] /\ \A u \in Maps : u # v => V1[u] = d.vec[u]
  <2>1. d.vec[w] \in Vecs
    BY <1>5 DEF AllVecs
  <2> QED BY <1>5, <2>1, WithVec
<1> HIDE DEF V1
<1>10. V \in AllVecs /\ V[w] = InlineVector(w) /\ \A u \in Maps : u # w => V[u] = V1[u]
  BY <1>8, <1>9, WithVec
<1> HIDE DEF V
<1>11. /\ t.vec[v] = d.vec[w] /\ t.vec[w] = InlineVector(w)
       /\ \A u \in Maps : u # v /\ u # w => t.vec[u] = d.vec[u]
  BY <1>7, <1>9, <1>10
<1>12. MemShape(t)
  BY <1>5, <1>6, <1>7, <1>10 DEF MemShape
<1>13. VecSound(d, w) /\ VecSound(d, v)
  BY <1>1, VecFacts
<1>14. InlineVector(v).data = v /\ InlineVector(v).size = 0 /\ InlineVector(v).capacity = N
  BY DEF InlineVector
<1>15. Len(d.cell[v]) = N /\ Filled(d.cell[v], 0)
  BY <1>1, <1>13, <1>14 DEF VecSound, SoundVec
<1>16. Len(d.cell[w]) = N /\ \A i \in 1..N : d.cell[w][i] = Raw
  BY <1>4, <1>13 DEF VecSound, SoundVec
<1>17. d.vec[w].data \in Heap
  BY <1>4, <1>13 DEF VecSound, SoundVec
<1>18. VecSound(t, v)
  <2>1. \A i \in 1..N : d.cell[v][i] = Raw
    BY <1>15 DEF Filled
  <2>2. SoundVec(d.vec[w], d.cell[d.vec[w].data], d.cell[v], v)
    BY <1>13, <1>15, <1>17, <2>1 DEF VecSound, SoundVec
  <2> QED BY <1>7, <1>11, <2>2 DEF VecSound
<1>19. VecSound(t, w)
  <2>1. Filled(d.cell[w], 0)
    BY <1>8, <1>16 DEF Filled
  <2>2. SoundVec(InlineVector(w), d.cell[w], d.cell[w], w)
    BY <1>8, <1>16, <2>1 DEF SoundVec
  <2> QED BY <1>7, <1>8, <1>11, <2>2 DEF VecSound
<1>20. \A u \in Maps : VecSound(t, u)
  <2> TAKE u \in Maps
  <2>1. CASE u = v
    BY <1>18, <2>1
  <2>2. CASE u = w
    BY <1>19, <2>2
  <2>3. CASE u # v /\ u # w
    <3>1. VecSound(d, u)
      BY <1>1, VecFacts
    <3> QED BY <1>7, <1>11, <2>3, <3>1 DEF VecSound
  <2> QED BY <2>1, <2>2, <2>3
<1>21. \A u \in Maps : d.vec[u].data \in Heap \cup {u} /\ u \notin Heap
  BY <1>1, VecFacts, VecFills
<1>22. \A u, x \in Maps : d.vec[u].data = d.vec[x].data => u = x
  BY <1>1 DEF MemSound
<1>23. /\ t.vec[v].data = d.vec[w].data /\ t.vec[w].data = w
       /\ \A u \in Maps : u # v /\ u # w => t.vec[u].data = d.vec[u].data
  BY <1>8, <1>11
<1>24. \A u, x \in Maps : t.vec[u].data = t.vec[x].data => u = x
  <2> SUFFICES ASSUME NEW u \in Maps, NEW x \in Maps, t.vec[u].data = t.vec[x].data
               PROVE  u = x
    OBVIOUS
  <2>1. CASE u = w \/ x = w
    BY <1>17, <1>21, <1>23, <2>1
  <2>2. CASE u # w /\ x # w
    BY <1>22, <1>23, <2>2
  <2> QED BY <2>1, <2>2
<1>25. \A b \in Heap : t.cell[b] # <<>> => \E u \in Maps : t.vec[u].data = b
  <2> SUFFICES ASSUME NEW b \in Heap, t.cell[b] # <<>>
               PROVE  \E u \in Maps : t.vec[u].data = b
    OBVIOUS
  <2>1. PICK u \in Maps : d.vec[u].data = b
    BY <1>1, <1>7 DEF MemSound
  <2>2. CASE u = w
    BY <1>23, <2>1, <2>2
  <2>3. CASE u # w
    <3>1. d.vec[v].data = v
      BY <1>1, <1>14
    <3>2. u # v
      BY <1>21, <2>1, <3>1
    <3> QED BY <1>23, <2>1, <2>3, <3>2
  <2> QED BY <2>2, <2>3
<1>26. MemSound(t)
  BY <1>12, <1>20, <1>24, <1>25 DEF MemSound
<1>27. d.vec[w] = m.vec[w] /\ d.cell[d.vec[w].data] = m.cell[m.vec[w].data]
  BY <1>1 DEF KeepsVec
<1>28. /\ t.vec[v].size = m.vec[w].size /\ t.vec[w].size = 0
       /\ t.cell[t.vec[v].data] = m.cell[m.vec[w].data]
  BY <1>7, <1>8, <1>11, <1>27
<1>29. \A u \in Maps : u # v /\ u # w => KeepsVec(m, t, u)
  BY <1>1, <1>7, <1>11 DEF KeepsVec
<1>30. MovedTo(m, t, v, w)
  BY <1>1, <1>7, <1>26, <1>28, <1>29 DEF MovedTo
<1> QED BY <1>30 DEF t

(* A memory whose fault flag is not known: what erase has before it takes  *)
(* the flag back.                                                          *)
FMem(V, C, fault, unpaired) == [vec |-> V, cell |-> C, fault |-> fault, unpaired |-> unpaired]
SetFault(m, x) == [m EXCEPT !.fault = x]
SetFlags(m, x, y) == [m EXCEPT !.fault = x, !.unpaired = y]
Dirty == TRUE

LEMMA FEdits ==
  ASSUME NEW V, NEW C, NEW fault, NEW unpaired, NEW b, NEW c
  PROVE  /\ SetCell(FMem(V, C, fault, unpaired), b, c) = FMem(V, With(C, b, c), fault, unpaired)
         /\ SetFault(FMem(V, C, fault, unpaired), c) = FMem(V, C, c, unpaired)
         /\ FMem(V, C, fault, unpaired).vec = V /\ FMem(V, C, fault, unpaired).cell = C
         /\ FMem(V, C, fault, unpaired).unpaired = unpaired
         /\ FMem(V, C, Clean, unpaired) = Memory(V, C, unpaired)
<1>1. SetCell(FMem(V, C, fault, unpaired), b, c) = FMem(V, With(C, b, c), fault, unpaired)
  BY DEF FMem, With, SetCell
<1>2. SetFault(FMem(V, C, fault, unpaired), c) = FMem(V, C, c, unpaired)
  BY DEF FMem, SetFault
<1>3. /\ FMem(V, C, fault, unpaired).vec = V /\ FMem(V, C, fault, unpaired).cell = C
      /\ FMem(V, C, fault, unpaired).unpaired = unpaired
  BY DEF FMem
<1>4. FMem(V, C, Clean, unpaired) = Memory(V, C, unpaired)
  BY DEF FMem, Memory
<1> QED BY <1>1, <1>2, <1>3, <1>4

LEMMA FEditSize ==
  ASSUME NEW V \in AllVecs, NEW C, NEW fault, NEW unpaired, NEW v \in Maps, NEW n
  PROVE  SetSize(FMem(V, C, fault, unpaired), v, n)
            = FMem(With(V, v, Sized(V[v], n)), C, fault, unpaired)
<1>1. [V[v] EXCEPT !.size = n] = Sized(V[v], n)
  BY SizedIs DEF AllVecs
<1>3. [V EXCEPT ![v].size = n] = With(V, v, Sized(V[v], n))
  BY <1>1 DEF With
<1>4. SetSize(FMem(V, C, fault, unpaired), v, n) = FMem([V EXCEPT ![v].size = n], C, fault, unpaired)
  BY DEF FMem, SetSize
<1> QED BY <1>3, <1>4

LEMMA FEditFlags ==
  ASSUME NEW V, NEW C, NEW fault, NEW unpaired, NEW y
  PROVE  SetFlags(FMem(V, C, fault, unpaired), Clean, y) = Memory(V, C, y)
<1>1. PICK x : x = Clean
  OBVIOUS
<1>2. SetFlags(FMem(V, C, fault, unpaired), x, y)
        = [[FMem(V, C, fault, unpaired) EXCEPT !.fault = x] EXCEPT !.unpaired = y]
  BY DEF SetFlags
<1>3. [FMem(V, C, fault, unpaired) EXCEPT !.fault = x] = FMem(V, C, x, unpaired)
  BY DEF FMem
<1>4. [FMem(V, C, x, unpaired) EXCEPT !.unpaired = y] = FMem(V, C, x, y)
  BY DEF FMem
<1>5. FMem(V, C, x, y) = Memory(V, C, y)
  BY <1>1 DEF FMem, Memory
<1> QED BY <1>1, <1>2, <1>3, <1>4, <1>5

LEMMA FailIs ==
  ASSUME NEW m
  PROVE  Fail(m) = SetFault(m, Dirty)
BY DEF Fail, SetFault, Dirty

(* The block c of `size' elements once n of them, from `first' on, are     *)
(* erased and the later ones moved down.                                   *)
Closed(c, size, first, n) ==
    [i \in DOMAIN c |-> IF i \in first..(size - n) THEN c[i + n]
                        ELSE IF i \in (size - n + 1)..size THEN Raw ELSE c[i]]

LEMMA ClosedIs ==
  ASSUME NEW c \in Seq(Cells), NEW size \in Nat, Filled(c, size), NEW first \in Nat,
         NEW n \in Nat, 1 <= first, first + n <= size + 1
  PROVE  LET d == Closed(c, size, first, n)
         IN  /\ d \in Seq(Cells) /\ Tuple(d) = d /\ Len(d) = Len(c) /\ Filled(d, size - n)
             /\ \A i \in 1..(size - n) : d[i] = IF i < first THEN c[i] ELSE c[i + n]
<1> DEFINE d == Closed(c, size, first, n)
<1>1. /\ DOMAIN c = 1..Len(c) /\ Len(c) \in Nat /\ size <= Len(c) /\ Len(c) > 0
      /\ size - n \in Nat
  BY DEF Filled
<1>2. /\ \A i \in 1..size : c[i] \in Objs
      /\ \A i \in (size + 1)..Len(c) : c[i] = Raw
  BY DEF Filled
<1>3. \A i \in 1..(size - n) : d[i] = IF i < first THEN c[i] ELSE c[i + n]
  BY <1>1 DEF Closed
<1>4. \A i \in (size - n + 1)..Len(c) : d[i] = Raw
  BY <1>1, <1>2 DEF Closed
<1>5. \A i \in 1..(size - n) : d[i] \in Objs
  <2> TAKE i \in 1..(size - n)
  <2>1. i \in 1..size /\ i + n \in 1..size
    BY <1>1
  <2> HIDE DEF d
  <2> QED BY <1>2, <1>3, <2>1
<1>6. DOMAIN d = 1..Len(c) /\ d = [i \in 1..Len(c) |-> d[i]]
  BY <1>1 DEF Closed
<1> HIDE DEF d
<1>7. \A i \in 1..Len(c) : d[i] \in Cells
  <2> TAKE i \in 1..Len(c)
  <2>1. i \in 1..(size - n) \/ i \in (size - n + 1)..Len(c)
    BY <1>1
  <2> QED BY <1>4, <1>5, <2>1, RawIs
<1>8. d \in [1..Len(c) -> Cells]
  BY <1>6, <1>7
<1>9. Tuple(d) = d /\ d \in Seq(Cells) /\ Len(d) = Len(c)
  BY <1>1, <1>8, TupleIs
<1>10. size - n <= Len(d) /\ Len(d) > 0
  BY <1>1, <1>9
<1>11. Filled(d, size - n)
  BY <1>1, <1>4, <1>5, <1>9, <1>10 DEF Filled
<1> QED BY <1>3, <1>9, <1>11 DEF d

(* The elements of v in t are those of m without n of them.                *)
ErasedFrom(m, t, v, first, n) ==
    /\ MemSound(t) /\ t.vec[v].size = m.vec[v].size - n
    /\ \A i \in 1..(m.vec[v].size - n) :
          t.cell[t.vec[v].data][i]
             = IF i < first THEN m.cell[m.vec[v].data][i] ELSE m.cell[m.vec[v].data][i + n]
    /\ \A w \in Maps : w # v => KeepsVec(m, t, w)

LEMMA EraseIs ==
  ASSUME NEW m, MemSound(m), NEW v \in Maps, NEW first \in Nat, NEW n \in Nat,
         1 <= first, first + n <= m.vec[v].size + 1
  PROVE  ErasedFrom(m, EraseAt(m, v, first, n), v, first, n)
<1> DEFINE d == m.vec[v]
           b == d.data
           c == m.cell[b]
           size == d.size
           sh == [i \in DOMAIN c |->
                    IF i \in first..(size - n) THEN c[i + n]
                    ELSE IF i \in first..(first + n - 1) THEN Raw
                    ELSE IF i \in first..size THEN MovedFrom(c[i]) ELSE c[i]]
           cc == Closed(c, size, first, n)
           at == first..(first + n - 1)
           at2 == (size - n + 1)..size
           s == ShiftDown(m, v, first, n)
           p == pop_back(s, v, n)
           t == EraseAt(m, v, first, n)
<1>1. /\ b \in Blocks /\ size \in Nat /\ c \in Seq(Cells) /\ d.capacity = Len(c)
      /\ Filled(c, size)
  BY VecFacts, VecFills
<1>2. /\ DOMAIN c = 1..Len(c) /\ Len(c) \in Nat /\ size <= Len(c)
      /\ \A i \in 1..size : c[i] \in Objs
  <2>1. DOMAIN c = 1..Len(c) /\ Len(c) \in Nat
    BY <1>1
  <2>2. size <= Len(c) /\ \A i \in 1..size : c[i] \in Objs
    BY <1>1 DEF Filled
  <2> QED BY <2>1, <2>2
<1>3. /\ m = Memory(m.vec, m.cell, m.unpaired) /\ m.vec \in AllVecs /\ m.cell \in AllCells
      /\ m.fault = Clean
  <2>1. m = Memory(m.vec, m.cell, m.unpaired) /\ m.vec \in AllVecs /\ m.cell \in AllCells
    BY MemoryIs
  <2>2. Memory(m.vec, m.cell, m.unpaired).fault = Clean
    BY Parts
  <2> QED BY <2>1, <2>2
<1>4. s = [Destroy(m, b, at) EXCEPT !.cell[b] = Tuple(sh)]
  BY DEF ShiftDown
<1>5. DOMAIN sh = 1..Len(c) /\ sh \in [1..Len(c) -> {sh[i] : i \in 1..Len(c)}]
  BY <1>2
<1>6. cc = [i \in DOMAIN sh |-> IF i \in at2 THEN Raw ELSE sh[i]]
  <2> DEFINE rr == [i \in DOMAIN sh |-> IF i \in at2 THEN Raw ELSE sh[i]]
  <2>1. \A i \in 1..Len(c) : rr[i] = cc[i]
    <3> TAKE i \in 1..Len(c)
    <3>0. DOMAIN sh = 1..Len(c) /\ DOMAIN c = 1..Len(c) /\ Len(c) \in Nat
      BY <1>2, <1>5
    <3>1. i \in DOMAIN sh /\ i \in DOMAIN c /\ i \in Nat
      <4> HIDE DEF sh, c
      <4> QED BY <3>0
    <3>2. CASE i \in at2
      <4>1. i \notin first..(size - n)
        BY <1>1, <3>1, <3>2
      <4>2. cc[i] = Raw
        BY <3>1, <3>2, <4>1 DEF Closed
      <4> QED BY <3>1, <3>2, <4>2
    <3>3. CASE i \notin at2
      <4>1. rr[i] = sh[i]
        BY <3>1, <3>3
      <4>2. cc[i] = IF i \in first..(size - n) THEN c[i + n] ELSE c[i]
        BY <3>1, <3>3 DEF Closed
      <4>3. CASE i \in first..(size - n)
        BY <3>1, <4>1, <4>2, <4>3
      <4>4. CASE i \notin first..(size - n)
        <5>1. i \notin first..size /\ i \notin first..(first + n - 1)
          BY <1>1, <3>1, <3>3, <4>4
        <5>2. sh[i] = c[i]
          BY <3>1, <4>4, <5>1
        <5> QED BY <4>1, <4>2, <4>4, <5>2
      <4> QED BY <4>3, <4>4
    <3> QED BY <3>2, <3>3
  <2>2. DOMAIN rr = 1..Len(c) /\ rr = [i \in 1..Len(c) |-> rr[i]]
    BY <1>5
  <2>3. DOMAIN cc = 1..Len(c) /\ cc = [i \in 1..Len(c) |-> cc[i]]
    BY <1>2 DEF Closed
  <2> HIDE DEF rr, cc
  <2>4. rr = cc
    BY <2>1, <2>2, <2>3
  <2> QED BY <2>4 DEF rr
<1>7. t = [p EXCEPT !.fault = m.fault,
                    !.unpaired = @ \/ p.fault \/ BuiltOver(m, v, first, n)]
  BY DEF EraseAt
<1>8. p = [Destroy(s, s.vec[v].data, (s.vec[v].size - n + 1)..s.vec[v].size)
              EXCEPT !.vec[v].size = s.vec[v].size - n]
  BY DEF pop_back
<1>9. \A i \in at : c[i] # Raw
  BY <1>1, <1>2, RawIs, SMTT(30)
<1>10. /\ cc \in Seq(Cells) /\ Tuple(cc) = cc /\ Len(cc) = Len(c) /\ Filled(cc, size - n)
       /\ \A i \in 1..(size - n) : cc[i] = IF i < first THEN c[i] ELSE c[i + n]
  BY <1>1, ClosedIs, ZenonT(60)
<1>11. size - n \in Nat
  BY <1>1
<1> HIDE DEF sh, cc, s, p, t
<1>12. Tuple(sh) = sh
  BY <1>2, <1>5, TupleIs
<1> DEFINE C0 == With(m.cell, b, Cleared(c, at))
           C1 == With(C0, b, sh)
           C2 == With(C1, b, cc)
<1>13. Destroy(m, b, at) = Celled(m, C0)
  BY <1>1, <1>9, DestroyIs
<1>14. C1 = With(m.cell, b, sh) /\ C1[b] = sh
  <2>1. b \in DOMAIN m.cell
    BY <1>1, <1>3 DEF AllCells
  <2> QED BY <2>1 DEF With
<1>15. C2 = With(m.cell, b, cc)
  <2>1. b \in DOMAIN m.cell
    BY <1>1, <1>3 DEF AllCells
  <2> QED BY <1>14, <2>1 DEF With
<1> HIDE DEF C0
<1>16. PICK V, K, tw : V = m.vec /\ K = m.cell /\ tw = m.unpaired
  OBVIOUS
<1>17. s = FMem(V, C1, Clean, tw)
  <2>1. s = SetCell(Celled(m, C0), b, sh)
    BY <1>4, <1>12, <1>13 DEF SetCell
  <2>2. Celled(m, C0) = FMem(V, C0, Clean, tw)
    BY <1>16, FEdits DEF Celled
  <2>3. SetCell(FMem(V, C0, Clean, tw), b, sh) = FMem(V, With(C0, b, sh), Clean, tw)
    BY FEdits
  <2> QED BY <2>1, <2>2, <2>3
<1> HIDE DEF C1
<1>18. s.vec = V /\ s.cell = C1
  BY <1>17, FEdits
<1>19. p = SetSize(Destroy(s, b, at2), v, size - n)
  BY <1>8, <1>16, <1>18 DEF SetSize
<1>20. \E fl : Destroy(s, b, at2) = SetCell(FMem(V, C1, fl, tw), b, cc)
  <2> DEFINE f == IF \A i \in at2 : s.cell[b][i] # Raw THEN s ELSE Fail(s)
  <2>1. Tuple([i \in DOMAIN s.cell[b] |-> IF i \in at2 THEN Raw ELSE s.cell[b][i]]) = cc
    BY <1>6, <1>10, <1>14, <1>18
  <2>2. Destroy(s, b, at2) = SetCell(f, b, cc)
    BY <2>1 DEF Destroy, SetCell
  <2>3. Fail(s) = FMem(V, C1, Dirty, tw)
    <3>1. SetFault(FMem(V, C1, Clean, tw), Dirty) = FMem(V, C1, Dirty, tw)
      BY FEdits
    <3> QED BY <1>17, <3>1, FailIs
  <2>4. f = FMem(V, C1, Clean, tw) \/ f = FMem(V, C1, Dirty, tw)
    BY <1>17, <2>3
  <2> HIDE DEF f
  <2> QED BY <2>2, <2>4
<1>21. PICK fl : Destroy(s, b, at2) = SetCell(FMem(V, C1, fl, tw), b, cc)
  BY <1>20
<1>22. SetCell(FMem(V, C1, fl, tw), b, cc) = FMem(V, C2, fl, tw)
  BY FEdits
<1> HIDE DEF C2
<1>28. PICK k \in Nat : k = size - n
  BY <1>11
<1>23. p = FMem(With(V, v, Sized(V[v], k)), C2, fl, tw)
  <2>1. SetSize(FMem(V, C2, fl, tw), v, k) = FMem(With(V, v, Sized(V[v], k)), C2, fl, tw)
    <3>1. V \in AllVecs
      BY <1>3, <1>16
    <3>2. PICK X : X = C2
      OBVIOUS
    <3>3. SetSize(FMem(V, X, fl, tw), v, k) = FMem(With(V, v, Sized(V[v], k)), X, fl, tw)
      BY <3>1, FEditSize
    <3> QED BY <3>2, <3>3
  <2> QED BY <1>19, <1>21, <1>22, <1>28, <2>1
<1>24. PICK tw2 : t = SetFlags(p, Clean, tw2)
  <2>1. t = [p EXCEPT !.fault = m.fault,
              !.unpaired = (p.unpaired \/ p.fault \/ BuiltOver(m, v, first, n))]
    BY <1>7
  <2> QED BY <1>3, <2>1 DEF SetFlags
<1>25. t = Memory(With(V, v, Sized(V[v], k)), C2, tw2)
  BY <1>23, <1>24, FEditFlags
<1>26. t = Refilled(m, v, k, cc, tw2)
  BY <1>15, <1>16, <1>25 DEF Refilled, Stepped
<1>27. Len(cc) = m.vec[v].capacity
  BY <1>1, <1>10
<1>29. /\ MemSound(t) /\ t.cell[t.vec[v].data] = cc /\ t.vec[v] = Sized(m.vec[v], k)
       /\ \A w \in Maps : w # v => KeepsVec(m, t, w)
  BY <1>10, <1>26, <1>27, <1>28, SameBlock
<1>30. t.vec[v].size = size - n
  BY <1>28, <1>29, SizedIs
<1>31. ErasedFrom(m, t, v, first, n)
  BY <1>10, <1>29, <1>30 DEF ErasedFrom
<1> QED BY <1>31 DEF t

LEMMA CarriesSame ==
  ASSUME NEW c, NEW d, NEW n, NEW f, Carries(c, n, f), \A i \in 1..n : d[i] = c[i]
  PROVE  Carries(d, n, f)
BY DEF Carries

LEMMA CarriesNothing ==
  ASSUME NEW c
  PROVE  Carries(c, 0, <<>>)
<1>1. DOMAIN <<>> = {} /\ <<>> \in [{} -> Vals]
  OBVIOUS
<1>2. 1..0 = {}
  OBVIOUS
<1> QED BY <1>1, <1>2 DEF Carries, IsMap

LEMMA ExtendIs ==
  ASSUME NEW f, IsMap(f), NEW k \in Keys, NEW x \in Vals
  PROVE  LET g == Extend(f, k, x)
         IN  /\ DOMAIN g = DOMAIN f \cup {k} /\ IsMap(g)
             /\ \A j \in DOMAIN f : g[j] = f[j]
             /\ (k \notin DOMAIN f => g[k] = x)
             /\ (k \in DOMAIN f => g = f)
<1> DEFINE g == Extend(f, k, x)
<1>0. DOMAIN f \subseteq Keys /\ f \in [DOMAIN f -> Vals]
  BY DEF IsMap
<1>1. DOMAIN g = DOMAIN f \cup {k}
  BY DEF Extend
<1>2. \A j \in DOMAIN f : g[j] = f[j] /\ f[j] \in Vals
  BY <1>0 DEF Extend
<1>3. k \notin DOMAIN f => g[k] = x
  BY DEF Extend
<1>4. g = [j \in DOMAIN f \cup {k} |-> g[j]]
  BY DEF Extend
<1> HIDE DEF g
<1>5. \A j \in DOMAIN g : g[j] \in Vals
  BY <1>1, <1>2, <1>3
<1>6. g \in [DOMAIN g -> Vals]
  BY <1>1, <1>4, <1>5
<1>7. k \in DOMAIN f => g = f
  <2> SUFFICES ASSUME k \in DOMAIN f PROVE g = f
    OBVIOUS
  <2>1. DOMAIN g = DOMAIN f
    BY <1>1
  <2> QED BY <1>0, <1>2, <1>6, <2>1
<1>8. DOMAIN g \subseteq Keys
  BY <1>0, <1>1
<1> QED BY <1>1, <1>2, <1>3, <1>6, <1>7, <1>8 DEF g, IsMap

LEMMA CarriesPush ==
  ASSUME NEW c, NEW d, NEW n \in Nat, NEW f, Carries(c, n, f), NEW k \in Keys, NEW x \in Vals,
         k \notin DOMAIN f,
         \A i \in 1..n : d[i] = c[i], d[n + 1].key = k, d[n + 1].val = x
  PROVE  Carries(d, n + 1, Extend(f, k, x))
<1> DEFINE g == Extend(f, k, x)
<1>0. IsMap(f)
  BY DEF Carries
<1>1. /\ DOMAIN g = DOMAIN f \cup {k} /\ IsMap(g)
      /\ \A j \in DOMAIN f : g[j] = f[j]
      /\ g[k] = x
  <2>1. DOMAIN g = DOMAIN f \cup {k}
    BY <1>0, ExtendIs
  <2>2. IsMap(g)
    BY <1>0, ExtendIs
  <2>3. \A j \in DOMAIN f : g[j] = f[j]
    BY DEF Extend
  <2>4. g[k] = x
    BY <1>0, ExtendIs
  <2> HIDE DEF g
  <2> QED BY <2>1, <2>2, <2>3, <2>4
<1>2. \A i \in 1..(n + 1) : i \in 1..n \/ i = n + 1
  OBVIOUS
<1>3. \A i \in 1..n : i \in 1..(n + 1) /\ i # n + 1
  OBVIOUS
<1>4. /\ \A i \in 1..n : d[i].key \in DOMAIN f /\ d[i].val = f[d[i].key]
      /\ \A j \in DOMAIN f : \E i \in 1..n : d[i].key = j
      /\ \A i, j \in 1..n : d[i].key = d[j].key => i = j
  BY DEF Carries
<1> HIDE DEF g
<1>5. \A i \in 1..(n + 1) : d[i].key \in DOMAIN g /\ d[i].val = g[d[i].key]
  <2> TAKE i \in 1..(n + 1)
  <2>1. CASE i \in 1..n
    BY <1>1, <1>4, <2>1
  <2>2. CASE i = n + 1
    BY <1>1, <2>2
  <2> QED BY <1>2, <2>1, <2>2
<1>6. \A j \in DOMAIN g : \E i \in 1..(n + 1) : d[i].key = j
  <2> TAKE j \in DOMAIN g
  <2>1. CASE j \in DOMAIN f
    <3>1. PICK i \in 1..n : d[i].key = j
      BY <1>4, <2>1
    <3> QED BY <1>3, <3>1
  <2>2. CASE j = k
    <3>1. n + 1 \in 1..(n + 1)
      OBVIOUS
    <3> QED BY <2>2, <3>1
  <2> QED BY <1>1, <2>1, <2>2
<1>7. \A i, j \in 1..(n + 1) : d[i].key = d[j].key => i = j
  <2> SUFFICES ASSUME NEW i \in 1..(n + 1), NEW j \in 1..(n + 1), d[i].key = d[j].key
               PROVE  i = j
    OBVIOUS
  <2>1. i \in 1..n => d[i].key # k
    BY <1>4
  <2>2. j \in 1..n => d[j].key # k
    BY <1>4
  <2> QED BY <1>2, <1>4, <2>1, <2>2
<1>8. Carries(d, n + 1, g)
  BY <1>1, <1>5, <1>6, <1>7 DEF Carries
<1> QED BY <1>8 DEF g

(* An assignment to the value of one element.                              *)
LEMMA CarriesAssign ==
  ASSUME NEW c, NEW d, NEW n \in Nat, NEW f, Carries(c, n, f), NEW x \in Vals,
         NEW i \in 1..n, d[i].key = c[i].key, d[i].val = x,
         \A j \in 1..n : j # i => d[j] = c[j]
  PROVE  Carries(d, n, [f EXCEPT ![c[i].key] = x])
<1> DEFINE k == c[i].key
           g == [f EXCEPT ![k] = x]
<1>1. k \in DOMAIN f /\ f \in [DOMAIN f -> Vals] /\ DOMAIN f \subseteq Keys
  BY DEF Carries, IsMap
<1>2. /\ DOMAIN g = DOMAIN f /\ IsMap(g) /\ g[k] = x
      /\ \A j \in DOMAIN f : j # k => g[j] = f[j]
  BY <1>1 DEF IsMap
<1>3. \A j \in 1..n : d[j].key = c[j].key
  OBVIOUS
<1>4. \A j \in 1..n : j # i => d[j].val = f[d[j].key] /\ d[j].key # k
  BY DEF Carries
<1> HIDE DEF g, k
<1>5. \A j \in 1..n : d[j].key \in DOMAIN g /\ d[j].val = g[d[j].key]
  <2> TAKE j \in 1..n
  <2>1. d[j].key \in DOMAIN f
    BY <1>3 DEF Carries
  <2>2. CASE j = i
    BY <1>1, <1>2, <2>2 DEF k
  <2>3. CASE j # i
    BY <1>2, <1>4, <2>1, <2>3
  <2> QED BY <2>2, <2>3
<1>6. \A j \in DOMAIN g : \E h \in 1..n : d[h].key = j
  BY <1>2, <1>3 DEF Carries
<1>7. \A j, h \in 1..n : d[j].key = d[h].key => j = h
  BY <1>3 DEF Carries
<1>8. Carries(d, n, g)
  BY <1>1, <1>2, <1>5, <1>6, <1>7 DEF Carries
<1> QED BY <1>8 DEF g, k

LEMMA CarriesErase ==
  ASSUME NEW c, NEW d, NEW size \in Nat, NEW f, Carries(c, size, f), NEW first \in Nat,
         NEW n \in Nat, 1 <= first, first + n <= size + 1,
         \A i \in 1..(size - n) : d[i] = IF i < first THEN c[i] ELSE c[i + n]
  PROVE  Carries(d, size - n, Without(f, {c[i].key : i \in first..(first + n - 1)}))
<1> DEFINE ks == {c[i].key : i \in first..(first + n - 1)}
           g == Without(f, ks)
           src(i) == IF i < first THEN i ELSE i + n
<1>1. /\ f \in [DOMAIN f -> Vals] /\ DOMAIN f \subseteq Keys
      /\ \A i \in 1..size : c[i].key \in DOMAIN f /\ c[i].val = f[c[i].key]
      /\ \A i, j \in 1..size : c[i].key = c[j].key => i = j
      /\ \A k \in DOMAIN f : \E i \in 1..size : c[i].key = k
  BY DEF Carries, IsMap
<1>2. DOMAIN g = DOMAIN f \ ks /\ IsMap(g) /\ \A k \in DOMAIN g : g[k] = f[k]
  BY <1>1 DEF Without, IsMap
<1>3. \A i \in 1..(size - n) :
         src(i) \in 1..size /\ src(i) \notin first..(first + n - 1) /\ d[i] = c[src(i)]
  OBVIOUS
<1>4. \A i \in 1..(size - n) : c[src(i)].key \notin ks
  <2> TAKE i \in 1..(size - n)
  <2>1. PICK h : h = src(i)
    OBVIOUS
  <2>2. h \in 1..size /\ h \notin first..(first + n - 1)
    BY <1>3, <2>1
  <2>3. ASSUME NEW j \in first..(first + n - 1) PROVE c[j].key # c[h].key
    <3>1. j \in 1..size /\ j # h
      BY <2>2
    <3> QED BY <1>1, <2>2, <3>1
  <2>4. c[h].key \notin ks
    BY <2>3
  <2> QED BY <2>1, <2>4
<1>5. \A i, j \in 1..(size - n) : src(i) = src(j) => i = j
  OBVIOUS
<1>6. \A h \in 1..size : h \notin first..(first + n - 1)
                            => \E i \in 1..(size - n) : src(i) = h
  <2> SUFFICES ASSUME NEW h \in 1..size, h \notin first..(first + n - 1)
               PROVE  \E i \in 1..(size - n) : src(i) = h
    OBVIOUS
  <2>1. CASE h < first
    <3>1. h \in 1..(size - n) /\ src(h) = h
      BY <2>1
    <3> QED BY <3>1
  <2>2. CASE ~(h < first)
    <3>1. h - n \in 1..(size - n) /\ src(h - n) = h
      BY <2>2
    <3> QED BY <3>1
  <2> QED BY <2>1, <2>2
<1> HIDE DEF g, src
<1>7. \A i \in 1..(size - n) : d[i].key \in DOMAIN g /\ d[i].val = g[d[i].key]
  <2> TAKE i \in 1..(size - n)
  <2>1. d[i] = c[src(i)] /\ src(i) \in 1..size /\ c[src(i)].key \notin ks
    BY <1>3, <1>4
  <2> HIDE DEF ks
  <2> QED BY <1>1, <1>2, <2>1
<1>8. \A k \in DOMAIN g : \E i \in 1..(size - n) : d[i].key = k
  <2> TAKE k \in DOMAIN g
  <2>1. k \in DOMAIN f /\ k \notin ks
    BY <1>2
  <2>2. PICK h \in 1..size : c[h].key = k
    <3> HIDE DEF ks
    <3> QED BY <2>1 DEF Carries
  <2>3. h \notin first..(first + n - 1)
    BY <2>1, <2>2
  <2>4. PICK i \in 1..(size - n) : src(i) = h
    BY <1>6, <2>3
  <2>5. d[i] = c[src(i)]
    BY <1>3
  <2> QED BY <2>2, <2>4, <2>5
<1>9. \A i, j \in 1..(size - n) : d[i].key = d[j].key => i = j
  <2> SUFFICES ASSUME NEW i \in 1..(size - n), NEW j \in 1..(size - n), d[i].key = d[j].key
               PROVE  i = j
    OBVIOUS
  <2>1. d[i] = c[src(i)] /\ src(i) \in 1..size /\ d[j] = c[src(j)] /\ src(j) \in 1..size
    BY <1>3
  <2>2. src(i) = src(j)
    BY <1>1, <2>1
  <2> QED BY <1>5, <2>2
<1>10. Carries(d, size - n, g)
  BY <1>2, <1>7, <1>8, <1>9 DEF Carries
<1> QED BY <1>10 DEF g

LEMMA FindIs ==
  ASSUME NEW m, MemSound(m), NEW v \in Maps, NEW k
  PROVE  LET i == find_internal(m, v, k)
             n == m.vec[v].size
             c == m.cell[m.vec[v].data]
         IN  \/ i = n + 1 /\ \A j \in 1..n : c[j].key # k
             \/ i \in 1..n /\ c[i].key = k
<1> DEFINE n == m.vec[v].size
           c == m.cell[m.vec[v].data]
           at == {i \in 1..n : c[i].key = k}
<1>1. n \in Nat
  BY VecFacts
<1>2. find_internal(m, v, k)
        = IF at = {} THEN n + 1 ELSE CHOOSE i \in at : \A j \in at : i <= j
  BY DEF find_internal, End, Block
<1>3. CASE at = {}
  BY <1>2, <1>3
<1>4. CASE at # {}
  <2>1. at \subseteq Nat
    BY <1>1
  <2>2. \E i \in at : \A j \in at : i <= j
    <3> HIDE DEF at
    <3> QED BY <1>4, <2>1, LeastNatural
  <2>3. find_internal(m, v, k) \in at
    <3> HIDE DEF at
    <3> QED BY <1>2, <1>4, <2>2
  <2> QED BY <2>3
<1> QED BY <1>3, <1>4

LEMMA KeepsHolding ==
  ASSUME NEW m, NEW t, NEW w, NEW f, KeepsVec(m, t, w), Holding(m, w, f)
  PROVE  Holding(t, w, f)
BY DEF KeepsVec, Holding

(* A step of the map v and of no other.                                    *)
LEMMA MapStep ==
  ASSUME MapInv, NEW v \in Maps, NEW f, MemSound(mem'), Holding(mem', v, f),
         \A w \in Maps : w # v => KeepsVec(mem, mem', w),
         shadow' = [shadow EXCEPT ![v] = f]
  PROVE  MapInv'
<1>1. shadow = [w \in Maps |-> shadow[w]] /\ \A w \in Maps : Holding(mem, w, shadow[w])
  BY DEF MapInv
<1>2. /\ shadow' = [w \in Maps |-> shadow'[w]] /\ shadow'[v] = f
      /\ \A w \in Maps : w # v => shadow'[w] = shadow[w]
  BY <1>1
<1>3. \A w \in Maps : Holding(mem', w, shadow'[w])
  <2> TAKE w \in Maps
  <2>1. CASE w = v
    BY <1>2, <2>1
  <2>2. CASE w # v
    <3>1. Holding(mem', w, shadow[w])
      BY <1>1, <2>2, KeepsHolding
    <3> QED BY <1>2, <2>2, <3>1
  <2> QED BY <2>1, <2>2
<1>4. (shadow = [w \in Maps |-> shadow[w]])'
  BY <1>2
<1>5. (\A w \in Maps : Holding(mem, w, shadow[w]))'
  BY <1>3 DEF Holding
<1> QED BY <1>4, <1>5 DEF MapInv

LEMMA ObjIs ==
  ASSUME NEW k \in Keys, NEW x \in Vals
  PROVE  Obj(k, x) \in Objs /\ Obj(k, x).key = k /\ Obj(k, x).val = x
BY DEF Obj, Objs

(* insert and try_emplace, and the first half of operator[].               *)
LEMMA AddIs ==
  ASSUME NEW m, MemSound(m), NEW v \in Maps, NEW f, Holding(m, v, f), NEW k \in Keys,
         NEW x \in Vals, find_internal(m, v, k) = End(m, v)
  PROVE  LET t == emplace_back(m, v, Obj(k, x))
         IN  /\ MemSound(t) /\ Holding(t, v, Extend(f, k, x))
             /\ t.vec[v].size = End(m, v) /\ k \notin DOMAIN f
             /\ t.cell[t.vec[v].data][End(m, v)] = Obj(k, x)
             /\ \A w \in Maps : w # v => KeepsVec(m, t, w)
<1> DEFINE t == push_back(m, v, Obj(k, x))
           n == m.vec[v].size
           c == m.cell[m.vec[v].data]
           d == t.cell[t.vec[v].data]
<1>1. Obj(k, x) \in Objs /\ Obj(k, x).key = k /\ Obj(k, x).val = x
  BY ObjIs
<1>2. /\ MemSound(t) /\ t.vec[v].size = n + 1 /\ d[n + 1] = Obj(k, x)
      /\ \A i \in 1..n : d[i] = c[i]
      /\ \A w \in Maps : w # v => KeepsVec(m, t, w)
  BY <1>1, PushBackIs, SMTT(30)
<1>3. n \in Nat /\ End(m, v) = n + 1
  BY VecFacts DEF End
<1>4. \A j \in 1..n : c[j].key # k
  <2>1. n + 1 \notin 1..n
    BY <1>3
  <2> QED BY <1>3, <2>1, FindIs
<1>5. Carries(c, n, f)
  BY DEF Holding
<1>6. k \notin DOMAIN f
  BY <1>4, <1>5 DEF Carries
<1> HIDE DEF t
<1>7. d[n + 1].key = k /\ d[n + 1].val = x
  BY <1>1, <1>2
<1>8. Carries(d, n + 1, Extend(f, k, x))
  <2> HIDE DEF d, n, c
  <2> QED BY <1>2, <1>3, <1>5, <1>6, <1>7, CarriesPush
<1>9. Holding(t, v, Extend(f, k, x))
  BY <1>2, <1>8 DEF Holding
<1>10. t = emplace_back(m, v, Obj(k, x))
  BY DEF t, emplace_back
<1> QED BY <1>2, <1>3, <1>6, <1>9, <1>10

LEMMA MapInsertStep ==
  ASSUME MapInv, NEW v \in Maps, NEW k \in Keys, NEW x \in Vals,
         mem' = emplace_impl(mem, v, k, x),
         shadow' = [shadow EXCEPT ![v] = Extend(@, k, x)]
  PROVE  MapInv'
<1> DEFINE f == shadow[v]
<1>1. MemSound(mem) /\ Holding(mem, v, f)
  BY DEF MapInv
<1>2. shadow' = [shadow EXCEPT ![v] = Extend(f, k, x)]
  OBVIOUS
<1> HIDE DEF f
<1>3. CASE find_internal(mem, v, k) = End(mem, v)
  <2>1. mem' = emplace_back(mem, v, Obj(k, x))
    BY <1>3 DEF emplace_impl
  <2>2. /\ MemSound(mem') /\ Holding(mem', v, Extend(f, k, x))
        /\ \A w \in Maps : w # v => KeepsVec(mem, mem', w)
    BY <1>1, <1>3, <2>1, AddIs
  <2> QED BY <1>2, <2>2, MapStep
<1>4. CASE find_internal(mem, v, k) # End(mem, v)
  <2>1. mem' = mem
    BY <1>4 DEF emplace_impl
  <2>2. PICK i \in 1..mem.vec[v].size : mem.cell[mem.vec[v].data][i].key = k
    BY <1>1, <1>4, FindIs DEF End
  <2>3. k \in DOMAIN f /\ IsMap(f)
    BY <1>1, <2>2 DEF Holding, Carries
  <2>4. Extend(f, k, x) = f
    BY <2>3, ExtendIs
  <2>5. /\ MemSound(mem') /\ Holding(mem', v, Extend(f, k, x))
        /\ \A w \in Maps : w # v => KeepsVec(mem, mem', w)
    BY <1>1, <2>1, <2>4 DEF KeepsVec
  <2> QED BY <1>2, <2>5, MapStep
<1> QED BY <1>3, <1>4

LEMMA MapEraseStep ==
  ASSUME MapInv, NEW v \in Maps, NEW first \in Nat, NEW n \in Nat, 1 <= first,
         first + n <= mem.vec[v].size + 1,
         mem' = EraseAt(mem, v, first, n),
         shadow' = [shadow EXCEPT ![v] =
            Without(@, {mem.cell[mem.vec[v].data][i].key : i \in first..(first + n - 1)})]
  PROVE  MapInv'
<1> DEFINE f == shadow[v]
           c == mem.cell[mem.vec[v].data]
           d == mem'.cell[mem'.vec[v].data]
           size == mem.vec[v].size
           g == Without(f, {c[i].key : i \in first..(first + n - 1)})
<1>1. MemSound(mem) /\ Carries(c, size, f)
  BY DEF MapInv, Holding
<1>2. ErasedFrom(mem, mem', v, first, n)
  BY <1>1, EraseIs
<1>3. size \in Nat
  BY <1>1, VecFacts
<1>4. shadow' = [shadow EXCEPT ![v] = g]
  OBVIOUS
<1>5. /\ MemSound(mem') /\ mem'.vec[v].size = size - n
      /\ \A i \in 1..(size - n) : d[i] = IF i < first THEN c[i] ELSE c[i + n]
      /\ \A w \in Maps : w # v => KeepsVec(mem, mem', w)
  BY <1>2 DEF ErasedFrom
<1>6. Carries(d, size - n, g)
  <2> HIDE DEF c, d, size, f
  <2> QED BY <1>1, <1>3, <1>5, CarriesErase DEF size
<1>7. Holding(mem', v, g)
  BY <1>5, <1>6 DEF Holding
<1> HIDE DEF g
<1> QED BY <1>4, <1>5, <1>7, MapStep

Assigned(m, v, i, x) == [m EXCEPT !.cell[m.vec[v].data][i].val = x]

LEMMA AssignIs ==
  ASSUME NEW m, MemSound(m), NEW v \in Maps, NEW f, Holding(m, v, f),
         NEW i \in 1..m.vec[v].size, NEW x \in Vals,
         NEW t, t = Assigned(m, v, i, x)
  PROVE  /\ MemSound(t)
         /\ Holding(t, v, With(f, m.cell[m.vec[v].data][i].key, x))
         /\ \A w \in Maps : w # v => KeepsVec(m, t, w)
<1> DEFINE d == m.vec[v]
           b == d.data
           c == m.cell[b]
           n == d.size
           o == [c[i] EXCEPT !.val = x]
           cc == With(c, i, o)
<1>1. /\ d \in Vecs /\ n \in Nat /\ c \in Seq(Cells) /\ d.capacity = Len(c) /\ Filled(c, n)
      /\ d = [size |-> d.size, capacity |-> d.capacity, data |-> d.data]
  BY VecFacts, VecFills
<1>2. /\ n <= Len(c) /\ Len(c) > 0 /\ Len(c) \in Nat /\ \A j \in 1..n : c[j] \in Objs
      /\ \A j \in (n + 1)..Len(c) : c[j] = Raw
  BY <1>1, FilledIs
<1>3. o \in Objs /\ o.key = c[i].key /\ o.val = x
  <2>1. PICK p \in Objs : p = c[i]
    BY <1>2
  <2>2. /\ [p EXCEPT !.val = x] \in Objs /\ [p EXCEPT !.val = x].key = p.key
        /\ [p EXCEPT !.val = x].val = x
    BY DEF Objs
  <2> QED BY <2>1, <2>2
<1>4. t = SetCell(m, b, cc)
  <2>1. t = [m EXCEPT !.cell[b] = [m.cell[b] EXCEPT ![i] = [m.cell[b][i] EXCEPT !.val = x]]]
    BY DEF Assigned
  <2> QED BY <2>1 DEF SetCell, With
<1> HIDE DEF o, c, n, b
<1>5. /\ cc \in Seq(Cells) /\ Len(cc) = Len(c) /\ cc[i] = o
      /\ \A j \in 1..Len(c) : j # i => cc[j] = c[j]
  <2>1. i \in 1..Len(c) /\ o \in Cells
    BY <1>1, <1>2, <1>3, RawIs DEF n
  <2> QED BY <1>1, <2>1 DEF With
<1> HIDE DEF cc
<1>6. Filled(cc, n)
  <2>1. \A j \in 1..n : cc[j] \in Objs
    BY <1>1, <1>2, <1>3, <1>5
  <2>2. \A j \in (n + 1)..Len(cc) : cc[j] = Raw
    <3> TAKE j \in (n + 1)..Len(cc)
    <3>1. j # i /\ j \in 1..Len(c) /\ j \in (n + 1)..Len(c)
      BY <1>1, <1>2, <1>5 DEF n
    <3> QED BY <1>2, <1>5, <3>1
  <2> QED BY <1>1, <1>2, <1>5, <2>1, <2>2 DEF Filled
<1>7. t = Refilled(m, v, n, cc, m.unpaired)
  <2>1. Sized(m.vec[v], n) = m.vec[v]
    BY <1>1 DEF Sized, n
  <2>2. With(m.vec, v, m.vec[v]) = m.vec
    BY MemoryIs DEF With, AllVecs
  <2>3. t = Memory(m.vec, With(m.cell, b, cc), m.unpaired)
    BY <1>4, SetCellIs DEF Celled
  <2> QED BY <2>1, <2>2, <2>3 DEF Refilled, Stepped, b
<1>8. Len(cc) = m.vec[v].capacity
  BY <1>1, <1>5
<1>9. /\ MemSound(t) /\ t.cell[t.vec[v].data] = cc /\ t.vec[v] = Sized(m.vec[v], n)
      /\ \A w \in Maps : w # v => KeepsVec(m, t, w)
  BY <1>5, <1>6, <1>7, <1>8, SameBlock
<1>10. t.vec[v].size = n
  BY <1>9, SizedIs
<1>11. Carries(c, n, f)
  BY DEF Holding, c, n, b
<1>12. Carries(cc, n, With(f, c[i].key, x))
  <2>1. i \in 1..n
    BY DEF n
  <2>2. \A j \in 1..n : j # i => cc[j] = c[j]
    BY <1>1, <1>2, <1>5
  <2>3. cc[i].key = c[i].key /\ cc[i].val = x
    BY <1>3, <1>5
  <2> QED BY <1>1, <1>11, <2>1, <2>2, <2>3, CarriesAssign DEF With
<1>13. Holding(t, v, With(f, c[i].key, x))
  BY <1>9, <1>10, <1>12 DEF Holding
<1> QED BY <1>9, <1>13 DEF c, b

LEMMA MapIndexStep ==
  ASSUME MapInv, NEW v \in Maps, NEW k \in Keys, NEW x \in Vals, MapIndex(v, k, x)
  PROVE  MapInv'
<1> DEFINE f == shadow[v]
           i == find_internal(mem, v, k)
           n == IF i # End(mem, v) THEN mem ELSE emplace_back(mem, v, Obj(k, Default))
           g == IF i # End(mem, v) THEN f ELSE Extend(f, k, Default)
           h == [Extend(f, k, x) EXCEPT ![k] = x]
<1>1. MemSound(mem) /\ Holding(mem, v, f) /\ IsMap(f)
  BY DEF MapInv, Holding, Carries
<1>2. /\ mem' = Assigned(n, v, i, x)
      /\ shadow' = [shadow EXCEPT ![v] = h]
  BY DEF MapIndex, Assigned
<1>3. mem.vec[v].size \in Nat /\ End(mem, v) = mem.vec[v].size + 1
  BY <1>1, VecFacts DEF End
<1>4. /\ MemSound(n) /\ Holding(n, v, g) /\ i \in 1..n.vec[v].size
      /\ n.cell[n.vec[v].data][i].key = k
      /\ \A w \in Maps : w # v => KeepsVec(mem, n, w)
      /\ With(g, k, x) = h
  <2>1. CASE i # End(mem, v)
    <3>1. n = mem /\ g = f
      BY <2>1
    <3>2. i \in 1..mem.vec[v].size /\ mem.cell[mem.vec[v].data][i].key = k
      BY <1>1, <1>3, <2>1, FindIs
    <3>3. k \in DOMAIN f
      BY <1>1, <3>2, CarriedKey DEF Holding
    <3>4. Extend(f, k, x) = f
      BY <1>1, <3>3, ExtendIs
    <3> HIDE DEF n, g, i, f
    <3>5. With(g, k, x) = h
      BY <3>1, <3>4 DEF With
    <3>6. \A w \in Maps : w # v => KeepsVec(mem, n, w)
      BY <3>1 DEF KeepsVec
    <3> QED BY <1>1, <3>1, <3>2, <3>5, <3>6
  <2>2. CASE i = End(mem, v)
    <3>0. Default \in Vals
      BY SmallMapAssumption
    <3>1. n = emplace_back(mem, v, Obj(k, Default)) /\ g = Extend(f, k, Default)
      BY <2>2
    <3>2. find_internal(mem, v, k) = End(mem, v)
      BY <2>2
    <3> HIDE DEF n, g, i, f
    <3>3. /\ MemSound(n) /\ Holding(n, v, g) /\ n.vec[v].size = End(mem, v)
          /\ k \notin DOMAIN f /\ n.cell[n.vec[v].data][End(mem, v)] = Obj(k, Default)
          /\ \A w \in Maps : w # v => KeepsVec(mem, n, w)
      BY <1>1, <3>0, <3>1, <3>2, AddIs
    <3>4. i \in 1..n.vec[v].size /\ n.cell[n.vec[v].data][i].key = k
      BY <1>3, <2>2, <3>0, <3>3, ObjIs
    <3>5. With(g, k, x) = h
      BY <3>1 DEF Extend, With
    <3> QED BY <3>3, <3>4, <3>5
  <2> QED BY <2>1, <2>2
<1> HIDE DEF n, i, g, h, f
<1>5. /\ MemSound(mem') /\ Holding(mem', v, With(g, n.cell[n.vec[v].data][i].key, x))
      /\ \A w \in Maps : w # v => KeepsVec(n, mem', w)
  BY <1>2, <1>4, AssignIs
<1>6. Holding(mem', v, h)
  BY <1>4, <1>5
<1>7. \A w \in Maps : w # v => KeepsVec(mem, mem', w)
  BY <1>4, <1>5 DEF KeepsVec
<1> QED BY <1>2, <1>5, <1>6, <1>7, MapStep

LEMMA MapEraseKeyStep ==
  ASSUME MapInv, NEW v \in Maps, NEW k \in Keys, MapErase(v, k)
  PROVE  MapInv'
<1> DEFINE f == shadow[v]
           i == find_internal(mem, v, k)
           c == mem.cell[mem.vec[v].data]
           size == mem.vec[v].size
<1>1. MemSound(mem) /\ Holding(mem, v, f) /\ Carries(c, size, f) /\ IsMap(f)
  BY DEF MapInv, Holding, Carries
<1>2. /\ mem' = IF i = End(mem, v) THEN mem ELSE EraseAt(mem, v, i, 1)
      /\ shadow' = [shadow EXCEPT ![v] = Without(f, {k})]
  BY DEF MapErase
<1>3. size \in Nat /\ End(mem, v) = size + 1
  BY <1>1, VecFacts DEF End
<1>4. \/ i = size + 1 /\ \A j \in 1..size : c[j].key # k
      \/ i \in 1..size /\ c[i].key = k
  BY <1>1, FindIs
<1> HIDE DEF f, i
<1>5. CASE i = size + 1 /\ \A j \in 1..size : c[j].key # k
  <2>1. k \notin DOMAIN f
    BY <1>1, <1>5 DEF Carries
  <2>2. f = [j \in DOMAIN f |-> f[j]]
    BY <1>1 DEF IsMap
  <2>3. Without(f, {k}) = f
    <3>1. DOMAIN f \ {k} = DOMAIN f
      BY <2>1
    <3> QED BY <2>2, <3>1 DEF Without
  <2>4. mem' = mem
    BY <1>2, <1>3, <1>5
  <2>5. /\ MemSound(mem') /\ Holding(mem', v, Without(f, {k}))
        /\ \A w \in Maps : w # v => KeepsVec(mem, mem', w)
    BY <1>1, <2>3, <2>4 DEF KeepsVec
  <2> QED BY <1>2, <2>5, MapStep
<1>6. CASE i \in 1..size /\ c[i].key = k
  <2>1. mem' = EraseAt(mem, v, i, 1) /\ i \in Nat /\ 1 <= i /\ i + 1 <= size + 1
    BY <1>2, <1>3, <1>6
  <2>2. i..(i + 1 - 1) = {i}
    BY <2>1
  <2>3. {c[j].key : j \in i..(i + 1 - 1)} = {k}
    BY <1>6, <2>2
  <2>4. shadow' = [shadow EXCEPT ![v] = Without(shadow[v], {c[j].key : j \in i..(i + 1 - 1)})]
    BY <1>2, <2>3 DEF f
  <2> QED BY <2>1, <2>4, MapEraseStep
<1> QED BY <1>4, <1>5, <1>6

LEMMA MapEraseRangeStep ==
  ASSUME MapInv, NEW v \in Maps, NEW first \in Positions(mem, v),
         NEW last \in Positions(mem, v), MapEraseRange(v, first, last)
  PROVE  MapInv'
<1> DEFINE f == shadow[v]
           c == mem.cell[mem.vec[v].data]
           size == mem.vec[v].size
           n == last - first
<1>1. MemSound(mem) /\ Holding(mem, v, f) /\ IsMap(f)
  BY DEF MapInv, Holding, Carries
<1>2. /\ first <= last
      /\ mem' = IF first = last THEN mem ELSE EraseAt(mem, v, first, n)
      /\ shadow' = [shadow EXCEPT ![v] = Without(@, {c[i].key : i \in first..(last - 1)})]
  BY DEF MapEraseRange, Block
<1>3. size \in Nat /\ first \in 1..(size + 1) /\ last \in 1..(size + 1)
  BY <1>1, VecFacts DEF Positions
<1>4. CASE first = last
  <2>1. first..(last - 1) = {}
    BY <1>3, <1>4
  <2> DEFINE ks == {c[i].key : i \in first..(last - 1)}
  <2>2. ks = {}
    BY <2>1
  <2>3. f = [j \in DOMAIN f |-> f[j]]
    BY <1>1 DEF IsMap
  <2> HIDE DEF ks
  <2>4. Without(f, ks) = f
    BY <2>2, <2>3 DEF Without
  <2>5. mem' = mem
    BY <1>2, <1>4
  <2>6. shadow' = [shadow EXCEPT ![v] = Without(f, ks)]
    BY <1>2 DEF ks
  <2>7. /\ MemSound(mem') /\ Holding(mem', v, Without(f, ks))
        /\ \A w \in Maps : w # v => KeepsVec(mem, mem', w)
    BY <1>1, <2>4, <2>5 DEF KeepsVec
  <2> QED BY <2>6, <2>7, MapStep
<1>5. CASE first # last
  <2>1. /\ mem' = EraseAt(mem, v, first, n) /\ first \in Nat /\ n \in Nat /\ 1 <= first
        /\ first + n <= size + 1 /\ last - 1 = first + n - 1
    BY <1>2, <1>3, <1>5
  <2>2. shadow' = [shadow EXCEPT ![v] = Without(@, {c[i].key : i \in first..(first + n - 1)})]
    <3> HIDE DEF n
    <3> QED BY <1>2, <2>1
  <2> HIDE DEF n
  <2> QED BY <2>1, <2>2, MapEraseStep
<1> QED BY <1>4, <1>5

LEMMA MapClearStep ==
  ASSUME MapInv, NEW v \in Maps, MapClear(v)
  PROVE  MapInv'
<1>1. MemSound(mem)
  BY DEF MapInv
<1>2. mem' = clear(mem, v) /\ shadow' = [shadow EXCEPT ![v] = <<>>]
  BY DEF MapClear
<1>3. /\ MemSound(mem') /\ mem'.vec[v].size = 0
      /\ \A w \in Maps : w # v => KeepsVec(mem, mem', w)
  BY <1>1, <1>2, ClearIs, SizedIs
<1>4. Holding(mem', v, <<>>)
  BY <1>3, CarriesNothing DEF Holding
<1> QED BY <1>2, <1>3, <1>4, MapStep

LEMMA MapCopyStep ==
  ASSUME MapInv, NEW v \in Maps, NEW w \in Maps, MapCopy(v, w)
  PROVE  MapInv'
<1>1. MemSound(mem) /\ Holding(mem, w, shadow[w])
  BY DEF MapInv
<1>2. CopyOf(mem, mem', v, w) /\ shadow' = [shadow EXCEPT ![v] = shadow[w]]
  BY <1>1, CopyIs DEF MapCopy
<1>3. /\ MemSound(mem') /\ mem'.vec[v].size = mem.vec[w].size
      /\ \A i \in 1..mem.vec[w].size :
            mem'.cell[mem'.vec[v].data][i] = mem.cell[mem.vec[w].data][i]
      /\ \A u \in Maps : u # v => KeepsVec(mem, mem', u)
  BY <1>2 DEF CopyOf
<1>4. Holding(mem', v, shadow[w])
  BY <1>1, <1>3, CarriesSame DEF Holding
<1> QED BY <1>2, <1>3, <1>4, MapStep

LEMMA MapMoveStep ==
  ASSUME MapInv, NEW v \in Maps, NEW w \in Maps, MapMove(v, w)
  PROVE  MapInv'
<1>1. MemSound(mem) /\ \A u \in Maps : Holding(mem, u, shadow[u])
  BY DEF MapInv
<1>2. /\ v # w /\ mem' = MoveFrom(mem, v, w)
      /\ shadow' = [shadow EXCEPT ![v] = shadow[w], ![w] = <<>>]
  BY DEF MapMove, MoveAssign
<1>3. MovedTo(mem, mem', v, w)
  BY <1>1, <1>2, MoveInline, MoveHeap
<1>4. /\ MemSound(mem') /\ mem'.vec[v].size = mem.vec[w].size /\ mem'.vec[w].size = 0
      /\ \A i \in 1..mem.vec[w].size :
            mem'.cell[mem'.vec[v].data][i] = mem.cell[mem.vec[w].data][i]
      /\ \A u \in Maps : u # v /\ u # w => KeepsVec(mem, mem', u)
  BY <1>3 DEF MovedTo
<1>5. Holding(mem', v, shadow[w])
  BY <1>1, <1>4, CarriesSame DEF Holding
<1>6. Holding(mem', w, <<>>)
  BY <1>4, CarriesNothing DEF Holding
<1>7. shadow = [u \in Maps |-> shadow[u]]
  BY DEF MapInv
<1>8. /\ shadow' = [u \in Maps |-> shadow'[u]] /\ shadow'[v] = shadow[w] /\ shadow'[w] = <<>>
      /\ \A u \in Maps : u # v /\ u # w => shadow'[u] = shadow[u]
  BY <1>2, <1>7
<1>9. \A u \in Maps : Holding(mem', u, shadow'[u])
  <2> TAKE u \in Maps
  <2>1. CASE u = v
    BY <1>5, <1>8, <2>1
  <2>2. CASE u = w
    BY <1>6, <1>8, <2>2
  <2>3. CASE u # v /\ u # w
    <3>1. Holding(mem', u, shadow[u])
      BY <1>1, <1>4, <2>3, KeepsHolding
    <3> QED BY <1>8, <2>3, <3>1
  <2> QED BY <2>1, <2>2, <2>3
<1>10. (shadow = [u \in Maps |-> shadow[u]])'
  BY <1>8
<1>11. (\A u \in Maps : Holding(mem, u, shadow[u]))'
  BY <1>9 DEF Holding
<1> QED BY <1>4, <1>10, <1>11 DEF MapInv

LEMMA MapInitSound ==
  ASSUME MapInit
  PROVE  MapInv
<1> DEFINE V == [v \in Maps |-> InlineVector(v)]
           C == [b \in Maps \cup Heap |-> IF b \in Maps THEN Blank(N) ELSE <<>>]
<1>1. /\ mem = [vec |-> V, cell |-> C, fault |-> Clean, unpaired |-> Clean]
      /\ shadow = [v \in Maps |-> <<>>]
  BY DEF MapInit, Clean
<1>2. mem = Memory(V, C, Clean)
  BY <1>1 DEF Memory
<1>3. mem.vec = V /\ mem.cell = C /\ mem.unpaired = Clean
  BY <1>2, Parts
<1>4. N \in Nat /\ N > 0
  BY SmallMapAssumption
<1>5. Blank(N) \in Seq(Cells) /\ Len(Blank(N)) = N /\ \A i \in 1..N : Blank(N)[i] = Raw
  BY <1>4, BlankIs
<1>6. Filled(Blank(N), 0)
  BY <1>4, <1>5 DEF Filled
<1>7. \A v \in Maps : InlineVector(v) \in Vecs /\ InlineVector(v).data = v
                      /\ InlineVector(v).size = 0 /\ InlineVector(v).capacity = N
  BY <1>4 DEF InlineVector, Vecs, Blocks
<1>8. <<>> \in Seq(Cells)
  OBVIOUS
<1>9. V \in AllVecs /\ C \in AllCells
  <2>1. V \in AllVecs
    BY <1>7 DEF AllVecs
  <2>2. C \in AllCells
    BY <1>5, <1>8 DEF AllCells, Blocks
  <2> QED BY <2>1, <2>2
<1>10. \A v \in Maps : V[v] = InlineVector(v) /\ C[v] = Blank(N)
  OBVIOUS
<1>11. \A b \in Heap : C[b] = <<>>
  BY SmallMapAssumption
<1> HIDE DEF V, C
<1>12. MemShape(mem)
  BY <1>2, <1>3, <1>9 DEF MemShape
<1>13. \A v \in Maps : VecSound(mem, v) /\ mem.vec[v].data = v /\ mem.vec[v].size = 0
  <2> TAKE v \in Maps
  <2>1. SoundVec(InlineVector(v), Blank(N), Blank(N), v)
    BY <1>5, <1>6, <1>7 DEF SoundVec
  <2> QED BY <1>3, <1>7, <1>10, <2>1 DEF VecSound
<1>14. MemSound(mem)
  BY <1>3, <1>11, <1>12, <1>13 DEF MemSound
<1>15. \A v \in Maps : Holding(mem, v, shadow[v])
  BY <1>1, <1>13, CarriesNothing DEF Holding
<1>16. shadow = [v \in Maps |-> shadow[v]]
  BY <1>1
<1> QED BY <1>14, <1>15, <1>16 DEF MapInv

LEMMA MapNextSound ==
  ASSUME MapInv, [MapNext]_mapVars
  PROVE  MapInv'
<1>1. ASSUME NEW v \in Maps, NEW k \in Keys, NEW x \in Vals, MapInsert(v, k, x)
      PROVE  MapInv'
  BY <1>1, MapInsertStep DEF MapInsert
<1>2. ASSUME NEW v \in Maps, NEW k \in Keys, NEW x \in Vals, MapTryEmplace(v, k, x)
      PROVE  MapInv'
  BY <1>2, MapInsertStep DEF MapTryEmplace, try_emplace
<1>3. CASE UNCHANGED mapVars
  BY <1>3 DEF MapInv, mapVars, Holding
<1>4. CASE MapNext
  BY <1>1, <1>2, <1>4, MapIndexStep, MapEraseKeyStep, MapEraseRangeStep, MapClearStep, MapCopyStep,
     MapMoveStep DEF MapNext
<1> QED BY <1>3, <1>4

LEMMA CarriesCount ==
  ASSUME NEW c, NEW n \in Nat, NEW f, Carries(c, n, f)
  PROVE  IsFiniteSet(DOMAIN f) /\ Cardinality(DOMAIN f) = n
<1> DEFINE h == [i \in 1..n |-> c[i].key]
<1>1. /\ \A i \in 1..n : c[i].key \in DOMAIN f
      /\ \A k \in DOMAIN f : \E i \in 1..n : c[i].key = k
      /\ \A i, j \in 1..n : c[i].key = c[j].key => i = j
  BY DEF Carries
<1>2. h \in [1..n -> DOMAIN f]
  BY <1>1
<1>3. \A i, j \in 1..n : h[i] = h[j] => i = j
  BY <1>1
<1>4. \A k \in DOMAIN f : \E i \in 1..n : h[i] = k
  BY <1>1
<1> HIDE DEF h
<1>5. h \in Bijection(1..n, DOMAIN f)
  BY <1>2, <1>3, <1>4 DEF Bijection, Injection, Surjection, IsInjective
<1>6. IsFiniteSet(1..n) /\ Cardinality(1..n) = n
  BY FS_Interval
<1>7. ExistsBijection(1..n, DOMAIN f)
  BY <1>5 DEF ExistsBijection
<1> QED BY <1>6, <1>7, FS_Bijection

(* find_internal finds a key exactly if the map has it, with its value.    *)
LEMMA FindAgrees ==
  ASSUME MapInv, NEW v \in Maps, NEW k
  PROVE  LET i == find_internal(mem, v, k)
         IN  IF k \in DOMAIN shadow[v]
             THEN i # End(mem, v) /\ Block(mem, v)[i].val = shadow[v][k]
             ELSE i = End(mem, v)
<1> DEFINE i == find_internal(mem, v, k)
           n == mem.vec[v].size
           c == mem.cell[mem.vec[v].data]
           f == shadow[v]
<1>1. MemSound(mem) /\ Carries(c, n, f)
  BY DEF MapInv, Holding
<1>2. n \in Nat /\ End(mem, v) = n + 1 /\ Block(mem, v) = c
  BY <1>1, VecFacts DEF End, Block
<1>3. \/ i = n + 1 /\ \A j \in 1..n : c[j].key # k
      \/ i \in 1..n /\ c[i].key = k
  BY <1>1, FindIs
<1> HIDE DEF i, n, c, f
<1>4. CASE k \in DOMAIN f
  <2>1. i \in 1..n /\ c[i].key = k
    BY <1>1, <1>3, <1>4 DEF Carries
  <2>2. c[i].val = f[k]
    BY <1>1, <2>1 DEF Carries
  <2>3. i # n + 1
    BY <1>2, <2>1
  <2> QED BY <1>2, <1>4, <2>2, <2>3 DEF f, i
<1>5. CASE k \notin DOMAIN f
  <2>1. ~(i \in 1..n /\ c[i].key = k)
    BY <1>1, <1>5 DEF Carries
  <2> QED BY <1>2, <1>3, <1>5, <2>1 DEF f, i
<1> QED BY <1>4, <1>5

LEMMA EqualAgrees ==
  ASSUME MapInv, NEW v \in Maps, NEW w \in Maps
  PROVE  MapEqual(mem, v, w) <=> shadow[v] = shadow[w]
<1> DEFINE n == mem.vec[v].size
           c == mem.cell[mem.vec[v].data]
           f == shadow[v]
           g == shadow[w]
           F(k) == find_internal(mem, w, k)
<1>1. MemSound(mem) /\ Carries(c, n, f) /\ Carries(mem.cell[mem.vec[w].data], mem.vec[w].size, g)
  BY DEF MapInv, Holding
<1>2. n \in Nat /\ mem.vec[w].size \in Nat /\ Block(mem, v) = c
  BY <1>1, VecFacts DEF Block
<1>3. /\ IsFiniteSet(DOMAIN f) /\ Cardinality(DOMAIN f) = n
      /\ IsFiniteSet(DOMAIN g) /\ Cardinality(DOMAIN g) = mem.vec[w].size
  <2>1. PICK q : q = mem.cell[mem.vec[w].data]
    OBVIOUS
  <2>2. PICK z \in Nat : z = mem.vec[w].size
    BY <1>2
  <2>3. Carries(q, z, g)
    BY <1>1, <2>1, <2>2
  <2> HIDE DEF n, c, f, g
  <2> QED BY <1>1, <1>2, <2>2, <2>3, CarriesCount
<1>4. \A k : IF k \in DOMAIN g
             THEN F(k) # End(mem, w) /\ Block(mem, w)[F(k)].val = g[k]
             ELSE F(k) = End(mem, w)
  BY FindAgrees
<1>5. MapEqual(mem, v, w) <=>
        /\ n = mem.vec[w].size
        /\ \A i \in 1..n : F(c[i].key) # End(mem, w)
                           /\ Block(mem, w)[F(c[i].key)].val = c[i].val
  BY <1>2 DEF MapEqual
<1> HIDE DEF n, c, f, g, F
<1>6. IsMap(f) /\ IsMap(g)
  BY <1>1 DEF Carries
<1>7. ASSUME f = g PROVE MapEqual(mem, v, w)
  <2>1. n = mem.vec[w].size
    BY <1>3, <1>7
  <2>2. ASSUME NEW i \in 1..n
        PROVE  F(c[i].key) # End(mem, w) /\ Block(mem, w)[F(c[i].key)].val = c[i].val
    <3>1. c[i].key \in DOMAIN g /\ c[i].val = g[c[i].key]
      BY <1>1, <1>7 DEF Carries
    <3> QED BY <1>4, <3>1
  <2> QED BY <1>5, <2>1, <2>2
<1>8. ASSUME MapEqual(mem, v, w) PROVE f = g
  <2>1. /\ n = mem.vec[w].size
        /\ \A i \in 1..n : F(c[i].key) # End(mem, w)
                           /\ Block(mem, w)[F(c[i].key)].val = c[i].val
    BY <1>5, <1>8
  <2>2. ASSUME NEW k \in DOMAIN f PROVE k \in DOMAIN g /\ f[k] = g[k]
    <3>1. PICK i \in 1..n : c[i].key = k
      BY <1>1 DEF Carries
    <3>2. c[i].val = f[k]
      BY <1>1, <3>1 DEF Carries
    <3>3. k \in DOMAIN g
      BY <1>4, <2>1, <3>1
    <3> QED BY <1>4, <2>1, <3>1, <3>2, <3>3
  <2>3. DOMAIN f \in SUBSET DOMAIN g
    BY <2>2
  <2>4. DOMAIN g = DOMAIN f
    BY <1>3, <2>1, <2>3, FS_Subset
  <2> QED BY <1>6, <2>2, <2>4 DEF IsMap
<1> QED BY <1>7, <1>8 DEF f, g

LEMMA InvIsMapAgrees ==
  ASSUME MapInv
  PROVE  MapAgrees
<1>1. ASSUME NEW v \in Maps PROVE mem.vec[v].size = Cardinality(DOMAIN shadow[v])
  <2>1. MemSound(mem) /\ Carries(mem.cell[mem.vec[v].data], mem.vec[v].size, shadow[v])
    BY DEF MapInv, Holding
  <2>2. mem.vec[v].size \in Nat
    BY <2>1, VecFacts
  <2> QED BY <2>1, <2>2, CarriesCount
<1> QED BY <1>1, FindAgrees, EqualAgrees DEF MapAgrees

LEMMA InvIsStorageSound ==
  ASSUME MapInv
  PROVE  StorageSound
<1>1. MemSound(mem)
  BY DEF MapInv
<1>2. ~mem.fault
  <2>1. mem = Memory(mem.vec, mem.cell, mem.unpaired)
    BY <1>1, MemoryIs
  <2>2. Memory(mem.vec, mem.cell, mem.unpaired).fault = Clean
    BY Parts
  <2>3. mem.fault = Clean
    BY <2>1, <2>2
  <2> QED BY <2>3 DEF Clean
<1>3. ASSUME NEW v \in Maps
      PROVE  /\ mem.vec[v].capacity = Len(Block(mem, v))
             /\ \A i \in DOMAIN Block(mem, v) :
                   IF i <= mem.vec[v].size
                   THEN Block(mem, v)[i] # Raw /\ Block(mem, v)[i].val # Moved
                   ELSE Block(mem, v)[i] = Raw
             /\ ~IsInline(mem, v) => Range(mem.cell[v]) = {Raw}
  <2> DEFINE c == mem.cell[mem.vec[v].data]
             n == mem.vec[v].size
             o == mem.cell[v]
  <2>1. /\ c \in Seq(Cells) /\ n \in Nat /\ Block(mem, v) = c /\ mem.vec[v].capacity = Len(c)
        /\ Filled(c, n) /\ VecSound(mem, v) /\ o \in Seq(Cells)
    BY <1>1, VecFacts, VecFills, ZenonT(60)
  <2>2. DOMAIN c = 1..Len(c) /\ Len(c) \in Nat
    BY <2>1
  <2>3. \A i \in DOMAIN c : IF i <= n THEN c[i] # Raw /\ c[i].val # Moved ELSE c[i] = Raw
    <3> TAKE i \in DOMAIN c
    <3>1. CASE i <= n
      <4>1. c[i] \in Objs
        BY <2>1, <2>2, <3>1 DEF Filled
      <4> QED BY <3>1, <4>1, RawIs
    <3>2. CASE ~(i <= n)
      BY <2>1, <2>2, <3>2 DEF Filled
    <3> QED BY <3>1, <3>2
  <2>4. ASSUME ~IsInline(mem, v) PROVE Range(o) = {Raw}
    <3>1. mem.vec[v].data # v
      BY <2>4 DEF IsInline
    <3>2. Len(o) = N /\ \A i \in 1..N : o[i] = Raw
      BY <2>1, <3>1 DEF VecSound, SoundVec
    <3>3. DOMAIN o = 1..N /\ 1 \in DOMAIN o
      BY <2>1, <3>2, SmallMapAssumption
    <3> HIDE DEF o
    <3> QED BY <3>2, <3>3 DEF Range
  <2> QED BY <2>1, <2>3, <2>4
<1>4. ASSUME NEW b \in Heap
      PROVE  Cardinality({v \in Maps : mem.vec[v].data = b})
                = IF mem.cell[b] = <<>> THEN 0 ELSE 1
  <2> DEFINE S == {v \in Maps : mem.vec[v].data = b}
  <2>1. CASE mem.cell[b] = <<>>
    <3>1. \A v \in Maps : mem.cell[mem.vec[v].data] # <<>>
      BY <1>1, VecFacts
    <3>2. S = {}
      BY <2>1, <3>1
    <3> QED BY <2>1, <3>2, FS_EmptySet
  <2>2. CASE mem.cell[b] # <<>>
    <3>1. PICK v \in Maps : mem.vec[v].data = b
      BY <1>1, <2>2 DEF MemSound
    <3>2. \A u \in Maps : mem.vec[u].data = b => u = v
      BY <1>1, <3>1 DEF MemSound
    <3>3. S = {v}
      BY <3>1, <3>2
    <3> QED BY <2>2, <3>3, FS_Singleton
  <2> QED BY <2>1, <2>2
<1> QED BY <1>2, <1>3, <1>4 DEF StorageSound

(* A SmallMap is the map its callers built, and its InlinedVector manages  *)
(* storage soundly through growth, copy, assignment and move: for every    *)
(* inline capacity, any number of maps, keys and values.  Erasure keeps    *)
(* the contents and leaves exactly the cells beyond the new size raw; that *)
(* it destroys each pair once is not claimed, and is false: DestroyedOnce. *)
THEOREM SmallMapsAreSound == MapSpec => []MapSound
<1>1. MapInit => MapInv
  BY MapInitSound
<1>2. MapInv /\ [MapNext]_mapVars => MapInv'
  BY MapNextSound
<1>3. MapInv => MapSound
  BY InvIsStorageSound, InvIsMapAgrees DEF MapSound
<1> QED BY <1>1, <1>2, <1>3, PTL DEF MapSpec
=============================================================================
