---------------------------- MODULE HandleTable -----------------------------
(***************************************************************************)
(* core/handle_table.h, core/handle_table.cc, core/handle.h.  A handle is  *)
(* the generation shifted above the slot's index.  The slots are memory    *)
(* from posix_memalign: until Allocate writes it, a slot's handle is       *)
(* whatever the memory held.                                               *)
(***************************************************************************)
EXTENDS Naturals, FiniteSets, Sequences

CONSTANTS
    Slots,      \* the template argument N
    IndexBits,  \* std::bit_width(N - 1)
    MaxGen,     \* bound: generations handed out
    Garbage     \* what unwritten slot memory may hold

ASSUME HandleTableAssumption ==
    /\ Slots \in Nat \ {0}
    /\ IndexBits \in Nat
    /\ Slots <= 2^IndexBits
    /\ MaxGen \in Nat
    /\ Garbage \subseteq Nat

VARIABLES
    slot,           \* the handle word of every slot
    next_allocate,
    generation,
    free_indexes,   \* a stack
    built,          \* how often each slot's object is constructed, less destroyed
    issued,         \* handles ever returned
    held,           \* handles returned and not yet freed
    gone            \* the table has been destroyed

handleVars ==
    <<slot, next_allocate, generation, free_indexes, built, issued, held, gone>>

Indexes == 0..(Slots - 1)

\* Handle::kInvalid, the all-ones word, reduced to the widths in use here.
kInvalid == 2^(IndexBits + MaxGen + 1) - 1

\* Arithmetic, stated because the provers know nothing of powers.
ASSUME InvalidIsNat == kInvalid \in Nat

GetIndex(h) == h % 2^IndexBits

ValidateHandle(h) == GetIndex(h) < Slots

CanAllocate == free_indexes # <<>> \/ next_allocate < Slots

\* Lookup succeeds, and so would Free.
Resolves(h) ==
    ValidateHandle(h) /\ slot[GetIndex(h)] = h /\ slot[GetIndex(h)] # 0

HandleInit ==
    /\ slot \in [Indexes -> Garbage]
    /\ next_allocate = 0
    /\ generation = 1
    /\ free_indexes = <<>>
    /\ built = [i \in Indexes |-> 0]
    /\ issued = {} /\ held = {}
    /\ gone = FALSE

AllocateHandleSlip(index) == (generation * 2^IndexBits + index) % 2^(IndexBits + 1)

\* (generation_++ << index_bits_) | index; generation_ starts at 1, so the word
\* is never 0 and the loop around it runs once.
AllocateHandle(index) == generation * 2^IndexBits + index

Allocate ==
    /\ ~gone /\ CanAllocate
    /\ generation <= MaxGen
    /\ LET top   == Len(free_indexes)
           index == IF top > 0 THEN free_indexes[top] ELSE next_allocate
           h     == AllocateHandle(index)
       IN  /\ free_indexes' = IF top > 0 THEN SubSeq(free_indexes, 1, top - 1)
                              ELSE free_indexes
           /\ next_allocate' = IF top > 0 THEN next_allocate ELSE next_allocate + 1
           /\ generation' = generation + 1
           /\ slot' = [slot EXCEPT ![index] = h]
           /\ built' = [built EXCEPT ![index] = @ + 1]
           /\ issued' = issued \cup {h}
           /\ held' = held \cup {h}
    /\ UNCHANGED gone

\* Free refuses (kInvalidArgument) a handle that does not resolve.
FreeHandle(h) ==
    /\ ~gone /\ Resolves(h)
    /\ LET index == GetIndex(h)
       IN  /\ slot' = [slot EXCEPT ![index] = 0]
           /\ built' = [built EXCEPT ![index] = @ - 1]
           /\ free_indexes' = Append(free_indexes, index)
    /\ held' = held \ {h}
    /\ UNCHANGED <<next_allocate, generation, issued, gone>>

\* ~HandleTable looks only at slots that Allocate has reached.
DestroyTable ==
    /\ ~gone
    /\ built' = [i \in Indexes |-> IF i < next_allocate /\ slot[i] # 0
                                   THEN built[i] - 1 ELSE built[i]]
    /\ held' = {} /\ gone' = TRUE
    /\ UNCHANGED <<slot, next_allocate, generation, free_indexes, issued>>

HandleNext ==
    \/ Allocate
    \/ \E h \in issued \cup {kInvalid} : FreeHandle(h)
    \/ DestroyTable

HandleSpec == HandleInit /\ [][HandleNext]_handleVars

-----------------------------------------------------------------------------
\* A handle resolves from the Allocate that returned it to the Free that took it
\* back and at no other time: a slot that is reused, and whatever its memory
\* held before, never answers for a handle of an earlier generation.
ResolvesWhileHeld ==
    ~gone => \A h \in issued : Resolves(h) <=> h \in held

\* Every slot holds one object exactly while some held handle names it: frees
\* through stale handles and the table's destructor destroy each object once,
\* and never memory in which nothing was constructed.
ObjectPerHandle ==
    \A i \in Indexes :
        built[i] = Cardinality({h \in held : GetIndex(h) = i})

(* A handle finds its object while it is held, no freed handle finds any,  *)
(* and every live object has one handle.                                   *)
HandlesSound == ResolvesWhileHeld /\ ObjectPerHandle
=============================================================================
