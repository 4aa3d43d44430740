------------------------------ MODULE SmallMap ------------------------------
(***************************************************************************)
(* core/inlined_vector.h and core/small_map.h.  The vector is modelled at  *)
(* the level of its storage: a block is the vector's own inline storage or *)
(* an array of the heap, a cell of a block holds an object or raw memory,  *)
(* and construction, destruction, allocation and release are the steps     *)
(* that can go wrong.  The map is a sequence of pairs on top of it.        *)
(*                                                                         *)
(* The vector's operations are operators from memory to memory; a loop     *)
(* over elements is one operator.  The map's public operations are the     *)
(* actions.                                                                *)
(***************************************************************************)
EXTENDS Naturals, FiniteSets, SequencesExt

CONSTANTS
    N,        \* the template argument: capacity of the inline storage
    Maps,     \* the SmallMap objects of the program
    Heap,     \* names of heap blocks, natural numbers
    Keys,
    Vals,
    Default   \* T(), the value operator[] constructs

Moved == "moved-from"

ASSUME SmallMapAssumption ==
    /\ N \in Nat \ {0}
    /\ Heap \subseteq Nat /\ IsFiniteSet(Heap)
    /\ IsFiniteSet(Maps)
    /\ Cardinality(Heap) > Cardinality(Maps)   \* Reallocate holds two at once
    /\ Maps \cap Heap = {}
    /\ Default \in Vals /\ Moved \notin Vals

VARIABLES
    mem,      \* the storage of every map's elems_
    shadow    \* the map each object should be

mapVars == <<mem, shadow>>

Raw == [raw |-> TRUE]
Tuple(f) == SubSeq(f, 1, Len(f))   \* f itself; TLC evaluates it at once
Blank(n) == Tuple([i \in 1..n |-> Raw])
Obj(k, v) == [raw |-> FALSE, key |-> k, val |-> v]

\* pair<const Key, T>(std::move(o)) copies the constant key and leaves a
\* moved-from T behind.
MovedFrom(o) == [o EXCEPT !.val = Moved]

-----------------------------------------------------------------------------
(* InlinedVector *)

InlineVector(v) == [size |-> 0, capacity |-> N, data |-> v]

IsInline(m, v) == m.vec[v].data = v
Block(m, v) == m.cell[m.vec[v].data]
Elems(m, v) == SubSeq(Block(m, v), 1, m.vec[v].size)
Fail(m) == [m EXCEPT !.fault = TRUE]

\* A block that still holds objects, or was never allocated, must not be freed.
Release(m, b) ==
    LET f == IF m.cell[b] # <<>> /\ Range(m.cell[b]) = {Raw} THEN m ELSE Fail(m)
    IN  [f EXCEPT !.cell[b] = <<>>]

DeallocateIfHeapSlip(m, v) == m

DeallocateIfHeap(m, v) ==
    IF IsInline(m, v) THEN m ELSE Release(m, m.vec[v].data)

Reallocate(m, v, newCapacity) ==
    LET d   == m.vec[v]
        new == CHOOSE b \in Heap : /\ m.cell[b] = <<>>
                                   /\ \A c \in Heap : m.cell[c] = <<>> => b <= c
        filled == Tuple([i \in 1..newCapacity |->
                            IF i <= d.size THEN m.cell[d.data][i] ELSE Raw])
        moved == [m EXCEPT !.cell[new] = filled,
                           !.cell[d.data] = Blank(Len(m.cell[d.data]))]
    IN  [DeallocateIfHeap(moved, v) EXCEPT
            !.vec[v] = [@ EXCEPT !.data = new, !.capacity = newCapacity]]

Grow(m, v) == Reallocate(m, v, 2 * m.vec[v].capacity)

reserve(m, v, n) == IF n <= m.vec[v].capacity THEN m ELSE Reallocate(m, v, n)

\* Placement new of o in a raw cell of the block.
Construct(m, b, i, o) ==
    IF i \in DOMAIN m.cell[b] /\ m.cell[b][i] = Raw
    THEN [m EXCEPT !.cell[b][i] = o]
    ELSE Fail(m)

push_back(m, v, o) ==
    LET g == IF m.vec[v].size = m.vec[v].capacity THEN Grow(m, v) ELSE m
    IN  [Construct(g, g.vec[v].data, g.vec[v].size + 1, o)
            EXCEPT !.vec[v].size = @ + 1]

emplace_back(m, v, o) == push_back(m, v, o)

\* Destructors of the cells `at' of a block: every one must hold an object.
Destroy(m, b, at) ==
    LET f == IF \A i \in at : m.cell[b][i] # Raw THEN m ELSE Fail(m)
    IN  [f EXCEPT !.cell[b] = Tuple([i \in DOMAIN m.cell[b] |->
                              IF i \in at THEN Raw ELSE m.cell[b][i]])]

\* n calls of pop_back, which empty the last n cells.  erase never asks for more
\* than there are, so the code's check for an empty vector stops none of them.
pop_back(m, v, n) ==
    LET size == m.vec[v].size
    IN  [Destroy(m, m.vec[v].data, (size - n + 1)..size) EXCEPT
            !.vec[v].size = size - n]

clear(m, v) ==
    [Destroy(m, m.vec[v].data, 1..m.vec[v].size) EXCEPT !.vec[v].size = 0]

Destruct(m, v) ==
    [DeallocateIfHeap(clear(m, v), v) EXCEPT !.vec[v] = InlineVector(v)]

\* A push_back of each element of s, where v is empty: reserve has made room
\* for all of them, so none has to grow.
PushAll(m, v, s) ==
    LET r == reserve(m, v, Len(s))
        b == r.vec[v].data
        f == IF \A i \in 1..Len(s) : i \in DOMAIN r.cell[b] /\ r.cell[b][i] = Raw
             THEN r ELSE Fail(r)
    IN  [f EXCEPT !.cell[b] = Tuple([i \in DOMAIN r.cell[b] |->
                                 IF i \in 1..Len(s) THEN s[i] ELSE r.cell[b][i]]),
                  !.vec[v].size = Len(s)]

CopyAssign(m, v, w) == IF v = w THEN m ELSE PushAll(clear(m, v), v, Elems(m, w))

CopyConstruct(m, v, w) == PushAll(Destruct(m, v), v, Elems(m, w))

\* The move constructor and, for v # w, the move assignment: the old contents
\* of v are gone, inline elements are moved one by one, a heap block is taken
\* over and the source falls back to its inline storage.
MoveFrom(m, v, w) ==
    LET d == Destruct(m, v)
        pushed == PushAll(d, v, Elems(d, w))
    IN  IF IsInline(d, w)
        THEN clear([pushed EXCEPT !.cell[w] = Tuple([i \in DOMAIN d.cell[w] |->
                       IF i <= d.vec[w].size THEN MovedFrom(d.cell[w][i])
                       ELSE Raw])], w)
        ELSE [d EXCEPT !.vec[v] = d.vec[w], !.vec[w] = InlineVector(w)]

MoveAssign(m, v, w) == IF v = w THEN m ELSE MoveFrom(m, v, w)

-----------------------------------------------------------------------------
(* SmallMap *)

\* An iterator is the position of an element; Size + 1 is end().
Positions(m, v) == 1..(m.vec[v].size + 1)
End(m, v) == m.vec[v].size + 1

find_internal(m, v, k) ==
    LET at == {i \in 1..m.vec[v].size : Block(m, v)[i].key = k}
    IN  IF at = {} THEN End(m, v) ELSE CHOOSE i \in at : \A j \in at : i <= j

EmplaceImplSlip(m, v, k, x) == emplace_back(m, v, Obj(k, x))

emplace_impl(m, v, k, x) ==
    IF find_internal(m, v, k) # End(m, v) THEN m
    ELSE emplace_back(m, v, Obj(k, x))

try_emplace(m, v, k, x) == emplace_impl(m, v, k, x)

\* What erase does before it shrinks the vector: n elements from `first' on are
\* destroyed, and the later ones are moved down by placement new over whatever
\* the cell holds (raw memory, or a moved-from pair that is not destroyed).
ShiftDown(m, v, first, n) ==
    LET d == m.vec[v]
        c == m.cell[d.data]
    IN  [Destroy(m, d.data, first..(first + n - 1)) EXCEPT
            !.cell[d.data] = Tuple([i \in DOMAIN c |->
                IF i \in first..(d.size - n) THEN c[i + n]
                ELSE IF i \in first..(first + n - 1) THEN Raw
                ELSE IF i \in first..d.size THEN MovedFrom(c[i]) ELSE c[i]])]

\* The later ones that are built over: moved from, and never destroyed.
BuiltOver(m, v, first, n) == (first + n)..(m.vec[v].size - n) # {}

\* erase then pops n cells.  A cell whose element was destroyed and not filled
\* again is destroyed a second time.  That, and a pair that was built over, is
\* `unpaired', not a fault: the program goes on, and DestroyedOnce looks at it.
EraseAt(m, v, first, n) ==
    LET popped == pop_back(ShiftDown(m, v, first, n), v, n)
    IN  [popped EXCEPT !.fault = m.fault,
                       !.unpaired = @ \/ popped.fault \/ BuiltOver(m, v, first, n)]

MapEqual(m, v, w) ==
    /\ m.vec[v].size = m.vec[w].size
    /\ \A i \in 1..m.vec[v].size :
          LET o == Block(m, v)[i]
              j == find_internal(m, w, o.key)
          IN  j # End(m, w) /\ Block(m, w)[j].val = o.val

MapInit ==
    /\ mem = [vec   |-> [v \in Maps |-> InlineVector(v)],
              cell  |-> [b \in Maps \cup Heap |->
                            IF b \in Maps THEN Blank(N) ELSE <<>>],
              fault |-> FALSE,
              unpaired |-> FALSE]
    /\ shadow = [v \in Maps |-> <<>>]

Extend(f, k, x) == [j \in DOMAIN f \cup {k} |->
                       IF j \in DOMAIN f THEN f[j] ELSE x]
Without(f, ks) == [j \in DOMAIN f \ ks |-> f[j]]

MapInsert(v, k, x) ==
    /\ mem' = emplace_impl(mem, v, k, x)
    /\ shadow' = [shadow EXCEPT ![v] = Extend(@, k, x)]

MapTryEmplace(v, k, x) ==
    /\ mem' = try_emplace(mem, v, k, x)
    /\ shadow' = [shadow EXCEPT ![v] = Extend(@, k, x)]

\* map[k] = x: operator[] finds or default-constructs, the caller assigns.
MapIndex(v, k, x) ==
    LET i == find_internal(mem, v, k)
        n == IF i # End(mem, v) THEN mem ELSE emplace_back(mem, v, Obj(k, Default))
    IN  /\ mem' = [n EXCEPT !.cell[n.vec[v].data][i].val = x]
        /\ shadow' = [shadow EXCEPT ![v] = [Extend(@, k, x) EXCEPT ![k] = x]]

MapErase(v, k) ==
    LET i == find_internal(mem, v, k)
    IN  /\ mem' = IF i = End(mem, v) THEN mem ELSE EraseAt(mem, v, i, 1)
        /\ shadow' = [shadow EXCEPT ![v] = Without(@, {k})]

MapEraseRange(v, first, last) ==
    /\ first <= last
    /\ mem' = IF first = last THEN mem ELSE EraseAt(mem, v, first, last - first)
    /\ shadow' = [shadow EXCEPT ![v] =
          Without(@, {Block(mem, v)[i].key : i \in first..(last - 1)})]

MapClear(v) ==
    /\ mem' = clear(mem, v)
    /\ shadow' = [shadow EXCEPT ![v] = <<>>]

MapCopy(v, w) ==
    /\ \/ mem' = CopyAssign(mem, v, w)
       \/ v # w /\ mem' = CopyConstruct(mem, v, w)
    /\ shadow' = [shadow EXCEPT ![v] = shadow[w]]

MapMove(v, w) ==
    /\ v # w
    /\ mem' = MoveAssign(mem, v, w)
    /\ shadow' = [shadow EXCEPT ![v] = shadow[w], ![w] = <<>>]

MapNext ==
    \/ \E v \in Maps, k \in Keys, x \in Vals :
          MapInsert(v, k, x) \/ MapTryEmplace(v, k, x) \/ MapIndex(v, k, x)
    \/ \E v \in Maps, k \in Keys : MapErase(v, k)
    \/ \E v \in Maps : \E i, j \in Positions(mem, v) : MapEraseRange(v, i, j)
    \/ \E v \in Maps : MapClear(v)
    \/ \E v, w \in Maps : MapCopy(v, w) \/ MapMove(v, w)

MapSpec == MapInit /\ [][MapNext]_mapVars

-----------------------------------------------------------------------------
\* The storage discipline of InlinedVector through any sequence of copies,
\* moves, growth and erasure of its owner: exactly the cells below size_ hold
\* live objects, capacity_ is the size of the block, every heap block has
\* exactly one owner, and nothing is destroyed, constructed or freed twice,
\* except by SmallMap's own erase in the cells it vacates, which is DestroyedOnce.
StorageSound ==
    /\ ~mem.fault
    /\ \A v \in Maps :
          /\ mem.vec[v].capacity = Len(Block(mem, v))
          /\ \A i \in DOMAIN Block(mem, v) :
                IF i <= mem.vec[v].size
                THEN Block(mem, v)[i] # Raw /\ Block(mem, v)[i].val # Moved
                ELSE Block(mem, v)[i] = Raw
          /\ ~IsInline(mem, v) => Range(mem.cell[v]) = {Raw}
    /\ \A b \in Heap :
          Cardinality({v \in Maps : mem.vec[v].data = b})
              = IF mem.cell[b] = <<>> THEN 0 ELSE 1

\* Every object a map has constructed is destroyed exactly once.  The destructor
\* test of core/inlined_vector_test.cc says so of the vector (the destructor of
\* a popped element runs once, and a moved-from one must not be counted twice);
\* SmallMap::erase destroys the erased pair itself, and when that is the last
\* one pop_back destroys it again.
DestroyedOnce == ~mem.unpaired

\* A SmallMap is the map its callers built: each key once, found with the value
\* of its first insertion or last assignment, whatever was erased, copied or
\* moved in between; and operator== ignores the order of insertion.
MapAgrees ==
    /\ \A v \in Maps :
          /\ mem.vec[v].size = Cardinality(DOMAIN shadow[v])
          /\ \A k \in Keys :
                LET i == find_internal(mem, v, k)
                IN  IF k \in DOMAIN shadow[v]
                    THEN i # End(mem, v) /\ Block(mem, v)[i].val = shadow[v][k]
                    ELSE i = End(mem, v)
    /\ \A v, w \in Maps : MapEqual(mem, v, w) <=> shadow[v] = shadow[w]

\* SmallMap on InlinedVector: the vector manages its inline and heap storage
\* soundly, apart from what erase does to the cells it vacates (DestroyedOnce),
\* and the map finds exactly what a function from keys to values would, through
\* growth, erasures, copies and moves.
MapSound == StorageSound /\ MapAgrees
=============================================================================
