--------------------------- MODULE IntrusiveList ----------------------------
(***************************************************************************)
(* core/intrusive_list.h at the level of the hooks' pointers: a list is a  *)
(* ring through its sentinel, an element is linked when its prev_ is not   *)
(* null.  The loop of Clear is a step per element; nothing else touches    *)
(* the lists until the operation that runs it is through.                  *)
(***************************************************************************)
EXTENDS Naturals, FiniteSets, SequencesExt

CONSTANTS Lists, Items, Null

ASSUME IntrusiveListAssumption ==
    Lists \cap Items = {} /\ Null \notin Lists \cup Items

VARIABLES
    prev, next,   \* of every sentinel and every element's hook
    order,        \* the sequence of elements each list should hold
    clearing,     \* the list whose Clear is running, or Null
    donor         \* the list it is then moved from, or Null

listVars == <<prev, next, order, clearing, donor>>

Hooks == Lists \cup Items

HookLinked(p, x) == p[x] # Null
ListEmpty(n, l) == n[l] = l

\* Pointer states are pairs [p |-> prev, n |-> next].
Unlink(s, x) ==
    IF ~HookLinked(s.p, x) THEN s
    ELSE [p |-> [s.p EXCEPT ![s.n[x]] = s.p[x], ![x] = Null],
          n |-> [s.n EXCEPT ![s.p[x]] = s.n[x], ![x] = Null]]

InsertBefore(s, pos, x) ==
    LET before == s.p[pos]
    IN  [p |-> [s.p EXCEPT ![x] = before, ![pos] = x],
         n |-> [s.n EXCEPT ![x] = pos, ![before] = x]]

InsertAfter(s, pos, x) ==
    LET after == s.n[pos]
    IN  [p |-> [s.p EXCEPT ![x] = pos, ![after] = x],
         n |-> [s.n EXCEPT ![x] = after, ![pos] = x]]

MoveListSlip(s, l, o) ==
    IF ListEmpty(s.n, o) THEN [p |-> [s.p EXCEPT ![l] = l], n |-> [s.n EXCEPT ![l] = l]]
    ELSE [p |-> [s.p EXCEPT ![s.n[o]] = l, ![l] = s.p[o], ![o] = o],
          n |-> [s.n EXCEPT ![l] = s.n[o], ![o] = o]]

\* MoveFrom: the sentinel of l takes the place of o's in the ring.
MoveList(s, l, o) ==
    IF ListEmpty(s.n, o) THEN [p |-> [s.p EXCEPT ![l] = l], n |-> [s.n EXCEPT ![l] = l]]
    ELSE [p |-> [s.p EXCEPT ![s.n[o]] = l, ![l] = s.p[o], ![o] = o],
          n |-> [s.n EXCEPT ![s.p[o]] = l, ![l] = s.n[o], ![o] = o]]

Pointers == [p |-> prev, n |-> next]
SetPointers(s) == prev' = s.p /\ next' = s.n

ListInit ==
    /\ prev = [h \in Hooks |-> IF h \in Lists THEN h ELSE Null]
    /\ next = [h \in Hooks |-> IF h \in Lists THEN h ELSE Null]
    /\ order = [l \in Lists |-> <<>>]
    /\ clearing = Null /\ donor = Null

\* An operation that is one step.
Alone == clearing = Null /\ UNCHANGED <<clearing, donor>>

\* The DCHECK in InsertBefore and InsertAfter is the caller's obligation.
ListPushBack(l, x) ==
    /\ Alone
    /\ ~HookLinked(prev, x)
    /\ SetPointers(InsertBefore(Pointers, l, x))
    /\ order' = [order EXCEPT ![l] = Append(@, x)]

ListPushFront(l, x) ==
    /\ Alone
    /\ ~HookLinked(prev, x)
    /\ SetPointers(InsertAfter(Pointers, l, x))
    /\ order' = [order EXCEPT ![l] = <<x>> \o @]

PopFront(l) ==
    /\ ~ListEmpty(next, l)
    /\ SetPointers(Unlink(Pointers, next[l]))
    /\ order' = [order EXCEPT ![l] = Tail(@)]

ListPopFront(l) == Alone /\ PopFront(l)

ListPopBack(l) ==
    /\ Alone
    /\ ~ListEmpty(next, l)
    /\ SetPointers(Unlink(Pointers, prev[l]))
    /\ order' = [order EXCEPT ![l] = SubSeq(@, 1, Len(@) - 1)]

\* Erase from whatever list holds x, and the destructor of x's hook: the list
\* is not named, so x may be linked anywhere or nowhere.
ListErase(x) ==
    /\ Alone
    /\ SetPointers(Unlink(Pointers, x))
    /\ order' = [l \in Lists |-> RemoveFirst(order[l], x)]

\* Clear, and the move assignment, which begins with it.
ListClear(l) ==
    /\ clearing = Null /\ clearing' = l
    /\ UNCHANGED <<prev, next, order, donor>>

ListMove(l, o) ==
    /\ l # o
    /\ clearing = Null /\ clearing' = l /\ donor' = o
    /\ UNCHANGED <<prev, next, order>>

\* while (!Empty()) PopFront();
ClearStep(l) == clearing = l /\ PopFront(l) /\ UNCHANGED <<clearing, donor>>

ClearEnd(l) ==
    /\ clearing = l /\ ListEmpty(next, l)
    /\ IF donor = Null THEN UNCHANGED <<prev, next, order>>
       ELSE /\ SetPointers(MoveList(Pointers, l, donor))
            /\ order' = [order EXCEPT ![l] = order[donor], ![donor] = <<>>]
    /\ clearing' = Null /\ donor' = Null

ListNext ==
    \/ \E l \in Lists, x \in Items : ListPushBack(l, x) \/ ListPushFront(l, x)
    \/ \E l \in Lists : ListPopFront(l) \/ ListPopBack(l) \/ ListClear(l)
    \/ \E x \in Items : ListErase(x)
    \/ \E l, o \in Lists : ListMove(l, o)
    \/ \E l \in Lists : ClearStep(l) \/ ClearEnd(l)

ListSpec == ListInit /\ [][ListNext]_listVars

\* The ring of every list is intact in both directions and holds exactly the
\* elements its callers put there, in order, and every other hook is null on
\* both sides: a blind Erase, a move of the list or the destruction of an
\* element never leaves a pointer to a hook that has left, not even midway
\* through Clear.
RingsIntact ==
    /\ \A l \in Lists :
          LET ring == <<l>> \o order[l] \o <<l>>
          IN  \A i \in 1..(Len(ring) - 1) :
                 next[ring[i]] = ring[i + 1] /\ prev[ring[i + 1]] = ring[i]
    /\ \A x \in Items : (\A l \in Lists : x \notin Range(order[l]))
                           => prev[x] = Null /\ next[x] = Null
=============================================================================
