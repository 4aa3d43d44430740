---------------------------- MODULE MCContainers ----------------------------
(***************************************************************************)
(* The data types of core/, checked together.  They share no state: a      *)
(* behaviour exercises the one `focus' names, so that their state spaces   *)
(* add up instead of multiplying.                                          *)
(***************************************************************************)
EXTENDS SmallMap, FlatMap, HandleTable, IntrusiveList, Result

VARIABLE focus

vars == <<mapVars, flatVars, handleVars, listVars, resultVars, focus>>

Init ==
    /\ focus \in {"map", "flat", "handle", "list", "result"}
    /\ MapInit /\ FlatInit /\ ListInit /\ ResultInit
    /\ IF focus = "handle" THEN HandleInit
       ELSE HandleInit /\ slot = [i \in Indexes |-> 0]

Next ==
    \/ /\ focus = "map" /\ MapNext
       /\ UNCHANGED <<flatVars, handleVars, listVars, resultVars, focus>>
    \/ /\ focus = "flat" /\ FlatNext
       /\ UNCHANGED <<mapVars, handleVars, listVars, resultVars, focus>>
    \/ /\ focus = "handle" /\ HandleNext
       /\ UNCHANGED <<mapVars, flatVars, listVars, resultVars, focus>>
    \/ /\ focus = "list" /\ ListNext
       /\ UNCHANGED <<mapVars, flatVars, handleVars, resultVars, focus>>
    \/ /\ focus = "result" /\ ResultNext
       /\ UNCHANGED <<mapVars, flatVars, handleVars, listVars, focus>>

Spec == Init /\ [][Next]_vars

\* The maps and their keys are interchangeable; heap blocks and addresses are
\* numbers, and the keys of a FlatMap are ordered.
Symmetry == Permutations(Maps) \cup Permutations(Keys)
=============================================================================
