------------------------------ MODULE FlatMap -------------------------------
(***************************************************************************)
(* core/flat_map.h: a map kept as a vector of pairs in the order of the    *)
(* comparator, which is < on natural numbers here.  An iterator is a       *)
(* position of the vector, Len(c) + 1 is end().                            *)
(***************************************************************************)
EXTENDS Naturals, FiniteSets, SequencesExt

CONSTANTS
    Flats,      \* the FlatMap objects of the program
    FlatKeys,   \* a set of natural numbers
    FlatVals,
    FlatZero    \* Value(), what operator[] constructs

ASSUME FlatMapAssumption ==
    FlatKeys \subseteq Nat /\ IsFiniteSet(FlatKeys) /\ FlatZero \in FlatVals

VARIABLES
    flat,       \* the vector c_ of every map
    meant       \* the map each one should be

flatVars == <<flat, meant>>

\* std::lower_bound and std::upper_bound on a vector partitioned by the key:
\* the first position whose key is not less than k, and is greater than k.
FindLowerBound(c, k) == 1 + Cardinality({i \in DOMAIN c : c[i].key < k})
upper_bound(c, k) == 1 + Cardinality({i \in DOMAIN c : ~(k < c[i].key)})

\* it != end() && !comp(k, it->first) && !comp(it->first, k)
Hit(c, i, k) == i <= Len(c) /\ ~(k < c[i].key) /\ ~(c[i].key < k)

find(c, k) == LET i == FindLowerBound(c, k)
              IN  IF Hit(c, i, k) THEN i ELSE Len(c) + 1

contains(c, k) == Hit(c, FindLowerBound(c, k), k)

equal_range(c, k) == <<FindLowerBound(c, k), upper_bound(c, k)>>

insertSlip(c, k, x) ==
    LET i == upper_bound(c, k)
    IN  IF Hit(c, i, k) THEN c ELSE InsertAt(c, i, [key |-> k, val |-> x])

insert(c, k, x) ==
    LET i == FindLowerBound(c, k)
    IN  IF Hit(c, i, k) THEN c ELSE InsertAt(c, i, [key |-> k, val |-> x])

\* emplace builds the pair first; a key already present leaves the map alone.
emplace(c, k, x) == insert(c, k, x)

eraseRange(c, first, last) == SubSeq(c, 1, first - 1) \o SubSeq(c, last, Len(c))

eraseKey(c, k) ==
    LET i == find(c, k)
    IN  IF i = Len(c) + 1 THEN c ELSE RemoveAt(c, i)

\* The empty map.
NoKeys == [k \in {} |-> FlatZero]

FlatInit ==
    /\ flat = [f \in Flats |-> <<>>]
    /\ meant = [f \in Flats |-> NoKeys]

KeepOrAdd(g, k, x) == [j \in DOMAIN g \cup {k} |->
                          IF j \in DOMAIN g THEN g[j] ELSE x]

FlatInsert(f, k, x) ==
    /\ \/ flat' = [flat EXCEPT ![f] = insert(@, k, x)]
       \/ flat' = [flat EXCEPT ![f] = emplace(@, k, x)]
    /\ meant' = [meant EXCEPT ![f] = KeepOrAdd(@, k, x)]

\* f[k] = x: operator[] returns the value of k, constructed if need be.
FlatIndex(f, k, x) ==
    LET i == FindLowerBound(flat[f], k)
    IN  /\ flat' = [flat EXCEPT ![f] =
                       IF Hit(@, i, k) THEN [@ EXCEPT ![i].val = x]
                       ELSE [InsertAt(@, i, [key |-> k, val |-> FlatZero])
                                EXCEPT ![i].val = x]]
        /\ meant' = [meant EXCEPT ![f] = [KeepOrAdd(@, k, x) EXCEPT ![k] = x]]

FlatErase(f, k) ==
    /\ flat' = [flat EXCEPT ![f] = eraseKey(@, k)]
    /\ meant' = [meant EXCEPT ![f] = [j \in DOMAIN @ \ {k} |-> @[j]]]

\* Erase the elements between two bounds, as callers obtain them.
FlatEraseRange(f, lo, hi) ==
    LET first == FindLowerBound(flat[f], lo)
        last  == upper_bound(flat[f], hi)
    IN  /\ first <= last
        /\ flat' = [flat EXCEPT ![f] = eraseRange(@, first, last)]
        /\ meant' = [meant EXCEPT ![f] =
                        [j \in DOMAIN @ \ lo..hi |-> @[j]]]

FlatClear(f) ==
    /\ flat' = [flat EXCEPT ![f] = <<>>]
    /\ meant' = [meant EXCEPT ![f] = NoKeys]

FlatSwap(f, g) ==
    /\ flat' = [flat EXCEPT ![f] = flat[g], ![g] = flat[f]]
    /\ meant' = [meant EXCEPT ![f] = meant[g], ![g] = meant[f]]

FlatNext ==
    \/ \E f \in Flats, k \in FlatKeys, x \in FlatVals :
          FlatInsert(f, k, x) \/ FlatIndex(f, k, x)
    \/ \E f \in Flats, k \in FlatKeys : FlatErase(f, k)
    \/ \E f \in Flats, k, l \in FlatKeys : FlatEraseRange(f, k, l)
    \/ \E f \in Flats : FlatClear(f)
    \/ \E f, g \in Flats : FlatSwap(f, g)

FlatSpec == FlatInit /\ [][FlatNext]_flatVars

\* The vector stays strictly ordered by key, which every binary search in the
\* class relies on, and the map it represents is the one its callers built: the
\* lookups, equal_range and operator== agree with it for every key.
FlatAgrees ==
    /\ \A f \in Flats :
          LET c == flat[f]
          IN  /\ \A i, j \in DOMAIN c : i < j => c[i].key < c[j].key
              /\ \A k \in FlatKeys :
                    LET r == equal_range(c, k)
                    IN  IF k \in DOMAIN meant[f]
                        THEN /\ contains(c, k) /\ c[find(c, k)].val = meant[f][k]
                             /\ r = <<find(c, k), find(c, k) + 1>>
                        ELSE ~contains(c, k) /\ find(c, k) = Len(c) + 1 /\ r[1] = r[2]
    /\ \A f, g \in Flats : flat[f] = flat[g] <=> meant[f] = meant[g]
=============================================================================
