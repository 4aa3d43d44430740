--------------------------- MODULE EpollerProofs ----------------------------
(***************************************************************************)
(* A handler's descriptors are in one silo, for every number of silos,     *)
(* clients, handlers and descriptors, if no handler is new to two threads  *)
(* at once.  (With such a race it is false: see EpollerAffinity.cfg.)      *)
(***************************************************************************)
EXTENDS Epoller, TLAPS

ItemOK(i) ==
    /\ i \in [h : Handlers, fds : SUBSET Fds, fn : SUBSET Fns]
    /\ \A f \in i.fds : OwnerOf[f] = i.h

AllItems ==
    {i \in [h : Handlers, fds : SUBSET Fds, fn : SUBSET Fns] : ItemOK(i)}

EpollerTypeOK ==
    /\ threads_ \in 0..MaxSilos
    /\ affinity_ \in [Handlers -> AllSilos \cup {kNoAffinity}]
    /\ todo \in [Threads -> Seq(AllItems)]
    /\ route \in [Threads -> [at : {"load", "store", "push", "add"}, silo : AllSilos]]
    /\ inbound \in [AllSilos -> Seq(AllItems)]
    /\ in \in [AllSilos -> Seq(AllItems)]
    /\ table \in [AllSilos -> SUBSET Fds]
    /\ handles_ \in [Handlers -> SUBSET Fds]

(* A thread routes one item at a time, and the steps of Route belong to it.*)
OneItem ==
    \A t \in Threads :
        /\ Len(todo[t]) <= 1
        /\ todo[t] = <<>> => route[t].at \in {"load", "add"}

(* Between the load of an affinity and its store the handler has none, and *)
(* then the affinity is where the item goes.                               *)
RouteKnowsAffinity ==
    \A t \in Threads : todo[t] # <<>> =>
        /\ route[t].at = "store" => affinity_[Item(t).h] = kNoAffinity
        /\ route[t].at = "push" => affinity_[Item(t).h] = route[t].silo

(* A handler without an affinity is with one thread at most.               *)
NewToOneThread ==
    \A t, u \in Threads :
        (t # u /\ todo[t] # <<>> /\ todo[u] # <<>> /\ Item(t).h = Item(u).h)
            => affinity_[Item(t).h] # kNoAffinity

(* What has reached a silo's lists belongs there: neither the check for an *)
(* affinity race nor Affinitize ever fails.                                *)
ArrivedIsHome ==
    \A s \in AllSilos :
        /\ \A k \in 1..Len(inbound[s]) : affinity_[inbound[s][k].h] = s
        /\ \A k \in 1..Len(in[s]) : affinity_[in[s][k].h] = s

(* A descriptor in an epoll set is in the silo of its handler's affinity   *)
(* and the handler's handles_ list names it.                               *)
AdmittedIsHome ==
    \A s \in AllSilos : \A f \in table[s] :
        affinity_[OwnerOf[f]] = s /\ f \in handles_[OwnerOf[f]]

HandlesAreOwn == \A h \in Handlers : \A f \in handles_[h] : OwnerOf[f] = h

EpollerInv ==
    /\ EpollerTypeOK /\ OneItem /\ RouteKnowsAffinity /\ NewToOneThread
    /\ ArrivedIsHome /\ AdmittedIsHome /\ HandlesAreOwn

LEMMA ItemFacts ==
  ASSUME NEW i \in AllItems
  PROVE  i.h \in Handlers /\ i.fds \in SUBSET Fds /\ \A f \in i.fds : OwnerOf[f] = i.h
BY DEF AllItems, ItemOK

(* The items that Register, RunWithAffinity and the shedder make.          *)
LEMMA FdItemOK ==
  ASSUME NEW fs \in SUBSET Fds, fs # {}, NEW h \in Handlers,
         \A f \in fs : OwnerOf[f] = h
  PROVE  FdItem(fs) \in AllItems /\ FdItem(fs).h = h
BY DEF FdItem, AllItems, ItemOK

LEMMA FnItemOK ==
  ASSUME NEW fn \in Fns
  PROVE  FnItem(fn) \in AllItems /\ FnItem(fn).h = OwnerOf[fn]
BY DEF FnItem, AllItems, ItemOK, Handlers

LEMMA EpollerInvInit == EpollerInit => EpollerInv
<1> SUFFICES ASSUME EpollerInit PROVE EpollerInv
  OBVIOUS
<1> USE EpollerAssumption DEF EpollerInit
<1>1. EpollerTypeOK
  <2>1. /\ threads_ \in 0..MaxSilos
        /\ route \in [Threads -> [at : {"load", "store", "push", "add"},
                                  silo : AllSilos]]
    BY DEF AllSilos
  <2>2. /\ affinity_ \in [Handlers -> AllSilos \cup {kNoAffinity}]
        /\ table \in [AllSilos -> SUBSET Fds]
        /\ handles_ \in [Handlers -> SUBSET Fds]
    OBVIOUS
  <2>3. /\ todo \in [Threads -> Seq(AllItems)]
        /\ inbound \in [AllSilos -> Seq(AllItems)]
        /\ in \in [AllSilos -> Seq(AllItems)]
    OBVIOUS
  <2> QED BY <2>1, <2>2, <2>3 DEF EpollerTypeOK
<1>2. OneItem /\ RouteKnowsAffinity /\ NewToOneThread
  BY DEF OneItem, RouteKnowsAffinity, NewToOneThread
<1>3. ArrivedIsHome /\ AdmittedIsHome /\ HandlesAreOwn
  BY DEF ArrivedIsHome, AdmittedIsHome, HandlesAreOwn
<1> QED BY <1>1, <1>2, <1>3 DEF EpollerInv

RouteInv == OneItem /\ RouteKnowsAffinity /\ NewToOneThread

(* A thread with nothing to do is given an item, whose handler has an      *)
(* affinity or is with nobody else.                                        *)
LEMMA StartItem ==
  ASSUME EpollerInv, NEW t \in Threads, todo[t] = <<>>, NEW it \in AllItems,
         todo' = [todo EXCEPT ![t] = <<it>>], route' = route,
         affinity_' = affinity_,
         \/ affinity_[it.h] # kNoAffinity
         \/ \A u \in Threads : todo[u] # <<>> => Item(u).h # it.h
  PROVE  todo' \in [Threads -> Seq(AllItems)] /\ RouteInv'
<1> USE DEF EpollerInv, EpollerTypeOK
<1>1. <<it>> \in Seq(AllItems) /\ Len(<<it>>) = 1 /\ Head(<<it>>) = it /\ <<it>> # <<>>
  OBVIOUS
<1>2. /\ todo' \in [Threads -> Seq(AllItems)] /\ todo'[t] = <<it>>
      /\ \A u \in Threads : u # t => todo'[u] = todo[u]
  BY <1>1
<1>3. OneItem'
  BY <1>1, <1>2 DEF OneItem
<1>4. Item(t)' = it /\ \A u \in Threads : u # t => Item(u)' = Item(u)
  BY <1>1, <1>2 DEF Item
<1>5. RouteKnowsAffinity'
  BY <1>2, <1>4, ZenonT(40) DEF RouteKnowsAffinity, OneItem
<1>6. NewToOneThread'
  <2> SUFFICES ASSUME NEW x \in Threads, NEW y \in Threads, x # y,
                      todo'[x] # <<>>, todo'[y] # <<>>, Item(x)'.h = Item(y)'.h
               PROVE  affinity_'[Item(x)'.h] # kNoAffinity
    BY DEF NewToOneThread
  <2>1. CASE x # t /\ y # t
    BY <1>2, <1>4, <2>1 DEF NewToOneThread
  <2>2. CASE x = t
    BY <1>2, <1>4, <2>2
  <2>3. CASE y = t
    BY <1>2, <1>4, <2>3
  <2> QED BY <2>1, <2>2, <2>3
<1> QED BY <1>2, <1>3, <1>5, <1>6 DEF RouteInv

(* MayStart is StartItem's hypothesis where no two threads race.           *)
LEMMA MayStartIsQuiet ==
  ASSUME EpollerInv, ~Racing, NEW t, NEW h, MayStart(t, h)
  PROVE  /\ t \in Threads /\ todo[t] = <<>>
         /\ \/ affinity_[h] # kNoAffinity
            \/ \A u \in Threads : todo[u] # <<>> => Item(u).h # h
<1>1. \A u \in Threads : todo[u] # <<>> => 1 \in DOMAIN todo[u] /\ Item(u) = todo[u][1]
  BY DEF EpollerInv, EpollerTypeOK, Item
<1> QED BY <1>1 DEF MayStart, Threads

(* The parts of the invariant that a step leaves alone.                    *)
LEMMA RouteInvKept ==
  ASSUME EpollerInv, UNCHANGED <<todo, route, affinity_>>
  PROVE  RouteInv'
BY DEF EpollerInv, RouteInv, OneItem, RouteKnowsAffinity, NewToOneThread, Item

LEMMA ArrivedKept ==
  ASSUME EpollerInv, UNCHANGED <<inbound, in, affinity_>>
  PROVE  ArrivedIsHome'
BY DEF EpollerInv, ArrivedIsHome

(* Descriptors leave the epoll sets and nothing else happens to them.      *)
LEMMA AdmittedKept ==
  ASSUME EpollerInv, UNCHANGED <<handles_, affinity_>>,
         \A s \in AllSilos : table'[s] \subseteq table[s]
  PROVE  AdmittedIsHome' /\ HandlesAreOwn'
BY DEF EpollerInv, AdmittedIsHome, HandlesAreOwn

LEMMA EpollerInvParts ==
  EpollerTypeOK' /\ RouteInv' /\ ArrivedIsHome' /\ AdmittedIsHome' /\ HandlesAreOwn'
      => EpollerInv'
BY DEF EpollerInv, RouteInv

(* Build, Publish and the destructor, and what closes descriptors.         *)
LEMMA QuietKeepsInv ==
  ASSUME EpollerInv,
         \/ \E n \in 0..MaxSilos : Build(n)
         \/ \E t \in Clients, f \in ClientFds : SetNonBlockingAndRegister(t, f)
         \/ \E s \in AllSilos : Publish(s) \/ Exit(s)
         \/ \E s \in AllSilos, f \in Fds : CloseFd(s, f)
         \/ NotifyExiting
         \/ UNCHANGED epollerVars
  PROVE  EpollerInv'
<1> USE DEF calls, lists, fds, functions, silos
<1>1. UNCHANGED <<todo, route, affinity_, inbound, in, handles_>>
  BY DEF Build, SetNonBlockingAndRegister, Publish, Exit, CloseFd, NotifyExiting,
         epollerVars
<1>2. threads_' \in 0..MaxSilos
  BY DEF Build, SetNonBlockingAndRegister, Publish, Exit, CloseFd, NotifyExiting,
         epollerVars, EpollerInv, EpollerTypeOK
<1>3. /\ table' \in [AllSilos -> SUBSET Fds]
      /\ \A s \in AllSilos : table'[s] \subseteq table[s]
  <2>1. CASE table' = table
    BY <2>1 DEF EpollerInv, EpollerTypeOK
  <2>2. ASSUME NEW s \in AllSilos, NEW x \in SUBSET table[s],
               table' = [table EXCEPT ![s] = x]
        PROVE  /\ table' \in [AllSilos -> SUBSET Fds]
               /\ \A r \in AllSilos : table'[r] \subseteq table[r]
    BY <2>2 DEF EpollerInv, EpollerTypeOK
  <2>3. \/ table' = table
        \/ \E s \in AllSilos : \E x \in SUBSET table[s] :
              table' = [table EXCEPT ![s] = x]
    BY DEF Build, SetNonBlockingAndRegister, Publish, Exit, CloseFd,
           NotifyExiting, epollerVars
  <2> QED BY <2>1, <2>2, <2>3
<1>4. EpollerTypeOK'
  BY <1>1, <1>2, <1>3 DEF EpollerInv, EpollerTypeOK
<1> QED BY <1>1, <1>3, <1>4, RouteInvKept, ArrivedKept, AdmittedKept,
           EpollerInvParts

(* A client calls Register or RunWithAffinity.                             *)
LEMMA CallKeepsInv ==
  ASSUME EpollerInv, ~Racing, NEW t \in Clients,
         \/ \E f \in ClientFds : Register(t, f)
         \/ \E fn \in ClientFns : RunWithAffinity(t, fn)
  PROVE  EpollerInv'
<1> USE DEF calls, lists, fds, functions, silos
<1>1. PICK it \in AllItems : MayStart(t, it.h) /\ Calls(t, <<it>>)
  <2>1. ASSUME NEW f \in ClientFds, Register(t, f)
        PROVE  \E it \in AllItems : MayStart(t, it.h) /\ Calls(t, <<it>>)
    <3>1. OwnerOf[f] \in Handlers /\ {f} \in SUBSET Fds
      BY EpollerAssumption DEF Handlers
    <3>2. FdItem({f}) \in AllItems /\ FdItem({f}).h = OwnerOf[f]
      BY <3>1, FdItemOK
    <3> QED BY <2>1, <3>2 DEF Register
  <2>2. ASSUME NEW fn \in ClientFns, RunWithAffinity(t, fn)
        PROVE  \E it \in AllItems : MayStart(t, it.h) /\ Calls(t, <<it>>)
    <3>1. FnItem(fn) \in AllItems /\ FnItem(fn).h = OwnerOf[fn]
      BY EpollerAssumption, FnItemOK
    <3> QED BY <2>2, <3>1 DEF RunWithAffinity
  <2> QED BY <2>1, <2>2
<1>2. /\ todo' = [todo EXCEPT ![t] = <<it>>] /\ route' = route
      /\ affinity_' = affinity_
      /\ UNCHANGED <<inbound, in, table, handles_, threads_>>
  BY <1>1 DEF Calls
<1>3. todo' \in [Threads -> Seq(AllItems)] /\ RouteInv'
  BY <1>1, <1>2, MayStartIsQuiet, StartItem
<1>4. EpollerTypeOK'
  BY <1>2, <1>3 DEF EpollerInv, EpollerTypeOK
<1> QED BY <1>2, <1>3, <1>4, ArrivedKept, AdmittedKept, EpollerInvParts

(* SelectSilo returns one of the silos that Build made.                    *)
LEMMA SelectSiloIsSilo ==
  ASSUME threads_ \in 0..MaxSilos
  PROVE  SelectSilo \subseteq AllSilos
BY EpollerAssumption DEF SelectSilo, WeightedSelect, Silos, AllSilos

(* A thread whose one item is gone has nothing left to route.              *)
LEMMA ItemGone ==
  ASSUME EpollerInv, NEW t \in Threads, todo[t] # <<>>,
         todo' = [todo EXCEPT ![t] = Tail(@)],
         route' = [route EXCEPT ![t] = [at |-> "load", silo |-> route[t].silo]],
         affinity_' = affinity_
  PROVE  todo' \in [Threads -> Seq(AllItems)] /\ RouteInv'
<1> USE DEF EpollerInv, EpollerTypeOK
<1>1. Tail(todo[t]) = <<>>
  <2>0. todo[t] \in Seq(AllItems) /\ Len(todo[t]) <= 1
    BY DEF OneItem
  <2>1. Len(todo[t]) = 1 /\ todo[t] \in Seq(AllItems)
    <3>1. Len(todo[t]) \in Nat /\ Len(todo[t]) # 0
      BY <2>0
    <3>2. \A n \in Nat : n # 0 /\ n <= 1 => n = 1
      OBVIOUS
    <3> HIDE DEF EpollerInv, EpollerTypeOK
    <3> QED BY <2>0, <3>1, <3>2
  <2>2. Tail(todo[t]) \in Seq(AllItems) /\ Len(Tail(todo[t])) = 0
    BY <2>1
  <2> QED BY <2>2
<1>2. /\ todo'[t] = <<>> /\ \A u \in Threads : u # t => todo'[u] = todo[u]
      /\ todo' \in [Threads -> Seq(AllItems)]
      /\ \A u \in Threads : u # t => route'[u] = route[u]
      /\ route'[t].at = "load"
  BY <1>1
<1>3. \A u \in Threads : u # t => Item(u)' = Item(u)
  BY <1>2 DEF Item
<1>4. OneItem' /\ RouteKnowsAffinity' /\ NewToOneThread'
  BY <1>2, <1>3 DEF OneItem, RouteKnowsAffinity, NewToOneThread
<1> QED BY <1>2, <1>4 DEF RouteInv

(* Route loads the affinity.                                               *)
LEMMA RouteLoadKeepsInv ==
  ASSUME EpollerInv, NEW t \in Threads, RouteLoad(t)
  PROVE  EpollerInv'
<1> USE DEF calls, lists, fds, functions, silos
<1> DEFINE a == affinity_[Item(t).h]
<1>1. UNCHANGED <<affinity_, inbound, in, table, handles_, threads_>> /\ todo[t] # <<>>
      /\ route[t].at = "load"
  BY DEF RouteLoad, At
<1>2. RouteInv' /\ todo' \in [Threads -> Seq(AllItems)]
      /\ route' \in [Threads -> [at : {"load", "store", "push", "add"},
                                 silo : AllSilos]]
  <2>1. CASE a # kNoAffinity /\ a >= threads_
    <3>1. todo' = [todo EXCEPT ![t] = Tail(@)] /\ route' = route
      BY <2>1 DEF RouteLoad
    <3>2. route' = [route EXCEPT ![t] = [at |-> "load", silo |-> route[t].silo]]
      BY <1>1, <3>1 DEF EpollerInv, EpollerTypeOK
    <3> QED BY <1>1, <3>1, <3>2, ItemGone DEF EpollerInv, EpollerTypeOK
  <2>2. CASE ~(a # kNoAffinity /\ a >= threads_)
    <3>1. PICK s \in IF a = kNoAffinity THEN SelectSilo ELSE {a} :
             route' = [route EXCEPT ![t] =
                          [at |-> IF a = kNoAffinity THEN "store" ELSE "push",
                           silo |-> s]]
      BY <2>2 DEF RouteLoad
    <3>2. todo' = todo
      BY <2>2 DEF RouteLoad
    <3>3. Item(t) \in AllItems /\ Item(t).h \in Handlers
      BY <1>1, ItemFacts DEF Item, EpollerInv, EpollerTypeOK
    <3>4. s \in AllSilos
      BY <3>1, <3>3, SelectSiloIsSilo DEF EpollerInv, EpollerTypeOK
    <3>5. /\ route'[t].at = IF a = kNoAffinity THEN "store" ELSE "push"
          /\ a # kNoAffinity => route'[t].silo = a
          /\ \A u \in Threads : u # t => route'[u] = route[u]
          /\ route' \in [Threads -> [at : {"load", "store", "push", "add"},
                                     silo : AllSilos]]
      BY <3>1, <3>4 DEF EpollerInv, EpollerTypeOK
    <3>6. \A u \in Threads : Item(u)' = Item(u)
      BY <3>2 DEF Item
    <3>7. OneItem' /\ NewToOneThread'
      BY <1>1, <3>2, <3>5, <3>6 DEF EpollerInv, OneItem, NewToOneThread
    <3>8. RouteKnowsAffinity'
      BY <1>1, <3>2, <3>5, <3>6 DEF EpollerInv, RouteKnowsAffinity
    <3> QED BY <3>2, <3>5, <3>7, <3>8 DEF RouteInv, EpollerInv, EpollerTypeOK
  <2> QED BY <2>1, <2>2
<1>3. EpollerTypeOK'
  BY <1>1, <1>2 DEF EpollerInv, EpollerTypeOK
<1> QED BY <1>1, <1>2, <1>3, ArrivedKept, AdmittedKept, EpollerInvParts

(* Route stores an affinity: the handler had none, so none of its          *)
(* descriptors is in any silo's lists or epoll set.                        *)
LEMMA RouteStoreKeepsInv ==
  ASSUME EpollerInv, NEW t \in Threads, RouteStore(t)
  PROVE  EpollerInv'
<1> USE DEF calls, lists, fds, functions, silos
<1> DEFINE h == Item(t).h
           s == route[t].silo
<1>1. /\ todo[t] # <<>> /\ route[t].at = "store"
      /\ affinity_' = [affinity_ EXCEPT ![h] = s]
      /\ route' = [route EXCEPT ![t].at = "push"]
      /\ UNCHANGED <<todo, inbound, in, table, handles_, threads_>>
  BY DEF RouteStore, At
<1>2. h \in Handlers /\ s \in AllSilos /\ affinity_[h] = kNoAffinity
  BY <1>1, ItemFacts
     DEF Item, EpollerInv, EpollerTypeOK, RouteKnowsAffinity
<1> HIDE DEF h, s
<1>3. /\ affinity_'[h] = s /\ s # kNoAffinity
      /\ \A g \in Handlers : g # h => affinity_'[g] = affinity_[g]
      /\ affinity_' \in [Handlers -> AllSilos \cup {kNoAffinity}]
  BY <1>1, <1>2, EpollerAssumption DEF EpollerInv, EpollerTypeOK, AllSilos
<1>4. /\ route'[t].at = "push" /\ route'[t].silo = s
      /\ \A u \in Threads : u # t => route'[u] = route[u]
      /\ route' \in [Threads -> [at : {"load", "store", "push", "add"},
                                 silo : AllSilos]]
  BY <1>1 DEF EpollerInv, EpollerTypeOK, s
<1>5. /\ \A u \in Threads : Item(u)' = Item(u)
      /\ \A u \in Threads : todo[u] # <<>> => Item(u).h \in Handlers
  BY <1>1, ItemFacts DEF Item, EpollerInv, EpollerTypeOK
<1>6. \A u \in Threads : (u # t /\ todo[u] # <<>>) => Item(u).h # h
  BY <1>1, <1>2 DEF EpollerInv, NewToOneThread, h
<1>7. OneItem' /\ NewToOneThread'
  BY <1>1, <1>3, <1>4, <1>5, <1>6 DEF EpollerInv, OneItem, NewToOneThread, h
<1>8. RouteKnowsAffinity'
  BY <1>1, <1>3, <1>4, <1>5, <1>6 DEF EpollerInv, RouteKnowsAffinity, h
<1>9. ArrivedIsHome'
  <2>1. \A r \in AllSilos :
           /\ \A k \in 1..Len(inbound[r]) : inbound[r][k].h \in Handlers
           /\ \A k \in 1..Len(in[r]) : in[r][k].h \in Handlers
    BY ItemFacts DEF EpollerInv, EpollerTypeOK
  <2>2. kNoAffinity \notin AllSilos
    BY EpollerAssumption DEF AllSilos
  <2> QED BY <1>1, <1>2, <1>3, <2>1, <2>2 DEF EpollerInv, ArrivedIsHome
<1>10. AdmittedIsHome' /\ HandlesAreOwn'
  <2>1. kNoAffinity \notin AllSilos
    BY EpollerAssumption DEF AllSilos
  <2>2. \A r \in AllSilos : \A f \in table[r] : OwnerOf[f] \in Handlers
    BY DEF EpollerInv, EpollerTypeOK, Handlers
  <2> QED BY <1>1, <1>2, <1>3, <2>1, <2>2
          DEF EpollerInv, AdmittedIsHome, HandlesAreOwn
<1>11. EpollerTypeOK'
  BY <1>1, <1>3, <1>4 DEF EpollerInv, EpollerTypeOK
<1> QED BY <1>7, <1>8, <1>9, <1>10, <1>11, EpollerInvParts DEF RouteInv

(* Route hands the item to the silo of its affinity.                       *)
LEMMA RouteToKeepsInv ==
  ASSUME EpollerInv, NEW t \in Threads, RouteTo(t)
  PROVE  EpollerInv'
<1> USE DEF calls, lists, fds, functions, silos
<1> DEFINE s == route[t].silo
<1>1. /\ todo[t] # <<>> /\ route[t].at = "push"
      /\ inbound' = [inbound EXCEPT ![s] = Append(@, Item(t))]
      /\ todo' = [todo EXCEPT ![t] = Tail(@)]
      /\ route' = [route EXCEPT ![t].at = "load"]
      /\ UNCHANGED <<affinity_, in, table, handles_, threads_>>
  BY DEF RouteTo, At
<1>2. /\ Item(t) \in AllItems /\ s \in AllSilos
      /\ affinity_[Item(t).h] = s
  BY <1>1 DEF Item, EpollerInv, EpollerTypeOK, RouteKnowsAffinity
<1>3. /\ route' = [route EXCEPT ![t] = [at |-> "load", silo |-> route[t].silo]]
      /\ route' \in [Threads -> [at : {"load", "store", "push", "add"},
                                 silo : AllSilos]]
  <2> DEFINE R == [at : {"load", "store", "push", "add"}, silo : AllSilos]
             n == [at |-> "load", silo |-> route[t].silo]
  <2>1. route \in [Threads -> R] /\ route[t] \in R
    BY DEF EpollerInv, EpollerTypeOK
  <2>2. [route[t] EXCEPT !.at = "load"] = n /\ n \in R
    BY <2>1
  <2>3. route' = [route EXCEPT ![t] = [route[t] EXCEPT !.at = "load"]]
    BY <1>1
  <2>4. route' = [route EXCEPT ![t] = n]
    BY <2>2, <2>3
  <2> HIDE DEF R, n
  <2>5. route' \in [Threads -> R]
    BY <2>1, <2>2, <2>4
  <2> QED BY <2>4, <2>5 DEF R, n
<1>4. todo' \in [Threads -> Seq(AllItems)] /\ RouteInv'
  BY <1>1, <1>3, ItemGone
<1> HIDE DEF s
<1>5. inbound' \in [AllSilos -> Seq(AllItems)]
  BY <1>1, <1>2 DEF EpollerInv, EpollerTypeOK
<1>6. ArrivedIsHome'
  <2>1. /\ inbound'[s] = Append(inbound[s], Item(t))
        /\ \A r \in AllSilos : r # s => inbound'[r] = inbound[r]
    BY <1>1, <1>2 DEF EpollerInv, EpollerTypeOK
  <2>2. \A k \in 1..Len(inbound'[s]) : affinity_[inbound'[s][k].h] = s
    BY <1>2, <2>1 DEF EpollerInv, EpollerTypeOK, ArrivedIsHome
  <2> QED BY <1>1, <2>1, <2>2 DEF EpollerInv, ArrivedIsHome
<1>7. EpollerTypeOK'
  BY <1>1, <1>3, <1>4, <1>5 DEF EpollerInv, EpollerTypeOK
<1> QED BY <1>1, <1>4, <1>6, <1>7, AdmittedKept, EpollerInvParts

(* A silo takes its inbound list.                                          *)
LEMMA GetInListKeepsInv ==
  ASSUME EpollerInv, NEW s \in AllSilos, GetInList(s)
  PROVE  EpollerInv'
<1> USE DEF calls, lists, fds, functions, silos
<1>1. /\ in' = [in EXCEPT ![s] = inbound[s]]
      /\ inbound' = [inbound EXCEPT ![s] = <<>>]
      /\ UNCHANGED <<affinity_, todo, route, table, handles_, threads_>>
  BY DEF GetInList
<1>2. /\ in' \in [AllSilos -> Seq(AllItems)]
      /\ inbound' \in [AllSilos -> Seq(AllItems)]
  BY <1>1 DEF EpollerInv, EpollerTypeOK
<1>3. /\ in'[s] = inbound[s] /\ inbound'[s] = <<>>
      /\ \A r \in AllSilos : r # s => in'[r] = in[r] /\ inbound'[r] = inbound[r]
  BY <1>1 DEF EpollerInv, EpollerTypeOK
<1>4. ArrivedIsHome'
  BY <1>1, <1>3 DEF EpollerInv, ArrivedIsHome
<1>5. EpollerTypeOK'
  BY <1>1, <1>2 DEF EpollerInv, EpollerTypeOK
<1> QED BY <1>1, <1>4, <1>5, RouteInvKept, AdmittedKept, EpollerInvParts

(* The first item of the list a silo admits.                               *)
LEMMA FirstIsHome ==
  ASSUME EpollerInv, NEW s \in AllSilos, in[s] # <<>>
  PROVE  /\ Head(in[s]) \in AllItems /\ affinity_[Head(in[s]).h] = s
         /\ Tail(in[s]) \in Seq(AllItems)
<1>1. in[s] \in Seq(AllItems)
  BY DEF EpollerInv, EpollerTypeOK
<1>2. /\ Head(in[s]) \in AllItems /\ Tail(in[s]) \in Seq(AllItems)
      /\ Head(in[s]) = in[s][1] /\ 1 \in 1..Len(in[s])
  BY <1>1
<1> QED BY <1>2 DEF EpollerInv, ArrivedIsHome

(* It is done with: the others stay where they belong.                     *)
LEMMA FirstGone ==
  ASSUME EpollerInv, NEW s \in AllSilos, in[s] # <<>>,
         in' = [in EXCEPT ![s] = Tail(@)], UNCHANGED <<inbound, affinity_>>
  PROVE  in' \in [AllSilos -> Seq(AllItems)] /\ ArrivedIsHome'
<1>1. in \in [AllSilos -> Seq(AllItems)] /\ in[s] \in Seq(AllItems)
  BY DEF EpollerInv, EpollerTypeOK
<1>2. /\ in'[s] = Tail(in[s]) /\ \A r \in AllSilos : r # s => in'[r] = in[r]
      /\ in' \in [AllSilos -> Seq(AllItems)]
  BY <1>1, FirstIsHome
<1>3. \A k \in 1..Len(in'[s]) : k + 1 \in 1..Len(in[s]) /\ in'[s][k] = in[s][k + 1]
  BY <1>1, <1>2
<1>4. \A k \in 1..Len(in[s]) : affinity_[in[s][k].h] = s
  BY DEF EpollerInv, ArrivedIsHome
<1>5. \A k \in 1..Len(in'[s]) : affinity_[in'[s][k].h] = s
  BY <1>3, <1>4
<1>6. ArrivedIsHome'
  BY <1>2, <1>5 DEF EpollerInv, ArrivedIsHome
<1> QED BY <1>2, <1>6

(* A silo that routes nothing changes the step it is at.                   *)
LEMMA IdleStep ==
  ASSUME EpollerInv, NEW s \in AllSilos, todo[s] = <<>>,
         NEW x \in {"load", "add"}, route' = [route EXCEPT ![s].at = x],
         UNCHANGED <<todo, affinity_>>
  PROVE  /\ RouteInv'
         /\ route' \in [Threads -> [at : {"load", "store", "push", "add"},
                                    silo : AllSilos]]
<1>0. s \in Threads
  BY DEF Threads
<1>1. /\ route' \in [Threads -> [at : {"load", "store", "push", "add"},
                                 silo : AllSilos]]
      /\ route'[s].at = x /\ \A u \in Threads : u # s => route'[u] = route[u]
  BY <1>0 DEF EpollerInv, EpollerTypeOK
<1>2. \A u \in Threads : Item(u)' = Item(u)
  BY DEF Item
<1>3. OneItem' /\ NewToOneThread'
  BY <1>0, <1>1, <1>2 DEF EpollerInv, OneItem, NewToOneThread
<1>4. RouteKnowsAffinity'
  BY <1>0, <1>1, <1>2 DEF EpollerInv, RouteKnowsAffinity
<1> QED BY <1>1, <1>3, <1>4 DEF RouteInv

(* The silo admits what it was given.  The check for an affinity race and  *)
(* Affinitize both find the affinity they hope for.                        *)
LEMMA AdmissionKeepsInv ==
  ASSUME EpollerInv, NEW s \in AllSilos, Admission(s)
  PROVE  EpollerInv'
<1> USE DEF calls, lists, fds, functions, silos
<1> DEFINE i == Head(in[s])
<1>0. in[s] # <<>> /\ todo[s] = <<>>
  BY DEF Admission, AdmitElsewhere, AdmitCheck, AdmitFds, AdmitFails, AdmitFn, Admitting
<1>1. /\ i \in AllItems /\ affinity_[i.h] = s /\ i.h \in Handlers
      /\ i.fds \in SUBSET Fds /\ \A f \in i.fds : OwnerOf[f] = i.h
  BY <1>0, FirstIsHome, ItemFacts
<1>2. ~AdmitElsewhere(s)
  BY <1>1 DEF AdmitElsewhere
<1>3. CASE AdmitCheck(s)
  <2>1. /\ route' = [route EXCEPT ![s].at = "add"]
        /\ UNCHANGED <<affinity_, todo, inbound, in, table, handles_, threads_>>
    BY <1>3 DEF AdmitCheck
  <2>2. /\ RouteInv'
        /\ route' \in [Threads -> [at : {"load", "store", "push", "add"},
                                   silo : AllSilos]]
    BY <1>0, <2>1, IdleStep
  <2>3. EpollerTypeOK'
    BY <2>1, <2>2 DEF EpollerInv, EpollerTypeOK
  <2> QED BY <2>1, <2>2, <2>3, ArrivedKept, AdmittedKept, EpollerInvParts
<1>4. CASE AdmitFn(s)
  <2>1. /\ route' = [route EXCEPT ![s].at = "load"]
        /\ in' = [in EXCEPT ![s] = Tail(@)]
        /\ UNCHANGED <<affinity_, todo, inbound, table, handles_, threads_>>
    BY <1>4 DEF AdmitFn
  <2>2. /\ RouteInv'
        /\ route' \in [Threads -> [at : {"load", "store", "push", "add"},
                                   silo : AllSilos]]
    BY <1>0, <2>1, IdleStep
  <2>3. in' \in [AllSilos -> Seq(AllItems)] /\ ArrivedIsHome'
    BY <1>0, <2>1, FirstGone
  <2>4. EpollerTypeOK'
    BY <2>1, <2>2, <2>3 DEF EpollerInv, EpollerTypeOK
  <2> QED BY <2>1, <2>2, <2>3, <2>4, AdmittedKept, EpollerInvParts
<1>5. CASE AdmitFds(s)
  <2>1. /\ route' = [route EXCEPT ![s].at = "load"]
        /\ in' = [in EXCEPT ![s] = Tail(@)]
        /\ table' = [table EXCEPT ![s] = @ \cup i.fds]
        /\ handles_' = [handles_ EXCEPT ![i.h] = @ \cup i.fds]
        /\ UNCHANGED <<affinity_, todo, inbound, threads_>>
    BY <1>1, <1>5 DEF AdmitFds
  <2>2. /\ RouteInv'
        /\ route' \in [Threads -> [at : {"load", "store", "push", "add"},
                                   silo : AllSilos]]
    BY <1>0, <2>1, IdleStep
  <2>3. in' \in [AllSilos -> Seq(AllItems)] /\ ArrivedIsHome'
    BY <1>0, <2>1, FirstGone
  <2> HIDE DEF i
  <2>4. /\ table' \in [AllSilos -> SUBSET Fds] /\ table'[s] = table[s] \cup i.fds
        /\ \A r \in AllSilos : r # s => table'[r] = table[r]
    BY <1>1, <2>1 DEF EpollerInv, EpollerTypeOK
  <2>5. /\ handles_' \in [Handlers -> SUBSET Fds]
        /\ handles_'[i.h] = handles_[i.h] \cup i.fds
        /\ \A h \in Handlers : h # i.h => handles_'[h] = handles_[h]
    BY <1>1, <2>1 DEF EpollerInv, EpollerTypeOK
  <2>6. \A r \in AllSilos : \A f \in table[r] : OwnerOf[f] \in Handlers
    BY DEF EpollerInv, EpollerTypeOK, Handlers
  <2>7. AdmittedIsHome'
    BY <1>1, <2>1, <2>4, <2>5, <2>6 DEF EpollerInv, AdmittedIsHome
  <2>8. HandlesAreOwn'
    BY <1>1, <2>5 DEF EpollerInv, HandlesAreOwn
  <2>9. EpollerTypeOK'
    BY <2>1, <2>2, <2>3, <2>4, <2>5 DEF EpollerInv, EpollerTypeOK
  <2> QED BY <2>2, <2>3, <2>7, <2>8, <2>9, EpollerInvParts
<1>6. CASE AdmitFails(s)
  <2>1. PICK new \in SUBSET i.fds : handles_' = [handles_ EXCEPT ![i.h] = @ \cup new]
    BY <1>6 DEF AdmitFails
  <2>2. /\ route' = [route EXCEPT ![s].at = "load"]
        /\ in' = [in EXCEPT ![s] = <<>>]
        /\ table' = [table EXCEPT ![s] = {}]
        /\ UNCHANGED <<affinity_, todo, inbound, threads_>>
    BY <1>6 DEF AdmitFails, SiloEnds
  <2>3. /\ RouteInv'
        /\ route' \in [Threads -> [at : {"load", "store", "push", "add"},
                                   silo : AllSilos]]
    BY <1>0, <2>2, IdleStep
  <2> HIDE DEF i
  <2>4. /\ in' \in [AllSilos -> Seq(AllItems)] /\ in'[s] = <<>>
        /\ \A r \in AllSilos : r # s => in'[r] = in[r]
    BY <2>2 DEF EpollerInv, EpollerTypeOK
  <2>5. ArrivedIsHome'
    BY <2>2, <2>4 DEF EpollerInv, ArrivedIsHome
  <2>6. /\ table' \in [AllSilos -> SUBSET Fds] /\ table'[s] = {}
        /\ \A r \in AllSilos : r # s => table'[r] = table[r]
    BY <2>2 DEF EpollerInv, EpollerTypeOK
  <2>7. /\ handles_' \in [Handlers -> SUBSET Fds]
        /\ handles_'[i.h] = handles_[i.h] \cup new
        /\ \A h \in Handlers : h # i.h => handles_'[h] = handles_[h]
    BY <1>1, <2>1 DEF EpollerInv, EpollerTypeOK
  <2>8. \A r \in AllSilos : \A f \in table[r] : OwnerOf[f] \in Handlers
    BY DEF EpollerInv, EpollerTypeOK, Handlers
  <2>9. AdmittedIsHome'
    BY <1>1, <2>2, <2>6, <2>7, <2>8 DEF EpollerInv, AdmittedIsHome
  <2>10. HandlesAreOwn'
    BY <1>1, <2>7 DEF EpollerInv, HandlesAreOwn
  <2>11. EpollerTypeOK'
    BY <2>2, <2>3, <2>4, <2>6, <2>7 DEF EpollerInv, EpollerTypeOK
  <2> QED BY <2>3, <2>5, <2>9, <2>10, <2>11, EpollerInvParts
<1> QED BY <1>2, <1>3, <1>4, <1>5, <1>6 DEF Admission

(* A silo sheds a handler: every descriptor of the handler leaves with it. *)
LEMMA ShedKeepsInv ==
  ASSUME EpollerInv, NEW s \in AllSilos, NEW f \in Fds, Shed(s, f)
  PROVE  EpollerInv'
<1> USE DEF calls, lists, fds, functions, silos
<1> DEFINE h == OwnerOf[f]
           it == FdItem(handles_[h])
<1>1. /\ todo[s] = <<>> /\ f \in table[s] /\ s \in Threads
      /\ todo' = [todo EXCEPT ![s] = <<it>>]
      /\ table' = [table EXCEPT ![s] = @ \ handles_[h]]
      /\ handles_' = [handles_ EXCEPT ![h] = {}]
      /\ UNCHANGED <<threads_, affinity_, route, inbound, in>>
  BY DEF Shed, Idle, Threads
<1>2. h \in Handlers /\ affinity_[h] = s /\ f \in handles_[h]
  BY <1>1 DEF Handlers, EpollerInv, AdmittedIsHome
<1>3. handles_[h] \in SUBSET Fds /\ \A g \in handles_[h] : OwnerOf[g] = h
  BY <1>2 DEF EpollerInv, EpollerTypeOK, HandlesAreOwn
<1>4. it \in AllItems /\ it.h = h
  BY <1>2, <1>3, FdItemOK
<1> HIDE DEF h, it
<1>5. affinity_[it.h] # kNoAffinity
  BY <1>2, <1>4, EpollerAssumption DEF AllSilos
<1>6. todo' \in [Threads -> Seq(AllItems)] /\ RouteInv'
  BY <1>1, <1>4, <1>5, StartItem
<1>7. /\ table' \in [AllSilos -> SUBSET Fds] /\ table'[s] = table[s] \ handles_[h]
      /\ \A r \in AllSilos : r # s => table'[r] = table[r]
      /\ handles_' \in [Handlers -> SUBSET Fds] /\ handles_'[h] = {}
      /\ \A g \in Handlers : g # h => handles_'[g] = handles_[g]
  BY <1>1, <1>2 DEF EpollerInv, EpollerTypeOK
<1>8. AdmittedIsHome'
  <2>1. \A r \in AllSilos : \A g \in table[r] : OwnerOf[g] \in Handlers
    BY DEF EpollerInv, EpollerTypeOK, Handlers
  <2>2. \A r \in AllSilos : \A g \in table'[r] : OwnerOf[g] # h
    BY <1>2, <1>7 DEF EpollerInv, AdmittedIsHome
  <2>3. \A r \in AllSilos : table'[r] \subseteq table[r]
    BY <1>7
  <2> QED BY <1>1, <1>7, <2>1, <2>2, <2>3 DEF EpollerInv, AdmittedIsHome
<1>9. HandlesAreOwn'
  BY <1>7 DEF EpollerInv, HandlesAreOwn
<1>10. EpollerTypeOK'
  BY <1>1, <1>6, <1>7 DEF EpollerInv, EpollerTypeOK
<1> QED BY <1>1, <1>6, <1>8, <1>9, <1>10, ArrivedKept, EpollerInvParts

LEMMA EpollerInvStep ==
  ASSUME ~Racing
  PROVE  EpollerInv /\ [EpollerNext]_epollerVars => EpollerInv'
<1> SUFFICES ASSUME EpollerInv, [EpollerNext]_epollerVars PROVE EpollerInv'
  OBVIOUS
<1>1. CASE UNCHANGED epollerVars
  BY <1>1, QuietKeepsInv
<1>2. CASE \E n \in 0..MaxSilos : Build(n)
  BY <1>2, QuietKeepsInv
<1>3. ASSUME NEW t \in Clients, NEW f \in ClientFds,
             Register(t, f) \/ SetNonBlockingAndRegister(t, f)
      PROVE  EpollerInv'
  BY <1>3, CallKeepsInv, QuietKeepsInv
<1>4. ASSUME NEW t \in Clients, NEW fn \in ClientFns, RunWithAffinity(t, fn)
      PROVE  EpollerInv'
  BY <1>4, CallKeepsInv
<1>5. ASSUME NEW t \in Threads, Route(t) PROVE EpollerInv'
  BY <1>5, RouteLoadKeepsInv, RouteStoreKeepsInv, RouteToKeepsInv DEF Route
<1>6. ASSUME NEW s \in AllSilos,
             GetInList(s) \/ Admission(s) \/ Publish(s) \/ Exit(s)
      PROVE  EpollerInv'
  BY <1>6, GetInListKeepsInv, AdmissionKeepsInv, QuietKeepsInv
<1>7. ASSUME NEW s \in AllSilos, NEW f \in Fds, CloseFd(s, f) \/ Shed(s, f)
      PROVE  EpollerInv'
  BY <1>7, ShedKeepsInv, QuietKeepsInv
<1>8. CASE NotifyExiting
  BY <1>8, QuietKeepsInv
<1> QED BY <1>1, <1>2, <1>3, <1>4, <1>5, <1>6, <1>7, <1>8 DEF EpollerNext

-----------------------------------------------------------------------------
(* HandlerStaysInOneSilo: the descriptors of a handler are never in two    *)
(* epoll sets, provided no two threads register one new handler at the     *)
(* same time (epoller.cc, Route: GetAffinity and SetAffinity are two steps *)
(* and nothing joins them).                                                *)
THEOREM HandlerStaysInOneSilo ==
  ASSUME ~Racing
  PROVE  EpollerSpec => []HandlerInOneSilo
<1>1. EpollerInit => EpollerInv
  BY EpollerInvInit
<1>2. EpollerInv /\ [EpollerNext]_epollerVars => EpollerInv'
  BY EpollerInvStep
<1>3. EpollerInv => HandlerInOneSilo
  BY DEF EpollerInv, AdmittedIsHome, HandlerInOneSilo
<1> QED BY <1>1, <1>2, <1>3, PTL DEF EpollerSpec

(* AffinityNeverBreaks: under the same proviso what reaches a silo belongs *)
(* to it, so the check for an affinity race in the silo's admission never  *)
(* routes anything back and Affinitize never fails: the error that would   *)
(* end the silo's thread (silo.cc, Add) cannot happen.                     *)
THEOREM AffinityNeverBreaks ==
  ASSUME ~Racing
  PROVE  EpollerSpec => []ArrivedIsHome
<1>1. EpollerInit => EpollerInv
  BY EpollerInvInit
<1>2. EpollerInv /\ [EpollerNext]_epollerVars => EpollerInv'
  BY EpollerInvStep
<1>3. EpollerInv => ArrivedIsHome
  BY DEF EpollerInv
<1> QED BY <1>1, <1>2, <1>3, PTL DEF EpollerSpec
=============================================================================
