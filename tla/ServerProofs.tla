---------------------------- MODULE ServerProofs ----------------------------
(***************************************************************************)
(* The stream of a connection is primed on a socket that is there          *)
(* (PrimeFindsSocket), for every number of connections, peers of any       *)
(* behaviour and any interleaving of Route with the silo's loop.           *)
(***************************************************************************)
EXTENDS Server, TLAPS

(* The items of the server that travel through the Epoller.                *)
Socket(c) == FdItem({SockFd(c)})
Priming(c) == FnItem(PrimeFn(c))
ServerItems ==
    {FdItem({Listen})} \cup {FdItem({SniffFd(c)}) : c \in Conns}
        \cup {Socket(c) : c \in Conns} \cup {Priming(c) : c \in Conns}

(* The server has one silo, and that is where everything is routed.        *)
ServerTypeOK ==
    /\ threads_ \in {0, 1}
    /\ affinity_ \in [Handlers -> {kNoAffinity, S}]
    /\ todo \in [Threads -> Seq(ServerItems)]
    /\ route \in [Threads -> [at : {"load", "store", "push", "add"}, silo : {S}]]
    /\ inbound \in [AllSilos -> Seq(ServerItems)]
    /\ in \in [AllSilos -> Seq(ServerItems)]
    /\ table \in [AllSilos -> SUBSET Fds]
    /\ handles_ \in [Handlers -> SUBSET Fds]

(* Nothing is routed before Create; afterwards only the silo's thread has  *)
(* streams to prime, and it routes nothing while it admits.                *)
WhoRoutes ==
    /\ threads_ = 0 => in[S] = <<>> /\ \A t \in Threads : todo[t] = <<>>
    /\ \A t \in Threads : t # S =>
          \A k \in 1..Len(todo[t]) : todo[t][k] = FdItem({Listen})
    /\ todo[S] # <<>> => in[S] = <<>>
    /\ \A t \in Threads : todo[t] = <<>> => route[t].at \in {"load", "add"}

(* What is on its way to the silo or there has the silo's affinity.        *)
Homed ==
    /\ \A t \in Threads :
          todo[t] # <<>> /\ route[t].at = "push" => affinity_[Item(t).h] = S
    /\ \A k \in 1..Len(inbound[S]) : affinity_[inbound[S][k].h] = S
    /\ \A k \in 1..Len(in[S]) : affinity_[in[S][k].h] = S

Within(x, q) == \E i \in 1..Len(q) : q[i] = x
Before(x, q, j) == \E i \in 1..(j - 1) : q[i] = x

(* Wherever the call of Prime waits, its socket is ahead of it.  Once the  *)
(* socket is admitted the silo is in the middle of a batch, so that no     *)
(* upcall can close the socket before the batch reaches Prime.             *)
SocketFirst ==
    /\ \A c \in Conns : \A j \in 1..Len(todo[S]) : todo[S][j] = Priming(c) =>
          Before(Socket(c), todo[S], j) \/ Within(Socket(c), inbound[S])
    /\ \A c \in Conns : \A j \in 1..Len(inbound[S]) :
          inbound[S][j] = Priming(c) => Before(Socket(c), inbound[S], j)
    /\ \A c \in Conns : \A j \in 1..Len(in[S]) : in[S][j] = Priming(c) =>
          Before(Socket(c), in[S], j) \/ SockFd(c) \in table[S]

(* A socket in the epoll set is named by its handler's handles_.           *)
SocketHasHandle ==
    \A c \in Conns : SockFd(c) \in table[S] => handles_[OwnerOf[SockFd(c)]] # {}

NoneAbandoned == \A c \in Conns : PrimeFn(c) \notin abandoned

ServerInv ==
    /\ ServerTypeOK /\ WhoRoutes /\ Homed /\ SocketFirst /\ SocketHasHandle
    /\ NoneAbandoned

LEMMA ItemFields ==
  /\ \A x : /\ FdItem({x}).h = OwnerOf[x] /\ FdItem({x}).fds = {x}
            /\ FdItem({x}).fn = {}
  /\ \A x : /\ FnItem(x).h = OwnerOf[x] /\ FnItem(x).fds = {}
            /\ FnItem(x).fn = {x}
BY DEF FdItem, FnItem

LEMMA ServerNames ==
  \A c, d \in Conns : /\ SniffFd(c) # SockFd(d) /\ Listen # SockFd(d)
                      /\ PrimeFn(c) = PrimeFn(d) => c = d
BY ServerAssumption DEF SniffFd, SockFd, PrimeFn

LEMMA PrimingFacts ==
  ASSUME NEW c \in Conns
  PROVE  /\ Priming(c) \in ServerItems /\ Socket(c) \in ServerItems
         /\ Priming(c).fds = {} /\ Priming(c).fn = {PrimeFn(c)}
         /\ Priming(c).h = OwnerOf[SockFd(c)]
         /\ Socket(c).fds = {SockFd(c)} /\ Socket(c).h = OwnerOf[SockFd(c)]
         /\ \A x : FdItem({x}) # Priming(c)
         /\ \A d \in Conns : Priming(d) = Priming(c) => d = c
<1>1. Priming(c) \in ServerItems /\ Socket(c) \in ServerItems
  BY DEF ServerItems
<1>2. /\ Priming(c).fds = {} /\ Priming(c).fn = {PrimeFn(c)}
      /\ Priming(c).h = OwnerOf[SockFd(c)]
      /\ Socket(c).fds = {SockFd(c)} /\ Socket(c).h = OwnerOf[SockFd(c)]
  BY ItemFields, ServerAssumption DEF Priming, Socket
<1>3. ASSUME NEW x PROVE FdItem({x}) # Priming(c)
  BY <1>2, ItemFields
<1>4. ASSUME NEW d \in Conns, Priming(d) = Priming(c) PROVE d = c
  <2>1. Priming(d).fn = {PrimeFn(d)}
    BY ItemFields DEF Priming
  <2>2. PrimeFn(d) = PrimeFn(c)
    BY <1>2, <1>4, <2>1
  <2> QED BY <2>2, ServerNames
<1> QED BY <1>1, <1>2, <1>3, <1>4

LEMMA ServerItemFacts ==
  ASSUME NEW it \in ServerItems
  PROVE  /\ it.h \in Handlers /\ it.fds \in SUBSET Fds
         /\ it.fds = {} => \E c \in Conns : it = Priming(c)
<1>1. CASE it = FdItem({Listen})
  BY <1>1, ItemFields, ServerAssumption DEF Handlers
<1>2. ASSUME NEW c \in Conns, it = FdItem({SniffFd(c)})
      PROVE  it.h \in Handlers /\ it.fds \in SUBSET Fds /\ it.fds # {}
  BY <1>2, ItemFields, ServerAssumption DEF Handlers
<1>3. ASSUME NEW c \in Conns, it = Socket(c)
      PROVE  it.h \in Handlers /\ it.fds \in SUBSET Fds /\ it.fds # {}
  BY <1>3, ItemFields, ServerAssumption DEF Handlers, Socket
<1>4. ASSUME NEW c \in Conns, it = Priming(c)
      PROVE  it.h \in Handlers /\ it.fds = {}
  BY <1>4, ItemFields, ServerAssumption DEF Handlers, Priming
<1> QED BY <1>1, <1>2, <1>3, <1>4, ItemFields DEF ServerItems

LEMMA OwnItems ==
  ASSUME NEW it \in ServerItems
  PROVE  \A f \in it.fds : OwnerOf[f] = it.h
<1>1. ASSUME NEW x, it = FdItem({x}) PROVE \A f \in it.fds : OwnerOf[f] = it.h
  <2>1. it.fds = {x} /\ it.h = OwnerOf[x]
    BY <1>1, ItemFields
  <2> QED BY <2>1
<1>2. ASSUME NEW c \in Conns, it = Priming(c)
      PROVE  \A f \in it.fds : OwnerOf[f] = it.h
  BY <1>2, PrimingFacts
<1> QED BY <1>1, <1>2 DEF ServerItems, Socket

LEMMA ThreadsOfServer == S \in AllSilos /\ S \in Threads /\ Main \in Threads /\ Main # S
BY EpollerAssumption, ServerAssumption DEF S, AllSilos, Threads

(* Positions in a queue of which the first element is taken, or to which   *)
(* one is added.                                                           *)
LEMMA TailPositions ==
  ASSUME NEW I, NEW q \in Seq(I), q # <<>>, NEW j \in 1..Len(Tail(q))
  PROVE  /\ Tail(q) \in Seq(I) /\ j + 1 \in 1..Len(q) /\ Tail(q)[j] = q[j + 1]
         /\ \A x : Before(x, q, j + 1) => x = Head(q) \/ Before(x, Tail(q), j)
<1>1. /\ Tail(q) \in Seq(I) /\ Len(Tail(q)) = Len(q) - 1 /\ Len(q) \in Nat
      /\ \A i \in 1..Len(Tail(q)) : Tail(q)[i] = q[i + 1]
      /\ Head(q) = q[1]
  OBVIOUS
<1>2. ASSUME NEW x, Before(x, q, j + 1), x # Head(q) PROVE Before(x, Tail(q), j)
  <2>1. PICK i \in 1..j : q[i] = x
    BY <1>2 DEF Before
  <2>2. i # 1
    BY <1>1, <1>2, <2>1
  <2>3. i - 1 \in 1..(j - 1) /\ Tail(q)[i - 1] = x
    BY <1>1, <2>1, <2>2
  <2> QED BY <2>3 DEF Before
<1> QED BY <1>1, <1>2

LEMMA AppendPositions ==
  ASSUME NEW I, NEW q \in Seq(I), NEW y \in I
  PROVE  /\ Append(q, y) \in Seq(I) /\ Within(y, Append(q, y))
         /\ \A x : Within(x, q) => Within(x, Append(q, y))
         /\ \A x : \A j \in 1..Len(q) :
               /\ Append(q, y)[j] = q[j]
               /\ Before(x, q, j) => Before(x, Append(q, y), j)
         /\ \A j \in 1..Len(Append(q, y)) : j \in 1..Len(q) \/
               (/\ Append(q, y)[j] = y
                /\ \A x : Within(x, q) => Before(x, Append(q, y), j))
<1>1. /\ Append(q, y) \in Seq(I) /\ Len(Append(q, y)) = Len(q) + 1 /\ Len(q) \in Nat
      /\ \A i \in 1..Len(q) : Append(q, y)[i] = q[i]
      /\ Append(q, y)[Len(q) + 1] = y
  OBVIOUS
<1> DEFINE a == Append(q, y)
<1> HIDE DEF a
<1>2. Within(y, a)
  BY <1>1 DEF Within, a
<1>3. ASSUME NEW x, Within(x, q) PROVE Within(x, a) /\ Before(x, a, Len(q) + 1)
  BY <1>1, <1>3 DEF Within, Before, a
<1>4. ASSUME NEW x, NEW j \in 1..Len(q), Before(x, q, j) PROVE Before(x, a, j)
  BY <1>1, <1>4 DEF Before, a
<1>5. \A j \in 1..(Len(q) + 1) : j \in 1..Len(q) \/ j = Len(q) + 1
  BY <1>1
<1> QED BY <1>1, <1>2, <1>3, <1>4, <1>5 DEF a

LEMMA ServerInvInit == EpollerInit => ServerInv
<1> SUFFICES ASSUME EpollerInit PROVE ServerInv
  OBVIOUS
<1> USE EpollerAssumption, ThreadsOfServer DEF EpollerInit
<1>1. ServerTypeOK
  <2>1. /\ threads_ \in {0, 1} /\ affinity_ \in [Handlers -> {kNoAffinity, S}]
        /\ table \in [AllSilos -> SUBSET Fds]
        /\ handles_ \in [Handlers -> SUBSET Fds]
    OBVIOUS
  <2>2. route \in [Threads -> [at : {"load", "store", "push", "add"}, silo : {S}]]
    BY DEF S
  <2>3. /\ todo \in [Threads -> Seq(ServerItems)]
        /\ inbound \in [AllSilos -> Seq(ServerItems)]
        /\ in \in [AllSilos -> Seq(ServerItems)]
    OBVIOUS
  <2> QED BY <2>1, <2>2, <2>3 DEF ServerTypeOK
<1>2. WhoRoutes /\ Homed /\ SocketFirst /\ SocketHasHandle /\ NoneAbandoned
  BY DEF WhoRoutes, Homed, SocketFirst, SocketHasHandle, NoneAbandoned
<1> QED BY <1>1, <1>2 DEF ServerInv

(* Peers act, and the sniffer decides; the Epoller sees nothing of it.     *)
LEMMA ServerQuiet ==
  ASSUME ServerInv, UNCHANGED epollerVars PROVE ServerInv'
BY DEF ServerInv, epollerVars, calls, lists, fds, functions, silos, ServerTypeOK,
       WhoRoutes, Homed, SocketFirst, SocketHasHandle, NoneAbandoned, Item

(* A socket closes between two batches: no call of Prime relies on it.     *)
LEMMA ServerCloses ==
  ASSUME ServerInv, NEW f, CloseFd(S, f) PROVE ServerInv'
<1> USE ThreadsOfServer DEF lists, calls, functions, silos
<1>1. /\ in[S] = <<>> /\ table' = [table EXCEPT ![S] = @ \ {f}]
      /\ UNCHANGED <<affinity_, handles_, todo, route, inbound, in, threads_,
                     abandoned>>
  BY DEF CloseFd, Idle
<1>2. table' \in [AllSilos -> SUBSET Fds] /\ table'[S] \subseteq table[S]
  BY <1>1 DEF ServerInv, ServerTypeOK
<1>3. ServerTypeOK'
  BY <1>1, <1>2 DEF ServerInv, ServerTypeOK
<1>4. WhoRoutes' /\ Homed' /\ NoneAbandoned'
  BY <1>1 DEF ServerInv, WhoRoutes, Homed, NoneAbandoned, Item
<1>5. SocketFirst'
  BY <1>1 DEF ServerInv, SocketFirst
<1>6. SocketHasHandle'
  BY <1>1, <1>2 DEF ServerInv, SocketHasHandle
<1> QED BY <1>3, <1>4, <1>5, <1>6 DEF ServerInv

(* A thread that routes nothing is given items to route: the listening     *)
(* descriptor, or in the silo a sniffer or a socket and its stream.        *)
LEMMA ServerStarts ==
  ASSUME ServerInv, NEW t \in Threads, todo[t] = <<>>, threads_' = 1,
         NEW q \in Seq(ServerItems), todo' = [todo EXCEPT ![t] = q],
         table'[S] \subseteq table[S], table' \in [AllSilos -> SUBSET Fds],
         UNCHANGED <<affinity_, route, inbound, in, handles_, abandoned>>,
         in[S] = <<>>,
         t # S => \A k \in 1..Len(q) : q[k] = FdItem({Listen}),
         t = S => \A c \in Conns : \A j \in 1..Len(q) :
                     q[j] = Priming(c) => Before(Socket(c), q, j)
  PROVE  ServerInv'
<1> USE ThreadsOfServer
<1>1. /\ todo' \in [Threads -> Seq(ServerItems)] /\ todo'[t] = q
      /\ \A u \in Threads : u # t => todo'[u] = todo[u]
  BY DEF ServerInv, ServerTypeOK
<1>2. ServerTypeOK'
  BY <1>1 DEF ServerInv, ServerTypeOK
<1>3. WhoRoutes'
  <2>1. threads_' # 0 /\ in'[S] = <<>>
    OBVIOUS
  <2>2. \A u \in Threads : u # S =>
           \A k \in 1..Len(todo'[u]) : todo'[u][k] = FdItem({Listen})
    BY <1>1 DEF ServerInv, WhoRoutes
  <2>3. \A u \in Threads : todo'[u] = <<>> => route'[u].at \in {"load", "add"}
    BY <1>1 DEF ServerInv, WhoRoutes
  <2> QED BY <2>1, <2>2, <2>3 DEF WhoRoutes
<1>4. Homed'
  <2>1. route[t].at # "push"
    BY DEF ServerInv, WhoRoutes
  <2> QED BY <1>1, <2>1 DEF ServerInv, Homed, Item
<1>5. SocketFirst'
  BY <1>1 DEF ServerInv, SocketFirst
<1>6. SocketHasHandle' /\ NoneAbandoned'
  BY DEF ServerInv, SocketHasHandle, NoneAbandoned
<1> QED BY <1>2, <1>3, <1>4, <1>5, <1>6 DEF ServerInv

LEMMA ServerEjects ==
  ASSUME ServerInv, NEW c \in Conns, Accept(c) \/ HandleEject(c)
  PROVE  ServerInv'
<1> USE ThreadsOfServer DEF lists, functions, silos, calls
<1> DEFINE q == todo'[S]
<1>1. /\ todo[S] = <<>> /\ in[S] = <<>> /\ threads_' = 1
      /\ UNCHANGED <<affinity_, route, inbound, in, handles_, abandoned>>
  <2>1. threads_ # 0
    BY DEF Accept, HandleEject, Upcall, Idle, Live, Silos, S
  <2> QED BY <2>1 DEF Accept, HandleEject, Upcall, Idle, Routes, ServerInv, ServerTypeOK
<1>2. /\ table'[S] \subseteq table[S] /\ table' \in [AllSilos -> SUBSET Fds]
  BY ZenonT(40) DEF Accept, HandleEject, ServerInv, ServerTypeOK
<1>3. PICK items : /\ todo' = [todo EXCEPT ![S] = items]
                   /\ items \in {<<FdItem({SniffFd(c)})>>, FireUp(c), <<>>}
  BY DEF Accept, HandleEject, Routes
<1>4. FdItem({SniffFd(c)}) \in ServerItems /\ FdItem({SniffFd(c)}) # Priming(c)
  BY PrimingFacts DEF ServerItems
<1>5. /\ items \in Seq(ServerItems)
      /\ \A d \in Conns : \A j \in 1..Len(items) :
            items[j] = Priming(d) => Before(Socket(d), items, j)
  <2>1. CASE items = <<FdItem({SniffFd(c)})>>
    <3>1. /\ items \in Seq(ServerItems) /\ Len(items) = 1
          /\ items[1] = FdItem({SniffFd(c)})
      BY <1>4, <2>1
    <3>2. \A j \in 1..Len(items) : j = 1
      BY <3>1
    <3>3. \A d \in Conns : FdItem({SniffFd(c)}) # Priming(d)
      BY PrimingFacts
    <3> QED BY <3>1, <3>2, <3>3
  <2>2. CASE items = FireUp(c)
    <3>1. /\ items \in Seq(ServerItems) /\ Len(items) = 2
          /\ items[1] = Socket(c) /\ items[2] = Priming(c)
      BY <2>2, PrimingFacts DEF FireUp, Socket, Priming
    <3>2. \A d \in Conns : Socket(c) # Priming(d)
      BY PrimingFacts DEF Socket
    <3>3. ASSUME NEW d \in Conns, NEW j \in 1..Len(items), items[j] = Priming(d)
          PROVE  Before(Socket(d), items, j)
      <4>1. j = 2
        BY <3>1, <3>2, <3>3
      <4>2. d = c
        BY <3>1, <3>3, <4>1, PrimingFacts
      <4> QED BY <3>1, <4>1, <4>2 DEF Before
    <3> QED BY <3>1, <3>3
  <2>3. CASE items = <<>>
    BY <2>3
  <2> QED BY <1>3, <2>1, <2>2, <2>3
<1> QED BY <1>1, <1>2, <1>3, <1>5, ServerStarts

LEMMA ServerCreates ==
  ASSUME ServerInv, Create PROVE ServerInv'
<1> USE ThreadsOfServer DEF lists, functions, fds
<1>1. /\ threads_ = 0 /\ threads_' = 1
      /\ todo' = [todo EXCEPT ![Main] = <<FdItem({Listen})>>]
      /\ UNCHANGED <<affinity_, route, inbound, in, table, handles_, abandoned>>
  BY DEF Create
<1>2. \A t \in Threads : todo[t] = <<>>
  BY <1>1 DEF ServerInv, WhoRoutes
<1>3. /\ <<FdItem({Listen})>> \in Seq(ServerItems)
      /\ \A k \in 1..Len(<<FdItem({Listen})>>) :
            <<FdItem({Listen})>>[k] = FdItem({Listen})
  BY DEF ServerItems
<1>4. in[S] = <<>>
  BY <1>1 DEF ServerInv, WhoRoutes
<1> QED BY <1>1, <1>2, <1>3, <1>4, ServerStarts DEF ServerInv, ServerTypeOK

LEMMA StepKeepsWho ==
  ASSUME ServerInv, NEW t \in Threads, todo[t] # <<>>,
         UNCHANGED <<todo, in, threads_>>,
         \A u \in Threads : u # t => route'[u] = route[u]
  PROVE  WhoRoutes'
<1>1. \A u \in Threads : todo'[u] = <<>> => route'[u].at \in {"load", "add"}
  BY DEF ServerInv, WhoRoutes
<1>2. /\ threads_' = 0 => in'[S] = <<>> /\ \A u \in Threads : todo'[u] = <<>>
      /\ todo'[S] # <<>> => in'[S] = <<>>
  BY DEF ServerInv, WhoRoutes
<1>3. \A u \in Threads : u # S =>
         \A k \in 1..Len(todo'[u]) : todo'[u][k] = FdItem({Listen})
  BY DEF ServerInv, WhoRoutes
<1> QED BY <1>1, <1>2, <1>3 DEF WhoRoutes

(* Route, in the thread of the silo or in the one that made the server.    *)
LEMMA ServerLoads ==
  ASSUME ServerInv, NEW t \in Threads, RouteLoad(t) PROVE ServerInv'
<1> USE ThreadsOfServer DEF lists, functions, silos
<1> DEFINE a == affinity_[Item(t).h]
           at == IF a = kNoAffinity THEN "store" ELSE "push"
<1>1. /\ todo[t] # <<>> /\ route[t].at = "load"
      /\ UNCHANGED <<affinity_, inbound, in, table, handles_, threads_, abandoned>>
  BY DEF RouteLoad, At
<1>2. threads_ = 1
  BY <1>1 DEF ServerInv, ServerTypeOK, WhoRoutes
<1>3. Item(t) \in ServerItems /\ a \in {kNoAffinity, S}
  BY <1>1, ServerItemFacts DEF Item, ServerInv, ServerTypeOK
<1>4. SelectSilo \subseteq {S}
  BY <1>2 DEF SelectSilo, WeightedSelect, Silos, S
<1>5. ~(a # kNoAffinity /\ a >= threads_)
  BY <1>2, <1>3 DEF S
<1>6. todo' = todo /\ route' = [route EXCEPT ![t] = [at |-> at, silo |-> S]]
  <2>1. PICK s \in IF a = kNoAffinity THEN SelectSilo ELSE {a} :
            route' = [route EXCEPT ![t] = [at |-> at, silo |-> s]]
    BY <1>5 DEF RouteLoad
  <2>2. s = S
    BY <1>3, <1>4, <2>1
  <2> QED BY <1>5, <2>1, <2>2 DEF RouteLoad
<1>7. /\ at \in {"store", "push"}
      /\ at = "push" => a = S
  BY <1>3
<1> HIDE DEF at
<1>8. /\ route' \in [Threads -> [at : {"load", "store", "push", "add"}, silo : {S}]]
      /\ route'[t].at = at /\ \A u \in Threads : u # t => route'[u] = route[u]
  <2> DEFINE R == [at : {"load", "store", "push", "add"}, silo : {S}]
             n == [at |-> at, silo |-> S]
  <2>1. n \in R /\ n.at = at /\ route \in [Threads -> R]
    BY <1>7 DEF ServerInv, ServerTypeOK
  <2> HIDE DEF R, n
  <2>2. route' = [route EXCEPT ![t] = n]
    BY <1>6 DEF n
  <2>3. route' \in [Threads -> R] /\ route'[t].at = at
        /\ \A u \in Threads : u # t => route'[u] = route[u]
    BY <2>1, <2>2
  <2> QED BY <2>3 DEF R
<1>9. ServerTypeOK'
  BY <1>1, <1>6, <1>8 DEF ServerInv, ServerTypeOK
<1>10. WhoRoutes'
  BY <1>1, <1>6, <1>8, StepKeepsWho
<1>11. Homed'
  BY <1>1, <1>6, <1>7, <1>8 DEF ServerInv, Homed, Item
<1>12. SocketFirst' /\ SocketHasHandle' /\ NoneAbandoned'
  BY <1>1, <1>6 DEF ServerInv, SocketFirst, SocketHasHandle, NoneAbandoned
<1> QED BY <1>9, <1>10, <1>11, <1>12 DEF ServerInv

LEMMA ServerStores ==
  ASSUME ServerInv, NEW t \in Threads, RouteStore(t) PROVE ServerInv'
<1> USE ThreadsOfServer DEF lists, functions, silos, fds
<1> DEFINE h == Item(t).h
<1>1. /\ todo[t] # <<>> /\ affinity_' = [affinity_ EXCEPT ![h] = route[t].silo]
      /\ route' = [route EXCEPT ![t].at = "push"]
      /\ UNCHANGED <<todo, inbound, in, table, handles_, threads_, abandoned>>
  BY DEF RouteStore, At
<1>2. Item(t) \in ServerItems /\ h \in Handlers /\ route[t].silo = S
  BY <1>1, ServerItemFacts DEF Item, ServerInv, ServerTypeOK
<1>3. /\ affinity_' \in [Handlers -> {kNoAffinity, S}] /\ affinity_'[h] = S
      /\ \A g \in Handlers : affinity_[g] = S => affinity_'[g] = S
  BY <1>1, <1>2 DEF ServerInv, ServerTypeOK
<1>4. /\ route' \in [Threads -> [at : {"load", "store", "push", "add"}, silo : {S}]]
      /\ \A u \in Threads : u # t => route'[u] = route[u]
  BY <1>1 DEF ServerInv, ServerTypeOK
<1>5. ServerTypeOK'
  BY <1>1, <1>3, <1>4 DEF ServerInv, ServerTypeOK
<1>6. WhoRoutes'
  BY <1>1, <1>4, StepKeepsWho
<1>7. Homed'
  <2>1. /\ \A u \in Threads : todo[u] # <<>> => Item(u) \in ServerItems
        /\ \A k \in 1..Len(inbound[S]) : inbound[S][k] \in ServerItems
        /\ \A k \in 1..Len(in[S]) : in[S][k] \in ServerItems
    BY DEF Item, ServerInv, ServerTypeOK
  <2>2. \A u \in Threads : Item(u)' = Item(u)
    BY <1>1 DEF Item
  <2> HIDE DEF h
  <2>3. \A u \in Threads : todo'[u] # <<>> /\ route'[u].at = "push"
                              => affinity_'[Item(u)'.h] = S
    BY <1>1, <1>3, <1>4, <2>1, <2>2, ServerItemFacts DEF ServerInv, Homed, h
  <2>4. /\ \A k \in 1..Len(inbound[S]) : affinity_'[inbound[S][k].h] = S
        /\ \A k \in 1..Len(in[S]) : affinity_'[in[S][k].h] = S
    BY <1>3, <2>1, ServerItemFacts DEF ServerInv, Homed
  <2> QED BY <1>1, <2>3, <2>4 DEF Homed
<1>8. SocketFirst' /\ SocketHasHandle' /\ NoneAbandoned'
  BY <1>1 DEF ServerInv, SocketFirst, SocketHasHandle, NoneAbandoned
<1> QED BY <1>5, <1>6, <1>7, <1>8 DEF ServerInv

(* The first item a thread has to route joins the silo's inbound list.     *)
LEMMA ServerPushes ==
  ASSUME ServerInv, NEW t \in Threads, RouteTo(t) PROVE ServerInv'
<1> USE ThreadsOfServer DEF functions, silos, fds
<1> DEFINE it == Item(t)
           q == todo[t]
<1>1. /\ todo[t] # <<>> /\ route[t].at = "push"
      /\ inbound' = [inbound EXCEPT ![route[t].silo] = Append(@, it)]
      /\ todo' = [todo EXCEPT ![t] = Tail(@)]
      /\ route' = [route EXCEPT ![t].at = "load"]
      /\ UNCHANGED <<affinity_, in, table, handles_, threads_, abandoned>>
  BY DEF RouteTo, At
<1>2. /\ it \in ServerItems /\ route[t].silo = S /\ affinity_[it.h] = S
      /\ todo[t] \in Seq(ServerItems) /\ inbound[S] \in Seq(ServerItems)
      /\ it = todo[t][1]
  BY <1>1 DEF Item, ServerInv, ServerTypeOK, Homed
<1> HIDE DEF it
<1>3. /\ inbound' \in [AllSilos -> Seq(ServerItems)]
      /\ inbound'[S] = Append(inbound[S], it)
  BY <1>1, <1>2 DEF ServerInv, ServerTypeOK
<1>4. /\ todo' \in [Threads -> Seq(ServerItems)] /\ todo'[t] = Tail(todo[t])
      /\ \A u \in Threads : u # t => todo'[u] = todo[u]
  BY <1>1, <1>2 DEF ServerInv, ServerTypeOK
<1>5. /\ route' \in [Threads -> [at : {"load", "store", "push", "add"}, silo : {S}]]
      /\ route'[t].at = "load" /\ \A u \in Threads : u # t => route'[u] = route[u]
  BY <1>1 DEF ServerInv, ServerTypeOK
<1>6. ServerTypeOK'
  BY <1>1, <1>3, <1>4, <1>5 DEF ServerInv, ServerTypeOK
<1>7. WhoRoutes'
  <2>1. \A k \in 1..Len(todo'[t]) :
           k + 1 \in 1..Len(todo[t]) /\ todo'[t][k] = todo[t][k + 1]
    BY <1>1, <1>2, <1>4, TailPositions
  <2>2. ASSUME NEW u \in Threads, u # S, NEW k \in 1..Len(todo'[u])
        PROVE  todo'[u][k] = FdItem({Listen})
    <3>1. \A j \in 1..Len(todo[u]) : todo[u][j] = FdItem({Listen})
      BY <2>2 DEF ServerInv, WhoRoutes
    <3>2. CASE u = t
      BY <2>1, <2>2, <3>1, <3>2
    <3>3. CASE u # t
      BY <1>4, <2>2, <3>1, <3>3
    <3> QED BY <3>2, <3>3
  <2>3. threads_' # 0
    BY <1>1 DEF ServerInv, WhoRoutes
  <2>4. \A u \in Threads : todo'[u] = <<>> => route'[u].at \in {"load", "add"}
    BY <1>4, <1>5 DEF ServerInv, WhoRoutes
  <2>5. todo'[S] # <<>> => in'[S] = <<>>
    BY <1>1, <1>4 DEF ServerInv, WhoRoutes
  <2> QED BY <2>2, <2>3, <2>4, <2>5 DEF WhoRoutes
<1>8. Homed'
  <2>1. \A k \in 1..Len(inbound'[S]) : affinity_[inbound'[S][k].h] = S
    BY <1>2, <1>3, AppendPositions DEF ServerInv, Homed
  <2>2. \A u \in Threads : todo'[u] # <<>> /\ route'[u].at = "push"
                              => affinity_'[Item(u)'.h] = S
    BY <1>1, <1>4, <1>5 DEF ServerInv, Homed, Item
  <2> QED BY <1>1, <2>1, <2>2 DEF ServerInv, Homed
<1>9. SocketFirst'
  <2>0. /\ Within(it, inbound'[S]) /\ 1 \in 1..Len(todo[t])
        /\ \A x : Within(x, inbound[S]) => Within(x, inbound'[S])
    BY <1>1, <1>2, <1>3, AppendPositions
  <2>1. ASSUME NEW c \in Conns, NEW j \in 1..Len(todo'[S]), todo'[S][j] = Priming(c)
        PROVE  \/ Before(Socket(c), todo'[S], j)
               \/ Within(Socket(c), inbound'[S])
    <3>1. CASE t # S
      BY <1>4, <2>0, <2>1, <3>1 DEF ServerInv, SocketFirst
    <3>2. CASE t = S
      <4>1. /\ j + 1 \in 1..Len(todo[S]) /\ todo[S][j + 1] = Priming(c)
            /\ Before(Socket(c), todo[S], j + 1) =>
                  Socket(c) = Head(todo[S]) \/ Before(Socket(c), todo'[S], j)
        BY <1>1, <1>2, <1>4, <2>1, <3>2, TailPositions
      <4>2. \/ Before(Socket(c), todo[S], j + 1) \/ Within(Socket(c), inbound[S])
        BY <4>1 DEF ServerInv, SocketFirst
      <4>3. Head(todo[S]) = it
        BY <3>2 DEF it, Item
      <4> QED BY <2>0, <4>1, <4>2, <4>3
    <3> QED BY <3>1, <3>2
  <2>2. ASSUME NEW c \in Conns, NEW j \in 1..Len(inbound'[S]),
               inbound'[S][j] = Priming(c)
        PROVE  Before(Socket(c), inbound'[S], j)
    <3>1. CASE j \in 1..Len(inbound[S])
      BY <1>2, <1>3, <2>2, <3>1, AppendPositions DEF ServerInv, SocketFirst
    <3>2. CASE j \notin 1..Len(inbound[S])
      <4>1. it = Priming(c) /\ (Within(Socket(c), inbound[S]) =>
                                   Before(Socket(c), inbound'[S], j))
        BY <1>2, <1>3, <2>2, <3>2, AppendPositions
      <4>2. t = S
        <5>1. t # S => it = FdItem({Listen})
          BY <1>2, <2>0 DEF ServerInv, WhoRoutes
        <5> QED BY <4>1, <5>1, PrimingFacts
      <4>3. 1 \in 1..Len(todo[S]) /\ todo[S][1] = Priming(c)
        BY <1>2, <2>0, <4>1, <4>2
      <4>4. ~Before(Socket(c), todo[S], 1)
        BY DEF Before
      <4>5. Within(Socket(c), inbound[S])
        BY <4>3, <4>4 DEF ServerInv, SocketFirst
      <4> QED BY <4>1, <4>5
    <3> QED BY <3>1, <3>2
  <2>3. \A c \in Conns : \A j \in 1..Len(in'[S]) : in'[S][j] = Priming(c) =>
           Before(Socket(c), in'[S], j) \/ SockFd(c) \in table'[S]
    BY <1>1 DEF ServerInv, SocketFirst
  <2> QED BY <2>1, <2>2, <2>3 DEF SocketFirst
<1>10. SocketHasHandle' /\ NoneAbandoned'
  BY <1>1 DEF ServerInv, SocketHasHandle, NoneAbandoned
<1> QED BY <1>6, <1>7, <1>8, <1>9, <1>10 DEF ServerInv

(* Between two batches the silo takes all that is inbound, a socket        *)
(* together with its stream.                                               *)
LEMMA ServerTakes ==
  ASSUME ServerInv, GetInList(S) PROVE ServerInv'
<1> USE ThreadsOfServer DEF functions, silos, fds, calls
<1>1. /\ todo[S] = <<>> /\ threads_ # 0
      /\ in' = [in EXCEPT ![S] = inbound[S]]
      /\ inbound' = [inbound EXCEPT ![S] = <<>>]
      /\ UNCHANGED <<affinity_, todo, route, table, handles_, threads_, abandoned>>
  BY DEF GetInList, Idle, Live, Silos, S
<1>2. /\ in' \in [AllSilos -> Seq(ServerItems)]
      /\ inbound' \in [AllSilos -> Seq(ServerItems)]
      /\ in'[S] = inbound[S] /\ inbound'[S] = <<>>
  BY <1>1 DEF ServerInv, ServerTypeOK
<1>3. ServerTypeOK'
  BY <1>1, <1>2 DEF ServerInv, ServerTypeOK
<1>4. WhoRoutes'
  BY <1>1, <1>2 DEF ServerInv, WhoRoutes
<1>5. Homed'
  <2>1. \A u \in Threads : todo'[u] # <<>> /\ route'[u].at = "push"
                              => affinity_'[Item(u)'.h] = S
    BY <1>1 DEF ServerInv, Homed, Item
  <2>2. \A k \in 1..Len(in'[S]) : affinity_'[in'[S][k].h] = S
    BY <1>1, <1>2 DEF ServerInv, Homed
  <2> QED BY <1>2, <2>1, <2>2 DEF Homed
<1>6. SocketFirst'
  <2>1. \A c \in Conns : \A j \in 1..Len(in'[S]) : in'[S][j] = Priming(c) =>
           Before(Socket(c), in'[S], j)
    BY <1>2 DEF ServerInv, SocketFirst
  <2> QED BY <1>1, <1>2, <2>1 DEF SocketFirst
<1>7. SocketHasHandle' /\ NoneAbandoned'
  BY <1>1 DEF ServerInv, SocketHasHandle, NoneAbandoned
<1> QED BY <1>3, <1>4, <1>5, <1>6, <1>7 DEF ServerInv

(* What the silo admits next.                                              *)
LEMMA ServerFirst ==
  ASSUME ServerInv, in[S] # <<>>
  PROVE  /\ Head(in[S]) \in ServerItems /\ affinity_[Head(in[S]).h] = S
         /\ \A c \in Conns : Head(in[S]) = Priming(c) => SockFd(c) \in table[S]
<1>1. in[S] \in Seq(ServerItems)
  BY ThreadsOfServer DEF ServerInv, ServerTypeOK
<1>2. Head(in[S]) = in[S][1] /\ 1 \in 1..Len(in[S]) /\ Head(in[S]) \in ServerItems
  BY <1>1
<1>3. \A x : ~Before(x, in[S], 1)
  BY DEF Before
<1> QED BY <1>2, <1>3 DEF ServerInv, Homed, SocketFirst

(* One item of the batch is done with; if it was a socket, the socket is   *)
(* now in the epoll set.                                                   *)
LEMMA ServerFirstGone ==
  ASSUME ServerInv, in[S] # <<>>, todo[S] = <<>>, threads_ # 0,
         in' = [in EXCEPT ![S] = Tail(@)], table' \in [AllSilos -> SUBSET Fds],
         table[S] \subseteq table'[S], Head(in[S]).fds \subseteq table'[S],
         route' = [route EXCEPT ![S].at = "load"],
         UNCHANGED <<affinity_, todo, inbound, threads_>>,
         handles_' \in [Handlers -> SUBSET Fds]
  PROVE  ServerTypeOK' /\ WhoRoutes' /\ Homed' /\ SocketFirst'
<1> USE ThreadsOfServer
<1>1. in[S] \in Seq(ServerItems) /\ in'[S] = Tail(in[S])
      /\ in' \in [AllSilos -> Seq(ServerItems)]
  BY DEF ServerInv, ServerTypeOK
<1>2. \A j \in 1..Len(in'[S]) :
         /\ j + 1 \in 1..Len(in[S]) /\ in'[S][j] = in[S][j + 1]
         /\ \A x : Before(x, in[S], j + 1) => x = Head(in[S]) \/ Before(x, in'[S], j)
  BY <1>1, TailPositions
<1>3. /\ route' \in [Threads -> [at : {"load", "store", "push", "add"}, silo : {S}]]
      /\ route'[S].at = "load" /\ \A u \in Threads : u # S => route'[u] = route[u]
  BY DEF ServerInv, ServerTypeOK
<1>4. ServerTypeOK'
  BY <1>1, <1>3 DEF ServerInv, ServerTypeOK
<1>5. WhoRoutes'
  <2>1. \A u \in Threads : todo'[u] = <<>> => route'[u].at \in {"load", "add"}
    BY <1>3 DEF ServerInv, WhoRoutes
  <2>2. \A u \in Threads : u # S =>
           \A k \in 1..Len(todo'[u]) : todo'[u][k] = FdItem({Listen})
    BY DEF ServerInv, WhoRoutes
  <2>3. threads_' # 0 /\ todo'[S] = <<>>
    OBVIOUS
  <2> QED BY <2>1, <2>2, <2>3 DEF WhoRoutes
<1>6. Homed'
  <2>1. \A u \in Threads : todo'[u] # <<>> /\ route'[u].at = "push"
                              => affinity_'[Item(u)'.h] = S
    BY <1>3 DEF ServerInv, Homed, Item
  <2>2. \A k \in 1..Len(in'[S]) : affinity_'[in'[S][k].h] = S
    BY <1>2 DEF ServerInv, Homed
  <2>3. \A k \in 1..Len(inbound'[S]) : affinity_'[inbound'[S][k].h] = S
    BY DEF ServerInv, Homed
  <2> QED BY <2>1, <2>2, <2>3 DEF Homed
<1>7. SocketFirst'
  <2>1. ASSUME NEW c \in Conns, NEW j \in 1..Len(in'[S]), in'[S][j] = Priming(c)
        PROVE  Before(Socket(c), in'[S], j) \/ SockFd(c) \in table'[S]
    <3>1. Before(Socket(c), in[S], j + 1) \/ SockFd(c) \in table[S]
      BY <1>2, <2>1 DEF ServerInv, SocketFirst
    <3>2. Socket(c) = Head(in[S]) => SockFd(c) \in table'[S]
      BY PrimingFacts
    <3> QED BY <1>2, <2>1, <3>1, <3>2
  <2>2. \A c \in Conns : \A j \in 1..Len(inbound'[S]) :
          inbound'[S][j] = Priming(c) => Before(Socket(c), inbound'[S], j)
    BY DEF ServerInv, SocketFirst
  <2>3. 1..Len(todo'[S]) = {}
    OBVIOUS
  <2> QED BY <2>1, <2>2, <2>3 DEF SocketFirst
<1> QED BY <1>4, <1>5, <1>6, <1>7

(* An error of Add ends the silo: what it held and admitted is gone.       *)
LEMMA ServerStops ==
  ASSUME ServerInv, todo[S] = <<>>, threads_ # 0,
         in' = [in EXCEPT ![S] = <<>>], table' = [table EXCEPT ![S] = {}],
         route' = [route EXCEPT ![S].at = "load"],
         handles_' \in [Handlers -> SUBSET Fds],
         UNCHANGED <<affinity_, todo, inbound, threads_, abandoned>>
  PROVE  ServerInv'
<1> USE ThreadsOfServer
<1>1. /\ in' \in [AllSilos -> Seq(ServerItems)] /\ in'[S] = <<>>
      /\ table' \in [AllSilos -> SUBSET Fds] /\ table'[S] = {}
  BY DEF ServerInv, ServerTypeOK
<1>2. /\ route' \in [Threads -> [at : {"load", "store", "push", "add"}, silo : {S}]]
      /\ route'[S].at = "load" /\ \A u \in Threads : u # S => route'[u] = route[u]
  BY DEF ServerInv, ServerTypeOK
<1>3. ServerTypeOK'
  BY <1>1, <1>2 DEF ServerInv, ServerTypeOK
<1>4. WhoRoutes'
  <2>1. \A u \in Threads : todo'[u] = <<>> => route'[u].at \in {"load", "add"}
    BY <1>2 DEF ServerInv, WhoRoutes
  <2>2. \A u \in Threads : u # S =>
           \A k \in 1..Len(todo'[u]) : todo'[u][k] = FdItem({Listen})
    BY DEF ServerInv, WhoRoutes
  <2>3. threads_' # 0 /\ todo'[S] = <<>>
    OBVIOUS
  <2> QED BY <2>1, <2>2, <2>3 DEF WhoRoutes
<1>5. Homed'
  <2>1. \A u \in Threads : todo'[u] # <<>> /\ route'[u].at = "push"
                              => affinity_'[Item(u)'.h] = S
    BY <1>2 DEF ServerInv, Homed, Item
  <2>2. \A k \in 1..Len(in'[S]) : affinity_'[in'[S][k].h] = S
    BY <1>1
  <2>3. \A k \in 1..Len(inbound'[S]) : affinity_'[inbound'[S][k].h] = S
    BY DEF ServerInv, Homed
  <2> QED BY <2>1, <2>2, <2>3 DEF Homed
<1>6. SocketFirst' /\ SocketHasHandle' /\ NoneAbandoned'
  BY <1>1 DEF ServerInv, SocketFirst, SocketHasHandle, NoneAbandoned
<1> QED BY <1>3, <1>4, <1>5, <1>6 DEF ServerInv

(* What PrimeFindsSocket says of one step.                                 *)
PrimeStepOK ==
    \A c \in Conns : /\ PrimeFn(c) \in ran' \ ran => SockFd(c) \in table[S]
                     /\ PrimeFn(c) \notin abandoned'

LEMMA ServerAdmits ==
  ASSUME ServerInv, Admission(S) PROVE ServerInv' /\ PrimeStepOK
<1> USE ThreadsOfServer DEF functions, silos, fds, calls, lists
<1> DEFINE i == Head(in[S])
<1>1. in[S] # <<>> /\ todo[S] = <<>> /\ threads_ # 0
  BY DEF Admission, AdmitElsewhere, AdmitCheck, AdmitFds, AdmitFails, AdmitFn,
         Admitting, Live, Silos, S
<1>2. /\ i \in ServerItems /\ affinity_[i.h] = S
      /\ \A c \in Conns : i = Priming(c) => SockFd(c) \in table[S]
  BY <1>1, ServerFirst
<1>3. /\ i.h \in Handlers /\ i.fds \in SUBSET Fds
      /\ i.fds = {} => \E c \in Conns : i = Priming(c)
  BY <1>2, ServerItemFacts
<1> HIDE DEF i
<1>4. CASE AdmitElsewhere(S)
  BY <1>2, <1>4 DEF AdmitElsewhere, i
<1>5. CASE AdmitCheck(S)
  <2>1. /\ route' = [route EXCEPT ![S].at = "add"]
        /\ UNCHANGED <<affinity_, todo, inbound, in, table, handles_, threads_,
                       ran, abandoned>>
    BY <1>5 DEF AdmitCheck
  <2>2. /\ route' \in [Threads -> [at : {"load", "store", "push", "add"}, silo : {S}]]
        /\ route'[S].at = "add" /\ \A u \in Threads : u # S => route'[u] = route[u]
    BY <2>1 DEF ServerInv, ServerTypeOK
  <2>3. ServerTypeOK'
    BY <2>1, <2>2 DEF ServerInv, ServerTypeOK
  <2>4. WhoRoutes'
    <3>1. \A u \in Threads : todo'[u] = <<>> => route'[u].at \in {"load", "add"}
      BY <2>1, <2>2 DEF ServerInv, WhoRoutes
    <3>2. \A u \in Threads : u # S =>
             \A k \in 1..Len(todo'[u]) : todo'[u][k] = FdItem({Listen})
      BY <2>1 DEF ServerInv, WhoRoutes
    <3>3. threads_' # 0 /\ todo'[S] = <<>>
      BY <1>1, <2>1
    <3> QED BY <3>1, <3>2, <3>3 DEF WhoRoutes
  <2>5. Homed'
    <3>1. \A u \in Threads : todo'[u] # <<>> /\ route'[u].at = "push"
                                => affinity_'[Item(u)'.h] = S
      BY <1>1, <2>1, <2>2 DEF ServerInv, Homed, Item
    <3> QED BY <2>1, <3>1 DEF ServerInv, Homed
  <2>6. SocketFirst' /\ SocketHasHandle' /\ NoneAbandoned'
    BY <2>1 DEF ServerInv, SocketFirst, SocketHasHandle, NoneAbandoned
  <2>7. PrimeStepOK
    BY <2>1 DEF ServerInv, PrimeStepOK, NoneAbandoned
  <2> QED BY <2>3, <2>4, <2>5, <2>6, <2>7 DEF ServerInv
<1>6. CASE AdmitFds(S)
  <2>1. /\ route' = [route EXCEPT ![S].at = "load"]
        /\ table' = [table EXCEPT ![S] = @ \cup i.fds]
        /\ handles_' = [handles_ EXCEPT ![i.h] = @ \cup i.fds]
        /\ in' = [in EXCEPT ![S] = Tail(@)] /\ i.fds # {}
        /\ UNCHANGED <<affinity_, todo, inbound, threads_, ran, abandoned>>
    BY <1>2, <1>6 DEF AdmitFds, i
  <2>2. /\ table' \in [AllSilos -> SUBSET Fds] /\ table'[S] = table[S] \cup i.fds
    BY <1>3, <2>1 DEF ServerInv, ServerTypeOK
  <2>3. /\ handles_' \in [Handlers -> SUBSET Fds]
        /\ handles_'[i.h] = handles_[i.h] \cup i.fds
        /\ \A h \in Handlers : h # i.h => handles_'[h] = handles_[h]
    BY <1>3, <2>1 DEF ServerInv, ServerTypeOK
  <2>4. ServerTypeOK' /\ WhoRoutes' /\ Homed' /\ SocketFirst'
    <3>1. table[S] \subseteq table'[S] /\ Head(in[S]).fds \subseteq table'[S]
      BY <2>2 DEF i
    <3> QED BY <1>1, <2>1, <2>2, <2>3, <3>1, ServerFirstGone
  <2>5. SocketHasHandle'
    <3> SUFFICES ASSUME NEW c \in Conns, SockFd(c) \in table'[S]
                 PROVE  handles_'[OwnerOf[SockFd(c)]] # {}
      BY DEF SocketHasHandle
    <3>1. OwnerOf[SockFd(c)] \in Handlers
      BY ServerAssumption DEF Handlers
    <3>2. CASE OwnerOf[SockFd(c)] = i.h
      BY <2>1, <2>3, <3>2
    <3>3. CASE OwnerOf[SockFd(c)] # i.h
      <4>1. SockFd(c) \notin i.fds
        BY <1>2, <3>3, OwnItems
      <4> QED BY <2>2, <2>3, <3>1, <3>3, <4>1 DEF ServerInv, SocketHasHandle
    <3> QED BY <3>2, <3>3
  <2>6. NoneAbandoned' /\ PrimeStepOK
    BY <2>1 DEF ServerInv, PrimeStepOK, NoneAbandoned
  <2> QED BY <2>4, <2>5, <2>6 DEF ServerInv
<1>7. CASE AdmitFn(S)
  <2>1. /\ route' = [route EXCEPT ![S].at = "load"]
        /\ in' = [in EXCEPT ![S] = Tail(@)] /\ i.fds = {}
        /\ UNCHANGED <<affinity_, todo, inbound, table, handles_, threads_>>
    BY <1>7 DEF AdmitFn, i
  <2>2. PICK c \in Conns : i = Priming(c)
    BY <1>3, <2>1
  <2>3. /\ SockFd(c) \in table[S] /\ i.h = OwnerOf[SockFd(c)] /\ i.fn = {PrimeFn(c)}
    BY <1>2, <2>2, PrimingFacts
  <2>4. handles_[i.h] # {}
    BY <2>3 DEF ServerInv, SocketHasHandle
  <2>5. ran' = ran \cup {PrimeFn(c)} /\ abandoned' = abandoned
    BY <1>7, <2>3, <2>4 DEF AdmitFn, i
  <2>6. ServerTypeOK' /\ WhoRoutes' /\ Homed' /\ SocketFirst'
    <3>1. /\ table' \in [AllSilos -> SUBSET Fds]
          /\ handles_' \in [Handlers -> SUBSET Fds]
      BY <2>1 DEF ServerInv, ServerTypeOK
    <3>2. table[S] \subseteq table'[S] /\ Head(in[S]).fds \subseteq table'[S]
      BY <2>1 DEF i
    <3> QED BY <1>1, <2>1, <3>1, <3>2, ServerFirstGone
  <2>7. SocketHasHandle' /\ NoneAbandoned'
    BY <2>1, <2>5 DEF ServerInv, SocketHasHandle, NoneAbandoned
  <2>8. PrimeStepOK
    BY <2>3, <2>5, ServerNames DEF ServerInv, PrimeStepOK, NoneAbandoned
  <2> QED BY <2>6, <2>7, <2>8 DEF ServerInv
<1>8. CASE AdmitFails(S)
  <2>1. PICK new \in SUBSET i.fds : handles_' = [handles_ EXCEPT ![i.h] = @ \cup new]
    BY <1>8 DEF AdmitFails, i
  <2>2. /\ route' = [route EXCEPT ![S].at = "load"]
        /\ table' = [table EXCEPT ![S] = {}] /\ in' = [in EXCEPT ![S] = <<>>]
        /\ UNCHANGED <<affinity_, todo, inbound, threads_, ran, abandoned>>
    BY <1>8 DEF AdmitFails, SiloEnds
  <2>3. handles_' \in [Handlers -> SUBSET Fds]
    BY <1>3, <2>1 DEF ServerInv, ServerTypeOK
  <2>4. ServerInv'
    BY <1>1, <2>2, <2>3, ServerStops
  <2>5. PrimeStepOK
    BY <2>2 DEF ServerInv, PrimeStepOK, NoneAbandoned
  <2> QED BY <2>4, <2>5
<1> QED BY <1>4, <1>5, <1>6, <1>7, <1>8 DEF Admission

LEMMA ServerInvStep ==
  ASSUME ServerInv, [ServerNext]_Vars PROVE ServerInv' /\ PrimeStepOK
<1>0. ASSUME ServerInv', UNCHANGED ran PROVE PrimeStepOK
  BY <1>0 DEF ServerInv, NoneAbandoned, PrimeStepOK
<1> USE DEF functions, silos, fds, calls, lists
<1>1. CASE UNCHANGED Vars
  BY <1>0, <1>1, ServerQuiet DEF Vars, epollerVars
<1>2. CASE Create
  BY <1>0, <1>2, ServerCreates DEF Create
<1>3. ASSUME NEW c \in Conns, PeerConnects(c) \/ PeerSends(c) \/ PeerHangsUp(c)
      PROVE  ServerInv' /\ PrimeStepOK
  <2>1. UNCHANGED epollerVars
    BY <1>3 DEF PeerConnects, PeerSends, PeerHangsUp
  <2> QED BY <1>0, <2>1, ServerQuiet DEF epollerVars
<1>4. ASSUME NEW f, CloseFd(S, f) PROVE ServerInv' /\ PrimeStepOK
  BY <1>0, <1>4, ServerCloses DEF CloseFd
<1>5. ASSUME NEW c \in Conns, Accept(c) \/ HandleEject(c)
      PROVE  ServerInv' /\ PrimeStepOK
  <2>1. UNCHANGED ran
    BY <1>5 DEF Accept, HandleEject, Routes, Admission
  <2> QED BY <1>0, <1>5, <2>1, ServerEjects
<1>6. ASSUME NEW c \in Conns, Sniff(c) \/ SniffIdle(c) \/ SocketCloses(c)
      PROVE  ServerInv' /\ PrimeStepOK
  <2>1. UNCHANGED epollerVars \/ \E f : CloseFd(S, f)
    BY <1>6 DEF Sniff, SniffIdle, SocketCloses, Closes
  <2> QED BY <1>0, <1>4, <2>1, ServerQuiet DEF epollerVars
<1>7. CASE AcceptFails
  BY <1>4, <1>7 DEF AcceptFails, Closes
<1>8. ASSUME NEW t \in {Main, S}, Route(t) PROVE ServerInv' /\ PrimeStepOK
  <2>1. t \in Threads
    BY ThreadsOfServer
  <2>2. UNCHANGED ran
    BY <1>8 DEF Route, RouteLoad, RouteStore, RouteTo
  <2> QED BY <1>0, <1>8, <2>1, <2>2, ServerLoads, ServerStores, ServerPushes
          DEF Route
<1>9. CASE GetInList(S)
  BY <1>0, <1>9, ServerTakes DEF GetInList
<1>10. CASE Admission(S)
  BY <1>10, ServerAdmits
<1> QED BY <1>1, <1>2, <1>3, <1>5, <1>6, <1>7, <1>8, <1>9, <1>10
        DEF ServerNext, ConnUpcall

(* PrimeAlwaysFindsSocket: whatever peers do, and however many connections *)
(* are handed over at once, the stream of a connection is primed while its *)
(* socket is in the epoll set, and the call is never given up              *)
(* (http_server.cc, FireUpHttp and FireUpHttps: registration first, Prime  *)
(* second, and both reach the silo in one batch).                          *)
THEOREM PrimeAlwaysFindsSocket == ServerSpec => PrimeFindsSocket
<1>1. EpollerInit => ServerInv
  BY ServerInvInit
<1>2. ServerInv /\ [ServerNext]_Vars => ServerInv'
  BY ServerInvStep
<1>3. ServerInv /\ [ServerNext]_Vars => [PrimeStepOK]_Vars
  BY ServerInvStep
<1> QED BY <1>1, <1>2, <1>3, PTL DEF ServerSpec, PrimeFindsSocket, PrimeStepOK
=============================================================================
