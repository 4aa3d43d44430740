------------------------------ MODULE Epoller -------------------------------
(***************************************************************************)
(* io/epoller.cc over several silos: how a registration finds its silo.    *)
(* Every handler carries an affinity, an atomic that Route reads and, for  *)
(* a new handler, sets in a second step.  Client threads and the silos     *)
(* themselves (for what they shed) call Route, so its steps interleave.    *)
(* Of the silo this module keeps admission, closing and shedding; its      *)
(* event loop is module Silo.                                              *)
(***************************************************************************)
EXTENDS Naturals, FiniteSets, SequencesExt

CONSTANTS
    Clients,      \* threads that are not silos
    Fds,
    Fns,          \* functions given to RunWithAffinity
    ClientFds,    \* the descriptors and functions
    ClientFns,    \* that client threads bring
    OwnerOf,      \* the handler of every descriptor and of every function
    kNoAffinity,
    Racing,       \* may two threads register one new handler at the same time?
    MaxSilos,     \* bound: silos that Build makes
    MaxSheds      \* bound: how often descriptors are shed

Handlers == {OwnerOf[x] : x \in Fds \cup Fns}

ASSUME EpollerAssumption ==
    /\ MaxSilos \in Nat \ {0} /\ kNoAffinity \notin 0..(MaxSilos - 1)
    /\ ClientFds \subseteq Fds /\ ClientFns \subseteq Fns
    /\ Clients \cap 0..(MaxSilos - 1) = {}

VARIABLES
    threads_,     \* the number of silos Build made; 0 before
    affinity_,    \* of every handler
    todo,         \* what each thread is still to Route, in order
    route,        \* the step each thread's Route has reached, and its silo
    inbound,      \* PerThread::inbound of every silo
    in,           \* the list a silo swapped out and is admitting
    table,        \* the descriptors in every silo's epoll set
    handles_,     \* the descriptors each handler's handles_ list names
    util,         \* PerThread::utilization
    dead,         \* silos whose thread has ended
    closed,       \* descriptors that were closed
    ran,          \* functions that ran
    abandoned,    \* functions given up for lack of handles
    sheds,
    exiting_

calls == <<todo, route>>
lists == <<inbound, in>>
fds == <<table, handles_, closed>>
functions == <<ran, abandoned>>
silos == <<threads_, util, dead, sheds, exiting_>>

epollerVars == <<affinity_, calls, lists, fds, functions, silos>>

AllSilos == 0..(MaxSilos - 1)
Silos == 0..(threads_ - 1)
Threads == Clients \cup AllSilos
Live(s) == s \in Silos /\ s \notin dead

\* internal::HFDs: descriptors of a handler, or a function to run with it.
FdItem(fs) == [h |-> OwnerOf[CHOOSE f \in fs : TRUE], fds |-> fs, fn |-> {}]
FnItem(fn) == [h |-> OwnerOf[fn], fds |-> {}, fn |-> {fn}]

EpollerInit ==
    /\ threads_ = 0
    /\ affinity_ = [h \in Handlers |-> kNoAffinity]
    /\ todo = [t \in Threads |-> <<>>]
    /\ route = [t \in Threads |-> [at |-> "load", silo |-> 0]]
    /\ inbound = [s \in AllSilos |-> <<>>]
    /\ in = [s \in AllSilos |-> <<>>]
    /\ table = [s \in AllSilos |-> {}]
    /\ handles_ = [h \in Handlers |-> {}]
    /\ util = [s \in AllSilos |-> 0]
    /\ dead = {} /\ closed = {} /\ ran = {} /\ abandoned = {}
    /\ sheds = 0
    /\ exiting_ = FALSE

\* Build refuses fewer than one silo.  It starts the threads one by one; that
\* silo 0 could find itself busy and Peek before the last one exists is left out.
Build(n) ==
    /\ threads_ = 0 /\ n >= 1
    /\ threads_' = n
    /\ UNCHANGED <<affinity_, util, dead, sheds, exiting_,
                   calls, lists, fds, functions>>

-----------------------------------------------------------------------------
(* Choosing a silo *)

Clamp(u) == IF u < 1 THEN 1 ELSE IF u > 99 THEN 99 ELSE u
Peek == [s \in Silos |-> Clamp(util[s])]

\* What WeightedSelect can return: target < total falls into the share of some
\* silo of positive weight.
WeightedSelect(weights) == {s \in DOMAIN weights : weights[s] > 0}

\* The fallback of SelectSilo is RandomUniform over all silos.
SelectSilo ==
    LET picks == WeightedSelect([s \in Silos |-> 100 - Peek[s]])
    IN  IF picks # {} THEN picks ELSE Silos

-----------------------------------------------------------------------------
(* Route, step by step, of the first item thread t has to route *)

Item(t) == Head(todo[t])
At(t, step) == todo[t] # <<>> /\ route[t].at = step

RouteLoadSlip(t) ==
    /\ At(t, "load")
    /\ \E s \in SelectSilo : route' = [route EXCEPT ![t] = [at |-> "store", silo |-> s]]
    /\ UNCHANGED <<affinity_, todo, lists, fds, functions, silos>>

\* GetAffinity.  A known affinity that names no silo drops the item, which
\* closes its descriptors.
RouteLoad(t) ==
    /\ At(t, "load")
    /\ LET a == affinity_[Item(t).h]
       IN  IF a # kNoAffinity /\ a >= threads_
           THEN /\ todo' = [todo EXCEPT ![t] = Tail(@)]
                /\ closed' = closed \cup Item(t).fds
                /\ UNCHANGED route
           ELSE /\ \E s \in IF a = kNoAffinity THEN SelectSilo ELSE {a} :
                      route' = [route EXCEPT ![t] =
                          [at |-> IF a = kNoAffinity THEN "store" ELSE "push",
                           silo |-> s]]
                /\ UNCHANGED <<todo, closed>>
    /\ UNCHANGED <<affinity_, table, handles_, lists, functions, silos>>

\* SetAffinity, whatever another thread has stored since the load.
RouteStore(t) ==
    /\ At(t, "store")
    /\ affinity_' = [affinity_ EXCEPT ![Item(t).h] = route[t].silo]
    /\ route' = [route EXCEPT ![t].at = "push"]
    /\ UNCHANGED <<todo, lists, fds, functions, silos>>

RouteToSlip(t) ==
    /\ At(t, "push")
    /\ inbound' = [inbound EXCEPT ![route[t].silo] = <<Item(t)>>]
    /\ todo' = [todo EXCEPT ![t] = Tail(@)]
    /\ route' = [route EXCEPT ![t].at = "load"]
    /\ UNCHANGED <<affinity_, in, fds, functions, silos>>

RouteTo(t) ==
    /\ At(t, "push")
    /\ inbound' = [inbound EXCEPT ![route[t].silo] = Append(@, Item(t))]
    /\ todo' = [todo EXCEPT ![t] = Tail(@)]
    /\ route' = [route EXCEPT ![t].at = "load"]
    /\ UNCHANGED <<affinity_, in, fds, functions, silos>>

Route(t) == RouteLoad(t) \/ RouteStore(t) \/ RouteTo(t)

-----------------------------------------------------------------------------
(* The calls of client threads *)

\* A handler that no silo has yet must not be given to two threads at once.
MayStart(t, h) ==
    /\ t \in Clients /\ threads_ > 0 /\ ~exiting_ /\ todo[t] = <<>>
    /\ Racing \/ affinity_[h] # kNoAffinity
         \/ \A u \in Threads : \A i \in DOMAIN todo[u] : todo[u][i].h # h

Queued(x) ==
    \/ \E t \in Threads : \E i \in DOMAIN todo[t] :
          x \in todo[t][i].fds \cup todo[t][i].fn
    \/ \E s \in AllSilos : \E i \in DOMAIN inbound[s] :
          x \in inbound[s][i].fds \cup inbound[s][i].fn
    \/ \E s \in AllSilos : \E i \in DOMAIN in[s] :
          x \in in[s][i].fds \cup in[s][i].fn

Unregistered(f) == ~Queued(f) /\ f \notin closed /\ \A s \in AllSilos : f \notin table[s]

Calls(t, items) ==
    /\ todo' = [todo EXCEPT ![t] = items]
    /\ UNCHANGED <<affinity_, route, lists, fds, functions, silos>>

Register(t, f) ==
    /\ MayStart(t, OwnerOf[f]) /\ Unregistered(f)
    /\ Calls(t, <<FdItem({f})>>)

\* If the descriptor cannot be made non-blocking it is closed.
SetNonBlockingAndRegister(t, f) ==
    /\ MayStart(t, OwnerOf[f]) /\ Unregistered(f)
    /\ closed' = closed \cup {f}
    /\ UNCHANGED <<affinity_, table, handles_, calls,
                   lists, functions, silos>>

RunWithAffinity(t, fn) ==
    /\ MayStart(t, OwnerOf[fn])
    /\ fn \notin ran \cup abandoned /\ ~Queued(fn)
    /\ Calls(t, <<FnItem(fn)>>)

-----------------------------------------------------------------------------
(* The silos *)

Idle(s) == Live(s) /\ todo[s] = <<>> /\ in[s] = <<>>

GetInList(s) ==
    /\ Idle(s) /\ inbound[s] # <<>>
    /\ in' = [in EXCEPT ![s] = inbound[s]]
    /\ inbound' = [inbound EXCEPT ![s] = <<>>]
    /\ UNCHANGED <<affinity_, calls, fds, functions, silos>>

Admitting(s) == Live(s) /\ todo[s] = <<>> /\ in[s] # <<>>

\* The check for an affinity race: an item of another silo is routed again.
AdmitElsewhere(s) ==
    /\ Admitting(s) /\ route[s].at = "load" /\ affinity_[Head(in[s]).h] # s
    /\ todo' = [todo EXCEPT ![s] = <<Head(in[s])>>]
    /\ in' = [in EXCEPT ![s] = Tail(@)]
    /\ UNCHANGED <<affinity_, route, inbound, fds, functions, silos>>

AdmitCheck(s) ==
    /\ Admitting(s) /\ route[s].at = "load" /\ affinity_[Head(in[s]).h] = s
    /\ route' = [route EXCEPT ![s].at = "add"]
    /\ UNCHANGED <<affinity_, todo, lists, fds, functions, silos>>

\* An error of RunAdmission ends the silo's thread, and with it all it holds.
\* What is queued for it stays there, and Route goes on sending to it.
SiloEnds(s) ==
    /\ dead' = dead \cup {s}
    /\ closed' = closed \cup table[s] \cup UNION {in[s][k].fds : k \in DOMAIN in[s]}
    /\ table' = [table EXCEPT ![s] = {}]
    /\ in' = [in EXCEPT ![s] = <<>>]

\* Add.  Affinitize reads the affinity again: should it have changed, that is
\* an error.
AdmitFds(s) ==
    /\ Admitting(s) /\ route[s].at = "add" /\ Head(in[s]).fds # {}
    /\ route' = [route EXCEPT ![s].at = "load"]
    /\ LET i == Head(in[s])
       IN  IF affinity_[i.h] = s
           THEN /\ table' = [table EXCEPT ![s] = @ \cup i.fds]
                /\ handles_' = [handles_ EXCEPT ![i.h] = @ \cup i.fds]
                /\ in' = [in EXCEPT ![s] = Tail(@)]
                /\ UNCHANGED <<closed, dead>>
           ELSE SiloEnds(s) /\ UNCHANGED handles_
    /\ UNCHANGED <<affinity_, todo, inbound, threads_, util, sheds, exiting_,
                   functions>>

\* Add's other errors: the handle table is full, or epoll_ctl fails.  Handles
\* that were entered in handles_ by then stay there.
AdmitFails(s) ==
    /\ Admitting(s) /\ route[s].at = "add" /\ Head(in[s]).fds # {}
    /\ affinity_[Head(in[s]).h] = s
    /\ route' = [route EXCEPT ![s].at = "load"]
    /\ SiloEnds(s)
    /\ \E fs \in SUBSET Head(in[s]).fds :
          handles_' = [handles_ EXCEPT ![Head(in[s]).h] = @ \cup fs]
    /\ UNCHANGED <<affinity_, todo, inbound, threads_, util, sheds, exiting_,
                   functions>>

\* RunWithAffinity of the silo gives up if the handler never had a handle here.
AdmitFn(s) ==
    /\ Admitting(s) /\ route[s].at = "add" /\ Head(in[s]).fds = {}
    /\ route' = [route EXCEPT ![s].at = "load"]
    /\ LET i == Head(in[s])
       IN  IF handles_[i.h] = {}
           THEN abandoned' = abandoned \cup i.fn /\ UNCHANGED ran
           ELSE ran' = ran \cup i.fn /\ UNCHANGED abandoned
    /\ in' = [in EXCEPT ![s] = Tail(@)]
    /\ UNCHANGED <<affinity_, todo, inbound, fds, silos>>

\* A descriptor is closed; its handle stays in handles_.
CloseFd(s, f) ==
    /\ Idle(s) /\ f \in table[s]
    /\ table' = [table EXCEPT ![s] = @ \ {f}]
    /\ closed' = closed \cup {f}
    /\ UNCHANGED <<affinity_, handles_, calls, lists, functions, silos>>

\* The estimate a silo publishes: here it is idle or fully loaded.
Publish(s) ==
    /\ Idle(s)
    /\ util' = [util EXCEPT ![s] = 100 - @]
    /\ UNCHANGED <<threads_, affinity_, dead, sheds, exiting_,
                   calls, lists, fds, functions>>

\* ConsiderLoadShedding and RunShedders: all descriptors of a handler go back to
\* Route.  (A handler one of whose descriptors is gone dies here: see Silo.)
Shed(s, f) ==
    /\ Idle(s) /\ f \in table[s] /\ sheds < MaxSheds
    /\ util[s] > 25 /\ \E r \in Silos : Peek[r] + 25 < util[s]
    /\ LET h == OwnerOf[f]
       IN  /\ handles_[h] \subseteq table[s]
           /\ todo' = [todo EXCEPT ![s] = <<FdItem(handles_[h])>>]
           /\ table' = [table EXCEPT ![s] = @ \ handles_[h]]
           /\ handles_' = [handles_ EXCEPT ![h] = {}]
    /\ sheds' = sheds + 1
    /\ UNCHANGED <<threads_, affinity_, route, util, dead,
                   closed, exiting_, lists, functions>>

\* ~Epoller: the silos are told, and each ends at the top of its loop.
NotifyExiting ==
    /\ threads_ > 0 /\ ~exiting_ /\ \A t \in Clients : todo[t] = <<>>
    /\ exiting_' = TRUE
    /\ UNCHANGED <<threads_, affinity_, util, dead, sheds,
                   calls, lists, fds, functions>>

Exit(s) ==
    /\ exiting_ /\ Idle(s)
    /\ dead' = dead \cup {s}
    /\ closed' = closed \cup table[s]
    /\ table' = [table EXCEPT ![s] = {}]
    /\ UNCHANGED <<threads_, affinity_, handles_, util, sheds,
                   exiting_, calls, lists, functions>>

Admission(s) ==
    AdmitElsewhere(s) \/ AdmitCheck(s) \/ AdmitFds(s) \/ AdmitFails(s) \/ AdmitFn(s)

EpollerNext ==
    \/ \E n \in 0..MaxSilos : Build(n)
    \/ \E t \in Clients, f \in ClientFds :
          Register(t, f) \/ SetNonBlockingAndRegister(t, f)
    \/ \E t \in Clients, fn \in ClientFns : RunWithAffinity(t, fn)
    \/ \E t \in Threads : Route(t)
    \/ \E s \in AllSilos : GetInList(s) \/ Admission(s) \/ Publish(s) \/ Exit(s)
    \/ \E s \in AllSilos, f \in Fds : CloseFd(s, f) \/ Shed(s, f)
    \/ NotifyExiting

EpollerSpec == EpollerInit /\ [][EpollerNext]_epollerVars

-----------------------------------------------------------------------------
\* The descriptors of a handler are in one silo, so its upcalls never run in two
\* threads, however registrations, shedding and closing interleave: the reason
\* Route gives for refusing a broken affinity.
HandlerInOneSilo ==
    \A s, r \in AllSilos : \A f \in table[s], g \in table[r] :
        OwnerOf[f] = OwnerOf[g] => s = r

\* The silo of x's handler has ended on an error of Add.
SiloIsGone(x) == affinity_[OwnerOf[x]] \in dead

\* What is handed to Route does not stay under way for ever: a descriptor ends in
\* an epoll set or closed, a function has run or is given up, even though silos
\* shed what they have and publish loads that change.  The exception is a handler
\* whose silo has ended: nobody takes what Route goes on sending there.  (That
\* silos route back what is not theirs needs registrations that race.)
ItemsSettle ==
    /\ \A f \in ClientFds : Queued(f) ~>
          \/ f \in closed \/ \E s \in AllSilos : f \in table[s]
          \/ exiting_ \/ SiloIsGone(f)
    /\ \A fn \in ClientFns : Queued(fn) ~>
          fn \in ran \cup abandoned \/ exiting_ \/ SiloIsGone(fn)
=============================================================================
