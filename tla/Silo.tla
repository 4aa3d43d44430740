-------------------------------- MODULE Silo --------------------------------
(***************************************************************************)
(* io::Silo (io/silo.h, io/silo.cc): one epoll thread that owns a set of   *)
(* file descriptors and calls their IoHandlers.  The module covers the     *)
(* loop of ThreadMain2, the Context calls a handler makes from an upcall,  *)
(* the six intrusive lists with their two hooks, admission from the        *)
(* inbound list, ejection, closing, idling and shedding.                   *)
(*                                                                         *)
(* The kernel side is an edge-triggered epoll set: an edge makes a handle  *)
(* reportable once, with the readiness it has when it is reported.         *)
(* Handlers are arbitrary within the constants that list what an upcall    *)
(* may call and return.                                                    *)
(***************************************************************************)
EXTENDS Naturals, Sequences, SequencesExt, FiniteSets

CONSTANTS Fds, Handlers,
          OwnerOf,     \* OwnerOf[f]: the handler f is registered with
          Unpollable,  \* descriptors EPOLL_CTL_ADD refuses
          TableSize,   \* kMaxFds, the capacity of ht_
          kMaxEvents,  \* the events one EpollPwait2 reports at most
          Acts,        \* Acts[k][d]: the [call, outcome] pairs of handler k
          FnCalls,     \* the calls of a function given to Context::Run
          AffinityCalls, \* the calls of a function given to RunWithAffinity
          IdleCalls,   \* the calls of HandleIdle
          MaxKernel,   \* bound: kernel events
          MaxSheds,    \* bound: loops that shed
          MaxFns,      \* bound: functions queued on a descriptor
          MaxRuns      \* bound: RunWithAffinity calls

Dirs == {"read", "write"}
Outcomes == {"kFdEagain", "kYield", "kSuspend", "kClose"}
CallNames == {"none", "RequestRead", "RequestWrite", "Run", "Eject", "Add"}

ASSUME SiloAssumption ==
  /\ OwnerOf \in [Fds -> Handlers]
  /\ Acts \in [Handlers -> [Dirs -> SUBSET [call : CallNames, outcome : Outcomes]]]
  /\ FnCalls \cup AffinityCalls \cup IdleCalls \subseteq CallNames
  /\ {TableSize, kMaxEvents, MaxKernel, MaxSheds, MaxFns, MaxRuns} \subseteq Nat

VARIABLES perfd,     \* ht_: the live handles and their PerFd
          next,      \* the next handle ht_ hands out
          lists,     \* the six intrusive lists
          handles_,  \* IoHandler::handles_
          current_,  \* the handle whose upcall runs, 0 for kInvalid
          pc,        \* where ThreadMain2 is
          events,    \* what EpollPwait2 returned and is not yet converted
          shedLeft,  \* shed_target - shed_count
          impending_shed_,
          inbound,   \* *inbound_: what Epoller routed here
          batch,     \* RunAdmission's local list
          hfds,      \* what RunShedders has collected, one item or none
          exiting,   \* exiting_ has been notified
          fault,     \* "none", or the check that killed the process
          edge,      \* kernel: handles with an unreported edge
          poked,     \* kernel: the eventfd has an unreported edge
          io,        \* kernel: io[f][d], what can be read or written
          hup,       \* kernel: descriptors whose peer is gone
          fate,      \* ghost: who owns each descriptor
          spent      \* the bounds used up so far

thread == <<current_, pc, events, shedLeft, impending_shed_, batch, hfds>>
kernel == <<poked, io, hup>>
table == <<perfd, next, lists, handles_, edge, fate, fault>>
vars == <<table, thread, kernel, inbound, exiting, spent>>

ActiveIdle == {"active_", "idlers_", "ejects_"}   \* the two hooks of PerFd
Shared == {"runners_", "closers_", "shedders_"}
ListNames == ActiveIdle \cup Shared
HookOf(l) == IF l \in ActiveIdle THEN ActiveIdle ELSE Shared

Live == DOMAIN perfd
In(h, l) == h \in ToSet(lists[l])

(* A function of handles that is defined nowhere.                          *)
NoHandles == [h \in {} |-> h]

Init ==
  /\ perfd = NoHandles /\ next = 1
  /\ lists = [l \in ListNames |-> <<>>]
  /\ handles_ = [k \in Handlers |-> <<>>]
  /\ current_ = 0 /\ pc = "wait" /\ events = NoHandles
  /\ shedLeft = 0 /\ impending_shed_ = FALSE
  /\ inbound = <<>> /\ batch = <<>> /\ hfds = <<>>
  /\ exiting = FALSE /\ fault = "none" /\ edge = {} /\ poked = FALSE
  /\ io = [f \in Fds |-> [d \in Dirs |-> IF d = "write" THEN 1 ELSE 0]]
  /\ hup = {} /\ fate = [f \in Fds |-> "client"]
  /\ spent = [kernel |-> 0, sheds |-> 0, runs |-> 0]
----------------------------------------------------------------------------
(* The operations work on the bundle of variables they share, so that one  *)
(* upcall can make several of them.                                        *)
Now == [perfd |-> perfd, next |-> next, lists |-> lists, handles_ |-> handles_,
        edge |-> edge, fate |-> fate, fault |-> fault]

(* A check that fails kills the process, and nothing of the step is seen.  *)
Become(s) ==
  /\ fault' = s.fault
  /\ IF s.fault = "none"
     THEN /\ perfd' = s.perfd /\ next' = s.next /\ lists' = s.lists
          /\ handles_' = s.handles_ /\ edge' = s.edge /\ fate' = s.fate
     ELSE UNCHANGED <<perfd, next, lists, handles_, edge, fate>>

Fault(s, what) == [s EXCEPT !.fault = what]

(* IntrusiveList: IsLinked looks at the hook, which the lists of one tag   *)
(* share; Erase takes the element out of whichever list it is in.          *)
IsLinked(s, h, hook) == \E l \in hook : h \in ToSet(s.lists[l])

Erase(s, h, hook) ==
  [s EXCEPT !.lists = [l \in ListNames |->
     IF l \in hook THEN RemoveFirst(@[l], h) ELSE @[l]]]

PushBack(s, h, l) ==
  IF IsLinked(s, h, HookOf(l)) THEN Fault(s, "PushBack of a linked hook")
                               ELSE [s EXCEPT !.lists[l] = Append(@, h)]

(* Slip: the pending wants survive.                                        *)
Expunge_KeepsWants(s, h) == Erase(Erase(s, h, ActiveIdle), h, Shared)

Expunge(s, h) ==
  Erase(Erase([s EXCEPT !.perfd[h].wants = {}], h, ActiveIdle), h, Shared)

(* ht_.Free: destroys the PerFd, whose hooks unlink themselves.  The       *)
(* handler's handles_ keeps the dead handle.                               *)
Free(s, h, who) ==
  LET t == Expunge(s, h)
  IN  [t EXCEPT !.perfd = [g \in DOMAIN s.perfd \ {h} |-> s.perfd[g]],
                !.edge = @ \ {h},                     \* EPOLL_CTL_DEL
                !.fate[s.perfd[h].fd] = who]
----------------------------------------------------------------------------
(* Context calls.  Lookup(...).ValueOrDie() kills the process on a handle  *)
(* that is no longer in ht_.                                               *)

(* Slip: RequestRead and RequestWrite leave the squelch on.                *)
Request_KeepsSquelch(s, h, d) ==
  IF h \notin DOMAIN s.perfd THEN Fault(s, "ValueOrDie")
  ELSE PushBack(Erase([s EXCEPT !.perfd[h].wants = @ \cup {d},
                                !.perfd[h].muted = @ \ {d}], h, ActiveIdle),
                h, "active_")

(* RequestRead (d = "read") and RequestWrite (d = "write").                *)
Requested(p, d) == [p EXCEPT !.wants = @ \cup {d}, !.squelch = @ \ {d},
                             !.muted = @ \ {d}]

Request(s, h, d) ==
  IF h \notin DOMAIN s.perfd THEN Fault(s, "ValueOrDie")
  ELSE PushBack(Erase([s EXCEPT !.perfd[h] = Requested(@, d)], h, ActiveIdle),
                h, "active_")

Run(s, h) ==
  IF h \notin DOMAIN s.perfd THEN Fault(s, "ValueOrDie")
  ELSE LET t == [s EXCEPT !.perfd[h].fns = @ + 1]
       IN  IF IsLinked(t, h, Shared) THEN t ELSE PushBack(t, h, "runners_")

Eject(s, h) ==
  IF h \notin DOMAIN s.perfd THEN Fault(s, "ValueOrDie")
  ELSE IF IsLinked(s, h, ActiveIdle) THEN s
  ELSE PushBack(Expunge(s, h), h, "ejects_")

(* Add(handler, fd): EPOLL_CTL_ADD raises an edge if the descriptor is     *)
(* ready.  On failure the handle is freed again, the descriptor is closed, *)
(* and handles_ keeps the dead handle if Allocate had succeeded.           *)
Ready(f) == {d \in Dirs : io[f][d] > 0} \cup (IF f \in hup THEN {"hup"} ELSE {})

AddFd(s, f) ==
  LET h == s.next
      full == Cardinality(DOMAIN s.perfd) >= TableSize
      new == [fd |-> f, wants |-> {}, squelch |-> {}, muted |-> {}, fns |-> 0]
      k == OwnerOf[f]
  IN  IF full THEN [s EXCEPT !.fate[f] = "closed"]
      ELSE IF f \in Unpollable
      THEN [s EXCEPT !.fate[f] = "closed", !.next = h + 1,
                     !.handles_[k] = Append(@, h)]
      ELSE PushBack([s EXCEPT !.perfd = [g \in DOMAIN @ \cup {h} |->
                                           IF g = h THEN new ELSE @[g]],
                              !.next = h + 1,
                              !.handles_[k] = Append(@, h),
                              !.edge = IF Ready(f) = {} THEN @ ELSE @ \cup {h},
                              !.fate[f] = "silo"], h, "idlers_")

(* DataHandler::Add: a handler adds another descriptor of its own.         *)
Unregistered(h) == {f \in Fds : /\ fate[f] = "client"
                                /\ OwnerOf[f] = OwnerOf[perfd[h].fd]}

Call(s, c, h) ==
  IF c = "RequestRead" THEN Request(s, h, "read")
  ELSE IF c = "RequestWrite" THEN Request(s, h, "write")
  ELSE IF c = "Run" THEN Run(s, h)
  ELSE IF c = "Eject" THEN Eject(s, h)
  ELSE IF c = "Add" THEN AddFd(s, CHOOSE f \in Unregistered(h) : TRUE)
  ELSE s

(* The bounds on what a handler may call.                                  *)
MayCall(c, h) == /\ c = "Run" => h \in Live /\ perfd[h].fns < MaxFns
                 /\ c = "Add" => h \in Live /\ Unregistered(h) # {}

(* A handler knows the handles it was given for its own descriptors.       *)
Known(h) == {g \in Live : OwnerOf[perfd[g].fd] = OwnerOf[perfd[h].fd]}
----------------------------------------------------------------------------
(* The loop is in a phase of a process that no check has killed.          *)
Alive == fault = "none"
At(p) == pc = p /\ Alive

(* EpollPwait2: at most the 10 ms timeout, so it may also report nothing.  *)
(* An edge is reported with the readiness the descriptor has by then, and  *)
(* what does not fit in kMaxEvents events waits for the next call.  (Only  *)
(* a bad argument makes the call itself fail: EINTR counts as no event.)   *)
Reportable == {h \in edge : Ready(perfd[h].fd) # {}}

Report(hs, poke) ==
  /\ hs \subseteq Reportable /\ (poke => poked)
  /\ LET count == Cardinality(hs) + (IF poke THEN 1 ELSE 0)
     IN  /\ count <= kMaxEvents
         /\ count < kMaxEvents => hs = Reportable /\ poke = poked
         /\ shedLeft' = IF impending_shed_ THEN (count + 1) \div 2 ELSE 0
  /\ events' = [h \in hs |-> Ready(perfd[h].fd)]
  /\ edge' = Reportable \ hs /\ poked' = (poked /\ ~poke)
  /\ impending_shed_' = FALSE
  /\ pc' = "events"
  /\ UNCHANGED <<perfd, next, lists, handles_, fate, fault, current_, batch, hfds,
                 io, hup, inbound, exiting, spent>>

(* Slip: the loop does not look at exiting_.                               *)
EpollWait_Forever ==
  /\ At("wait")
  /\ \E hs \in SUBSET edge, poke \in BOOLEAN : Report(hs, poke)

EpollWait ==
  /\ At("wait") /\ ~exiting
  /\ \E hs \in SUBSET edge, poke \in BOOLEAN : Report(hs, poke)

(* One reported event becomes a list activation: a hang-up closes, a shed  *)
(* quota sheds, and otherwise the descriptor, with its new wants in s, is  *)
(* linked as in active, if it wants anything.                              *)
Dispose(h, s, active) ==
  LET hangup == "hup" \in events[h]
      shed == ~hangup /\ shedLeft > 0
  IN  /\ Become(IF hangup THEN PushBack(Expunge(Now, h), h, "closers_")
                ELSE IF shed THEN PushBack(Expunge(Now, h), h, "shedders_")
                ELSE IF s.perfd[h].wants = {} THEN s
                ELSE active)
      /\ shedLeft' = IF shed THEN shedLeft - 1 ELSE shedLeft

Wanting(h, ds) == [Now EXCEPT !.perfd[h].wants = @ \cup ds]

Relink(h, s) == PushBack(Erase(s, h, ActiveIdle), h, "active_")

(* The directions that the event may wake.                                 *)
Unsquelched(h) == (events[h] \cap Dirs) \ perfd[h].squelch

(* Slip: a readable event is looked at only if the descriptor is not       *)
(* writable.                                                               *)
ConvertEvent_ElseIf(h) ==
  LET ds == IF "write" \in events[h] THEN {"write"} ELSE events[h] \cap Dirs
      s == Wanting(h, ds \ perfd[h].squelch)
  IN  Dispose(h, s, Relink(h, s))

(* Slip: the descriptor is linked again without an Erase.                  *)
ConvertEvent_NoErase(h) ==
  LET s == Wanting(h, Unsquelched(h)) IN Dispose(h, s, PushBack(s, h, "active_"))

ConvertEvent(h) ==
  LET s == Wanting(h, Unsquelched(h)) IN Dispose(h, s, Relink(h, s))

TakeEvent ==
  /\ At("events")
  /\ \E h \in DOMAIN events :
       /\ ConvertEvent(h)
       /\ events' = [g \in DOMAIN events \ {h} |-> events[g]]
  /\ UNCHANGED <<current_, pc, impending_shed_, batch, hfds, kernel, inbound,
                 exiting, spent>>

(* A phase of the loop is over.                                            *)
Goto(from, to) ==
  /\ At(from) /\ pc' = to /\ current_' = 0
  /\ UNCHANGED <<table, events, shedLeft, impending_shed_, batch, hfds, kernel,
                 inbound, exiting, spent>>

EventsDone == DOMAIN events = {} /\ Goto("events", "shed")

(* RunShedders: every descriptor the handler of the first one ever had     *)
(* here goes back to Epoller::Route, whose affinity still names this silo. *)
ShedBegin ==
  /\ At("shed") /\ hfds = <<>> /\ lists["shedders_"] # <<>>
  /\ hfds' = <<[h |-> OwnerOf[perfd[Head(lists["shedders_"])].fd], fds |-> <<>>]>>
  /\ UNCHANGED <<table, current_, pc, events, shedLeft, impending_shed_, batch,
                 kernel, inbound, exiting, spent>>

(* One handle of the list that was swapped out of handles_.                *)
ShedHandle ==
  /\ At("shed") /\ hfds # <<>>
  /\ LET k == hfds[1].h
         h == Head(handles_[k])
     IN  /\ handles_[k] # <<>>
         /\ IF h \notin Live
            THEN Become(Fault(Now, "ValueOrDie")) /\ UNCHANGED hfds
            ELSE IF OwnerOf[perfd[h].fd] # k
            THEN Become(Fault(Now, "DCHECK")) /\ UNCHANGED hfds
            ELSE /\ Become([Free(Now, h, "inbound") EXCEPT !.handles_[k] = Tail(@)])
                 /\ hfds' = <<[h |-> k, fds |-> Append(hfds[1].fds, perfd[h].fd)]>>
  /\ UNCHANGED <<current_, pc, events, shedLeft, impending_shed_, batch, kernel,
                 inbound, exiting, spent>>

ShedEnd ==
  /\ At("shed") /\ hfds # <<>> /\ handles_[hfds[1].h] = <<>>
  /\ inbound' = Append(inbound, hfds[1]) /\ poked' = TRUE /\ hfds' = <<>>
  /\ UNCHANGED <<table, current_, pc, events, shedLeft, impending_shed_, batch,
                 io, hup, exiting, spent>>

SheddersDone == hfds = <<>> /\ lists["shedders_"] = <<>> /\ Goto("shed", "actives")
----------------------------------------------------------------------------
(* RunActives: take the first active descriptor and make its upcalls.      *)
ActiveBegin ==
  /\ At("actives") /\ lists["active_"] # <<>>
  /\ LET h == Head(lists["active_"])
     IN  Become(Erase(Now, h, ActiveIdle)) /\ current_' = h
  /\ pc' = "read"
  /\ UNCHANGED <<events, shedLeft, impending_shed_, batch, hfds, kernel, inbound,
                 exiting, spent>>

(* What RunActives does with the outcome of an upcall; muted remembers     *)
(* that the handler suspended the direction and has not asked since.       *)
Settled(p, d, outcome) ==
  [p EXCEPT !.wants = IF outcome = "kYield" THEN @ \cup {d} ELSE @,
            !.squelch = IF outcome = "kSuspend" THEN @ \cup {d} ELSE @,
            !.muted = IF outcome = "kSuspend" THEN @ \cup {d} ELSE @ \ {d}]

Settle(s, h, d, outcome) ==
  IF outcome = "kClose" THEN PushBack(Expunge(s, h), h, "closers_")
  ELSE [s EXCEPT !.perfd[h] = Settled(@, d, outcome)]

(* Slip: a descriptor that yielded is put among the idlers.                *)
Place_AlwaysIdle(s, h) ==
  IF IsLinked(s, h, Shared) \/ IsLinked(s, h, ActiveIdle) THEN s
  ELSE PushBack(s, h, "idlers_")

(* Where the descriptor goes after its upcalls.                            *)
Place(s, h) ==
  IF IsLinked(s, h, Shared) \/ IsLinked(s, h, ActiveIdle) THEN s
  ELSE PushBack(s, h, IF s.perfd[h].wants # {} THEN "active_" ELSE "idlers_")

(* What the upcall did to the kernel buffer: EAGAIN means it is empty.  A  *)
(* yield follows a transfer, but a handler may also yield with nothing to  *)
(* transfer, as SslSocket does after a crossed operation                   *)
(* (ssl_socket.cc:140-149).                                                *)
Transfer(f, d, act) ==
  io' = [io EXCEPT ![f][d] = IF act.outcome = "kFdEagain" THEN 0
                             ELSE IF act.outcome = "kYield" /\ @ > 0
                             THEN @ - 1 ELSE @]

(* One upcall of the current descriptor, if it wants it; the write upcall  *)
(* is the last, and the descriptor is placed after it.  An upcall makes    *)
(* one call.  That covers the several requests of the repository's         *)
(* handlers (test_handlers.cc:68-69, ssl_socket.cc:142-146): a request     *)
(* made twice is the request made once, and one for the direction of the   *)
(* upcall itself leaves what kYield leaves.  A Run or an Eject together    *)
(* with another call is not covered.                                       *)
Upcall(d) ==
  LET h == current_
      After(s) == IF d = "write" THEN Place(s, h) ELSE s
  IN \/ /\ d \notin perfd[h].wants
        /\ Become(After(Now))
        /\ UNCHANGED io
     \/ /\ d \in perfd[h].wants
        /\ \E act \in Acts[OwnerOf[perfd[h].fd]][d], g \in Known(h) :
             /\ MayCall(act.call, g)
             /\ Transfer(perfd[h].fd, d, act)
             /\ Become(After(Settle(
                  Call([Now EXCEPT !.perfd[h].wants = @ \ {d}], act.call, g),
                  h, d, act.outcome)))

HandleRead == /\ At("read") /\ Upcall("read")
              /\ pc' = "write"
              /\ UNCHANGED <<current_, events, shedLeft, impending_shed_, batch, hfds,
                             poked, hup, inbound, exiting, spent>>

HandleWrite == /\ At("write") /\ Upcall("write")
               /\ pc' = "actives" /\ current_' = 0
               /\ UNCHANGED <<events, shedLeft, impending_shed_, batch, hfds, poked,
                              hup, inbound, exiting, spent>>

ActivesDone == lists["active_"] = <<>> /\ Goto("actives", "runners")

(* RunRunners: run every function queued on the first runner.              *)
RunnerBegin ==
  /\ At("runners") /\ current_ = 0 /\ lists["runners_"] # <<>>
  /\ LET h == Head(lists["runners_"])
     IN  Become(Erase(Now, h, Shared)) /\ current_' = h
  /\ UNCHANGED <<pc, events, shedLeft, impending_shed_, batch, hfds, kernel, inbound,
                 exiting, spent>>

RunFn ==
  /\ At("runners") /\ current_ # 0
  /\ \/ /\ perfd[current_].fns > 0
        /\ \E c \in FnCalls, g \in Known(current_) :
             /\ MayCall(c, g)
             /\ Become(Call([Now EXCEPT !.perfd[current_].fns = @ - 1], c, g))
        /\ UNCHANGED current_
     \/ /\ perfd[current_].fns = 0
        /\ current_' = 0
        /\ UNCHANGED table
  /\ UNCHANGED <<pc, events, shedLeft, impending_shed_, batch, hfds, kernel, inbound,
                 exiting, spent>>

(* ActivationsEmpty decides whether RunActives and RunRunners go again.    *)
RunnersDone ==
  /\ current_ = 0 /\ lists["runners_"] = <<>>
  /\ Goto("runners", IF lists["active_"] = <<>> THEN "eject" ELSE "actives")
----------------------------------------------------------------------------
RunEjecters ==
  /\ At("eject") /\ lists["ejects_"] # <<>>
  /\ Become(Free(Now, Head(lists["ejects_"]), "ejected"))
  /\ UNCHANGED <<thread, kernel, inbound, exiting, spent>>

EjectersDone == lists["ejects_"] = <<>> /\ Goto("eject", "idle")

(* RunIdlers: one idler a loop.  Whether it has been idle for longer than  *)
(* its threshold is left open; HandleIdle keeps the descriptor or not.     *)
RunIdlers ==
  /\ At("idle") /\ lists["idlers_"] # <<>>
  /\ LET h == Head(lists["idlers_"])
         s == Erase(Now, h, ActiveIdle)
     IN  \/ Become(PushBack(s, h, "idlers_"))
         \/ \E c \in IdleCalls, g \in Known(h) :
              /\ MayCall(c, g)
              /\ \/ Become(PushBack(Call(s, c, g), h, "idlers_"))
                 \/ Become(PushBack(Expunge(Call(s, c, g), h), h, "closers_"))
  /\ pc' = "close"
  /\ UNCHANGED <<current_, events, shedLeft, impending_shed_, batch, hfds, kernel,
                 inbound, exiting, spent>>

NoIdlers == lists["idlers_"] = <<>> /\ Goto("idle", "close")

(* RunClosers and Remove.                                                  *)
RunClosers ==
  /\ At("close") /\ lists["closers_"] # <<>>
  /\ LET h == Head(lists["closers_"])
     IN  Become(IF IsLinked(Now, h, ActiveIdle) THEN Fault(Now, "DCHECK")
                                                ELSE Free(Now, h, "closed"))
  /\ UNCHANGED <<thread, kernel, inbound, exiting, spent>>

(* Slip: the inbound list is only taken by a silo that has nothing to do.  *)
ClosersDone_OnlyIdle ==
  /\ At("close") /\ lists["closers_"] = <<>>
  /\ pc' = "admit"
  /\ IF Live = {} THEN batch' = inbound /\ inbound' = <<>>
                  ELSE UNCHANGED <<batch, inbound>>
  /\ UNCHANGED <<table, current_, events, shedLeft, impending_shed_, hfds, kernel,
                 exiting, spent>>

(* GetInList swaps the whole inbound list out.                             *)
ClosersDone ==
  /\ At("close") /\ lists["closers_"] = <<>>
  /\ pc' = "admit" /\ batch' = inbound /\ inbound' = <<>>
  /\ UNCHANGED <<table, current_, events, shedLeft, impending_shed_, hfds, kernel,
                 exiting, spent>>
----------------------------------------------------------------------------
(* RunAdmission: a descriptor of the first item, which is through after    *)
(* its last one.                                                           *)
HeadFd == Head(Head(batch).fds)

AfterHeadFd ==
  IF Tail(Head(batch).fds) = <<>> THEN Tail(batch)
  ELSE <<[Head(batch) EXCEPT !.fds = Tail(@)]>> \o Tail(batch)

CanAdd(f) == f \notin Unpollable /\ Cardinality(Live) < TableSize

AdmitFd ==
  /\ At("admit") /\ batch # <<>> /\ Head(batch).fds # <<>> /\ CanAdd(HeadFd)
  /\ Become(AddFd(Now, HeadFd))
  /\ batch' = AfterHeadFd
  /\ UNCHANGED <<current_, pc, events, shedLeft, impending_shed_, hfds, kernel,
                 inbound, exiting, spent>>

(* The thread ends: the batch and the whole Silo are destroyed.  (What a   *)
(* failed Add leaves in handles_ is never read again.)                     *)
ThreadEnds == /\ pc' = "done" /\ current_' = 0
              /\ perfd' = NoHandles /\ lists' = [l \in ListNames |-> <<>>]
              /\ edge' = {} /\ events' = NoHandles /\ batch' = <<>>
              /\ fate' = [f \in Fds |->
                            IF \/ fate[f] = "silo"
                               \/ \E i \in DOMAIN batch : f \in ToSet(batch[i].fds)
                            THEN "closed" ELSE fate[f]]
              /\ UNCHANGED <<next, fault, shedLeft, impending_shed_, hfds, kernel,
                             inbound, exiting, spent>>

(* A failed Add ends the thread: TRY leaves ThreadMain2.                   *)
AdmitFails ==
  /\ At("admit") /\ batch # <<>> /\ Head(batch).fds # <<>> /\ ~CanAdd(HeadFd)
  /\ ThreadEnds
  /\ UNCHANGED handles_

(* Silo::RunWithAffinity: abandoned if handles_ is empty.                  *)
AdmitFn ==
  /\ At("admit") /\ batch # <<>> /\ Head(batch).fds = <<>>
  /\ LET hs == handles_[Head(batch).h]
     IN  \/ hs = <<>> /\ UNCHANGED table
         \/ /\ hs # <<>>
            /\ \E c \in AffinityCalls :
                 MayCall(c, Head(hs)) /\ Become(Call(Now, c, Head(hs)))
  /\ batch' = Tail(batch)
  /\ UNCHANGED <<current_, pc, events, shedLeft, impending_shed_, hfds, kernel,
                 inbound, exiting, spent>>

(* ConsiderLoadShedding: the utilisations are left open.                   *)
ConsiderLoadShedding ==
  /\ At("admit") /\ batch = <<>>
  /\ \/ impending_shed_' = FALSE /\ UNCHANGED spent
     \/ /\ spent.sheds < MaxSheds
        /\ impending_shed_' = TRUE
        /\ spent' = [spent EXCEPT !.sheds = @ + 1]
  /\ pc' = "wait"
  /\ UNCHANGED <<table, current_, events, shedLeft, batch, hfds, kernel, inbound,
                 exiting>>

Exit == /\ At("wait") /\ exiting
        /\ ThreadEnds
        /\ UNCHANGED handles_
----------------------------------------------------------------------------
(* Other threads: Epoller::Register, RunWithAffinity and ~Epoller.         *)
Route(item) == inbound' = Append(inbound, item) /\ poked' = TRUE

Register(f) ==
  /\ Alive /\ fate[f] = "client" /\ ~exiting
  /\ Route([h |-> OwnerOf[f], fds |-> <<f>>])
  /\ fate' = [fate EXCEPT ![f] = "inbound"]
  /\ UNCHANGED <<perfd, next, lists, handles_, edge, fault, thread, io, hup,
                 exiting, spent>>

RunWithAffinity(k) ==
  /\ Alive /\ spent.runs < MaxRuns /\ ~exiting
  /\ \E f \in Fds : OwnerOf[f] = k /\ fate[f] # "client"
  /\ Route([h |-> k, fds |-> <<>>])
  /\ spent' = [spent EXCEPT !.runs = @ + 1]
  /\ UNCHANGED <<table, thread, io, hup, exiting>>

NotifyExiting ==
  /\ Alive /\ ~exiting /\ exiting' = TRUE
  /\ UNCHANGED <<table, thread, kernel, inbound, spent>>

(* The peer sends, makes room, or goes away.                               *)
RaiseEdge(f) == edge' = edge \cup {h \in Live : perfd[h].fd = f}

KernelEvent(f) ==
  /\ Alive /\ fate[f] \in {"inbound", "silo"} /\ f \notin hup
  /\ spent.kernel < MaxKernel
  /\ spent' = [spent EXCEPT !.kernel = @ + 1]
  /\ \/ \E d \in Dirs : io' = [io EXCEPT ![f][d] = @ + 1] /\ UNCHANGED hup
     \/ hup' = hup \cup {f} /\ UNCHANGED io
  /\ RaiseEdge(f)
  /\ UNCHANGED <<perfd, next, lists, handles_, fate, fault, thread, poked,
                 inbound, exiting>>
----------------------------------------------------------------------------
Loop == \/ EpollWait \/ TakeEvent \/ EventsDone
        \/ ShedBegin \/ ShedHandle \/ ShedEnd \/ SheddersDone
        \/ ActiveBegin \/ HandleRead \/ HandleWrite \/ ActivesDone
        \/ RunnerBegin \/ RunFn \/ RunnersDone
        \/ RunEjecters \/ EjectersDone \/ RunIdlers \/ NoIdlers
        \/ RunClosers \/ ClosersDone
        \/ AdmitFd \/ AdmitFails \/ AdmitFn \/ ConsiderLoadShedding \/ Exit

Environment == \/ \E f \in Fds : Register(f) \/ KernelEvent(f)
               \/ \E k \in Handlers : RunWithAffinity(k)
               \/ NotifyExiting

Next == Loop \/ Environment

Spec == Init /\ [][Next]_vars

(* The silo's thread keeps running and epoll returns within its timeout.   *)
FairSpec == Spec /\ WF_vars(Loop)
----------------------------------------------------------------------------
(* The rules a handler must keep, which the code relies on and does not    *)
(* check.                                                                  *)
Requests == {"RequestRead", "RequestWrite"}
RequestOf(d) == IF d = "read" THEN "RequestRead" ELSE "RequestWrite"

Solo(k) == \A f, g \in Fds : OwnerOf[f] = k /\ OwnerOf[g] = k => f = g
Yields(k) == \E d \in Dirs : \E a \in Acts[k][d] : a.outcome = "kYield"
Asks(k) == \E d \in Dirs : \E a \in Acts[k][d] : a.call \in Requests

(* A handler of several descriptors only adds more from its upcalls; none  *)
(* asks for the direction it suspends (silo.cc:378), or closes what it     *)
(* ejects; one that uses Run yields only in upcalls that do not and that   *)
(* are not made while the function is queued (silo.cc:421).                *)
ActsBehave == \A k \in Handlers, d \in Dirs : \A a \in Acts[k][d] :
  /\ a.call \in {"none", "Add"} \/ Solo(k)
  /\ a.call = RequestOf(d) => a.outcome # "kSuspend"
  /\ a.call = "Eject" => a.outcome # "kClose"
  /\ a.call = "Run" =>
       /\ ~(Yields(k) /\ Asks(k))
       /\ \A e \in Dirs : \A b \in Acts[k][e] :
            b.outcome = "kYield" => e = d /\ b.call # "Run"

(* Functions ask for upcalls.  HandleIdle and affinitized functions may    *)
(* ask too, and may be killed for it (see Misused); no handler of several  *)
(* descriptors asks from HandleIdle.                                       *)
WellBehaved ==
  /\ ActsBehave
  /\ FnCalls \subseteq Requests
  /\ AffinityCalls \cup IdleCalls \subseteq {"none", "Add"} \cup Requests
  /\ IdleCalls \cap Requests = {} \/ \A k \in Handlers : Solo(k)

(* The three uses of the API that kill the process, which nothing in it    *)
(* forbids: shedding a handler of several descriptors after one of them    *)
(* has gone, whose handle is still in handles_ (silo.cc:501); asking for   *)
(* an upcall from a HandleIdle that keeps the descriptor (silo.cc:463);    *)
(* and asking from an affinitized function for a descriptor that has gone  *)
(* (silo.cc:218).                                                          *)
Misused ==
  \/ pc = "shed" /\ hfds # <<>> /\ ~Solo(hfds[1].h)
  \/ /\ pc = "close" /\ fault = "PushBack of a linked hook"
     /\ IdleCalls \cap Requests # {}
  \/ pc = "admit" /\ fault = "ValueOrDie" /\ AffinityCalls \cap Requests # {}
----------------------------------------------------------------------------
Phases == {"wait", "events", "shed", "actives", "read", "write", "runners",
           "eject", "idle", "close", "admit", "done"}

(* Every list, event and edge names live handles only.                     *)
TypeOK ==
  /\ Live \subseteq 1..(next - 1) /\ next \in Nat
  /\ \A h \in Live : perfd[h] \in [fd : Fds, wants : SUBSET Dirs,
                                   squelch : SUBSET Dirs, muted : SUBSET Dirs,
                                   fns : 0..MaxFns]
  /\ DOMAIN lists = ListNames
  /\ \A l \in ListNames : ToSet(lists[l]) \subseteq Live
  /\ current_ \in Live \cup {0} /\ pc \in Phases
  /\ DOMAIN events \subseteq Live /\ edge \subseteq Live
  /\ fate \in [Fds -> {"client", "inbound", "silo", "ejected", "closed"}]

(* No ValueOrDie, DCHECK or double link brings the process down, except    *)
(* where a handler runs into one of the three traps of Misused: no upcall, *)
(* function, event, shed or close does, in whatever order they come.       *)
NoFault == fault = "none" \/ Misused

(* Between two loops every live descriptor is in idlers_ (or active_ when  *)
(* a function run at admission asked for it), so that it can time out; no  *)
(* list of the finished loop is left over.                                 *)
EveryFdCanIdle == pc = "wait" =>
  /\ \A h \in Live : In(h, "idlers_") \/ In(h, "active_")
  /\ \A l \in {"ejects_", "closers_", "shedders_"} : lists[l] = <<>>

Leaving(h) == \E l \in {"ejects_", "closers_", "shedders_"} : In(h, l)

(* No lost edge: if a live descriptor can be read (written) and its        *)
(* handler has not suspended that direction, then an edge is on its way to *)
(* the loop, or the descriptor is active and wants it, or is leaving.      *)
NoLostEdge == \A h \in Live, d \in Dirs :
  (io[perfd[h].fd][d] > 0 /\ d \notin perfd[h].muted) =>
     \/ h \in edge \/ (h \in DOMAIN events /\ d \in events[h])
     \/ (d \in perfd[h].wants /\ In(h, "active_"))
     \/ h = current_ \/ Leaving(h)

(* The upcall that the next step of RunActives makes.                      *)
Upcalling(d) == pc = d /\ d \in perfd[current_].wants

(* A direction that its handler suspended gets no upcall until the handler *)
(* asks for it, whatever epoll reports in between.                         *)
SuspendRespected == \A d \in Dirs : Upcalling(d) => d \notin perfd[current_].muted

(* A descriptor queued for closing, ejection or shedding gets no upcall,   *)
(* even if it was doomed by its own read upcall just before its write.     *)
DoomedIsQuiet == \A d \in Dirs : Upcalling(d) => ~Leaving(current_)

(* A descriptor queued for ejection is handed to HandleEject: it is        *)
(* neither closed nor returned to service.                                 *)
EjectIsFinal == [][\A h \in Live : In(h, "ejects_") =>
                      \/ h \in DOMAIN perfd' /\ h \in ToSet(lists'["ejects_"])
                      \/ fate'[perfd[h].fd] = "ejected"]_vars

Holders(f) == Cardinality({h \in Live : perfd[h].fd = f})
            + Cardinality({i \in DOMAIN inbound : f \in ToSet(inbound[i].fds)})
            + Cardinality({i \in DOMAIN batch : f \in ToSet(batch[i].fds)})
            + Cardinality({i \in DOMAIN hfds : f \in ToSet(hfds[i].fds)})

(* Descriptors are neither leaked nor duplicated: each one given to the    *)
(* Epoller is in exactly one inbound item or PerFd until it is ejected or  *)
(* closed.                                                                 *)
FdHeldOnce == \A f \in Fds :
  Holders(f) = IF fate[f] \in {"inbound", "silo"} THEN 1 ELSE 0

(* "Please call me again immediately-ish": the loop over active_ and       *)
(* runners_ does not end while a descriptor still wants an upcall.         *)
YieldIsRescheduled ==
  pc = "eject" => \A h \in Live : perfd[h].wants # {} => Leaving(h)

(* A handler that yields on and on keeps the loop over active_ and         *)
(* runners_ (silo.cc:141) from ending, and the thread from everything else.*)
Spins == <>[](pc \in {"actives", "read", "write", "runners"})

(* A check that handlers ran into (see Misused) has ended the process.     *)
Killed == fault # "none" /\ Misused

(* ~Epoller joins the thread, so the loop must reach its exit test: only   *)
(* handlers that yield for ever prevent it.                                *)
ExitsWhenTold == (exiting ~> (pc = "done" \/ Killed)) \/ Spins

(* Every descriptor handed to the Epoller is admitted, or its silo ended,  *)
(* unless handlers yield for ever.                                         *)
EveryFdAdmitted ==
  (\A f \in Fds : (fate[f] = "inbound") ~>
                     (fate[f] # "inbound" \/ pc = "done" \/ Killed)) \/ Spins

(* Input that the handler has not suspended is read, or the descriptor     *)
(* leaves the silo, unless handlers yield for ever.                        *)
InputIsServed ==
  (\A f \in Fds : (fate[f] = "silo" /\ io[f]["read"] > 0)
     ~> (\/ fate[f] # "silo" \/ io[f]["read"] = 0 \/ Killed
         \/ \E h \in Live : perfd[h].fd = f /\ "read" \in perfd[h].muted)) \/ Spins

(* Every descriptor has its place: it is in exactly one inbound item or    *)
(* PerFd until it is closed or ejected, is called again if it yielded, and *)
(* between two loops is where it can be timed out.                         *)
EveryFdPlaced == TypeOK /\ FdHeldOnce /\ YieldIsRescheduled /\ EveryFdCanIdle

(* Upcalls respect what the handlers asked for: no upcall of a suspended   *)
(* direction or of a descriptor that is leaving, and an ejected one is     *)
(* handed to HandleEject and nothing else.                                 *)
UpcallsRespected == [](SuspendRespected /\ DoomedIsQuiet) /\ EjectIsFinal
=============================================================================
