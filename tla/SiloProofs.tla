----------------------------- MODULE SiloProofs -----------------------------
(***************************************************************************)
(* The event loop of io::Silo for handlers that keep the rules of          *)
(* WellBehaved: no check fails, no edge of epoll is lost, every descriptor *)
(* has its place and every upcall respects what the handler asked for, for *)
(* any descriptors, handlers, table sizes and orders of kernel events.     *)
(***************************************************************************)
EXTENDS Silo, FiniteSetTheorems, SequenceTheorems, TLAPS

(***************************************************************************)
(* The inductive invariant.  Its parts are predicates on the bundle s of   *)
(* the operations and on the values of the thread's variables, so that     *)
(* they can also be stated of the states inside an upcall.                 *)
(***************************************************************************)
Mem(s, l) == ToSet(s.lists[l])
Owner(s, h) == OwnerOf[s.perfd[h].fd]

Fates == {"client", "inbound", "silo", "ejected", "closed"}
Readiness == Dirs \cup {"hup"}
PerFds == [fd : Fds, wants : SUBSET Dirs, squelch : SUBSET Dirs,
           muted : SUBSET Dirs, fns : 0..MaxFns]
ItemSet == [h : Handlers, fds : Seq(Fds)]

(* A list that holds no element twice.                                     *)
Once(q) == \A i, j \in 1..Len(q) : q[i] = q[j] => i = j

(* The bundle is well formed: lists hold live handles, and a hook is in    *)
(* one place at most.                                                      *)
IsBundle(s) ==
  s = [perfd |-> s.perfd, next |-> s.next, lists |-> s.lists,
       handles_ |-> s.handles_, edge |-> s.edge, fate |-> s.fate,
       fault |-> s.fault]

TableShape(s) ==
  /\ s.fault = "none"
  /\ s.next \in Nat \ {0}
  /\ \A h \in DOMAIN s.perfd : h \in Nat /\ 0 < h /\ h < s.next
  /\ s.perfd \in [DOMAIN s.perfd -> PerFds]
  /\ s.handles_ \in [Handlers -> Seq(Nat)]
  /\ s.edge \subseteq DOMAIN s.perfd
  /\ s.fate \in [Fds -> Fates]

ListShape(s) ==
  /\ s.lists \in [ListNames -> Seq(Nat)]
  /\ \A l \in ListNames : Once(s.lists[l]) /\ Mem(s, l) \subseteq DOMAIN s.perfd
  /\ \A l, m \in ListNames :
        l # m /\ HookOf(l) = HookOf(m) => Mem(s, l) \cap Mem(s, m) = {}

Shape(s) == IsBundle(s) /\ TableShape(s) /\ ListShape(s)

(* A list has elements only in the phases that fill it and drain it.       *)
ListPhases(s, h, p) ==
  /\ h \in Mem(s, "active_")
        => p \in {"admit", "wait", "events", "shed", "actives", "read", "write",
                  "runners"}
  /\ h \in Mem(s, "runners_") => p \in {"actives", "read", "write", "runners"}
  /\ h \in Mem(s, "ejects_")
        => p \in {"actives", "read", "write", "runners", "eject"}
  /\ h \in Mem(s, "closers_") => p \notin {"wait", "admit", "done"}
  /\ h \in Mem(s, "shedders_") => p \in {"events", "shed"}

Doomed(s, h) == h \in Mem(s, "closers_") \/ h \in Mem(s, "shedders_")

(* What a descriptor wants is remembered by the list it is in; a doomed    *)
(* one wants nothing.                                                      *)
WantsAreKept(s, h, p, c) ==
  /\ s.perfd[h].wants # {} =>
        \/ h \in Mem(s, "active_") \/ h \in Mem(s, "ejects_")
        \/ h = c /\ p \in {"read", "write"}
  /\ s.perfd[h].muted = s.perfd[h].squelch
  /\ s.perfd[h].wants \cap s.perfd[h].squelch = {}
  /\ Doomed(s, h) =>
        /\ s.perfd[h].wants = {}
        /\ \A l \in ActiveIdle : h \notin Mem(s, l)
  /\ h \in Mem(s, "ejects_") =>
        Solo(Owner(s, h)) /\ \A l \in Shared : h \notin Mem(s, l)

(* Every descriptor is in a list it will be found in, or an upcall or a    *)
(* function of it is under way.                                            *)
Placed(s, h, p, c) ==
  /\ \/ \E l \in ActiveIdle : h \in Mem(s, l)
     \/ Doomed(s, h)
     \/ h = c /\ p \in {"read", "write"}
     \/ s.perfd[h].fns > 0 /\ (h \in Mem(s, "runners_") \/ (h = c /\ p = "runners"))
  /\ s.perfd[h].fns > 0 => Solo(Owner(s, h))
  /\ h \in Mem(s, "runners_") =>
        /\ s.perfd[h].fns > 0
        /\ \E d \in Dirs : \E a \in Acts[Owner(s, h)][d] : a.call = "Run"
        /\ Yields(Owner(s, h)) =>
             h \notin Mem(s, "active_") /\ ~(h = c /\ p = "read")

(* The descriptor whose upcall or function runs.                           *)
Running(s, h, p, c) == h = c =>
  /\ p = "read" =>
       ~Doomed(s, h) /\ \A l \in ActiveIdle : h \notin Mem(s, l)
  /\ p = "write" =>
       /\ h \notin Mem(s, "idlers_")
       /\ h \in Mem(s, "active_") => Asks(Owner(s, h))
       /\ h \in Mem(s, "ejects_") => "write" \notin s.perfd[h].wants
       /\ "read" \in s.perfd[h].wants =>
            \/ h \in Mem(s, "active_") \/ h \in Mem(s, "ejects_")
            \/ \E a \in Acts[Owner(s, h)]["read"] : a.outcome = "kYield"
       /\ h \in Mem(s, "runners_") /\ Yields(Owner(s, h)) =>
            /\ "read" \notin s.perfd[h].wants
            /\ \E a \in Acts[Owner(s, h)]["read"] : a.call = "Run"
  /\ p = "runners" =>
       h \notin Mem(s, "ejects_") /\ \A l \in Shared : h \notin Mem(s, l)

(* Readiness that nobody suspended is reported, wanted or of no matter.    *)
EdgeKept(s, h, ev, x) == \A d \in Dirs :
  x[s.perfd[h].fd][d] > 0 /\ d \notin s.perfd[h].muted =>
     \/ h \in s.edge \/ (h \in DOMAIN ev /\ d \in ev[h])
     \/ d \in s.perfd[h].wants
     \/ h \in Mem(s, "ejects_") \/ Doomed(s, h)

Local(s, h, p, c, ev, x) ==
  /\ ListPhases(s, h, p) /\ WantsAreKept(s, h, p, c) /\ Placed(s, h, p, c)
  /\ Running(s, h, p, c) /\ EdgeKept(s, h, ev, x)
  /\ h \in DOMAIN ev => ~Doomed(s, h)

(* Item i of the queue q holds f.                                          *)
Holds(q, i, f) == i \in 1..Len(q) /\ f \in ToSet(q[i].fds)

QueueSound(q) ==
  /\ q \in Seq(ItemSet)
  /\ \A i \in 1..Len(q) : Once(q[i].fds)
  /\ \A f \in Fds : \A i, j \in 1..Len(q) : Holds(q, i, f) /\ Holds(q, j, f) => i = j

Queued(q, f) == \E i \in 1..Len(q) : Holds(q, i, f)

(* A descriptor is in one queue item exactly while its fate is "inbound",  *)
(* and in one PerFd exactly while it is "silo".                            *)
Ownership(s, q1, q2, q3) ==
  /\ QueueSound(q1) /\ QueueSound(q2) /\ QueueSound(q3)
  /\ \A f \in Fds :
       /\ s.fate[f] = "inbound" <=> Queued(q1, f) \/ Queued(q2, f) \/ Queued(q3, f)
       /\ ~(Queued(q1, f) /\ Queued(q2, f))
       /\ ~(Queued(q1, f) /\ Queued(q3, f))
       /\ ~(Queued(q2, f) /\ Queued(q3, f))
       /\ s.fate[f] = "silo" <=> \E h \in DOMAIN s.perfd : s.perfd[h].fd = f
  /\ \A g, h \in DOMAIN s.perfd : s.perfd[g].fd = s.perfd[h].fd => g = h

(* handles_ of a handler with one descriptor names that one and no other,  *)
(* as long as there may be one.                                            *)
HandlesNamed(s, q) ==
  /\ \A h \in DOMAIN s.perfd : Solo(Owner(s, h)) => s.handles_[Owner(s, h)] = <<h>>
  /\ \A f \in Fds : s.fate[f] \in {"client", "inbound"} /\ Solo(OwnerOf[f])
                       => s.handles_[OwnerOf[f]] = <<>>
  /\ \A i \in 1..Len(q) : Solo(q[i].h) /\ s.handles_[q[i].h] # <<>>
                            => \E h \in DOMAIN s.perfd : Owner(s, h) = q[i].h

(* The variables of the thread and of the kernel.                          *)
ThreadShape ==
  /\ current_ \in Live \cup {0} /\ pc \in Phases
  /\ current_ # 0 => pc \in {"read", "write", "runners"}
  /\ pc \in {"read", "write"} => current_ # 0
  /\ DOMAIN events \subseteq Live
  /\ \A h \in DOMAIN events : events[h] \subseteq Readiness
  /\ events = [h \in DOMAIN events |-> events[h]]
  /\ pc # "events" => DOMAIN events = {}
  /\ shedLeft \in Nat
  /\ io \in [Fds -> [Dirs -> Nat]] /\ hup \subseteq Fds
  /\ hfds # <<>> => pc = "shed"
  /\ Len(hfds) <= 1
  /\ batch # <<>> => pc = "admit"
  /\ pc = "done" => Live = {}
  /\ spent \in [kernel : Nat, sheds : Nat, runs : Nat]

Sound(s, p, c, ev, x, q1, q2, q3) ==
  /\ Shape(s)
  /\ \A g \in DOMAIN s.perfd : Local(s, g, p, c, ev, x)
  /\ Ownership(s, q1, q2, q3) /\ HandlesNamed(s, q3)

SiloInv ==
  /\ ThreadShape
  /\ Sound(Now, pc, current_, events, io, inbound, batch, hfds)
-----------------------------------------------------------------------------
(***************************************************************************)
(* Lists                                                                   *)
(***************************************************************************)
LEMMA Members ==
  ASSUME NEW S, NEW q \in Seq(S)
  PROVE  /\ Len(q) \in Nat /\ DOMAIN q = 1..Len(q)
         /\ \A x : x \in ToSet(q) <=> \E i \in 1..Len(q) : q[i] = x
         /\ q = <<>> <=> ToSet(q) = {}
<1>1. Len(q) \in Nat /\ DOMAIN q = 1..Len(q)
  OBVIOUS
<1>2. \A x : x \in ToSet(q) <=> \E i \in 1..Len(q) : q[i] = x
  BY <1>1 DEF ToSet
<1>3. q # <<>> => q[1] \in ToSet(q)
  BY <1>1, <1>2
<1>4. q = <<>> => ToSet(q) = {}
  BY <1>1, <1>2
<1> QED BY <1>1, <1>2, <1>3, <1>4

LEMMA AppendOnce ==
  ASSUME NEW S, NEW q \in Seq(S), NEW h \in S, Once(q), h \notin ToSet(q)
  PROVE  /\ Append(q, h) \in Seq(S)
         /\ Once(Append(q, h))
         /\ \A x : x \in ToSet(Append(q, h)) <=> x \in ToSet(q) \/ x = h
<1> DEFINE t == Append(q, h)
<1>1. /\ t \in Seq(S) /\ Len(q) \in Nat /\ Len(t) = Len(q) + 1
      /\ \A i \in 1..Len(q) : t[i] = q[i]
      /\ t[Len(q) + 1] = h
  OBVIOUS
<1> HIDE DEF t
<1>2. /\ \A x : x \in ToSet(q) <=> \E i \in 1..Len(q) : q[i] = x
      /\ \A x : x \in ToSet(t) <=> \E i \in 1..Len(t) : t[i] = x
  BY <1>1, Members
<1>3. \A x : x \in ToSet(t) <=> x \in ToSet(q) \/ x = h
  <2>1. \A i \in 1..Len(t) : i \in 1..Len(q) \/ i = Len(q) + 1
    BY <1>1
  <2>2. \A i \in 1..Len(q) : i \in 1..Len(t)
    BY <1>1
  <2>3. Len(q) + 1 \in 1..Len(t)
    BY <1>1
  <2> QED BY <1>1, <1>2, <2>1, <2>2, <2>3
<1>4. Once(t)
  <2>1. ASSUME NEW i \in 1..Len(t), NEW j \in 1..Len(t), t[i] = t[j] PROVE i = j
    <3>1. CASE i \in 1..Len(q) /\ j \in 1..Len(q)
      BY <1>1, <2>1, <3>1 DEF Once
    <3>2. CASE i \notin 1..Len(q) /\ j \notin 1..Len(q)
      BY <1>1, <3>2
    <3>3. CASE i \in 1..Len(q) /\ j \notin 1..Len(q)
      <4>1. j = Len(q) + 1
        <5>1. j \in 1..(Len(q) + 1) /\ Len(q) \in Nat
          BY <1>1
        <5>2. j \notin 1..Len(q)
          BY <3>3
        <5> QED BY <5>1, <5>2
      <4> QED BY <1>1, <1>2, <2>1, <3>3, <4>1
    <3>4. CASE i \notin 1..Len(q) /\ j \in 1..Len(q)
      <4>1. i = Len(q) + 1
        <5>1. i \in 1..(Len(q) + 1) /\ Len(q) \in Nat
          BY <1>1
        <5>2. i \notin 1..Len(q)
          BY <3>4
        <5> QED BY <5>1, <5>2
      <4> QED BY <1>1, <1>2, <2>1, <3>4, <4>1
    <3> QED BY <3>1, <3>2, <3>3, <3>4
  <2> QED BY <2>1 DEF Once
<1> QED BY <1>1, <1>3, <1>4 DEF t

LEMMA AppendMember ==
  ASSUME NEW q \in Seq(Nat), NEW h \in Nat, Once(q), h \notin ToSet(q)
  PROVE  /\ Append(q, h) \in Seq(Nat)
         /\ Once(Append(q, h))
         /\ \A x : x \in ToSet(Append(q, h)) <=> x \in ToSet(q) \/ x = h
BY AppendOnce

(* What RemoveFirst leaves of a list without repetitions.                  *)
LEMMA Removed ==
  ASSUME NEW q \in Seq(Nat), NEW h, Once(q)
  PROVE  /\ RemoveFirst(q, h) \in Seq(Nat)
         /\ Once(RemoveFirst(q, h))
         /\ \A x : x \in ToSet(RemoveFirst(q, h)) <=> x \in ToSet(q) /\ x # h
<1>0. Len(q) \in Nat /\ \A x : x \in ToSet(q) <=> \E i \in 1..Len(q) : q[i] = x
  BY Members
<1>1. CASE h \notin ToSet(q)
  <2>1. RemoveFirst(q, h) = q
    BY <1>0, <1>1 DEF RemoveFirst
  <2> QED BY <1>1, <2>1
<1>2. CASE h \in ToSet(q)
  <2>1. PICK i \in 1..Len(q) : q[i] = h
    BY <1>0, <1>2
  <2>2. \A j \in 1..Len(q) : q[j] = h => j = i
    BY <2>1 DEF Once
  <2>3. i \in Nat /\ i >= 1 /\ i <= Len(q)
    BY <1>0
  <2> DEFINE u == SubSeq(q, 1, i - 1)
             v == SubSeq(q, i + 1, Len(q))
  <2>4. RemoveFirst(q, h) = u \o v
    <3>1. {j \in 1..Len(q) : q[j] = h} = {i}
      BY <2>1, <2>2
    <3>2. Min({i}) = i
      BY <2>3 DEF Min
    <3>3. SelectInSeq(q, LAMBDA w : w = h) = i
      BY <3>1, <3>2 DEF SelectInSeq
    <3> QED BY <2>1, <3>3 DEF RemoveFirst, RemoveAt
  <2>5. u \in Seq(Nat) /\ Len(u) = i - 1 /\ \A j \in 1..(i - 1) : u[j] = q[j]
    BY <1>0, <2>3
  <2>6. /\ v \in Seq(Nat) /\ Len(v) = Len(q) - i
        /\ \A j \in 1..(Len(q) - i) : v[j] = q[i + j]
    BY <1>0, <2>3
  <2> HIDE DEF u, v
  <2> DEFINE t == u \o v
  <2>7. /\ t \in Seq(Nat) /\ Len(t) = Len(q) - 1
        /\ \A j \in 1..Len(t) : t[j] = q[IF j < i THEN j ELSE j + 1]
    <3>1. t \in Seq(Nat) /\ Len(t) = Len(u) + Len(v)
      BY <2>5, <2>6, ConcatProperties
    <3>2. \A j \in 1..(Len(u) + Len(v)) :
             t[j] = IF j <= Len(u) THEN u[j] ELSE v[j - Len(u)]
      BY <2>5, <2>6, ConcatProperties
    <3> HIDE DEF t
    <3>3. /\ Len(t) = Len(q) - 1
          /\ \A j \in 1..Len(t) : t[j] = IF j <= i - 1 THEN u[j] ELSE v[j - (i - 1)]
      BY <1>0, <2>3, <2>5, <2>6, <3>1, <3>2
    <3>4. ASSUME NEW j \in 1..Len(t) PROVE t[j] = q[IF j < i THEN j ELSE j + 1]
      <4>1. CASE j < i
        <5>1. j \in 1..(i - 1) /\ j <= i - 1
          BY <1>0, <2>3, <3>3, <4>1
        <5>2. t[j] = u[j] /\ u[j] = q[j]
          BY <2>5, <3>3, <5>1
        <5> QED BY <4>1, <5>2
      <4>2. CASE ~(j < i)
        <5>1. /\ j - (i - 1) \in 1..(Len(q) - i) /\ i + (j - (i - 1)) = j + 1
              /\ ~(j <= i - 1)
          BY <1>0, <2>3, <3>3, <4>2
        <5>2. t[j] = v[j - (i - 1)] /\ v[j - (i - 1)] = q[j + 1]
          BY <2>6, <3>3, <5>1
        <5> QED BY <4>2, <5>2
      <4> QED BY <4>1, <4>2
    <3> QED BY <3>1, <3>3, <3>4 DEF t
  <2> HIDE DEF t
  <2>8. \A x : x \in ToSet(t) <=> \E j \in 1..Len(t) : t[j] = x
    BY <2>7, Members
  <2>9. Once(t)
    <3>1. ASSUME NEW j \in 1..Len(t), NEW k \in 1..Len(t), t[j] = t[k] PROVE j = k
      <4>1. /\ (IF j < i THEN j ELSE j + 1) \in 1..Len(q)
            /\ (IF k < i THEN k ELSE k + 1) \in 1..Len(q)
        BY <1>0, <2>3, <2>7
      <4>2. (IF j < i THEN j ELSE j + 1) = (IF k < i THEN k ELSE k + 1)
        BY <2>7, <3>1, <4>1 DEF Once
      <4>3. i \in Int /\ j \in Int /\ k \in Int
        OBVIOUS
      <4> QED BY <4>2, <4>3
    <3> QED BY <3>1 DEF Once
  <2>10. ASSUME NEW x PROVE x \in ToSet(t) <=> x \in ToSet(q) /\ x # h
    <3>1. ASSUME x \in ToSet(t) PROVE x \in ToSet(q) /\ x # h
      <4>1. PICK j \in 1..Len(t) : t[j] = x
        BY <2>8, <3>1
      <4>2. (IF j < i THEN j ELSE j + 1) \in 1..Len(q) /\ (IF j < i THEN j ELSE j + 1) # i
        BY <1>0, <2>3, <2>7
      <4>3. x = q[IF j < i THEN j ELSE j + 1]
        BY <2>7, <4>1
      <4> QED BY <1>0, <2>2, <4>2, <4>3
    <3>2. ASSUME x \in ToSet(q), x # h PROVE x \in ToSet(t)
      <4>1. PICK j \in 1..Len(q) : q[j] = x
        BY <1>0, <3>2
      <4>2. j # i
        BY <2>1, <3>2, <4>1
      <4>3. CASE j < i
        <5>1. j \in 1..Len(t)
          BY <1>0, <2>3, <2>7, <4>3
        <5> QED BY <2>7, <2>8, <4>1, <4>3, <5>1
      <4>4. CASE ~(j < i)
        <5>1. j - 1 \in 1..Len(t) /\ ~(j - 1 < i) /\ (j - 1) + 1 = j
          BY <1>0, <2>3, <2>7, <4>2, <4>4
        <5>2. t[j - 1] = q[j]
          BY <2>7, <5>1
        <5> QED BY <2>8, <4>1, <5>1, <5>2
      <4> QED BY <4>3, <4>4
    <3> QED BY <3>1, <3>2
  <2> QED BY <2>4, <2>7, <2>9, <2>10 DEF t
<1> QED BY <1>1, <1>2

LEMMA HeadMember ==
  ASSUME NEW S, NEW q \in Seq(S), q # <<>>
  PROVE  Head(q) \in ToSet(q) /\ Head(q) \in S
<1>1. Len(q) \in Nat /\ 1 \in 1..Len(q) /\ Head(q) = q[1]
  OBVIOUS
<1> QED BY <1>1, Members

-----------------------------------------------------------------------------
(***************************************************************************)
(* The operations on the bundle                                            *)
(***************************************************************************)
(* t differs from s in the lists only.                                     *)
OnlyLists(s, t) ==
  /\ t.perfd = s.perfd /\ t.next = s.next /\ t.handles_ = s.handles_
  /\ t.edge = s.edge /\ t.fate = s.fate /\ t.fault = s.fault

LEMMA Relisted ==
  ASSUME NEW s, Shape(s), NEW L,
         L = [l \in ListNames |-> L[l]],
         \A l \in ListNames : L[l] \in Seq(Nat) /\ Once(L[l]),
         \A l \in ListNames : ToSet(L[l]) \subseteq DOMAIN s.perfd,
         \A l, m \in ListNames :
            l # m /\ HookOf(l) = HookOf(m) => ToSet(L[l]) \cap ToSet(L[m]) = {}
  PROVE  /\ Shape([s EXCEPT !.lists = L])
         /\ OnlyLists(s, [s EXCEPT !.lists = L])
         /\ [s EXCEPT !.lists = L].lists = L
<1> DEFINE t == [s EXCEPT !.lists = L]
<1>1. IsBundle(s)
  BY DEF Shape
<1>2. t = [perfd |-> s.perfd, next |-> s.next, lists |-> L, handles_ |-> s.handles_,
           edge |-> s.edge, fate |-> s.fate, fault |-> s.fault]
  BY <1>1 DEF IsBundle
<1> HIDE DEF t
<1>3. OnlyLists(s, t) /\ t.lists = L
  BY <1>2 DEF OnlyLists
<1>4. IsBundle(t)
  BY <1>2, <1>3 DEF IsBundle, OnlyLists
<1>5. TableShape(t)
  BY <1>3 DEF OnlyLists, Shape, TableShape
<1>6. ListShape(t)
  <2>1. L \in [ListNames -> Seq(Nat)]
    OBVIOUS
  <2> QED BY <1>3, <2>1 DEF OnlyLists, ListShape, Mem
<1> QED BY <1>3, <1>4, <1>5, <1>6 DEF Shape, t

LEMMA ListFacts ==
  ASSUME NEW s, Shape(s)
  PROVE  /\ \A l \in ListNames : s.lists[l] \in Seq(Nat) /\ Once(s.lists[l])
         /\ \A l \in ListNames : Mem(s, l) \subseteq DOMAIN s.perfd
         /\ \A l, m \in ListNames :
               l # m /\ HookOf(l) = HookOf(m) => Mem(s, l) \cap Mem(s, m) = {}
         /\ \A h \in DOMAIN s.perfd : h \in Nat /\ h # 0
<1>1. s.lists \in [ListNames -> Seq(Nat)]
  BY DEF Shape, ListShape
<1>2. \A h \in DOMAIN s.perfd : h \in Nat /\ 0 < h
  BY DEF Shape, TableShape
<1>3. \A h \in DOMAIN s.perfd : h # 0
  BY <1>2
<1> QED BY <1>1, <1>2, <1>3 DEF Shape, ListShape

LEMMA EraseIs ==
  ASSUME NEW s, Shape(s), NEW h, NEW hook \in {ActiveIdle, Shared}
  PROVE  /\ Shape(Erase(s, h, hook))
         /\ OnlyLists(s, Erase(s, h, hook))
         /\ \A l \in ListNames : \A x :
               x \in Mem(Erase(s, h, hook), l)
                 <=> x \in Mem(s, l) /\ ~(l \in hook /\ x = h)
<1> DEFINE L == [l \in ListNames |-> IF l \in hook THEN RemoveFirst(s.lists[l], h)
                                     ELSE s.lists[l]]
<1>1. Erase(s, h, hook) = [s EXCEPT !.lists = L]
  BY DEF Erase
<1>2. \A l \in ListNames : s.lists[l] \in Seq(Nat) /\ Once(s.lists[l])
  BY ListFacts
<1>3. \A l \in ListNames : L[l] = IF l \in hook THEN RemoveFirst(s.lists[l], h)
                                  ELSE s.lists[l]
  OBVIOUS
<1>4. L = [l \in ListNames |-> L[l]]
  OBVIOUS
<1> HIDE DEF L
<1>5. ASSUME NEW l \in ListNames
      PROVE  /\ L[l] \in Seq(Nat) /\ Once(L[l])
             /\ \A x : x \in ToSet(L[l]) <=> x \in ToSet(s.lists[l]) /\ ~(l \in hook /\ x = h)
  <2>1. CASE l \in hook
    BY <1>2, <1>3, <2>1, Removed
  <2>2. CASE l \notin hook
    BY <1>2, <1>3, <2>2
  <2> QED BY <2>1, <2>2
<1>6. \A l \in ListNames : ToSet(L[l]) \subseteq ToSet(s.lists[l])
  BY <1>5
<1>7. /\ \A l \in ListNames : ToSet(L[l]) \subseteq DOMAIN s.perfd
      /\ \A l, m \in ListNames :
            l # m /\ HookOf(l) = HookOf(m) => ToSet(L[l]) \cap ToSet(L[m]) = {}
  <2>1. /\ \A l \in ListNames : ToSet(s.lists[l]) \subseteq DOMAIN s.perfd
        /\ \A l, m \in ListNames :
             l # m /\ HookOf(l) = HookOf(m) => ToSet(s.lists[l]) \cap ToSet(s.lists[m]) = {}
    BY ListFacts DEF Mem
  <2>2. \A l \in ListNames : ToSet(L[l]) \subseteq DOMAIN s.perfd
    BY <1>6, <2>1
  <2>3. ASSUME NEW l \in ListNames, NEW m \in ListNames, l # m, HookOf(l) = HookOf(m)
        PROVE  ToSet(L[l]) \cap ToSet(L[m]) = {}
    <3>1. ToSet(s.lists[l]) \cap ToSet(s.lists[m]) = {}
      BY <2>1, <2>3
    <3> QED BY <1>6, <3>1
  <2> QED BY <2>2, <2>3
<1>8. /\ Shape([s EXCEPT !.lists = L]) /\ OnlyLists(s, [s EXCEPT !.lists = L])
      /\ [s EXCEPT !.lists = L].lists = L
  BY <1>4, <1>5, <1>7, Relisted
<1> QED BY <1>1, <1>5, <1>8 DEF Mem

LEMMA PushBackIs ==
  ASSUME NEW s, Shape(s), NEW h \in DOMAIN s.perfd, NEW l \in ListNames,
         \A m \in HookOf(l) : h \notin Mem(s, m)
  PROVE  /\ Shape(PushBack(s, h, l))
         /\ OnlyLists(s, PushBack(s, h, l))
         /\ \A m \in ListNames : \A x :
               x \in Mem(PushBack(s, h, l), m) <=> x \in Mem(s, m) \/ (m = l /\ x = h)
<1> DEFINE L == [s.lists EXCEPT ![l] = Append(@, h)]
<1>1. PushBack(s, h, l) = [s EXCEPT !.lists = L]
  <2>1. ~IsLinked(s, h, HookOf(l))
    BY DEF IsLinked, Mem
  <2>2. PushBack(s, h, l) = [s EXCEPT !.lists[l] = Append(@, h)]
    BY <2>1 DEF PushBack
  <2> QED BY <2>2
<1>2. /\ \A m \in ListNames : s.lists[m] \in Seq(Nat) /\ Once(s.lists[m])
      /\ h \in Nat
  BY ListFacts
<1>3. /\ L = [m \in ListNames |-> L[m]]
      /\ \A m \in ListNames : L[m] = IF m = l THEN Append(s.lists[m], h) ELSE s.lists[m]
  BY DEF Shape, ListShape
<1>4. l \in HookOf(l) /\ \A m \in ListNames : HookOf(m) = HookOf(l) => m \in HookOf(l)
  BY DEF HookOf, ListNames, ActiveIdle, Shared
<1> HIDE DEF L
<1>5. ASSUME NEW m \in ListNames
      PROVE  /\ L[m] \in Seq(Nat) /\ Once(L[m])
             /\ \A x : x \in ToSet(L[m]) <=> x \in ToSet(s.lists[m]) \/ (m = l /\ x = h)
  <2>1. CASE m = l
    <3>1. s.lists[l] \in Seq(Nat) /\ Once(s.lists[l]) /\ h \notin ToSet(s.lists[l])
      BY <1>2, <1>4 DEF Mem
    <3>2. L[m] = Append(s.lists[l], h)
      BY <1>3, <2>1
    <3> QED BY <1>2, <2>1, <3>1, <3>2, AppendMember
  <2>2. CASE m # l
    BY <1>2, <1>3, <2>2
  <2> QED BY <2>1, <2>2
<1>6. /\ \A m \in ListNames : ToSet(L[m]) \subseteq DOMAIN s.perfd
      /\ \A m, n \in ListNames :
            m # n /\ HookOf(m) = HookOf(n) => ToSet(L[m]) \cap ToSet(L[n]) = {}
  <2>1. /\ \A m \in ListNames : ToSet(s.lists[m]) \subseteq DOMAIN s.perfd
        /\ \A m, n \in ListNames :
             m # n /\ HookOf(m) = HookOf(n) => ToSet(s.lists[m]) \cap ToSet(s.lists[n]) = {}
    BY ListFacts DEF Mem
  <2>2. \A m \in ListNames : ToSet(L[m]) \subseteq DOMAIN s.perfd
    BY <1>5, <2>1
  <2>3. ASSUME NEW m \in ListNames, NEW n \in ListNames, m # n, HookOf(m) = HookOf(n)
        PROVE  ToSet(L[m]) \cap ToSet(L[n]) = {}
    <3>1. ToSet(s.lists[m]) \cap ToSet(s.lists[n]) = {}
      BY <2>1, <2>3
    <3>2. m = l => h \notin ToSet(s.lists[n])
      BY <1>4, <2>3 DEF Mem
    <3>3. n = l => h \notin ToSet(s.lists[m])
      BY <1>4, <2>3 DEF Mem
    <3> QED BY <1>5, <2>3, <3>1, <3>2, <3>3
  <2> QED BY <2>2, <2>3
<1>7. /\ Shape([s EXCEPT !.lists = L]) /\ OnlyLists(s, [s EXCEPT !.lists = L])
      /\ [s EXCEPT !.lists = L].lists = L
  BY <1>3, <1>5, <1>6, Relisted
<1> QED BY <1>1, <1>5, <1>7 DEF Mem

(* t differs from s in the lists and in the flags of h only.               *)
SameTable(s, t) ==
  /\ t.next = s.next /\ t.handles_ = s.handles_ /\ t.edge = s.edge
  /\ t.fate = s.fate /\ DOMAIN t.perfd = DOMAIN s.perfd

SameMem(s, t) == \A l \in ListNames : \A x : x \in Mem(t, l) <=> x \in Mem(s, l)

OnlyPerFd(s, t, h) ==
  /\ SameTable(s, t)
  /\ \A g \in DOMAIN s.perfd : g # h => t.perfd[g] = s.perfd[g]
  /\ t.perfd[h].fd = s.perfd[h].fd

(* Setting the flags of one PerFd.                                         *)
LEMMA SetPerFd ==
  ASSUME NEW s, Shape(s), NEW h \in DOMAIN s.perfd, NEW p \in PerFds,
         p.fd = s.perfd[h].fd
  PROVE  /\ Shape([s EXCEPT !.perfd[h] = p])
         /\ OnlyPerFd(s, [s EXCEPT !.perfd[h] = p], h)
         /\ [s EXCEPT !.perfd[h] = p].perfd[h] = p
         /\ SameMem(s, [s EXCEPT !.perfd[h] = p])
<1> DEFINE t == [s EXCEPT !.perfd[h] = p]
           P == [s.perfd EXCEPT ![h] = p]
<1>1. IsBundle(s)
  BY DEF Shape
<1>2. t = [perfd |-> P, next |-> s.next, lists |-> s.lists, handles_ |-> s.handles_,
           edge |-> s.edge, fate |-> s.fate, fault |-> s.fault]
  BY <1>1 DEF IsBundle
<1>3. /\ DOMAIN P = DOMAIN s.perfd /\ P[h] = p
      /\ \A g \in DOMAIN s.perfd : g # h => P[g] = s.perfd[g]
      /\ P \in [DOMAIN s.perfd -> PerFds]
  BY DEF Shape, TableShape
<1> HIDE DEF t, P
<1>4. /\ t.perfd = P /\ t.next = s.next /\ t.lists = s.lists
      /\ t.handles_ = s.handles_ /\ t.edge = s.edge /\ t.fate = s.fate
      /\ t.fault = s.fault
  BY <1>2
<1>5. IsBundle(t)
  BY <1>2, <1>4 DEF IsBundle
<1>6. TableShape(t)
  BY <1>3, <1>4 DEF Shape, TableShape
<1>7. ListShape(t)
  BY <1>3, <1>4 DEF Shape, ListShape, Mem
<1>8. OnlyPerFd(s, t, h) /\ t.perfd[h] = p
  BY <1>3, <1>4 DEF OnlyPerFd, SameTable
<1>9. SameMem(s, t)
  BY <1>4 DEF SameMem, Mem
<1> QED BY <1>5, <1>6, <1>7, <1>8, <1>9 DEF Shape, t

LEMMA PerFdFacts ==
  ASSUME NEW s, Shape(s), NEW h \in DOMAIN s.perfd
  PROVE  /\ s.perfd[h] \in PerFds
         /\ s.perfd[h].fd \in Fds /\ s.perfd[h].wants \subseteq Dirs
         /\ s.perfd[h].squelch \subseteq Dirs /\ s.perfd[h].muted \subseteq Dirs
         /\ s.perfd[h].fns \in 0..MaxFns
         /\ Owner(s, h) \in Handlers
<1>1. s.perfd[h] \in PerFds
  BY DEF Shape, TableShape
<1> QED BY <1>1, SiloAssumption DEF PerFds, Owner

(* t is like s as far as g is concerned.                                   *)
Same(s, t, g) ==
  /\ t.perfd[g] = s.perfd[g]
  /\ \A l \in ListNames : g \in Mem(t, l) <=> g \in Mem(s, l)
  /\ g \in t.edge <=> g \in s.edge

(* Only h has changed from s to t.                                         *)
Touches(s, t, h) ==
  /\ SameTable(s, t)
  /\ t.perfd[h].fd = s.perfd[h].fd
  /\ \A g \in DOMAIN s.perfd : g # h => Same(s, t, g)

LEMMA TouchesTrans ==
  ASSUME NEW s, NEW t, NEW u, NEW h, Touches(s, t, h), Touches(t, u, h)
  PROVE  Touches(s, u, h)
BY DEF Touches, Same, SameTable

LEMMA ListTouches ==
  ASSUME NEW s, NEW t, NEW h, OnlyLists(s, t),
         \A l \in ListNames : \A x : x # h => (x \in Mem(t, l) <=> x \in Mem(s, l))
  PROVE  Touches(s, t, h)
BY DEF Touches, Same, SameTable, OnlyLists

LEMMA FlagTouches ==
  ASSUME NEW s, NEW t, NEW h, OnlyPerFd(s, t, h), SameMem(s, t)
  PROVE  Touches(s, t, h)
BY DEF Touches, Same, SameTable, OnlyPerFd, SameMem

(* The fields of h.                                                        *)
Flags(s, h, w, q, m, n) ==
  /\ s.perfd[h].wants = w /\ s.perfd[h].squelch = q
  /\ s.perfd[h].muted = m /\ s.perfd[h].fns = n

LEMMA SetFlags ==
  ASSUME NEW s, Shape(s), NEW h \in DOMAIN s.perfd, NEW p \in PerFds,
         p.fd = s.perfd[h].fd
  PROVE  /\ Shape([s EXCEPT !.perfd[h] = p])
         /\ Touches(s, [s EXCEPT !.perfd[h] = p], h)
         /\ SameMem(s, [s EXCEPT !.perfd[h] = p])
         /\ Flags([s EXCEPT !.perfd[h] = p], h, p.wants, p.squelch, p.muted, p.fns)
<1> DEFINE u == [s EXCEPT !.perfd[h] = p]
<1>1. Shape(u) /\ OnlyPerFd(s, u, h) /\ u.perfd[h] = p /\ SameMem(s, u)
  BY SetPerFd
<1> HIDE DEF u
<1>2. Touches(s, u, h)
  BY <1>1, FlagTouches
<1> QED BY <1>1, <1>2 DEF Flags, u

LEMMA ExpungeIs ==
  ASSUME NEW s, Shape(s), NEW h \in DOMAIN s.perfd
  PROVE  /\ Shape(Expunge(s, h)) /\ Touches(s, Expunge(s, h), h)
         /\ \A l \in ListNames : h \notin Mem(Expunge(s, h), l)
         /\ Flags(Expunge(s, h), h, {}, s.perfd[h].squelch, s.perfd[h].muted,
                  s.perfd[h].fns)
<1> DEFINE p == s.perfd[h]
           s1 == [s EXCEPT !.perfd[h].wants = {}]
           s2 == Erase(s1, h, ActiveIdle)
           s3 == Erase(s2, h, Shared)
<1>1. Expunge(s, h) = s3
  BY DEF Expunge
<1>2. s1 = [s EXCEPT !.perfd[h] = [p EXCEPT !.wants = {}]]
  OBVIOUS
<1> HIDE DEF s1
<1>3. /\ Shape(s1) /\ Touches(s, s1, h)
      /\ Flags(s1, h, {}, p.squelch, p.muted, p.fns)
  <2> DEFINE r == [p EXCEPT !.wants = {}]
  <2>1. /\ r \in PerFds /\ r.fd = p.fd /\ r.fns = p.fns
        /\ r.wants = {} /\ r.squelch = p.squelch /\ r.muted = p.muted
    <3>1. p \in PerFds
      BY PerFdFacts
    <3> HIDE DEF p
    <3> QED BY <3>1 DEF PerFds
  <2>2. s1 = [s EXCEPT !.perfd[h] = r]
    BY <1>2
  <2> HIDE DEF r
  <2> QED BY <2>1, <2>2, SetFlags
<1> HIDE DEF p, s2
<1>4. /\ Shape(s2) /\ OnlyLists(s1, s2)
      /\ \A l \in ListNames : \A x : x \in Mem(s2, l) <=> x \in Mem(s1, l)
                                        /\ ~(l \in ActiveIdle /\ x = h)
  BY <1>3, EraseIs DEF s2
<1> HIDE DEF s3
<1>5. /\ Shape(s3) /\ OnlyLists(s2, s3)
      /\ \A l \in ListNames : \A x : x \in Mem(s3, l) <=> x \in Mem(s2, l)
                                        /\ ~(l \in Shared /\ x = h)
  BY <1>4, EraseIs DEF s3
<1>6. Touches(s1, s2, h) /\ Touches(s2, s3, h)
  BY <1>4, <1>5, ListTouches
<1>7. Touches(s, s3, h)
  BY <1>3, <1>6, TouchesTrans
<1>8. Flags(s3, h, {}, p.squelch, p.muted, p.fns)
  BY <1>3, <1>4, <1>5 DEF Flags, OnlyLists
<1>9. \A l \in ListNames : h \notin Mem(s3, l)
  BY <1>4, <1>5 DEF ListNames
<1> QED BY <1>1, <1>5, <1>7, <1>8, <1>9 DEF p

(* Expunged and put in one list.                                           *)
LEMMA SentIs ==
  ASSUME NEW s, Shape(s), NEW h \in DOMAIN s.perfd, NEW l \in ListNames
  PROVE  /\ Shape(PushBack(Expunge(s, h), h, l))
         /\ Touches(s, PushBack(Expunge(s, h), h, l), h)
         /\ \A m \in ListNames : h \in Mem(PushBack(Expunge(s, h), h, l), m) <=> m = l
         /\ Flags(PushBack(Expunge(s, h), h, l), h, {}, s.perfd[h].squelch,
                  s.perfd[h].muted, s.perfd[h].fns)
<1> DEFINE e == Expunge(s, h)
           t == PushBack(e, h, l)
<1>1. /\ Shape(e) /\ Touches(s, e, h) /\ \A m \in ListNames : h \notin Mem(e, m)
      /\ Flags(e, h, {}, s.perfd[h].squelch, s.perfd[h].muted, s.perfd[h].fns)
  BY ExpungeIs
<1> HIDE DEF e
<1>2. h \in DOMAIN e.perfd
  BY <1>1 DEF Touches, SameTable
<1>3. \A m \in HookOf(l) : h \notin Mem(e, m)
  BY <1>1 DEF HookOf, ListNames
<1> HIDE DEF t
<1>4. /\ Shape(t) /\ OnlyLists(e, t)
      /\ \A m \in ListNames : \A x : x \in Mem(t, m) <=> x \in Mem(e, m) \/ (m = l /\ x = h)
  BY <1>1, <1>2, <1>3, PushBackIs DEF t
<1>5. Touches(e, t, h)
  BY <1>4, ListTouches
<1>6. Touches(s, t, h)
  BY <1>1, <1>5, TouchesTrans
<1>7. Flags(t, h, {}, s.perfd[h].squelch, s.perfd[h].muted, s.perfd[h].fns)
  BY <1>1, <1>4 DEF Flags, OnlyLists
<1> QED BY <1>1, <1>4, <1>6, <1>7 DEF t, e

(* Taken out of the lists of the first hook and put in active_.            *)
LEMMA RelinkIs ==
  ASSUME NEW s, Shape(s), NEW h \in DOMAIN s.perfd, NEW t,
         t = PushBack(Erase(s, h, ActiveIdle), h, "active_")
  PROVE  /\ Shape(t) /\ Touches(s, t, h) /\ t.perfd = s.perfd
         /\ \A m \in ActiveIdle : h \in Mem(t, m) <=> m = "active_"
         /\ \A m \in Shared : h \in Mem(t, m) <=> h \in Mem(s, m)
<1> DEFINE e == Erase(s, h, ActiveIdle)
<1>1. /\ Shape(e) /\ OnlyLists(s, e)
      /\ \A l \in ListNames : \A x : x \in Mem(e, l) <=> x \in Mem(s, l)
                                        /\ ~(l \in ActiveIdle /\ x = h)
  BY EraseIs
<1>2. t = PushBack(e, h, "active_")
  OBVIOUS
<1> HIDE DEF e
<1>3. h \in DOMAIN e.perfd
  BY <1>1 DEF OnlyLists
<1>4. "active_" \in ListNames /\ HookOf("active_") = ActiveIdle
  BY DEF ListNames, HookOf, ActiveIdle
<1>5. \A m \in HookOf("active_") : h \notin Mem(e, m)
  BY <1>1, <1>4 DEF ListNames
<1>6. /\ Shape(t) /\ OnlyLists(e, t)
      /\ \A m \in ListNames : \A x :
            x \in Mem(t, m) <=> x \in Mem(e, m) \/ (m = "active_" /\ x = h)
  BY <1>1, <1>2, <1>3, <1>4, <1>5, PushBackIs
<1>7. Touches(s, e, h) /\ Touches(e, t, h)
  BY <1>1, <1>6, ListTouches
<1>8. Touches(s, t, h)
  BY <1>7, TouchesTrans
<1>9. t.perfd = s.perfd
  BY <1>1, <1>6 DEF OnlyLists
<1>10. \A m \in ActiveIdle : h \in Mem(t, m) <=> m = "active_"
  BY <1>1, <1>6 DEF ListNames
<1>11. \A m \in Shared : h \in Mem(t, m) <=> h \in Mem(s, m)
  BY <1>1, <1>6 DEF ListNames, ActiveIdle, Shared
<1> QED BY <1>6, <1>8, <1>9, <1>10, <1>11

LEMMA RequestIs ==
  ASSUME NEW s, Shape(s), NEW h \in DOMAIN s.perfd, NEW d \in Dirs
  PROVE  /\ Shape(Request(s, h, d)) /\ Touches(s, Request(s, h, d), h)
         /\ Flags(Request(s, h, d), h, s.perfd[h].wants \cup {d},
                  s.perfd[h].squelch \ {d}, s.perfd[h].muted \ {d}, s.perfd[h].fns)
         /\ \A m \in ActiveIdle : h \in Mem(Request(s, h, d), m) <=> m = "active_"
         /\ \A m \in Shared : h \in Mem(Request(s, h, d), m) <=> h \in Mem(s, m)
<1> DEFINE p == s.perfd[h]
           q == Requested(p, d)
           e == [s EXCEPT !.perfd[h] = q]
           t == Request(s, h, d)
<1>1. p \in PerFds /\ p.wants \subseteq Dirs /\ p.squelch \subseteq Dirs
      /\ p.muted \subseteq Dirs /\ p.fns \in 0..MaxFns
  BY PerFdFacts
<1>2. t = PushBack(Erase(e, h, ActiveIdle), h, "active_")
  BY DEF Request
<1> HIDE DEF t
<1>3. /\ Shape(e) /\ Touches(s, e, h) /\ SameMem(s, e)
      /\ Flags(e, h, p.wants \cup {d}, p.squelch \ {d}, p.muted \ {d}, p.fns)
  <2>1. /\ p.wants \cup {d} \in SUBSET Dirs /\ p.squelch \ {d} \in SUBSET Dirs
        /\ p.muted \ {d} \in SUBSET Dirs
    BY <1>1
  <2>2. /\ q \in PerFds /\ q.fd = p.fd /\ q.fns = p.fns
        /\ q.wants = p.wants \cup {d} /\ q.squelch = p.squelch \ {d}
        /\ q.muted = p.muted \ {d}
    <3> HIDE DEF p
    <3> QED BY <1>1, <2>1 DEF PerFds, Requested
  <2> HIDE DEF q
  <2>3. /\ Shape(e) /\ Touches(s, e, h) /\ SameMem(s, e)
        /\ Flags(e, h, q.wants, q.squelch, q.muted, q.fns)
    BY <2>2, SetFlags
  <2> HIDE DEF e
  <2> QED BY <2>2, <2>3
<1> HIDE DEF e
<1>4. h \in DOMAIN e.perfd
  BY <1>3 DEF Touches, SameTable
<1>5. /\ Shape(t) /\ Touches(e, t, h) /\ t.perfd = e.perfd
      /\ \A m \in ActiveIdle : h \in Mem(t, m) <=> m = "active_"
      /\ \A m \in Shared : h \in Mem(t, m) <=> h \in Mem(e, m)
  BY <1>2, <1>3, <1>4, RelinkIs
<1>6. Touches(s, t, h)
  BY <1>3, <1>5, TouchesTrans
<1>7. Flags(t, h, p.wants \cup {d}, p.squelch \ {d}, p.muted \ {d}, p.fns)
  BY <1>3, <1>5 DEF Flags
<1>8. \A m \in Shared : h \in Mem(t, m) <=> h \in Mem(s, m)
  BY <1>3, <1>5 DEF SameMem, ListNames
<1> QED BY <1>5, <1>6, <1>7, <1>8 DEF t

LEMMA RunIs ==
  ASSUME NEW s, Shape(s), NEW h \in DOMAIN s.perfd, s.perfd[h].fns < MaxFns
  PROVE  /\ Shape(Run(s, h)) /\ Touches(s, Run(s, h), h)
         /\ Flags(Run(s, h), h, s.perfd[h].wants, s.perfd[h].squelch, s.perfd[h].muted,
                  s.perfd[h].fns + 1)
         /\ \A m \in ListNames : h \in Mem(Run(s, h), m) <=>
               h \in Mem(s, m) \/ (m = "runners_" /\ \A l \in Shared : h \notin Mem(s, l))
<1> DEFINE p == s.perfd[h]
           q == [p EXCEPT !.fns = @ + 1]
           e == [s EXCEPT !.perfd[h] = q]
           t == Run(s, h)
<1>1. p \in PerFds /\ p.fns \in 0..MaxFns
  BY PerFdFacts
<1>2. t = IF IsLinked(e, h, Shared) THEN e ELSE PushBack(e, h, "runners_")
  BY DEF Run
<1> HIDE DEF t
<1>3. /\ Shape(e) /\ Touches(s, e, h) /\ SameMem(s, e)
      /\ Flags(e, h, p.wants, p.squelch, p.muted, p.fns + 1)
  <2>1. p.fns + 1 \in 0..MaxFns
    BY <1>1, SiloAssumption
  <2>2. /\ q \in PerFds /\ q.fd = p.fd /\ q.fns = p.fns + 1
        /\ q.wants = p.wants /\ q.squelch = p.squelch /\ q.muted = p.muted
    <3> HIDE DEF p
    <3> QED BY <1>1, <2>1 DEF PerFds
  <2> HIDE DEF q
  <2>3. /\ Shape(e) /\ Touches(s, e, h) /\ SameMem(s, e)
        /\ Flags(e, h, q.wants, q.squelch, q.muted, q.fns)
    BY <2>2, SetFlags
  <2> HIDE DEF e
  <2> QED BY <2>2, <2>3
<1> HIDE DEF e
<1>4. h \in DOMAIN e.perfd
  BY <1>3 DEF Touches, SameTable
<1>5. /\ "runners_" \in ListNames /\ HookOf("runners_") = Shared
      /\ Shared \subseteq ListNames
  BY DEF ListNames, HookOf, ActiveIdle, Shared
<1>6. IsLinked(e, h, Shared) <=> \E l \in Shared : h \in Mem(s, l)
  BY <1>3, <1>5 DEF IsLinked, SameMem, Mem
<1>7. CASE IsLinked(e, h, Shared)
  <2>1. t = e
    BY <1>2, <1>7
  <2>2. \A m \in ListNames : h \in Mem(t, m) <=> h \in Mem(s, m)
    BY <1>3, <2>1 DEF SameMem
  <2> QED BY <1>3, <1>6, <1>7, <2>1, <2>2 DEF t
<1>8. CASE ~IsLinked(e, h, Shared)
  <2>1. t = PushBack(e, h, "runners_")
    BY <1>2, <1>8
  <2>2. \A m \in HookOf("runners_") : h \notin Mem(e, m)
    BY <1>3, <1>5, <1>6, <1>8 DEF SameMem
  <2>3. /\ Shape(t) /\ OnlyLists(e, t)
        /\ \A m \in ListNames : \A x :
              x \in Mem(t, m) <=> x \in Mem(e, m) \/ (m = "runners_" /\ x = h)
    BY <1>3, <1>4, <1>5, <2>1, <2>2, PushBackIs
  <2>4. Touches(e, t, h)
    BY <2>3, ListTouches
  <2>5. Touches(s, t, h)
    BY <1>3, <2>4, TouchesTrans
  <2>6. Flags(t, h, p.wants, p.squelch, p.muted, p.fns + 1)
    BY <1>3, <2>3 DEF Flags, OnlyLists
  <2>7. \A m \in ListNames : h \in Mem(t, m) <=>
               h \in Mem(s, m) \/ (m = "runners_" /\ \A l \in Shared : h \notin Mem(s, l))
    BY <1>3, <1>6, <1>8, <2>3 DEF SameMem
  <2> QED BY <2>3, <2>5, <2>6, <2>7 DEF t
<1> QED BY <1>7, <1>8

(* Eject of a descriptor that is in no list of the first hook.             *)
LEMMA EjectIs ==
  ASSUME NEW s, Shape(s), NEW h \in DOMAIN s.perfd,
         \A l \in ActiveIdle : h \notin Mem(s, l)
  PROVE  Eject(s, h) = PushBack(Expunge(s, h), h, "ejects_")
<1>1. ~IsLinked(s, h, ActiveIdle)
  BY DEF IsLinked, Mem
<1> QED BY <1>1 DEF Eject

(* Eject of a descriptor that is in one changes nothing.                   *)
LEMMA EjectLinked ==
  ASSUME NEW s, NEW h \in DOMAIN s.perfd, NEW l \in ActiveIdle, h \in Mem(s, l)
  PROVE  Eject(s, h) = s
<1>1. IsLinked(s, h, ActiveIdle)
  BY DEF IsLinked, Mem
<1> QED BY <1>1 DEF Eject

LEMMA SettleIs ==
  ASSUME NEW s, Shape(s), NEW h \in DOMAIN s.perfd, NEW d \in Dirs,
         NEW o \in Outcomes, o # "kClose"
  PROVE  /\ Shape(Settle(s, h, d, o)) /\ Touches(s, Settle(s, h, d, o), h)
         /\ SameMem(s, Settle(s, h, d, o))
         /\ Flags(Settle(s, h, d, o), h,
                  IF o = "kYield" THEN s.perfd[h].wants \cup {d} ELSE s.perfd[h].wants,
                  IF o = "kSuspend" THEN s.perfd[h].squelch \cup {d}
                                    ELSE s.perfd[h].squelch,
                  IF o = "kSuspend" THEN s.perfd[h].muted \cup {d}
                                    ELSE s.perfd[h].muted \ {d},
                  s.perfd[h].fns)
<1> DEFINE p == s.perfd[h]
           q == Settled(p, d, o)
           e == [s EXCEPT !.perfd[h] = q]
           W == IF o = "kYield" THEN p.wants \cup {d} ELSE p.wants
           Q == IF o = "kSuspend" THEN p.squelch \cup {d} ELSE p.squelch
           M == IF o = "kSuspend" THEN p.muted \cup {d} ELSE p.muted \ {d}
<1>1. p \in PerFds /\ p.wants \subseteq Dirs /\ p.squelch \subseteq Dirs
      /\ p.muted \subseteq Dirs /\ p.fns \in 0..MaxFns
  BY PerFdFacts
<1>2. Settle(s, h, d, o) = e
  BY DEF Settle
<1>3. W \in SUBSET Dirs /\ Q \in SUBSET Dirs /\ M \in SUBSET Dirs
  <2> HIDE DEF p
  <2> QED BY <1>1
<1>4. /\ q \in PerFds /\ q.fd = p.fd /\ q.fns = p.fns
      /\ q.wants = W /\ q.squelch = Q /\ q.muted = M
  <2>1. q = [p EXCEPT !.wants = W, !.squelch = Q, !.muted = M]
    BY DEF Settled
  <2> HIDE DEF p, W, Q, M, q
  <2> QED BY <1>1, <1>3, <2>1 DEF PerFds
<1> HIDE DEF q
<1>5. /\ Shape(e) /\ Touches(s, e, h) /\ SameMem(s, e)
      /\ Flags(e, h, q.wants, q.squelch, q.muted, q.fns)
  BY <1>4, SetFlags
<1> HIDE DEF e, W, Q, M
<1>6. Flags(Settle(s, h, d, o), h, W, Q, M, p.fns)
  BY <1>2, <1>4, <1>5
<1> QED BY <1>2, <1>5, <1>6 DEF W, Q, M

(* Upcalls done, a descriptor in no list goes to active_ or idlers_.       *)
LEMMA PlaceIs ==
  ASSUME NEW s, Shape(s), NEW h \in DOMAIN s.perfd
  PROVE  /\ Shape(Place(s, h)) /\ Touches(s, Place(s, h), h)
         /\ Place(s, h).perfd = s.perfd
         /\ (\E l \in ListNames : h \in Mem(s, l)) =>
               \A m \in ListNames : h \in Mem(Place(s, h), m) <=> h \in Mem(s, m)
         /\ (\A l \in ListNames : h \notin Mem(s, l)) =>
               \A m \in ListNames : h \in Mem(Place(s, h), m) <=>
                 m = (IF s.perfd[h].wants # {} THEN "active_" ELSE "idlers_")
<1> DEFINE l == IF s.perfd[h].wants # {} THEN "active_" ELSE "idlers_"
           t == Place(s, h)
<1>1. l \in ListNames /\ HookOf(l) = ActiveIdle /\ ActiveIdle \subseteq ListNames
  BY DEF ListNames, HookOf, ActiveIdle
<1>2. IsLinked(s, h, Shared) \/ IsLinked(s, h, ActiveIdle)
        <=> \E m \in ListNames : h \in Mem(s, m)
  BY DEF IsLinked, Mem, ListNames
<1>3. CASE \E m \in ListNames : h \in Mem(s, m)
  <2>1. t = s
    BY <1>2, <1>3 DEF Place
  <2>2. Touches(s, s, h)
    BY DEF Touches, SameTable, Same
  <2> QED BY <1>3, <2>1, <2>2 DEF t
<1>4. CASE \A m \in ListNames : h \notin Mem(s, m)
  <2>1. t = PushBack(s, h, l)
    BY <1>2, <1>4 DEF Place
  <2> HIDE DEF l, t
  <2>2. \A m \in HookOf(l) : h \notin Mem(s, m)
    BY <1>1, <1>4
  <2>3. /\ Shape(t) /\ OnlyLists(s, t)
        /\ \A m \in ListNames : \A x : x \in Mem(t, m) <=> x \in Mem(s, m) \/ (m = l /\ x = h)
    BY <1>1, <2>1, <2>2, PushBackIs
  <2>4. Touches(s, t, h)
    BY <2>3, ListTouches
  <2>5. \A m \in ListNames : h \in Mem(t, m) <=> m = l
    BY <1>4, <2>3
  <2>6. t.perfd = s.perfd
    BY <2>3 DEF OnlyLists
  <2> QED BY <1>4, <2>3, <2>4, <2>5, <2>6 DEF t, l
<1> QED BY <1>3, <1>4

-----------------------------------------------------------------------------
(* A bundle given by its parts.                                            *)
LEMMA BundleOf ==
  ASSUME NEW t, NEW P, NEW N, NEW L, NEW H, NEW E, NEW F, NEW X,
         t = [perfd |-> P, next |-> N, lists |-> L, handles_ |-> H, edge |-> E,
              fate |-> F, fault |-> X]
  PROVE  /\ IsBundle(t) /\ t.perfd = P /\ t.next = N /\ t.lists = L /\ t.handles_ = H
         /\ t.edge = E /\ t.fate = F /\ t.fault = X
BY DEF IsBundle

(* Free: h is gone, and nothing else but the fate of its descriptor has    *)
(* changed.                                                                *)
LEMMA FreeIs ==
  ASSUME NEW s, Shape(s), NEW h \in DOMAIN s.perfd, NEW who \in Fates
  PROVE  /\ Shape(Free(s, h, who))
         /\ DOMAIN Free(s, h, who).perfd = DOMAIN s.perfd \ {h}
         /\ \A g \in DOMAIN s.perfd : g # h => Same(s, Free(s, h, who), g)
         /\ Free(s, h, who).next = s.next /\ Free(s, h, who).handles_ = s.handles_
         /\ \A f \in Fds : Free(s, h, who).fate[f]
                             = IF f = s.perfd[h].fd THEN who ELSE s.fate[f]
<1> DEFINE e == Expunge(s, h)
           D == DOMAIN s.perfd \ {h}
           P == [g \in D |-> s.perfd[g]]
           f0 == s.perfd[h].fd
           F == [e.fate EXCEPT ![f0] = who]
           u == Free(s, h, who)
<1>1. /\ Shape(e) /\ Touches(s, e, h) /\ \A l \in ListNames : h \notin Mem(e, l)
  BY ExpungeIs
<1>2. u = [e EXCEPT !.perfd = P, !.edge = @ \ {h}, !.fate[f0] = who]
  BY DEF Free
<1> HIDE DEF e, u
<1>3. IsBundle(e)
  BY <1>1 DEF Shape
<1>4. u = [perfd |-> P, next |-> e.next, lists |-> e.lists, handles_ |-> e.handles_,
           edge |-> e.edge \ {h}, fate |-> F, fault |-> e.fault]
  <2> DEFINE u1 == [e EXCEPT !.perfd = P]
             u2 == [u1 EXCEPT !.edge = e.edge \ {h}]
             u3 == [u2 EXCEPT !.fate = F]
  <2>1. u = u3
    BY <1>2, <1>3 DEF IsBundle
  <2>2. u1 = [perfd |-> P, next |-> e.next, lists |-> e.lists, handles_ |-> e.handles_,
              edge |-> e.edge, fate |-> e.fate, fault |-> e.fault]
    <3> HIDE DEF P
    <3> QED BY <1>3 DEF IsBundle
  <2> HIDE DEF u1, P
  <2>3. u2 = [perfd |-> P, next |-> e.next, lists |-> e.lists, handles_ |-> e.handles_,
              edge |-> e.edge \ {h}, fate |-> e.fate, fault |-> e.fault]
    BY <2>2
  <2> HIDE DEF u2, F
  <2>4. u3 = [perfd |-> P, next |-> e.next, lists |-> e.lists, handles_ |-> e.handles_,
              edge |-> e.edge \ {h}, fate |-> F, fault |-> e.fault]
    BY <2>3
  <2> QED BY <2>1, <2>4
<1>5. /\ IsBundle(u) /\ u.perfd = P /\ u.next = e.next /\ u.lists = e.lists
      /\ u.handles_ = e.handles_ /\ u.edge = e.edge \ {h} /\ u.fate = F
      /\ u.fault = e.fault
  <2> HIDE DEF P, F
  <2> QED BY <1>4, BundleOf
<1>6. /\ e.next = s.next /\ e.handles_ = s.handles_ /\ e.edge = s.edge
      /\ e.fate = s.fate /\ DOMAIN e.perfd = DOMAIN s.perfd
  BY <1>1 DEF Touches, SameTable
<1>7. f0 \in Fds /\ s.fate \in [Fds -> Fates]
  BY PerFdFacts DEF Shape, TableShape
<1>8. /\ F \in [Fds -> Fates]
      /\ \A f \in Fds : F[f] = IF f = f0 THEN who ELSE s.fate[f]
  <2> HIDE DEF f0
  <2> QED BY <1>6, <1>7
<1>9. P \in [D -> PerFds] /\ \A g \in D : P[g] = s.perfd[g]
  BY PerFdFacts
<1> HIDE DEF P, F, f0
<1>10. DOMAIN P = D
  BY <1>9
<1>11. TableShape(u)
  BY <1>1, <1>5, <1>6, <1>8, <1>9, <1>10 DEF Shape, TableShape
<1>12. \A l \in ListNames : Mem(u, l) = Mem(e, l)
  BY <1>5 DEF Mem
<1>13. ListShape(u)
  BY <1>1, <1>5, <1>6, <1>10, <1>12 DEF Shape, ListShape
<1>14. ASSUME NEW g \in DOMAIN s.perfd, g # h PROVE Same(s, u, g)
  <2>1. Same(s, e, g)
    BY <1>1, <1>14 DEF Touches
  <2>2. u.perfd[g] = s.perfd[g]
    BY <1>5, <1>9, <1>14
  <2>3. g \in u.edge <=> g \in e.edge
    BY <1>5, <1>14
  <2> QED BY <1>12, <2>1, <2>2, <2>3 DEF Same
<1>15. Shape(u)
  BY <1>5, <1>11, <1>13 DEF Shape
<1> QED BY <1>5, <1>6, <1>8, <1>10, <1>14, <1>15 DEF u, f0

(* Replacing what handles_ has for one handler.                            *)
LEMMA HandlesSet ==
  ASSUME NEW s, Shape(s), NEW k \in Handlers, NEW q \in Seq(Nat)
  PROVE  /\ Shape([s EXCEPT !.handles_[k] = q])
         /\ [s EXCEPT !.handles_[k] = q].perfd = s.perfd
         /\ [s EXCEPT !.handles_[k] = q].lists = s.lists
         /\ [s EXCEPT !.handles_[k] = q].edge = s.edge
         /\ [s EXCEPT !.handles_[k] = q].fate = s.fate
         /\ [s EXCEPT !.handles_[k] = q].next = s.next
         /\ \A j \in Handlers : [s EXCEPT !.handles_[k] = q].handles_[j]
                                  = IF j = k THEN q ELSE s.handles_[j]
<1> DEFINE t == [s EXCEPT !.handles_[k] = q]
           H == [s.handles_ EXCEPT ![k] = q]
<1>1. IsBundle(s) /\ s.handles_ \in [Handlers -> Seq(Nat)]
  BY DEF Shape, TableShape
<1>2. t = [perfd |-> s.perfd, next |-> s.next, lists |-> s.lists, handles_ |-> H,
           edge |-> s.edge, fate |-> s.fate, fault |-> s.fault]
  <2>1. t = [s EXCEPT !.handles_ = H]
    OBVIOUS
  <2> HIDE DEF t, H
  <2> QED BY <1>1, <2>1 DEF IsBundle
<1>3. /\ H \in [Handlers -> Seq(Nat)]
      /\ \A j \in Handlers : H[j] = IF j = k THEN q ELSE s.handles_[j]
  BY <1>1
<1> HIDE DEF t, H
<1>4. /\ IsBundle(t) /\ t.perfd = s.perfd /\ t.next = s.next /\ t.lists = s.lists
      /\ t.handles_ = H /\ t.edge = s.edge /\ t.fate = s.fate /\ t.fault = s.fault
  BY <1>2, BundleOf
<1>5. TableShape(t)
  BY <1>3, <1>4 DEF Shape, TableShape
<1>6. ListShape(t)
  BY <1>4 DEF Shape, ListShape, Mem
<1> QED BY <1>3, <1>4, <1>5, <1>6 DEF Shape, t

(* Same table and lists, except that handles and fates may differ.         *)
LEMMA Renamed ==
  ASSUME NEW s, Shape(s), NEW t, NEW N \in Nat, N >= s.next,
         NEW H \in [Handlers -> Seq(Nat)], NEW F \in [Fds -> Fates],
         t = [perfd |-> s.perfd, next |-> N, lists |-> s.lists, handles_ |-> H,
              edge |-> s.edge, fate |-> F, fault |-> s.fault]
  PROVE  /\ Shape(t) /\ t.perfd = s.perfd /\ t.handles_ = H /\ t.fate = F
         /\ \A g : Same(s, t, g)
<1>1. /\ IsBundle(t) /\ t.perfd = s.perfd /\ t.next = N /\ t.lists = s.lists
      /\ t.handles_ = H /\ t.edge = s.edge /\ t.fate = F /\ t.fault = s.fault
  BY BundleOf
<1>2. TableShape(t)
  <2>1. s.next \in Nat \ {0} /\ \A h \in DOMAIN s.perfd : h \in Nat /\ 0 < h /\ h < s.next
    BY DEF Shape, TableShape
  <2>2. N \in Nat \ {0} /\ \A h \in DOMAIN s.perfd : h \in Nat /\ 0 < h /\ h < N
    BY <2>1
  <2> QED BY <1>1, <2>2 DEF Shape, TableShape
<1>3. ListShape(t)
  BY <1>1 DEF Shape, ListShape, Mem
<1>4. \A g : Same(s, t, g)
  BY <1>1 DEF Same, Mem
<1> QED BY <1>1, <1>2, <1>3, <1>4 DEF Shape

(* Add that fails: the descriptor is closed, and the handle that was       *)
(* allocated for it, if any, stays in handles_.                            *)
LEMMA AddFails ==
  ASSUME NEW s, Shape(s), NEW f \in Fds,
         Cardinality(DOMAIN s.perfd) >= TableSize \/ f \in Unpollable
  PROVE  /\ Shape(AddFd(s, f)) /\ AddFd(s, f).perfd = s.perfd
         /\ \A g : Same(s, AddFd(s, f), g)
         /\ \A j \in Handlers : j # OwnerOf[f] => AddFd(s, f).handles_[j] = s.handles_[j]
         /\ \A g \in Fds : AddFd(s, f).fate[g] = IF g = f THEN "closed" ELSE s.fate[g]
<1> DEFINE t == AddFd(s, f)
           F == [s.fate EXCEPT ![f] = "closed"]
           k == OwnerOf[f]
           H == [s.handles_ EXCEPT ![k] = Append(@, s.next)]
<1>1. /\ IsBundle(s) /\ s.handles_ \in [Handlers -> Seq(Nat)]
      /\ s.fate \in [Fds -> Fates] /\ s.next \in Nat
  BY DEF Shape, TableShape
<1>2. k \in Handlers
  BY SiloAssumption
<1>3. /\ F \in [Fds -> Fates] /\ \A g \in Fds : F[g] = IF g = f THEN "closed" ELSE s.fate[g]
  BY <1>1 DEF Fates
<1>4. /\ H \in [Handlers -> Seq(Nat)]
      /\ \A j \in Handlers : j # k => H[j] = s.handles_[j]
  <2> HIDE DEF k
  <2>1. Append(s.handles_[k], s.next) \in Seq(Nat)
    BY <1>1, <1>2
  <2> QED BY <1>1, <1>2, <2>1
<1>5. CASE Cardinality(DOMAIN s.perfd) >= TableSize
  <2>1. t = [s EXCEPT !.fate = F]
    BY <1>5 DEF AddFd
  <2> HIDE DEF t, F
  <2>2. t = [perfd |-> s.perfd, next |-> s.next, lists |-> s.lists,
             handles_ |-> s.handles_, edge |-> s.edge, fate |-> F, fault |-> s.fault]
    BY <1>1, <2>1 DEF IsBundle
  <2>3. Shape(t) /\ t.perfd = s.perfd /\ t.handles_ = s.handles_ /\ t.fate = F
        /\ \A g : Same(s, t, g)
    BY <1>1, <1>3, <2>2, Renamed
  <2> QED BY <1>3, <2>3 DEF t
<1>6. CASE ~(Cardinality(DOMAIN s.perfd) >= TableSize) /\ f \in Unpollable
  <2> DEFINE t1 == [s EXCEPT !.fate = F]
             t2 == [t1 EXCEPT !.next = s.next + 1]
             t3 == [t2 EXCEPT !.handles_ = H]
  <2>1. t = t3
    BY <1>1, <1>6 DEF AddFd, IsBundle
  <2> HIDE DEF t, F, H
  <2>2. t1 = [perfd |-> s.perfd, next |-> s.next, lists |-> s.lists,
             handles_ |-> s.handles_, edge |-> s.edge, fate |-> F, fault |-> s.fault]
    BY <1>1 DEF IsBundle
  <2> HIDE DEF t1
  <2>3. t2 = [perfd |-> s.perfd, next |-> s.next + 1, lists |-> s.lists,
             handles_ |-> s.handles_, edge |-> s.edge, fate |-> F, fault |-> s.fault]
    BY <2>2
  <2> HIDE DEF t2
  <2>4. t3 = [perfd |-> s.perfd, next |-> s.next + 1, lists |-> s.lists,
             handles_ |-> H, edge |-> s.edge, fate |-> F, fault |-> s.fault]
    BY <2>3
  <2> HIDE DEF t3
  <2>5. s.next + 1 \in Nat /\ s.next + 1 >= s.next
    BY <1>1
  <2>6. Shape(t) /\ t.perfd = s.perfd /\ t.handles_ = H /\ t.fate = F
        /\ \A g : Same(s, t, g)
    BY <1>3, <1>4, <2>1, <2>4, <2>5, Renamed
  <2> QED BY <1>3, <1>4, <2>6 DEF t
<1> QED BY <1>5, <1>6

(* Add that succeeds: the new handle is idle, and epoll reports it if it   *)
(* is ready.                                                               *)
LEMMA AddIs ==
  ASSUME NEW s, Shape(s), NEW f \in Fds,
         ~(Cardinality(DOMAIN s.perfd) >= TableSize), f \notin Unpollable
  PROVE  /\ Shape(AddFd(s, f))
         /\ s.next \notin DOMAIN s.perfd
         /\ DOMAIN AddFd(s, f).perfd = DOMAIN s.perfd \cup {s.next}
         /\ \A g \in DOMAIN s.perfd : Same(s, AddFd(s, f), g)
         /\ AddFd(s, f).perfd[s.next].fd = f
         /\ Flags(AddFd(s, f), s.next, {}, {}, {}, 0)
         /\ \A l \in ListNames : s.next \in Mem(AddFd(s, f), l) <=> l = "idlers_"
         /\ s.next \in AddFd(s, f).edge <=> Ready(f) # {}
         /\ \A j \in Handlers : AddFd(s, f).handles_[j]
               = IF j = OwnerOf[f] THEN Append(s.handles_[j], s.next) ELSE s.handles_[j]
         /\ \A g \in Fds : AddFd(s, f).fate[g] = IF g = f THEN "silo" ELSE s.fate[g]
<1> DEFINE t == AddFd(s, f)
           n == s.next
           D == DOMAIN s.perfd
           new == [fd |-> f, wants |-> {}, squelch |-> {}, muted |-> {}, fns |-> 0]
           P == [g \in D \cup {n} |-> IF g = n THEN new ELSE s.perfd[g]]
           F == [s.fate EXCEPT ![f] = "silo"]
           k == OwnerOf[f]
           H == [s.handles_ EXCEPT ![k] = Append(@, n)]
           E == IF Ready(f) = {} THEN s.edge ELSE s.edge \cup {n}
           u == [s EXCEPT !.perfd = P, !.next = n + 1, !.handles_ = H, !.edge = E,
                          !.fate = F]
<1>1. /\ IsBundle(s) /\ s.handles_ \in [Handlers -> Seq(Nat)]
      /\ s.fate \in [Fds -> Fates] /\ n \in Nat \ {0} /\ s.edge \subseteq D
      /\ \A g \in D : g \in Nat /\ 0 < g /\ g < n
      /\ s.fault = "none" /\ s.perfd \in [D -> PerFds]
  BY DEF Shape, TableShape
<1>2. k \in Handlers
  BY SiloAssumption
<1>3. n \notin D
  BY <1>1
<1>4. t = PushBack(u, n, "idlers_")
  BY DEF AddFd
<1>5. /\ F \in [Fds -> Fates] /\ \A g \in Fds : F[g] = IF g = f THEN "silo" ELSE s.fate[g]
  BY <1>1 DEF Fates
<1>6. /\ H \in [Handlers -> Seq(Nat)]
      /\ \A j \in Handlers : H[j] = IF j = k THEN Append(s.handles_[j], n) ELSE s.handles_[j]
  <2> HIDE DEF k, n
  <2>1. Append(s.handles_[k], n) \in Seq(Nat)
    BY <1>1, <1>2
  <2> QED BY <1>1, <1>2, <2>1
<1>7. /\ new \in PerFds /\ new.fd = f /\ new.wants = {} /\ new.squelch = {}
      /\ new.muted = {} /\ new.fns = 0
  BY SiloAssumption DEF PerFds
<1> HIDE DEF new
<1>8. /\ DOMAIN P = D \cup {n} /\ P \in [D \cup {n} -> PerFds] /\ P[n] = new
      /\ \A g \in D : P[g] = s.perfd[g]
  <2> HIDE DEF n, D
  <2> QED BY <1>1, <1>3, <1>7
<1>9. /\ E \subseteq D \cup {n} /\ (n \in E <=> Ready(f) # {})
      /\ \A g \in D : g \in E <=> g \in s.edge
  <2> HIDE DEF n, D
  <2> QED BY <1>1, <1>3
<1> HIDE DEF P, F, H, E, t
<1>10. u = [perfd |-> P, next |-> n + 1, lists |-> s.lists, handles_ |-> H, edge |-> E,
            fate |-> F, fault |-> s.fault]
  <2> DEFINE u1 == [s EXCEPT !.perfd = P]
             u2 == [u1 EXCEPT !.next = n + 1]
             u3 == [u2 EXCEPT !.handles_ = H]
             u4 == [u3 EXCEPT !.edge = E]
             u5 == [u4 EXCEPT !.fate = F]
  <2>1. u = u5
    OBVIOUS
  <2> HIDE DEF n
  <2>2. u1 = [perfd |-> P, next |-> s.next, lists |-> s.lists, handles_ |-> s.handles_,
              edge |-> s.edge, fate |-> s.fate, fault |-> s.fault]
    <3>1. IsBundle(s)
      BY DEF Shape
    <3> QED BY <3>1 DEF IsBundle
  <2> HIDE DEF u1
  <2>3. u2 = [perfd |-> P, next |-> n + 1, lists |-> s.lists, handles_ |-> s.handles_,
              edge |-> s.edge, fate |-> s.fate, fault |-> s.fault]
    BY <2>2
  <2> HIDE DEF u2
  <2>4. u3 = [perfd |-> P, next |-> n + 1, lists |-> s.lists, handles_ |-> H,
              edge |-> s.edge, fate |-> s.fate, fault |-> s.fault]
    BY <2>3
  <2> HIDE DEF u3
  <2>5. u4 = [perfd |-> P, next |-> n + 1, lists |-> s.lists, handles_ |-> H,
              edge |-> E, fate |-> s.fate, fault |-> s.fault]
    BY <2>4
  <2> HIDE DEF u4
  <2>6. u5 = [perfd |-> P, next |-> n + 1, lists |-> s.lists, handles_ |-> H,
              edge |-> E, fate |-> F, fault |-> s.fault]
    BY <2>5
  <2> HIDE DEF u, u5
  <2> QED BY <2>1, <2>6
<1> HIDE DEF u
<1>11. /\ IsBundle(u) /\ u.perfd = P /\ u.next = n + 1 /\ u.lists = s.lists
       /\ u.handles_ = H /\ u.edge = E /\ u.fate = F /\ u.fault = s.fault
  <2> HIDE DEF n
  <2> QED BY <1>10, BundleOf
<1> HIDE DEF n
<1>12. TableShape(u)
  <2>1. n + 1 \in Nat \ {0} /\ \A g \in D \cup {n} : g \in Nat /\ 0 < g /\ g < n + 1
    BY <1>1
  <2> QED BY <1>1, <1>5, <1>6, <1>8, <1>9, <1>11, <2>1 DEF TableShape
<1>13. \A l \in ListNames : Mem(u, l) = Mem(s, l) /\ Mem(u, l) \subseteq D
  BY <1>11, ListFacts DEF Mem
<1>14. ListShape(u)
  BY <1>8, <1>11, <1>13 DEF Shape, ListShape
<1>15. Shape(u)
  BY <1>11, <1>12, <1>14 DEF Shape
<1>16. /\ "idlers_" \in ListNames /\ HookOf("idlers_") \subseteq ListNames
       /\ n \in DOMAIN u.perfd
  BY <1>8, <1>11 DEF ListNames, HookOf, ActiveIdle
<1>17. \A m \in HookOf("idlers_") : n \notin Mem(u, m)
  BY <1>3, <1>13, <1>16
<1>18. /\ Shape(t) /\ OnlyLists(u, t)
       /\ \A m \in ListNames : \A x :
             x \in Mem(t, m) <=> x \in Mem(u, m) \/ (m = "idlers_" /\ x = n)
  BY <1>4, <1>15, <1>16, <1>17, PushBackIs
<1>19. /\ t.perfd = P /\ t.handles_ = H /\ t.edge = E /\ t.fate = F
  BY <1>11, <1>18 DEF OnlyLists
<1>20. ASSUME NEW g \in D PROVE Same(s, t, g)
  <2>1. g # n
    BY <1>3
  <2> QED BY <1>8, <1>9, <1>13, <1>18, <1>19, <2>1 DEF Same
<1>21. Flags(t, n, {}, {}, {}, 0) /\ t.perfd[n].fd = f
  BY <1>7, <1>8, <1>19 DEF Flags
<1>22. \A l \in ListNames : n \in Mem(t, l) <=> l = "idlers_"
  BY <1>3, <1>13, <1>18
<1> QED BY <1>3, <1>5, <1>6, <1>8, <1>9, <1>18, <1>19, <1>20, <1>21, <1>22 DEF t, n

-----------------------------------------------------------------------------
(***************************************************************************)
(* What is kept for the descriptors that an operation does not touch       *)
(***************************************************************************)
(* All of the invariant that is about the bundle, but for the handle h.    *)
SoundBut(s, h, p, c, ev, x, q1, q2, q3) ==
  /\ Shape(s)
  /\ \A g \in DOMAIN s.perfd : g # h => Local(s, g, p, c, ev, x)
  /\ Ownership(s, q1, q2, q3) /\ HandlesNamed(s, q3)

LEMMA LocalFrame ==
  ASSUME NEW s, NEW t, NEW g, NEW p, NEW q, NEW c, NEW e, NEW v, NEW w, NEW x, NEW y,
         Local(s, g, p, c, v, x), Same(s, t, g), g # c, g # e, ListPhases(s, g, q),
         g \in DOMAIN w <=> g \in DOMAIN v, g \in DOMAIN w => w[g] = v[g],
         y[s.perfd[g].fd] = x[s.perfd[g].fd]
  PROVE  Local(t, g, q, e, w, y)
<1>1. /\ \A l \in ListNames : g \in Mem(t, l) <=> g \in Mem(s, l)
      /\ t.perfd[g] = s.perfd[g] /\ Owner(t, g) = Owner(s, g)
      /\ g \in t.edge <=> g \in s.edge
  BY DEF Same, Owner
<1>2. /\ {"active_", "idlers_", "ejects_", "runners_", "closers_", "shedders_"} = ListNames
      /\ ActiveIdle \subseteq ListNames /\ Shared \subseteq ListNames
  BY DEF ListNames, ActiveIdle, Shared
<1>3. Doomed(t, g) <=> Doomed(s, g)
  BY <1>1, <1>2 DEF Doomed
<1>4. ListPhases(t, g, q)
  BY <1>1, <1>2 DEF ListPhases
<1>5. WantsAreKept(t, g, q, e)
  BY <1>1, <1>2, <1>3 DEF Local, WantsAreKept
<1>6. Placed(t, g, q, e)
  BY <1>1, <1>2, <1>3 DEF Local, Placed
<1>7. Running(t, g, q, e)
  BY DEF Running
<1>8. EdgeKept(t, g, w, y)
  BY <1>1, <1>2, <1>3 DEF Local, EdgeKept
<1>9. g \in DOMAIN w => ~Doomed(t, g)
  BY <1>3 DEF Local
<1> QED BY <1>4, <1>5, <1>6, <1>7, <1>8, <1>9 DEF Local

(* Ownership looks at the descriptors of the handles and at the fates.     *)
LEMMA SameOwnership ==
  ASSUME NEW s, NEW t, NEW q1, NEW q2, NEW q3, Ownership(s, q1, q2, q3),
         HandlesNamed(s, q3), DOMAIN t.perfd = DOMAIN s.perfd,
         t.fate = s.fate, t.handles_ = s.handles_,
         \A g \in DOMAIN s.perfd : t.perfd[g].fd = s.perfd[g].fd
  PROVE  Ownership(t, q1, q2, q3) /\ HandlesNamed(t, q3)
<1>1. Ownership(t, q1, q2, q3)
  BY DEF Ownership
<1>2. \A g \in DOMAIN s.perfd : Owner(t, g) = Owner(s, g)
  BY DEF Owner
<1>3. HandlesNamed(t, q3)
  BY <1>2 DEF HandlesNamed
<1> QED BY <1>1, <1>3

(* After a step that touched only h, all is well but for h.                *)
LEMMA TouchBut ==
  ASSUME NEW s, NEW t, NEW h, NEW p, NEW q, NEW c, NEW e, NEW v, NEW w, NEW x, NEW y,
         NEW q1, NEW q2, NEW q3,
         SoundBut(s, h, p, c, v, x, q1, q2, q3), Shape(t), Touches(s, t, h),
         h \in DOMAIN s.perfd, c \in {0, h}, e \in {0, h},
         \A g \in DOMAIN s.perfd : g # h => ListPhases(s, g, q),
         \A g \in DOMAIN s.perfd : g # h => /\ g \in DOMAIN w <=> g \in DOMAIN v
                                            /\ g \in DOMAIN w => w[g] = v[g],
         \A f \in Fds : f # s.perfd[h].fd => y[f] = x[f]
  PROVE  SoundBut(t, h, q, e, w, y, q1, q2, q3)
<1>1. /\ Shape(s) /\ \A g \in DOMAIN s.perfd : g # h => Local(s, g, p, c, v, x)
      /\ Ownership(s, q1, q2, q3) /\ HandlesNamed(s, q3)
  BY DEF SoundBut
<1>2. /\ DOMAIN t.perfd = DOMAIN s.perfd /\ t.fate = s.fate /\ t.handles_ = s.handles_
      /\ \A g \in DOMAIN s.perfd : t.perfd[g].fd = s.perfd[g].fd
  BY DEF Touches, SameTable, Same
<1>3. Ownership(t, q1, q2, q3) /\ HandlesNamed(t, q3)
  BY <1>1, <1>2, SameOwnership
<1>4. ASSUME NEW g \in DOMAIN s.perfd, g # h PROVE Local(t, g, q, e, w, y)
  <2>1. g # 0 /\ s.perfd[g].fd \in Fds
    BY <1>1, ListFacts, PerFdFacts
  <2>2. s.perfd[g].fd # s.perfd[h].fd
    BY <1>1, <1>4 DEF Ownership
  <2>3. Same(s, t, g)
    BY <1>4 DEF Touches
  <2>4. y[s.perfd[g].fd] = x[s.perfd[g].fd]
    BY <2>1, <2>2
  <2>5. g # c /\ g # e
    BY <1>4, <2>1
  <2>6. /\ ListPhases(s, g, q) /\ Local(s, g, p, c, v, x)
        /\ g \in DOMAIN w <=> g \in DOMAIN v
        /\ g \in DOMAIN w => w[g] = v[g]
    BY <1>1, <1>4
  <2> QED BY <2>3, <2>4, <2>5, <2>6, LocalFrame
<1> QED BY <1>2, <1>3, <1>4 DEF SoundBut

LEMMA SoundIs ==
  ASSUME NEW s, NEW h, NEW p, NEW c, NEW v, NEW x, NEW q1, NEW q2, NEW q3,
         SoundBut(s, h, p, c, v, x, q1, q2, q3),
         h \in DOMAIN s.perfd => Local(s, h, p, c, v, x)
  PROVE  Sound(s, p, c, v, x, q1, q2, q3)
BY DEF Sound, SoundBut

LEMMA SoundButAny ==
  ASSUME NEW s, NEW p, NEW c, NEW v, NEW x, NEW q1, NEW q2, NEW q3,
         Sound(s, p, c, v, x, q1, q2, q3), NEW h
  PROVE  SoundBut(s, h, p, c, v, x, q1, q2, q3)
BY DEF Sound, SoundBut

(* r is what is left of the queue q without f.                             *)
Unqueues(q, r, f) ==
  QueueSound(r) /\ \A g \in Fds : Queued(r, g) <=> Queued(q, g) /\ g # f

(* The step that adds f takes it off the queue q2, if it was there.        *)
LEMMA AddBut ==
  ASSUME NEW s, NEW h, NEW p, NEW c, NEW v, NEW q1, NEW q2, NEW r2, NEW f \in Fds,
         SoundBut(s, h, p, c, v, io, q1, q2, <<>>),
         s.fate[f] \in {"client", "inbound"}, c \in {0, h},
         h \in DOMAIN s.perfd \cup {0}, DOMAIN v \subseteq DOMAIN s.perfd,
         Unqueues(q2, r2, f), ~Queued(q1, f)
  PROVE  /\ SoundBut(AddFd(s, f), h, p, c, v, io, q1, r2, <<>>)
         /\ \A g \in DOMAIN s.perfd : Same(s, AddFd(s, f), g)
         /\ DOMAIN s.perfd \subseteq DOMAIN AddFd(s, f).perfd
<1> DEFINE t == AddFd(s, f)
           n == s.next
           k == OwnerOf[f]
<1>1. /\ Shape(s) /\ \A g \in DOMAIN s.perfd : g # h => Local(s, g, p, c, v, io)
      /\ Ownership(s, q1, q2, <<>>) /\ HandlesNamed(s, <<>>)
  BY DEF SoundBut
<1>2. k \in Handlers
  BY SiloAssumption
<1>3. \A g \in DOMAIN s.perfd : s.perfd[g].fd # f /\ s.perfd[g].fd \in Fds
  <2>1. s.fate[f] # "silo"
    OBVIOUS
  <2> QED BY <1>1, <2>1, PerFdFacts DEF Ownership
<1>4. \A g \in DOMAIN s.perfd : g \in Nat /\ g # 0
  BY <1>1, ListFacts
<1>5. ASSUME NEW u, \A g \in DOMAIN s.perfd : Same(s, u, g),
             NEW g \in DOMAIN s.perfd, g # h
      PROVE  Local(u, g, p, c, v, io)
  <2>1. Local(s, g, p, c, v, io) /\ Same(s, u, g)
    BY <1>1, <1>5
  <2>2. g # c
    BY <1>4, <1>5
  <2>3. ListPhases(s, g, p)
    BY <2>1 DEF Local
  <2> QED BY <2>1, <2>2, <2>3, LocalFrame
<1>6. \A i \in 1..Len(<<>>) : FALSE
  OBVIOUS
<1>7. \A g : ~Queued(<<>>, g)
  BY <1>6 DEF Queued
<1> USE DEF Unqueues
<1>8. CASE Cardinality(DOMAIN s.perfd) >= TableSize \/ f \in Unpollable
  <2>1. /\ Shape(t) /\ t.perfd = s.perfd /\ \A g : Same(s, t, g)
        /\ \A j \in Handlers : j # k => t.handles_[j] = s.handles_[j]
        /\ \A g \in Fds : t.fate[g] = IF g = f THEN "closed" ELSE s.fate[g]
    BY <1>1, <1>8, AddFails
  <2> HIDE DEF t
  <2>2. Ownership(t, q1, r2, <<>>)
    <3>1. QueueSound(q1) /\ QueueSound(<<>>)
      BY <1>1 DEF Ownership
    <3>2. ASSUME NEW g \in Fds
          PROVE  /\ t.fate[g] = "inbound" <=> Queued(q1, g) \/ Queued(r2, g) \/ Queued(<<>>, g)
                 /\ ~(Queued(q1, g) /\ Queued(r2, g))
                 /\ ~(Queued(q1, g) /\ Queued(<<>>, g))
                 /\ ~(Queued(r2, g) /\ Queued(<<>>, g))
                 /\ t.fate[g] = "silo" <=> \E i \in DOMAIN t.perfd : t.perfd[i].fd = g
      <4>1. CASE g = f
        BY <1>3, <1>7, <2>1, <4>1
      <4>2. CASE g # f
        BY <1>1, <1>7, <2>1, <4>2 DEF Ownership
      <4> QED BY <4>1, <4>2
    <3>3. \A g, i \in DOMAIN t.perfd : t.perfd[g].fd = t.perfd[i].fd => g = i
      BY <1>1, <2>1 DEF Ownership
    <3> QED BY <3>1, <3>2, <3>3 DEF Ownership
  <2>3. HandlesNamed(t, <<>>)
    <3>1. \A g \in Fds : /\ OwnerOf[g] \in Handlers
                         /\ g # f /\ Solo(OwnerOf[g]) => OwnerOf[g] # k
      BY <1>2, SiloAssumption DEF Solo
    <3>2. \A g \in DOMAIN s.perfd : /\ Owner(s, g) \in Handlers /\ Owner(t, g) = Owner(s, g)
                                    /\ Solo(Owner(s, g)) => Owner(s, g) # k
      BY <1>3, <2>1, <3>1 DEF Owner
    <3>3. /\ \A g \in DOMAIN s.perfd : Solo(Owner(s, g)) => s.handles_[Owner(s, g)] = <<g>>
          /\ \A g \in Fds : s.fate[g] \in {"client", "inbound"} /\ Solo(OwnerOf[g])
                               => s.handles_[OwnerOf[g]] = <<>>
      BY <1>1 DEF HandlesNamed
    <3>4. \A g \in DOMAIN t.perfd : Solo(Owner(t, g)) => t.handles_[Owner(t, g)] = <<g>>
      BY <2>1, <3>2, <3>3
    <3>5. ASSUME NEW g \in Fds, t.fate[g] \in {"client", "inbound"}, Solo(OwnerOf[g])
          PROVE  t.handles_[OwnerOf[g]] = <<>>
      <4>1. g # f /\ s.fate[g] \in {"client", "inbound"}
        BY <2>1, <3>5
      <4> QED BY <2>1, <3>1, <3>3, <3>5, <4>1
    <3> QED BY <1>6, <3>4, <3>5 DEF HandlesNamed
  <2>4. \A g \in DOMAIN t.perfd : g # h => Local(t, g, p, c, v, io)
    BY <1>5, <2>1
  <2> QED BY <2>1, <2>2, <2>3, <2>4 DEF SoundBut, t
<1>9. CASE ~(Cardinality(DOMAIN s.perfd) >= TableSize) /\ f \notin Unpollable
  <2>1. /\ Shape(t) /\ n \notin DOMAIN s.perfd /\ DOMAIN t.perfd = DOMAIN s.perfd \cup {n}
        /\ \A g \in DOMAIN s.perfd : Same(s, t, g)
        /\ t.perfd[n].fd = f /\ Flags(t, n, {}, {}, {}, 0)
        /\ \A l \in ListNames : n \in Mem(t, l) <=> l = "idlers_"
        /\ n \in t.edge <=> Ready(f) # {}
        /\ \A j \in Handlers : t.handles_[j]
              = IF j = k THEN Append(s.handles_[j], n) ELSE s.handles_[j]
        /\ \A g \in Fds : t.fate[g] = IF g = f THEN "silo" ELSE s.fate[g]
    BY <1>1, <1>9, AddIs
  <2>2. n # 0 /\ n # c
    <3>1. n \in Nat \ {0}
      BY <1>1 DEF Shape, TableShape
    <3> HIDE DEF n
    <3> QED BY <2>1, <3>1
  <2> HIDE DEF t, n
  <2>3. \A g \in DOMAIN s.perfd : t.perfd[g] = s.perfd[g]
    BY <2>1 DEF Same
  <2>4. Ownership(t, q1, r2, <<>>)
    <3>1. QueueSound(q1) /\ QueueSound(<<>>)
      BY <1>1 DEF Ownership
    <3>2. ASSUME NEW g \in Fds
          PROVE  /\ t.fate[g] = "inbound" <=> Queued(q1, g) \/ Queued(r2, g) \/ Queued(<<>>, g)
                 /\ ~(Queued(q1, g) /\ Queued(r2, g))
                 /\ ~(Queued(q1, g) /\ Queued(<<>>, g))
                 /\ ~(Queued(r2, g) /\ Queued(<<>>, g))
                 /\ t.fate[g] = "silo" <=> \E i \in DOMAIN t.perfd : t.perfd[i].fd = g
      <4>1. CASE g = f
        BY <1>7, <2>1, <4>1
      <4>2. CASE g # f
        BY <1>1, <1>7, <2>1, <2>3, <4>2 DEF Ownership
      <4> QED BY <4>1, <4>2
    <3>3. \A g, i \in DOMAIN t.perfd : t.perfd[g].fd = t.perfd[i].fd => g = i
      BY <1>1, <1>3, <2>1, <2>3 DEF Ownership
    <3> QED BY <3>1, <3>2, <3>3 DEF Ownership
  <2>5. HandlesNamed(t, <<>>)
    <3>2. \A g \in Fds : /\ OwnerOf[g] \in Handlers
                         /\ g # f /\ Solo(OwnerOf[g]) => OwnerOf[g] # k
      BY <1>2, SiloAssumption DEF Solo
    <3>3. \A g \in DOMAIN s.perfd : /\ Owner(s, g) \in Handlers /\ Owner(t, g) = Owner(s, g)
                                    /\ Solo(Owner(s, g)) => Owner(s, g) # k
      BY <1>3, <2>3, <3>2 DEF Owner
    <3>4. /\ \A g \in DOMAIN s.perfd : Solo(Owner(s, g)) => s.handles_[Owner(s, g)] = <<g>>
          /\ \A g \in Fds : s.fate[g] \in {"client", "inbound"} /\ Solo(OwnerOf[g])
                               => s.handles_[OwnerOf[g]] = <<>>
      BY <1>1 DEF HandlesNamed
    <3>5. \A g \in DOMAIN s.perfd : Solo(Owner(t, g)) => t.handles_[Owner(t, g)] = <<g>>
      BY <2>1, <3>3, <3>4
    <3>6. Solo(Owner(t, n)) => t.handles_[Owner(t, n)] = <<n>>
      <4>1. Owner(t, n) = k
        BY <2>1 DEF Owner
      <4>2. Solo(k) => s.handles_[k] = <<>>
        BY <3>4
      <4>3. Append(<<>>, n) = <<n>>
        OBVIOUS
      <4> QED BY <1>2, <2>1, <4>1, <4>2, <4>3
    <3>7. ASSUME NEW g \in Fds, t.fate[g] \in {"client", "inbound"}, Solo(OwnerOf[g])
          PROVE  t.handles_[OwnerOf[g]] = <<>>
      <4>1. g # f /\ s.fate[g] \in {"client", "inbound"}
        BY <2>1, <3>7
      <4> QED BY <2>1, <3>2, <3>4, <3>7, <4>1
    <3>8. \A g \in DOMAIN t.perfd : Solo(Owner(t, g)) => t.handles_[Owner(t, g)] = <<g>>
      BY <2>1, <3>5, <3>6
    <3> QED BY <1>6, <3>7, <3>8 DEF HandlesNamed
  <2>6. Local(t, n, p, c, v, io)
    <3>1. /\ t.perfd[n].wants = {} /\ t.perfd[n].squelch = {} /\ t.perfd[n].muted = {}
          /\ t.perfd[n].fns = 0
      BY <2>1 DEF Flags
    <3>2. /\ n \in Mem(t, "idlers_") /\ n \notin Mem(t, "active_") /\ n \notin Mem(t, "ejects_")
          /\ n \notin Mem(t, "runners_") /\ n \notin Mem(t, "closers_")
          /\ n \notin Mem(t, "shedders_")
      BY <2>1 DEF ListNames, ActiveIdle, Shared
    <3>3. ~Doomed(t, n)
      BY <3>2 DEF Doomed
    <3>4. ListPhases(t, n, p)
      BY <3>2 DEF ListPhases
    <3>5. WantsAreKept(t, n, p, c)
      BY <3>1, <3>2, <3>3 DEF WantsAreKept
    <3>6. Placed(t, n, p, c)
      BY <3>1, <3>2 DEF Placed, ActiveIdle
    <3>7. Running(t, n, p, c)
      BY <2>2 DEF Running
    <3>8. EdgeKept(t, n, v, io)
      BY <2>1 DEF EdgeKept, Ready
    <3>9. n \notin DOMAIN v
      BY <2>1
    <3> QED BY <3>3, <3>4, <3>5, <3>6, <3>7, <3>8, <3>9 DEF Local
  <2>7. \A g \in DOMAIN t.perfd : g # h => Local(t, g, p, c, v, io)
    BY <1>5, <2>1, <2>6
  <2> QED BY <2>1, <2>4, <2>5, <2>7 DEF SoundBut, t
<1> QED BY <1>8, <1>9

-----------------------------------------------------------------------------
(***************************************************************************)
(* The calls of an upcall                                                  *)
(***************************************************************************)
LEMMA TouchStays ==
  ASSUME NEW s, NEW t, NEW h, NEW p, NEW c, NEW v, NEW x, NEW q1, NEW q2, NEW q3,
         SoundBut(s, h, p, c, v, x, q1, q2, q3), Shape(t), Touches(s, t, h),
         h \in DOMAIN s.perfd, c \in {0, h}
  PROVE  SoundBut(t, h, p, c, v, x, q1, q2, q3)
<1>1. \A g \in DOMAIN s.perfd : g # h => ListPhases(s, g, p)
  BY DEF SoundBut, Local
<1> QED BY <1>1, TouchBut

(* A handler of one descriptor knows no other handle.                      *)
LEMMA KnownSolo ==
  ASSUME NEW h \in Live, NEW g \in Known(h), Shape(Now),
         Ownership(Now, inbound, batch, hfds), Solo(OwnerOf[perfd[h].fd])
  PROVE  g = h
<1>1. /\ g \in Live /\ OwnerOf[perfd[g].fd] = OwnerOf[perfd[h].fd]
  BY DEF Known
<1>2. Now.perfd = perfd /\ DOMAIN perfd = Live
  BY DEF Now, Live
<1>3. perfd[g].fd \in Fds /\ perfd[h].fd \in Fds
  BY <1>1, <1>2, PerFdFacts
<1>4. perfd[g].fd = perfd[h].fd
  BY <1>1, <1>3 DEF Solo
<1> QED BY <1>1, <1>2, <1>4 DEF Ownership

SameFor(s, t, h) == /\ t.perfd[h] = s.perfd[h]
                    /\ \A l \in ListNames : h \in Mem(t, l) <=> h \in Mem(s, l)

(* What a call does to the descriptor it is made for.                      *)
Effect(s, t, h, c) ==
  /\ c \in {"none", "Add"} => SameFor(s, t, h)
  /\ \A e \in Dirs : c = RequestOf(e) =>
       /\ Flags(t, h, s.perfd[h].wants \cup {e}, s.perfd[h].squelch \ {e},
                s.perfd[h].muted \ {e}, s.perfd[h].fns)
       /\ \A m \in ActiveIdle : h \in Mem(t, m) <=> m = "active_"
       /\ \A m \in Shared : h \in Mem(t, m) <=> h \in Mem(s, m)
  /\ c = "Run" =>
       /\ Flags(t, h, s.perfd[h].wants, s.perfd[h].squelch, s.perfd[h].muted,
                s.perfd[h].fns + 1)
       /\ \A m \in ListNames : h \in Mem(t, m) <=>
            h \in Mem(s, m) \/ (m = "runners_" /\ \A l \in Shared : h \notin Mem(s, l))
  /\ c = "Eject" =>
       \/ /\ \A l \in ActiveIdle : h \notin Mem(s, l)
          /\ Flags(t, h, {}, s.perfd[h].squelch, s.perfd[h].muted, s.perfd[h].fns)
          /\ \A m \in ListNames : h \in Mem(t, m) <=> m = "ejects_"
       \/ /\ \E l \in ActiveIdle : h \in Mem(s, l)
          /\ SameFor(s, t, h)

LEMMA AddCall ==
  ASSUME NEW s, NEW h, NEW p, NEW c, NEW v, NEW q1, NEW q2, NEW r2, NEW g,
         SoundBut(s, h, p, c, v, io, q1, q2, <<>>), c \in {0, h},
         h \in DOMAIN s.perfd \cup {0}, DOMAIN v \subseteq DOMAIN s.perfd,
         s.fate = fate, MayCall("Add", g), QueueSound(r2),
         \A f \in Fds : Queued(r2, f) <=> Queued(q2, f)
  PROVE  /\ SoundBut(Call(s, "Add", g), h, p, c, v, io, q1, r2, <<>>)
         /\ \A i \in DOMAIN s.perfd : Same(s, Call(s, "Add", g), i)
         /\ DOMAIN s.perfd \subseteq DOMAIN Call(s, "Add", g).perfd
<1>1. PICK f \in Fds : fate[f] = "client" /\ Call(s, "Add", g) = AddFd(s, f)
  <2> DEFINE i == CHOOSE j \in Unregistered(g) : TRUE
  <2>1. i \in Unregistered(g)
    BY DEF MayCall
  <2>2. i \in Fds /\ fate[i] = "client"
    BY <2>1 DEF Unregistered
  <2>3. Call(s, "Add", g) = AddFd(s, i)
    BY DEF Call
  <2> QED BY <2>2, <2>3
<1>2. ~Queued(q1, f) /\ ~Queued(q2, f)
  BY <1>1 DEF SoundBut, Ownership
<1>3. Unqueues(q2, r2, f)
  BY <1>2 DEF Unqueues
<1>4. s.fate[f] \in {"client", "inbound"}
  BY <1>1
<1>5. /\ SoundBut(AddFd(s, f), h, p, c, v, io, q1, r2, <<>>)
      /\ \A i \in DOMAIN s.perfd : Same(s, AddFd(s, f), i)
      /\ DOMAIN s.perfd \subseteq DOMAIN AddFd(s, f).perfd
  BY <1>2, <1>3, <1>4, AddBut
<1> QED BY <1>1, <1>5

(* The call a on the handle g may be made from an upcall of h.             *)
Callable(s, h, g, a, c, v) ==
  /\ a \in CallNames /\ MayCall(a, g) /\ (a \in {"none", "Add"} \/ g = h)
  /\ h \in DOMAIN s.perfd /\ c \in {0, h} /\ DOMAIN v \subseteq DOMAIN s.perfd
  /\ s.fate = fate /\ s.perfd[h].fns = perfd[h].fns

Called(s, t, h, a) ==
  /\ h \in DOMAIN t.perfd /\ t.perfd[h].fd = s.perfd[h].fd
  /\ h \in t.edge <=> h \in s.edge
  /\ Effect(s, t, h, a)

LEMMA CallIs ==
  ASSUME NEW s, NEW h, NEW g, NEW p, NEW c, NEW v, NEW q1, NEW q2, NEW a,
         SoundBut(s, h, p, c, v, io, q1, q2, <<>>), Callable(s, h, g, a, c, v)
  PROVE  /\ SoundBut(Call(s, a, g), h, p, c, v, io, q1, q2, <<>>)
         /\ Called(s, Call(s, a, g), h, a)
<1> USE DEF Callable, Called
<1> DEFINE t == Call(s, a, g)
<1>0. Shape(s)
  BY DEF SoundBut
<1>1. CASE a = "none"
  <2>1. t = s
    BY <1>1 DEF Call
  <2> QED BY <1>1, <2>1 DEF Effect, SameFor, RequestOf, Dirs
<1>2. CASE a = "Add"
  <2>1. QueueSound(q2)
    BY DEF SoundBut, Ownership
  <2>2. SoundBut(t, h, p, c, v, io, q1, q2, <<>>) /\ Same(s, t, h) /\ h \in DOMAIN t.perfd
    BY <1>2, <2>1, AddCall
  <2> HIDE DEF t
  <2>3. Effect(s, t, h, a)
    BY <1>2, <2>2 DEF Effect, Same, SameFor, RequestOf, Dirs
  <2> QED BY <2>2, <2>3 DEF Same, t
<1>3. ASSUME NEW u, Shape(u), Touches(s, u, h)
      PROVE  /\ SoundBut(u, h, p, c, v, io, q1, q2, <<>>) /\ h \in DOMAIN u.perfd
             /\ u.perfd[h].fd = s.perfd[h].fd /\ (h \in u.edge <=> h \in s.edge)
  <2>1. SoundBut(u, h, p, c, v, io, q1, q2, <<>>)
    BY <1>3, TouchStays
  <2> QED BY <1>3, <2>1 DEF Touches, SameTable
<1>4. ASSUME NEW e \in Dirs, a = RequestOf(e)
      PROVE  /\ SoundBut(t, h, p, c, v, io, q1, q2, <<>>) /\ h \in DOMAIN t.perfd
             /\ t.perfd[h].fd = s.perfd[h].fd /\ (h \in t.edge <=> h \in s.edge)
             /\ Effect(s, t, h, a)
  <2>1. t = Request(s, h, e)
    BY <1>4 DEF Call, RequestOf, Dirs
  <2> HIDE DEF t
  <2>2. /\ Shape(t) /\ Touches(s, t, h)
        /\ Flags(t, h, s.perfd[h].wants \cup {e}, s.perfd[h].squelch \ {e},
                 s.perfd[h].muted \ {e}, s.perfd[h].fns)
        /\ \A m \in ActiveIdle : h \in Mem(t, m) <=> m = "active_"
        /\ \A m \in Shared : h \in Mem(t, m) <=> h \in Mem(s, m)
    BY <1>0, <2>1, RequestIs
  <2>3. \A i \in Dirs : a = RequestOf(i) => i = e
    BY <1>4 DEF RequestOf, Dirs
  <2>4. a \notin {"none", "Add", "Run", "Eject"}
    BY <1>4 DEF RequestOf
  <2>5. Effect(s, t, h, a)
    BY <2>2, <2>3, <2>4 DEF Effect
  <2> QED BY <1>3, <2>2, <2>5
<1>5. CASE a = "Run"
  <2>1. t = Run(s, h)
    BY <1>5 DEF Call
  <2>2. s.perfd[h].fns < MaxFns
    BY <1>5 DEF MayCall
  <2> HIDE DEF t
  <2>3. /\ Shape(t) /\ Touches(s, t, h)
        /\ Flags(t, h, s.perfd[h].wants, s.perfd[h].squelch, s.perfd[h].muted,
                 s.perfd[h].fns + 1)
        /\ \A m \in ListNames : h \in Mem(t, m) <=>
             h \in Mem(s, m) \/ (m = "runners_" /\ \A l \in Shared : h \notin Mem(s, l))
    BY <1>0, <2>1, <2>2, RunIs
  <2>4. Effect(s, t, h, a)
    BY <1>5, <2>3 DEF Effect, RequestOf, Dirs
  <2> QED BY <1>3, <2>3, <2>4 DEF t
<1>6. CASE a = "Eject"
  <2>1. t = Eject(s, h)
    BY <1>6 DEF Call
  <2> HIDE DEF t
  <2>2. CASE \A l \in ActiveIdle : h \notin Mem(s, l)
    <3>1. t = PushBack(Expunge(s, h), h, "ejects_") /\ "ejects_" \in ListNames
      BY <1>0, <2>1, <2>2, EjectIs DEF ListNames, ActiveIdle
    <3>2. /\ Shape(t) /\ Touches(s, t, h)
          /\ \A m \in ListNames : h \in Mem(t, m) <=> m = "ejects_"
          /\ Flags(t, h, {}, s.perfd[h].squelch, s.perfd[h].muted, s.perfd[h].fns)
      BY <1>0, <3>1, SentIs
    <3>3. Effect(s, t, h, a)
      BY <1>6, <2>2, <3>2 DEF Effect, RequestOf, Dirs
    <3> QED BY <1>3, <3>2, <3>3 DEF t
  <2>3. CASE \E l \in ActiveIdle : h \in Mem(s, l)
    <3>1. t = s
      BY <2>1, <2>3, EjectLinked
    <3>2. Effect(s, t, h, a)
      BY <1>6, <2>3, <3>1 DEF Effect, SameFor, RequestOf, Dirs
    <3> QED BY <3>1, <3>2 DEF t
  <2> QED BY <2>2, <2>3
<1>7. a \in {"none", "Add", "Run", "Eject"} \/ \E e \in Dirs : a = RequestOf(e)
  BY DEF CallNames, RequestOf, Dirs
<1> QED BY <1>1, <1>2, <1>4, <1>5, <1>6, <1>7

-----------------------------------------------------------------------------
(***************************************************************************)
(* One upcall: s before it, s1 after its call, t after its outcome         *)
(***************************************************************************)
(* What the outcome of an upcall does to the descriptor.                   *)
Settles(s, t, h, d, o) ==
  /\ o = "kClose" =>
       /\ Flags(t, h, {}, s.perfd[h].squelch, s.perfd[h].muted, s.perfd[h].fns)
       /\ \A m \in ListNames : h \in Mem(t, m) <=> m = "closers_"
  /\ o # "kClose" =>
       /\ Flags(t, h,
                IF o = "kYield" THEN s.perfd[h].wants \cup {d} ELSE s.perfd[h].wants,
                IF o = "kSuspend" THEN s.perfd[h].squelch \cup {d} ELSE s.perfd[h].squelch,
                IF o = "kSuspend" THEN s.perfd[h].muted \cup {d} ELSE s.perfd[h].muted \ {d},
                s.perfd[h].fns)
       /\ \A m \in ListNames : h \in Mem(t, m) <=> h \in Mem(s, m)

(* The upcall of direction d of h has made the call and returned the       *)
(* outcome of act.                                                         *)
Upcalled(s, s1, t, h, d, act) ==
  /\ act \in Acts[Owner(s, h)][d]
  /\ \E s0 : /\ Flags(s0, h, s.perfd[h].wants \ {d}, s.perfd[h].squelch,
                      s.perfd[h].muted, s.perfd[h].fns)
             /\ \A m \in ListNames : h \in Mem(s0, m) <=> h \in Mem(s, m)
             /\ Effect(s0, s1, h, act.call)
  /\ Settles(s1, t, h, d, act.outcome)
  /\ t.perfd[h].fd = s.perfd[h].fd
  /\ h \in t.edge <=> h \in s.edge

(* The state of h after the call, in terms of what it was before.          *)
LEMMA AfterCall ==
  ASSUME NEW s, NEW s1, NEW t, NEW h, NEW d \in Dirs, NEW act,
         Shape(s), h \in DOMAIN s.perfd, Upcalled(s, s1, t, h, d, act),
         s.perfd[h].muted = s.perfd[h].squelch,
         s.perfd[h].wants \cap s.perfd[h].squelch = {}, d \in s.perfd[h].wants
  PROVE  /\ s1.perfd[h].muted = s1.perfd[h].squelch
         /\ s1.perfd[h].wants \cap s1.perfd[h].squelch = {}
         /\ d \notin s1.perfd[h].squelch
         /\ d \in s1.perfd[h].wants => act.call = RequestOf(d)
         /\ \A e \in Dirs : e \in s1.perfd[h].wants =>
               (e \in s.perfd[h].wants /\ e # d) \/ act.call = RequestOf(e)
         /\ \A e \in Dirs : e # d /\ e \in s.perfd[h].wants =>
               e \in s1.perfd[h].wants \/ h \in Mem(s1, "ejects_")
         /\ \A e \in Dirs : e \in s.perfd[h].muted =>
               e \in s1.perfd[h].muted \/ e \in s1.perfd[h].wants
         /\ s1.perfd[h].wants \subseteq Dirs
<1>1. PICK s0 : /\ Flags(s0, h, s.perfd[h].wants \ {d}, s.perfd[h].squelch,
                         s.perfd[h].muted, s.perfd[h].fns)
                /\ \A m \in ListNames : h \in Mem(s0, m) <=> h \in Mem(s, m)
                /\ Effect(s0, s1, h, act.call)
  BY DEF Upcalled
<1> DEFINE W == s.perfd[h].wants
           Q == s.perfd[h].squelch
           W1 == s1.perfd[h].wants
           Q1 == s1.perfd[h].squelch
           M1 == s1.perfd[h].muted
           c == act.call
<1>2. /\ s0.perfd[h].wants = W \ {d} /\ s0.perfd[h].squelch = Q /\ s0.perfd[h].muted = Q
      /\ W \cap Q = {} /\ d \in W /\ s.perfd[h].muted = Q /\ W \subseteq Dirs
  BY <1>1, PerFdFacts DEF Flags
<1>3. c \in CallNames
  BY PerFdFacts, SiloAssumption DEF Upcalled
<1>4. CASE SameFor(s0, s1, h)
  <2>1. W1 = W \ {d} /\ Q1 = Q /\ M1 = Q
    BY <1>2, <1>4 DEF SameFor
  <2> HIDE DEF W, Q, W1, Q1, M1
  <2> QED BY <1>2, <2>1 DEF W, Q, W1, Q1, M1
<1>5. ASSUME NEW e \in Dirs, c = RequestOf(e)
      PROVE  W1 = (W \ {d}) \cup {e} /\ Q1 = Q \ {e} /\ M1 = Q \ {e}
  BY <1>1, <1>2, <1>5 DEF Effect, Flags
<1>6. ASSUME NEW e \in Dirs, c = RequestOf(e)
      PROVE  /\ M1 = Q1 /\ W1 \cap Q1 = {} /\ d \notin Q1 /\ (d \in W1 => e = d)
             /\ \A i \in Dirs : i \in W1 => (i \in W /\ i # d) \/ i = e
             /\ \A i \in Dirs : i # d /\ i \in W => i \in W1
             /\ \A i \in Dirs : i \in Q => i \in M1 \/ i \in W1
             /\ W1 \subseteq Dirs
  <2>1. W1 = (W \ {d}) \cup {e} /\ Q1 = Q \ {e} /\ M1 = Q \ {e}
    BY <1>5, <1>6
  <2> HIDE DEF W, Q, W1, Q1, M1
  <2> QED BY <1>2, <2>1
<1>7. CASE \E e \in Dirs : c = RequestOf(e)
  <2>1. PICK e \in Dirs : c = RequestOf(e)
    BY <1>7
  <2>2. /\ M1 = Q1 /\ W1 \cap Q1 = {} /\ d \notin Q1 /\ (d \in W1 => e = d)
        /\ \A i \in Dirs : i \in W1 => (i \in W /\ i # d) \/ i = e
        /\ \A i \in Dirs : i # d /\ i \in W => i \in W1
        /\ \A i \in Dirs : i \in Q => i \in M1 \/ i \in W1
        /\ W1 \subseteq Dirs
    BY <1>6, <2>1
  <2> HIDE DEF W1, Q1, M1
  <2> QED BY <1>2, <2>1, <2>2 DEF W1, Q1, M1
<1>8. CASE c = "Run"
  <2>1. W1 = W \ {d} /\ Q1 = Q /\ M1 = Q
    BY <1>1, <1>2, <1>8 DEF Effect, Flags
  <2> HIDE DEF W, Q, W1, Q1, M1
  <2> QED BY <1>2, <2>1 DEF W, Q, W1, Q1, M1
<1>9. CASE c = "Eject" /\ ~SameFor(s0, s1, h)
  <2>1. W1 = {} /\ Q1 = Q /\ M1 = Q /\ h \in Mem(s1, "ejects_")
    BY <1>1, <1>2, <1>9 DEF Effect, Flags, ListNames, ActiveIdle
  <2> HIDE DEF W, Q, W1, Q1, M1
  <2> QED BY <1>2, <2>1 DEF W, Q, W1, Q1, M1
<1>10. c \in {"none", "Add"} => SameFor(s0, s1, h)
  BY <1>1 DEF Effect
<1>11. c \in {"none", "Add", "Run", "Eject"} \/ \E e \in Dirs : c = RequestOf(e)
  BY <1>3 DEF CallNames, RequestOf, Dirs
<1> QED BY <1>4, <1>7, <1>8, <1>9, <1>10, <1>11

(* Where h is after the call.                                              *)
LEMMA CallLists ==
  ASSUME NEW s, NEW s1, NEW t, NEW h, NEW d \in Dirs, NEW act,
         Shape(s), h \in DOMAIN s.perfd, Upcalled(s, s1, t, h, d, act),
         ~Doomed(s, h), h \notin Mem(s, "ejects_"), h \notin Mem(s, "idlers_")
  PROVE  /\ ~Doomed(s1, h) /\ h \notin Mem(s1, "idlers_")
         /\ h \in Mem(s1, "active_")
               <=> h \in Mem(s, "active_") \/ act.call \in Requests
         /\ h \in Mem(s1, "ejects_")
               <=> act.call = "Eject" /\ h \notin Mem(s, "active_")
         /\ h \in Mem(s1, "ejects_") => /\ s1.perfd[h].wants = {}
                                        /\ h \notin Mem(s1, "runners_")
         /\ h \in Mem(s1, "runners_")
               => h \in Mem(s, "runners_") \/ act.call = "Run"
         /\ act.call # "Run" => s1.perfd[h].fns = s.perfd[h].fns
         /\ act.call = "Run" => s1.perfd[h].fns = s.perfd[h].fns + 1
<1>1. PICK s0 : /\ Flags(s0, h, s.perfd[h].wants \ {d}, s.perfd[h].squelch,
                         s.perfd[h].muted, s.perfd[h].fns)
                /\ \A m \in ListNames : h \in Mem(s0, m) <=> h \in Mem(s, m)
                /\ Effect(s0, s1, h, act.call)
  BY DEF Upcalled
<1>2. /\ ListNames = {"active_", "idlers_", "ejects_", "runners_", "closers_", "shedders_"}
      /\ ActiveIdle = {"active_", "idlers_", "ejects_"}
      /\ Shared = {"runners_", "closers_", "shedders_"}
  BY DEF ListNames, ActiveIdle, Shared
<1>3. /\ h \notin Mem(s0, "closers_") /\ h \notin Mem(s0, "shedders_")
      /\ h \notin Mem(s0, "ejects_") /\ h \notin Mem(s0, "idlers_")
      /\ h \in Mem(s0, "active_") <=> h \in Mem(s, "active_")
      /\ h \in Mem(s0, "runners_") <=> h \in Mem(s, "runners_")
      /\ s0.perfd[h].fns = s.perfd[h].fns
  BY <1>1, <1>2 DEF Doomed, Flags
<1>4. act.call \in CallNames
  BY PerFdFacts, SiloAssumption DEF Upcalled
<1>5. CASE act.call \in {"none", "Add"}
  <2>1. SameFor(s0, s1, h)
    BY <1>1, <1>5 DEF Effect
  <2> QED BY <1>2, <1>3, <1>5, <2>1 DEF SameFor, Doomed, Requests
<1>6. CASE act.call \in Requests
  <2>1. PICK e \in Dirs : act.call = RequestOf(e)
    BY <1>6 DEF Requests, RequestOf, Dirs
  <2>2. /\ s1.perfd[h].fns = s0.perfd[h].fns
        /\ \A m \in ActiveIdle : h \in Mem(s1, m) <=> m = "active_"
        /\ \A m \in Shared : h \in Mem(s1, m) <=> h \in Mem(s0, m)
    BY <1>1, <2>1 DEF Effect, Flags
  <2> QED BY <1>2, <1>3, <1>6, <2>2 DEF Doomed, Requests
<1>7. CASE act.call = "Run"
  <2>1. /\ s1.perfd[h].fns = s0.perfd[h].fns + 1
        /\ \A m \in ListNames : h \in Mem(s1, m) <=>
             h \in Mem(s0, m) \/ (m = "runners_" /\ \A l \in Shared : h \notin Mem(s0, l))
    BY <1>1, <1>7 DEF Effect, Flags
  <2> QED BY <1>2, <1>3, <1>7, <2>1 DEF Doomed, Requests
<1>8. CASE act.call = "Eject"
  <2>1. \/ /\ \A l \in ActiveIdle : h \notin Mem(s0, l)
           /\ s1.perfd[h].wants = {} /\ s1.perfd[h].fns = s0.perfd[h].fns
           /\ \A m \in ListNames : h \in Mem(s1, m) <=> m = "ejects_"
        \/ /\ \E l \in ActiveIdle : h \in Mem(s0, l)
           /\ SameFor(s0, s1, h)
    BY <1>1, <1>8 DEF Effect, Flags
  <2>2. CASE \A l \in ActiveIdle : h \notin Mem(s0, l)
    BY <1>2, <1>3, <1>8, <2>1, <2>2 DEF Doomed, Requests
  <2>3. CASE \E l \in ActiveIdle : h \in Mem(s0, l)
    <3>1. SameFor(s0, s1, h) /\ h \in Mem(s0, "active_")
      BY <1>2, <1>3, <2>1, <2>3
    <3> QED BY <1>2, <1>3, <1>8, <3>1 DEF Doomed, SameFor, Requests
  <2> QED BY <2>2, <2>3
<1> QED BY <1>4, <1>5, <1>6, <1>7, <1>8 DEF CallNames, Requests

(* What an upcall of direction d with act does to the readiness of f.      *)
Moved(x, y, f, d, act) ==
  /\ \A e \in Dirs : e # d => y[f][e] = x[f][e]
  /\ act.outcome = "kFdEagain" => ~(y[f][d] > 0)

(* What every upcall leaves behind.                                        *)
UpcallPost(s, t, h, d, act, v, y) ==
  /\ t.perfd[h].muted = t.perfd[h].squelch
  /\ t.perfd[h].wants \cap t.perfd[h].squelch = {}
  /\ Doomed(t, h) => /\ t.perfd[h].wants = {} /\ h \notin Mem(t, "runners_")
                     /\ \A l \in ActiveIdle : h \notin Mem(t, l)
  /\ h \notin Mem(t, "idlers_") /\ h \notin Mem(t, "shedders_")
  /\ h \in Mem(t, "ejects_") =>
       /\ Solo(Owner(t, h)) /\ \A l \in Shared : h \notin Mem(t, l)
       /\ t.perfd[h].wants \subseteq {d}
  /\ t.perfd[h].fns > 0 => Solo(Owner(t, h))
  /\ h \in Mem(t, "runners_") =>
       /\ t.perfd[h].fns > 0
       /\ \E e \in Dirs : \E a \in Acts[Owner(t, h)][e] : a.call = "Run"
       /\ h \in Mem(s, "runners_") \/ act.call = "Run"
  /\ h \in Mem(t, "active_") => h \in Mem(s, "active_") \/ act.call \in Requests
  /\ \A e \in Dirs : e \in t.perfd[h].wants =>
       \/ e # d /\ e \in s.perfd[h].wants
            /\ (h \in Mem(s, "active_") => h \in Mem(t, "active_"))
       \/ h \in Mem(t, "active_") \/ h \in Mem(t, "ejects_")
       \/ e = d /\ act.outcome = "kYield"
  /\ EdgeKept(t, h, v, y)

LEMMA UpcallFacts ==
  ASSUME WellBehaved, NEW s, NEW s1, NEW t, NEW h, NEW d \in Dirs, NEW act,
         NEW v, NEW x, NEW y, Shape(s), h \in DOMAIN s.perfd,
         Upcalled(s, s1, t, h, d, act), Local(s, h, d, h, v, x),
         d \in s.perfd[h].wants, DOMAIN v = {}, Moved(x, y, s.perfd[h].fd, d, act)
  PROVE  UpcallPost(s, t, h, d, act, v, y)
<1> USE DEF UpcallPost, Moved
<1> DEFINE k == Owner(s, h)
           o == act.outcome
<1>1. /\ act \in Acts[k][d] /\ Settles(s1, t, h, d, o) /\ t.perfd[h].fd = s.perfd[h].fd
      /\ (h \in t.edge <=> h \in s.edge) /\ Owner(t, h) = k
  BY DEF Upcalled, Owner
<1>2. /\ s.perfd[h].muted = s.perfd[h].squelch /\ s.perfd[h].wants \cap s.perfd[h].squelch = {}
      /\ ~Doomed(s, h) /\ h \notin Mem(s, "ejects_") /\ h \notin Mem(s, "idlers_")
  <2>1. WantsAreKept(s, h, d, h) /\ Running(s, h, d, h)
    BY DEF Local
  <2>2. "idlers_" \in ActiveIdle /\ "ejects_" \in ActiveIdle
    BY DEF ActiveIdle
  <2>3. ~Doomed(s, h)
    BY <2>1 DEF WantsAreKept
  <2>4. CASE d = "read"
    BY <2>1, <2>2, <2>3, <2>4 DEF WantsAreKept, Running
  <2>5. CASE d = "write"
    BY <2>1, <2>2, <2>3, <2>5 DEF WantsAreKept, Running
  <2> QED BY <2>4, <2>5 DEF Dirs
<1>3. /\ s1.perfd[h].muted = s1.perfd[h].squelch
      /\ s1.perfd[h].wants \cap s1.perfd[h].squelch = {}
      /\ d \notin s1.perfd[h].squelch
      /\ d \in s1.perfd[h].wants => act.call = RequestOf(d)
      /\ \A e \in Dirs : e \in s1.perfd[h].wants =>
            (e \in s.perfd[h].wants /\ e # d) \/ act.call = RequestOf(e)
      /\ \A e \in Dirs : e # d /\ e \in s.perfd[h].wants =>
            e \in s1.perfd[h].wants \/ h \in Mem(s1, "ejects_")
      /\ \A e \in Dirs : e \in s.perfd[h].muted =>
            e \in s1.perfd[h].muted \/ e \in s1.perfd[h].wants
      /\ s1.perfd[h].wants \subseteq Dirs
  BY <1>2, AfterCall
<1>4. /\ ~Doomed(s1, h) /\ h \notin Mem(s1, "idlers_")
      /\ h \in Mem(s1, "active_")
            <=> h \in Mem(s, "active_") \/ act.call \in Requests
      /\ h \in Mem(s1, "ejects_")
            <=> act.call = "Eject" /\ h \notin Mem(s, "active_")
      /\ h \in Mem(s1, "ejects_") => /\ s1.perfd[h].wants = {}
                                     /\ h \notin Mem(s1, "runners_")
      /\ h \in Mem(s1, "runners_")
            => h \in Mem(s, "runners_") \/ act.call = "Run"
      /\ act.call # "Run" => s1.perfd[h].fns = s.perfd[h].fns
      /\ act.call = "Run" => s1.perfd[h].fns = s.perfd[h].fns + 1
  BY <1>2, CallLists
<1>5. /\ k \in Handlers /\ d \in Dirs /\ s.perfd[h].fns \in Nat
      /\ act.call \in CallNames /\ o \in Outcomes
  BY <1>1, PerFdFacts, SiloAssumption
<1>6. /\ act.call \in {"none", "Add"} \/ Solo(k)
      /\ act.call = RequestOf(d) => o # "kSuspend"
      /\ act.call = "Eject" => o # "kClose"
  BY <1>1, <1>5 DEF WellBehaved, ActsBehave
<1>7. /\ s.perfd[h].fns > 0 => Solo(k)
      /\ h \in Mem(s, "runners_") =>
           /\ s.perfd[h].fns > 0
           /\ \E e \in Dirs : \E a \in Acts[k][e] : a.call = "Run"
  BY DEF Local, Placed
<1>8. /\ s1.perfd[h].fns > 0 => Solo(k)
      /\ h \in Mem(s1, "runners_") =>
           /\ s1.perfd[h].fns > 0
           /\ \E e \in Dirs : \E a \in Acts[k][e] : a.call = "Run"
  <2>1. CASE act.call = "Run"
    <3>1. s1.perfd[h].fns > 0 /\ Solo(k)
      BY <1>4, <1>5, <1>6, <2>1
    <3> QED BY <1>1, <2>1, <3>1
  <2>2. CASE act.call # "Run"
    BY <1>4, <1>7, <2>2
  <2> QED BY <2>1, <2>2
<1>9. /\ "active_" \in ListNames /\ "idlers_" \in ListNames /\ "ejects_" \in ListNames
      /\ "runners_" \in ListNames /\ "closers_" \in ListNames /\ "shedders_" \in ListNames
      /\ ActiveIdle = {"active_", "idlers_", "ejects_"}
      /\ Shared = {"runners_", "closers_", "shedders_"}
  BY DEF ListNames, ActiveIdle, Shared
<1>10. \A e \in Dirs : x[s.perfd[h].fd][e] > 0 /\ e \notin s.perfd[h].muted =>
         h \in s.edge \/ e \in s.perfd[h].wants
  BY <1>2 DEF Local, EdgeKept
<1>11. CASE o = "kClose"
  <2>1. /\ t.perfd[h].wants = {} /\ t.perfd[h].squelch = s1.perfd[h].squelch
        /\ t.perfd[h].muted = s1.perfd[h].muted /\ t.perfd[h].fns = s1.perfd[h].fns
        /\ \A m \in ListNames : h \in Mem(t, m) <=> m = "closers_"
    BY <1>1, <1>11 DEF Settles, Flags
  <2>2. /\ h \in Mem(t, "closers_") /\ h \notin Mem(t, "active_") /\ h \notin Mem(t, "idlers_")
        /\ h \notin Mem(t, "ejects_") /\ h \notin Mem(t, "runners_")
        /\ h \notin Mem(t, "shedders_")
    BY <1>9, <2>1
  <2>3. EdgeKept(t, h, v, y)
    BY <2>2 DEF EdgeKept, Doomed
  <2> QED BY <1>1, <1>3, <1>8, <1>9, <2>1, <2>2, <2>3 DEF Doomed
<1>12. CASE o # "kClose"
  <2> DEFINE W1 == s1.perfd[h].wants
             Q1 == s1.perfd[h].squelch
             W == t.perfd[h].wants
             Q == t.perfd[h].squelch
             M == t.perfd[h].muted
  <2>1. /\ W = (IF o = "kYield" THEN W1 \cup {d} ELSE W1)
        /\ Q = (IF o = "kSuspend" THEN Q1 \cup {d} ELSE Q1)
        /\ M = (IF o = "kSuspend" THEN Q1 \cup {d} ELSE Q1 \ {d})
        /\ t.perfd[h].fns = s1.perfd[h].fns
        /\ \A m \in ListNames : h \in Mem(t, m) <=> h \in Mem(s1, m)
    BY <1>1, <1>3, <1>12 DEF Settles, Flags
  <2>2. /\ d \notin Q1 /\ W1 \cap Q1 = {} /\ (d \in W1 => o # "kSuspend")
    BY <1>3, <1>6
  <2>3. M = Q /\ W \cap Q = {}
    <3> HIDE DEF W1, Q1, W, Q, M, o
    <3>1. CASE o = "kSuspend"
      BY <2>1, <2>2, <3>1
    <3>2. CASE o # "kSuspend"
      BY <2>1, <2>2, <3>2
    <3> QED BY <3>1, <3>2
  <2>4. /\ ~Doomed(t, h) /\ h \notin Mem(t, "idlers_") /\ h \notin Mem(t, "shedders_")
        /\ h \in Mem(t, "active_") <=> h \in Mem(s1, "active_")
        /\ h \in Mem(t, "ejects_") <=> h \in Mem(s1, "ejects_")
        /\ h \in Mem(t, "runners_") <=> h \in Mem(s1, "runners_")
        /\ h \notin Mem(t, "closers_")
    BY <1>4, <1>9, <2>1 DEF Doomed
  <2>5. h \in Mem(t, "ejects_") =>
          /\ Solo(k) /\ \A l \in Shared : h \notin Mem(t, l)
          /\ W \subseteq {d}
    <3>1. SUFFICES ASSUME h \in Mem(t, "ejects_") PROVE Solo(k) /\ W \subseteq {d}
                                                     /\ h \notin Mem(t, "runners_")
      BY <1>9, <2>4
    <3>2. W1 = {} /\ h \notin Mem(t, "runners_") /\ act.call = "Eject"
      BY <1>4, <2>4, <3>1
    <3>3. Solo(k)
      BY <1>6, <3>2
    <3> HIDE DEF W1, W, o
    <3> QED BY <2>1, <3>2, <3>3
  <2>6. ASSUME NEW e \in Dirs, e \in W
        PROVE  \/ e # d /\ e \in s.perfd[h].wants
                    /\ (h \in Mem(s, "active_") => h \in Mem(t, "active_"))
               \/ h \in Mem(t, "active_") \/ h \in Mem(t, "ejects_")
               \/ e = d /\ o = "kYield"
    <3>1. e \in W1 \/ (e = d /\ o = "kYield")
      <4> HIDE DEF W1, W, o
      <4> QED BY <2>1, <2>6
    <3>2. CASE e \in W1
      <4>1. (e \in s.perfd[h].wants /\ e # d) \/ act.call = RequestOf(e)
        BY <1>3, <3>2
      <4>2. act.call = RequestOf(e) => h \in Mem(t, "active_")
        BY <1>4, <2>4 DEF Requests, RequestOf
      <4>3. h \in Mem(s, "active_") => h \in Mem(t, "active_")
        BY <1>4, <2>4
      <4> QED BY <4>1, <4>2, <4>3
    <3> QED BY <3>1, <3>2
  <2>7. EdgeKept(t, h, v, y)
    <3>1. SUFFICES ASSUME NEW e \in Dirs, y[s.perfd[h].fd][e] > 0, e \notin M
                   PROVE  h \in t.edge \/ e \in W \/ h \in Mem(t, "ejects_")
      BY <1>1 DEF EdgeKept
    <3>2. CASE e = d
      <4>1. o # "kFdEagain"
        BY <3>1, <3>2
      <4>2. o # "kSuspend"
        <5> HIDE DEF M, Q1, o
        <5> QED BY <2>1, <3>1, <3>2
      <4>3. o = "kYield"
        BY <1>5, <1>12, <4>1, <4>2 DEF Outcomes
      <4>4. W = W1 \cup {d}
        <5> HIDE DEF W, W1, o
        <5> QED BY <2>1, <4>3
      <4> QED BY <3>2, <4>4
    <3>3. CASE e # d
      <4>1. x[s.perfd[h].fd][e] > 0
        BY <3>1, <3>3
      <4>2. W1 \subseteq W
        <5> HIDE DEF W, W1, o
        <5> QED BY <2>1
      <4>3. e \notin Q1
        <5> HIDE DEF M, Q1, o
        <5> QED BY <2>1, <3>1, <3>3
      <4>4. CASE e \in s.perfd[h].muted
        BY <1>3, <4>2, <4>3, <4>4
      <4>5. CASE e \notin s.perfd[h].muted
        BY <1>1, <1>3, <1>10, <2>4, <3>3, <4>1, <4>2, <4>5
      <4> QED BY <4>4, <4>5
    <3> QED BY <3>2, <3>3
  <2> HIDE DEF W, Q, M
  <2>8. /\ t.perfd[h].fns > 0 => Solo(k)
        /\ h \in Mem(t, "runners_") =>
              /\ t.perfd[h].fns > 0
              /\ \E e \in Dirs : \E a \in Acts[k][e] : a.call = "Run"
              /\ h \in Mem(s, "runners_") \/ act.call = "Run"
        /\ h \in Mem(t, "active_") => h \in Mem(s, "active_") \/ act.call \in Requests
    BY <1>4, <1>8, <2>1, <2>4
  <2> HIDE DEF k, o
  <2> QED BY <1>1, <2>3, <2>4, <2>5, <2>6, <2>7, <2>8 DEF W, Q, M, o
<1> QED BY <1>11, <1>12

LEMMA RunRules ==
  ASSUME WellBehaved, NEW k \in Handlers, NEW d \in Dirs, NEW a \in Acts[k][d],
         a.call = "Run"
  PROVE  /\ ~(Yields(k) /\ Asks(k))
         /\ \A e \in Dirs : \A b \in Acts[k][e] :
              b.outcome = "kYield" => e = d /\ b.call # "Run"
BY DEF WellBehaved, ActsBehave

(* After a read upcall.                                                    *)
LEMMA ReadLocal ==
  ASSUME WellBehaved, NEW s, NEW s1, NEW t, NEW h, NEW act,
         NEW v, NEW x, NEW y, Shape(s), h \in DOMAIN s.perfd,
         Upcalled(s, s1, t, h, "read", act), Local(s, h, "read", h, v, x),
         "read" \in s.perfd[h].wants, DOMAIN v = {},
         Moved(x, y, s.perfd[h].fd, "read", act)
  PROVE  Local(t, h, "write", h, v, y)
<1> DEFINE k == Owner(t, h)
<1>0. "read" \in Dirs /\ "write" \in Dirs
  BY DEF Dirs
<1>1. /\ t.perfd[h].muted = t.perfd[h].squelch
      /\ t.perfd[h].wants \cap t.perfd[h].squelch = {}
      /\ Doomed(t, h) => /\ t.perfd[h].wants = {} /\ h \notin Mem(t, "runners_")
                         /\ \A l \in ActiveIdle : h \notin Mem(t, l)
      /\ h \notin Mem(t, "idlers_") /\ h \notin Mem(t, "shedders_")
      /\ h \in Mem(t, "ejects_") =>
           /\ Solo(k) /\ \A l \in Shared : h \notin Mem(t, l)
           /\ t.perfd[h].wants \subseteq {"read"}
      /\ t.perfd[h].fns > 0 => Solo(k)
      /\ h \in Mem(t, "runners_") =>
           /\ t.perfd[h].fns > 0
           /\ \E e \in Dirs : \E a \in Acts[k][e] : a.call = "Run"
           /\ h \in Mem(s, "runners_") \/ act.call = "Run"
      /\ h \in Mem(t, "active_") => h \in Mem(s, "active_") \/ act.call \in Requests
      /\ "read" \in t.perfd[h].wants =>
           \/ h \in Mem(t, "active_") \/ h \in Mem(t, "ejects_")
           \/ act.outcome = "kYield"
      /\ EdgeKept(t, h, v, y)
  <2>1. UpcallPost(s, t, h, "read", act, v, y)
    BY <1>0, UpcallFacts
  <2> QED BY <1>0, <2>1 DEF UpcallPost
<1>2. act \in Acts[k]["read"] /\ Owner(s, h) = k /\ k \in Handlers
  BY PerFdFacts DEF Upcalled, Owner
<1>3. /\ h \notin Mem(s, "active_")
      /\ h \in Mem(s, "runners_") => ~Yields(k)
  BY <1>2 DEF Local, Running, Placed, ActiveIdle
<1>4. ListPhases(t, h, "write")
  BY <1>1 DEF ListPhases
<1>5. WantsAreKept(t, h, "write", h)
  BY <1>1 DEF WantsAreKept
<1>6. h \in Mem(t, "runners_") /\ Yields(k) =>
         act.call = "Run" /\ h \notin Mem(t, "active_") /\ "read" \notin t.perfd[h].wants
  <2>1. SUFFICES ASSUME h \in Mem(t, "runners_"), Yields(k)
                 PROVE  /\ act.call = "Run" /\ h \notin Mem(t, "active_")
                        /\ "read" \notin t.perfd[h].wants
    OBVIOUS
  <2>2. act.call = "Run"
    BY <1>1, <1>3, <2>1
  <2>3. h \notin Mem(t, "active_")
    BY <1>1, <1>3, <2>2 DEF Requests
  <2>4. h \notin Mem(t, "ejects_")
    BY <1>1, <2>1 DEF Shared
  <2>5. act.outcome # "kYield"
    BY <1>0, <1>2, <2>2, RunRules
  <2> QED BY <1>1, <2>2, <2>3, <2>4, <2>5
<1>7. Placed(t, h, "write", h)
  BY <1>1, <1>6 DEF Placed
<1>8. Running(t, h, "write", h)
  <2>1. h \in Mem(t, "active_") => Asks(k)
    BY <1>0, <1>1, <1>2, <1>3 DEF Asks
  <2>2. "read" \in t.perfd[h].wants =>
            \/ h \in Mem(t, "active_") \/ h \in Mem(t, "ejects_")
            \/ \E a \in Acts[k]["read"] : a.outcome = "kYield"
    BY <1>1, <1>2
  <2>3. h \in Mem(t, "ejects_") => "write" \notin t.perfd[h].wants
    BY <1>1
  <2>4. h \in Mem(t, "runners_") /\ Yields(k) =>
            /\ "read" \notin t.perfd[h].wants
            /\ \E a \in Acts[k]["read"] : a.call = "Run"
    BY <1>2, <1>6
  <2> QED BY <1>1, <2>1, <2>2, <2>3, <2>4 DEF Running
<1> QED BY <1>1, <1>4, <1>5, <1>7, <1>8 DEF Local

(* A descriptor that is placed after its upcalls.                          *)
LEMMA PlaceLocal ==
  ASSUME NEW t, NEW u, NEW h, NEW v, NEW y, Shape(t), h \in DOMAIN t.perfd,
         u = Place(t, h), DOMAIN v = {},
         t.perfd[h].muted = t.perfd[h].squelch,
         t.perfd[h].wants \cap t.perfd[h].squelch = {},
         Doomed(t, h) => /\ t.perfd[h].wants = {}
                         /\ \A l \in ActiveIdle : h \notin Mem(t, l),
         h \notin Mem(t, "idlers_"), h \notin Mem(t, "shedders_"),
         h \in Mem(t, "ejects_") =>
            Solo(Owner(t, h)) /\ \A l \in Shared : h \notin Mem(t, l),
         t.perfd[h].fns > 0 => Solo(Owner(t, h)),
         h \in Mem(t, "runners_") =>
            /\ t.perfd[h].fns > 0
            /\ \E e \in Dirs : \E a \in Acts[Owner(t, h)][e] : a.call = "Run"
            /\ Yields(Owner(t, h)) => h \notin Mem(t, "active_")
            /\ t.perfd[h].wants # {} => h \in Mem(t, "active_") \/ h \in Mem(t, "ejects_"),
         EdgeKept(t, h, v, y)
  PROVE  Local(u, h, "actives", 0, v, y)
<1>1. /\ Shape(u) /\ Touches(t, u, h) /\ u.perfd = t.perfd
      /\ (\E l \in ListNames : h \in Mem(t, l)) =>
            \A m \in ListNames : h \in Mem(u, m) <=> h \in Mem(t, m)
      /\ (\A l \in ListNames : h \notin Mem(t, l)) =>
            \A m \in ListNames : h \in Mem(u, m) <=>
              m = (IF t.perfd[h].wants # {} THEN "active_" ELSE "idlers_")
  BY PlaceIs
<1>2. h # 0
  BY ListFacts
<1>3. /\ ListNames = {"active_", "idlers_", "ejects_", "runners_", "closers_", "shedders_"}
      /\ ActiveIdle = {"active_", "idlers_", "ejects_"}
      /\ Shared = {"runners_", "closers_", "shedders_"}
  BY DEF ListNames, ActiveIdle, Shared
<1>4. Owner(u, h) = Owner(t, h) /\ (h \in u.edge <=> h \in t.edge)
  BY <1>1 DEF Owner, Touches, SameTable
<1>5. CASE \E l \in ListNames : h \in Mem(t, l)
  <2>1. \A m \in ListNames : h \in Mem(u, m) <=> h \in Mem(t, m)
    BY <1>1, <1>5
  <2>2. Doomed(u, h) <=> Doomed(t, h)
    BY <1>3, <2>1 DEF Doomed
  <2>3. ListPhases(u, h, "actives")
    BY <1>3, <2>1 DEF ListPhases
  <2>4. t.perfd[h].wants # {} => h \in Mem(t, "active_") \/ h \in Mem(t, "ejects_")
    BY <1>3, <1>5 DEF Doomed
  <2>5. WantsAreKept(u, h, "actives", 0)
    BY <1>1, <1>3, <1>4, <2>1, <2>2, <2>4 DEF WantsAreKept
  <2>6. Placed(u, h, "actives", 0)
    <3>1. \/ \E l \in ActiveIdle : h \in Mem(u, l)
          \/ Doomed(u, h)
          \/ u.perfd[h].fns > 0 /\ h \in Mem(u, "runners_")
      BY <1>1, <1>3, <1>5, <2>1 DEF Doomed
    <3> QED BY <1>1, <1>2, <1>3, <1>4, <2>1, <3>1 DEF Placed
  <2>7. Running(u, h, "actives", 0)
    BY <1>2 DEF Running
  <2>8. EdgeKept(u, h, v, y)
    BY <1>1, <1>3, <1>4, <2>1, <2>2 DEF EdgeKept
  <2> QED BY <2>3, <2>5, <2>6, <2>7, <2>8 DEF Local
<1>6. CASE \A l \in ListNames : h \notin Mem(t, l)
  <2> DEFINE m0 == IF t.perfd[h].wants # {} THEN "active_" ELSE "idlers_"
  <2>1. \A m \in ListNames : h \in Mem(u, m) <=> m = m0
    BY <1>1, <1>6
  <2>2. m0 \in {"active_", "idlers_"} /\ (t.perfd[h].wants # {} => m0 = "active_")
    OBVIOUS
  <2> HIDE DEF m0
  <2>3. /\ h \notin Mem(u, "ejects_") /\ h \notin Mem(u, "runners_")
        /\ h \notin Mem(u, "closers_") /\ h \notin Mem(u, "shedders_")
        /\ h \in Mem(u, "active_") \/ h \in Mem(u, "idlers_")
        /\ t.perfd[h].wants # {} => h \in Mem(u, "active_")
    BY <1>3, <2>1, <2>2
  <2>4. ~Doomed(u, h) /\ ~Doomed(t, h) /\ h \notin Mem(t, "ejects_")
    BY <1>3, <1>6, <2>3 DEF Doomed
  <2>5. ListPhases(u, h, "actives")
    BY <2>3 DEF ListPhases
  <2>6. WantsAreKept(u, h, "actives", 0)
    BY <1>1, <2>3, <2>4 DEF WantsAreKept
  <2>7. Placed(u, h, "actives", 0)
    BY <1>1, <1>3, <1>4, <2>3 DEF Placed
  <2>8. Running(u, h, "actives", 0)
    BY <1>2 DEF Running
  <2>9. EdgeKept(u, h, v, y)
    BY <1>1, <1>4, <2>3, <2>4 DEF EdgeKept
  <2> QED BY <2>4, <2>5, <2>6, <2>7, <2>8, <2>9 DEF Local
<1> QED BY <1>5, <1>6

(* After a write upcall.                                                   *)
LEMMA WriteLocal ==
  ASSUME WellBehaved, NEW s, NEW s1, NEW t, NEW u, NEW h, NEW act,
         NEW v, NEW x, NEW y, Shape(s), h \in DOMAIN s.perfd,
         Upcalled(s, s1, t, h, "write", act), Local(s, h, "write", h, v, x),
         "write" \in s.perfd[h].wants, DOMAIN v = {},
         Moved(x, y, s.perfd[h].fd, "write", act),
         Shape(t), h \in DOMAIN t.perfd, u = Place(t, h)
  PROVE  Local(u, h, "actives", 0, v, y)
<1> DEFINE k == Owner(t, h)
<1>0. "read" \in Dirs /\ "write" \in Dirs /\ \A e \in Dirs : e # "write" => e = "read"
  BY DEF Dirs
<1>1. /\ t.perfd[h].muted = t.perfd[h].squelch
      /\ t.perfd[h].wants \cap t.perfd[h].squelch = {}
      /\ Doomed(t, h) => /\ t.perfd[h].wants = {} /\ h \notin Mem(t, "runners_")
                         /\ \A l \in ActiveIdle : h \notin Mem(t, l)
      /\ h \notin Mem(t, "idlers_") /\ h \notin Mem(t, "shedders_")
      /\ h \in Mem(t, "ejects_") =>
           /\ Solo(k) /\ \A l \in Shared : h \notin Mem(t, l)
      /\ t.perfd[h].fns > 0 => Solo(k)
      /\ h \in Mem(t, "runners_") =>
           /\ t.perfd[h].fns > 0
           /\ \E e \in Dirs : \E a \in Acts[k][e] : a.call = "Run"
           /\ h \in Mem(s, "runners_") \/ act.call = "Run"
      /\ h \in Mem(t, "active_") => h \in Mem(s, "active_") \/ act.call \in Requests
      /\ \A e \in Dirs : e \in t.perfd[h].wants =>
           \/ e # "write" /\ e \in s.perfd[h].wants
                /\ (h \in Mem(s, "active_") => h \in Mem(t, "active_"))
           \/ h \in Mem(t, "active_") \/ h \in Mem(t, "ejects_")
           \/ e = "write" /\ act.outcome = "kYield"
      /\ EdgeKept(t, h, v, y)
  <2>1. UpcallPost(s, t, h, "write", act, v, y)
    BY <1>0, UpcallFacts
  <2> QED BY <1>0, <2>1 DEF UpcallPost
<1>2. act \in Acts[k]["write"] /\ Owner(s, h) = k /\ k \in Handlers
  BY PerFdFacts DEF Upcalled, Owner
<1>3. /\ h \in Mem(s, "active_") => Asks(k)
      /\ h \notin Mem(s, "ejects_")
      /\ "read" \in s.perfd[h].wants =>
           \/ h \in Mem(s, "active_")
           \/ \E a \in Acts[k]["read"] : a.outcome = "kYield"
      /\ h \in Mem(s, "runners_") =>
           /\ Yields(k) => /\ "read" \notin s.perfd[h].wants
                           /\ \E a \in Acts[k]["read"] : a.call = "Run"
                           /\ h \notin Mem(s, "active_")
           /\ \E d \in Dirs : \E a \in Acts[k][d] : a.call = "Run"
  BY <1>2 DEF Local, Running, Placed
<1>4. ASSUME h \in Mem(t, "runners_"), Yields(k) PROVE h \notin Mem(t, "active_")
  <2>1. PICK d \in Dirs : \E a \in Acts[k][d] : a.call = "Run"
    BY <1>1, <1>4
  <2>2. ~Asks(k)
    BY <1>2, <1>4, <2>1, RunRules
  <2>3. act.call \notin Requests
    BY <1>0, <1>2, <2>2 DEF Asks
  <2> QED BY <1>1, <1>3, <2>2, <2>3
<1>5. ASSUME h \in Mem(t, "runners_"), NEW e \in Dirs, e \in t.perfd[h].wants
      PROVE  h \in Mem(t, "active_") \/ h \in Mem(t, "ejects_")
  <2>1. CASE e # "write" /\ e \in s.perfd[h].wants
                /\ (h \in Mem(s, "active_") => h \in Mem(t, "active_"))
    <3>1. "read" \in s.perfd[h].wants
      BY <1>0, <2>1
    <3>2. CASE h \in Mem(s, "active_")
      BY <2>1, <3>2
    <3>3. CASE \E a \in Acts[k]["read"] : a.outcome = "kYield"
      <4>1. Yields(k)
        BY <1>0, <3>3 DEF Yields
      <4>2. act.call = "Run"
        BY <1>1, <1>3, <1>5, <3>1, <4>1
      <4> QED BY <1>0, <1>2, <3>3, <4>2, RunRules
    <3> QED BY <1>3, <3>1, <3>2, <3>3
  <2>2. CASE e = "write" /\ act.outcome = "kYield"
    <3>1. Yields(k)
      BY <1>0, <1>2, <2>2 DEF Yields
    <3>2. CASE act.call = "Run"
      BY <1>0, <1>2, <2>2, <3>2, RunRules
    <3>3. CASE h \in Mem(s, "runners_")
      <4>1. PICK a \in Acts[k]["read"] : a.call = "Run"
        BY <1>3, <3>1, <3>3
      <4>2. "write" = "read"
        BY <1>0, <1>2, <2>2, <4>1, RunRules
      <4> QED BY <4>2
    <3> QED BY <1>1, <1>5, <3>2, <3>3
  <2> QED BY <1>1, <1>5, <2>1, <2>2
<1>6. t.perfd[h].wants \subseteq Dirs
  BY PerFdFacts
<1>7. h \in Mem(t, "runners_") =>
        /\ t.perfd[h].fns > 0
        /\ \E e \in Dirs : \E a \in Acts[k][e] : a.call = "Run"
        /\ Yields(k) => h \notin Mem(t, "active_")
        /\ t.perfd[h].wants # {} => h \in Mem(t, "active_") \/ h \in Mem(t, "ejects_")
  BY <1>1, <1>4, <1>5, <1>6
<1> QED BY <1>1, <1>7, PlaceLocal

(* No write upcall was wanted.                                             *)
LEMMA NoWriteLocal ==
  ASSUME NEW s, NEW u, NEW h, NEW v, NEW x, Shape(s), h \in DOMAIN s.perfd,
         Local(s, h, "write", h, v, x), "write" \notin s.perfd[h].wants, DOMAIN v = {},
         u = Place(s, h)
  PROVE  Local(u, h, "actives", 0, v, x)
<1>1. /\ s.perfd[h].muted = s.perfd[h].squelch
      /\ s.perfd[h].wants \cap s.perfd[h].squelch = {}
      /\ Doomed(s, h) => /\ s.perfd[h].wants = {}
                         /\ \A l \in ActiveIdle : h \notin Mem(s, l)
      /\ h \in Mem(s, "ejects_") =>
           /\ Solo(Owner(s, h)) /\ \A l \in Shared : h \notin Mem(s, l)
  BY DEF Local, WantsAreKept
<1>2. h \notin Mem(s, "idlers_") /\ h \notin Mem(s, "shedders_") /\ EdgeKept(s, h, v, x)
  BY DEF Local, Running, ListPhases
<1>3. s.perfd[h].wants # {} => "read" \in s.perfd[h].wants
  BY PerFdFacts DEF Dirs
<1>4. "read" \in s.perfd[h].wants =>
            \/ h \in Mem(s, "active_") \/ h \in Mem(s, "ejects_")
            \/ Yields(Owner(s, h))
  BY DEF Local, Running, Yields, Dirs
<1>5. h \in Mem(s, "runners_") /\ Yields(Owner(s, h)) => "read" \notin s.perfd[h].wants
  BY DEF Local, Running
<1>6. /\ s.perfd[h].fns > 0 => Solo(Owner(s, h))
      /\ h \in Mem(s, "runners_") =>
        /\ s.perfd[h].fns > 0
        /\ \E e \in Dirs : \E a \in Acts[Owner(s, h)][e] : a.call = "Run"
        /\ Yields(Owner(s, h)) => h \notin Mem(s, "active_")
  BY DEF Local, Placed
<1>7. h \in Mem(s, "runners_") =>
        (s.perfd[h].wants # {} => h \in Mem(s, "active_") \/ h \in Mem(s, "ejects_"))
  BY <1>3, <1>4, <1>5
<1> QED BY <1>1, <1>2, <1>6, <1>7, PlaceLocal

(* No read upcall was wanted.                                              *)
LEMMA NoReadLocal ==
  ASSUME NEW s, NEW h, NEW v, NEW x, Shape(s), h \in DOMAIN s.perfd,
         Local(s, h, "read", h, v, x), "read" \notin s.perfd[h].wants
  PROVE  Local(s, h, "write", h, v, x)
<1>1. /\ ~Doomed(s, h) /\ h \notin Mem(s, "idlers_") /\ h \notin Mem(s, "active_")
      /\ h \notin Mem(s, "ejects_")
  BY DEF Local, Running, ActiveIdle
<1>2. ListPhases(s, h, "write")
  BY DEF Local, ListPhases
<1>3. WantsAreKept(s, h, "write", h)
  BY DEF Local, WantsAreKept
<1>4. Placed(s, h, "write", h) /\ (h \in Mem(s, "runners_") => ~Yields(Owner(s, h)))
  BY DEF Local, Placed
<1>5. Running(s, h, "write", h)
  BY <1>1, <1>4 DEF Running
<1> QED BY <1>2, <1>3, <1>4, <1>5 DEF Local

-----------------------------------------------------------------------------
(***************************************************************************)
(* The steps of the loop                                                   *)
(***************************************************************************)
LEMMA Becomes ==
  ASSUME NEW t, Become(t), Shape(t)
  PROVE  /\ Now' = t /\ perfd' = t.perfd /\ lists' = t.lists /\ fate' = t.fate
         /\ Live' = DOMAIN t.perfd
<1>1. t.fault = "none" /\ IsBundle(t)
  BY DEF Shape, TableShape
<1>2. /\ perfd' = t.perfd /\ next' = t.next /\ lists' = t.lists /\ handles_' = t.handles_
      /\ edge' = t.edge /\ fate' = t.fate /\ fault' = t.fault
  BY <1>1 DEF Become
<1>3. Now' = t
  BY <1>1, <1>2 DEF IsBundle, Now
<1> QED BY <1>2, <1>3 DEF Live

LEMMA TableStays ==
  ASSUME UNCHANGED table
  PROVE  Now' = Now /\ Live' = Live
BY DEF table, Now, Live

LEMMA NowIs ==
  /\ Now.perfd = perfd /\ Now.next = next /\ Now.lists = lists
  /\ Now.handles_ = handles_ /\ Now.edge = edge /\ Now.fate = fate
  /\ Now.fault = fault /\ IsBundle(Now) /\ DOMAIN perfd = Live
BY DEF Now, IsBundle, Live

LEMMA SettleSettles ==
  ASSUME NEW s, Shape(s), NEW h \in DOMAIN s.perfd, NEW d \in Dirs, NEW o \in Outcomes
  PROVE  /\ Shape(Settle(s, h, d, o)) /\ Touches(s, Settle(s, h, d, o), h)
         /\ Settles(s, Settle(s, h, d, o), h, d, o)
<1> DEFINE t == Settle(s, h, d, o)
<1>1. CASE o = "kClose"
  <2>1. t = PushBack(Expunge(s, h), h, "closers_") /\ "closers_" \in ListNames
    BY <1>1 DEF Settle, ListNames, Shared
  <2> HIDE DEF t
  <2>2. /\ Shape(t) /\ Touches(s, t, h)
        /\ \A m \in ListNames : h \in Mem(t, m) <=> m = "closers_"
        /\ Flags(t, h, {}, s.perfd[h].squelch, s.perfd[h].muted, s.perfd[h].fns)
    BY <2>1, SentIs
  <2> QED BY <1>1, <2>2 DEF Settles, t
<1>2. CASE o # "kClose"
  <2>1. /\ Shape(t) /\ Touches(s, t, h) /\ SameMem(s, t)
        /\ Flags(t, h,
                  IF o = "kYield" THEN s.perfd[h].wants \cup {d} ELSE s.perfd[h].wants,
                  IF o = "kSuspend" THEN s.perfd[h].squelch \cup {d}
                                    ELSE s.perfd[h].squelch,
                  IF o = "kSuspend" THEN s.perfd[h].muted \cup {d}
                                    ELSE s.perfd[h].muted \ {d},
                  s.perfd[h].fns)
    BY <1>2, SettleIs
  <2> HIDE DEF t
  <2> QED BY <1>2, <2>1 DEF Settles, SameMem, t
<1> QED BY <1>1, <1>2

(* Taking a direction off what h wants.                                    *)
LEMMA Unwanting ==
  ASSUME NEW s, Shape(s), NEW h \in DOMAIN s.perfd, NEW d
  PROVE  /\ Shape([s EXCEPT !.perfd[h].wants = @ \ {d}])
         /\ Touches(s, [s EXCEPT !.perfd[h].wants = @ \ {d}], h)
         /\ SameMem(s, [s EXCEPT !.perfd[h].wants = @ \ {d}])
         /\ Flags([s EXCEPT !.perfd[h].wants = @ \ {d}], h, s.perfd[h].wants \ {d},
                  s.perfd[h].squelch, s.perfd[h].muted, s.perfd[h].fns)
<1> DEFINE p == s.perfd[h]
           q == [p EXCEPT !.wants = @ \ {d}]
           e == [s EXCEPT !.perfd[h] = q]
           t == [s EXCEPT !.perfd[h].wants = @ \ {d}]
<1>1. p \in PerFds /\ p.wants \subseteq Dirs
  BY PerFdFacts
<1>2. t = e
  OBVIOUS
<1>3. /\ q \in PerFds /\ q.fd = p.fd /\ q.fns = p.fns
      /\ q.wants = p.wants \ {d} /\ q.squelch = p.squelch /\ q.muted = p.muted
  <2> HIDE DEF p
  <2> QED BY <1>1 DEF PerFds
<1> HIDE DEF q, t
<1>4. /\ Shape(e) /\ Touches(s, e, h) /\ SameMem(s, e)
      /\ Flags(e, h, q.wants, q.squelch, q.muted, q.fns)
  BY <1>3, SetFlags
<1> HIDE DEF e
<1> QED BY <1>2, <1>3, <1>4 DEF t

LEMMA UpcallSteps ==
  ASSUME SiloInv, WellBehaved, NEW d \in Dirs, pc = d, d \in perfd[current_].wants,
         NEW act \in Acts[OwnerOf[perfd[current_].fd]][d], NEW g \in Known(current_),
         MayCall(act.call, g), Transfer(perfd[current_].fd, d, act),
         NEW t, t = Settle(Call([Now EXCEPT !.perfd[current_].wants = @ \ {d}],
                                act.call, g), current_, d, act.outcome)
  PROVE  /\ SoundBut(t, current_, pc, current_, events, io, inbound, batch, hfds)
         /\ current_ \in Live /\ current_ \in DOMAIN t.perfd
         /\ t.perfd[current_].fd = perfd[current_].fd
         /\ \E s1 : Upcalled(Now, s1, t, current_, d, act)
         /\ Moved(io, io', perfd[current_].fd, d, act)
         /\ \A f \in Fds : f # perfd[current_].fd => io'[f] = io[f]
         /\ io' \in [Fds -> [Dirs -> Nat]]
<1> DEFINE h == current_
           f0 == perfd[current_].fd
           k == OwnerOf[f0]
           s0 == [Now EXCEPT !.perfd[h].wants = @ \ {d}]
           s1 == Call(s0, act.call, g)
<1>1. /\ Sound(Now, pc, current_, events, io, inbound, batch, hfds)
      /\ h \in Live /\ hfds = <<>> /\ DOMAIN events = {} /\ h # 0
      /\ io \in [Fds -> [Dirs -> Nat]]
  BY DEF SiloInv, ThreadShape, Dirs
<1>2. /\ Shape(Now) /\ Ownership(Now, inbound, batch, hfds)
      /\ SoundBut(Now, h, pc, h, events, io, inbound, batch, <<>>)
  BY <1>1, SoundButAny DEF Sound
<1>3. h \in DOMAIN Now.perfd /\ Now.perfd = perfd /\ Now.edge = edge /\ Now.fate = fate
  BY <1>1, NowIs
<1>4. f0 \in Fds /\ k \in Handlers /\ Owner(Now, h) = k
  BY <1>2, <1>3, PerFdFacts DEF Owner
<1>5. act.call \in CallNames /\ act.outcome \in Outcomes
  BY <1>4, SiloAssumption
<1>6. act.call \in {"none", "Add"} \/ g = h
  <2>1. act.call \in {"none", "Add"} \/ Solo(k)
    BY <1>4 DEF WellBehaved, ActsBehave
  <2> QED BY <1>1, <1>2, <2>1, KnownSolo
<1>7. /\ Shape(s0) /\ Touches(Now, s0, h) /\ SameMem(Now, s0)
      /\ Flags(s0, h, perfd[h].wants \ {d}, perfd[h].squelch, perfd[h].muted,
               perfd[h].fns)
  <2>1. /\ Shape(s0) /\ Touches(Now, s0, h) /\ SameMem(Now, s0)
        /\ Flags(s0, h, Now.perfd[h].wants \ {d}, Now.perfd[h].squelch,
                 Now.perfd[h].muted, Now.perfd[h].fns)
    BY <1>2, <1>3, Unwanting
  <2> HIDE DEF s0
  <2> QED BY <1>3, <2>1
<1> HIDE DEF s0
<1>8. SoundBut(s0, h, pc, h, events, io, inbound, batch, <<>>)
  BY <1>2, <1>3, <1>7, TouchStays
<1>9. /\ h \in DOMAIN s0.perfd /\ s0.fate = fate /\ s0.perfd[h].fns = perfd[h].fns
      /\ s0.perfd[h].fd = f0 /\ (h \in s0.edge <=> h \in edge)
      /\ DOMAIN events \subseteq DOMAIN s0.perfd
  BY <1>1, <1>3, <1>7 DEF Touches, SameTable, Flags
<1>10. /\ SoundBut(s1, h, pc, h, events, io, inbound, batch, <<>>)
       /\ h \in DOMAIN s1.perfd /\ s1.perfd[h].fd = s0.perfd[h].fd
       /\ h \in s1.edge <=> h \in s0.edge
       /\ Effect(s0, s1, h, act.call)
  <2>1. Callable(s0, h, g, act.call, h, events)
    BY <1>5, <1>6, <1>9 DEF Callable
  <2>2. /\ SoundBut(s1, h, pc, h, events, io, inbound, batch, <<>>)
        /\ Called(s0, s1, h, act.call)
    BY <1>8, <2>1, CallIs
  <2> HIDE DEF s1
  <2> QED BY <2>2 DEF Called
<1>11. t = Settle(s1, h, d, act.outcome)
  BY DEF s0
<1> HIDE DEF s1
<1>12. Shape(s1)
  BY <1>10 DEF SoundBut
<1>13. Shape(t) /\ Touches(s1, t, h) /\ Settles(s1, t, h, d, act.outcome)
  BY <1>5, <1>10, <1>11, <1>12, SettleSettles
<1>14. SoundBut(t, h, pc, h, events, io, inbound, batch, <<>>)
  BY <1>10, <1>13, TouchStays
<1>15. /\ h \in DOMAIN t.perfd /\ t.perfd[h].fd = f0 /\ (h \in t.edge <=> h \in edge)
  BY <1>9, <1>10, <1>13 DEF Touches, SameTable
<1>16. Upcalled(Now, s1, t, h, d, act)
  BY <1>3, <1>4, <1>7, <1>10, <1>13, <1>15 DEF Upcalled, SameMem
<1>17. /\ io' \in [Fds -> [Dirs -> Nat]] /\ \A f \in Fds : f # f0 => io'[f] = io[f]
       /\ Moved(io, io', f0, d, act)
  <2> DEFINE n == IF act.outcome = "kFdEagain" THEN 0
                  ELSE IF act.outcome = "kYield" /\ io[f0][d] > 0
                  THEN io[f0][d] - 1 ELSE io[f0][d]
  <2>1. io' = [io EXCEPT ![f0][d] = n]
    BY DEF Transfer
  <2>2. io[f0][d] \in Nat
    BY <1>1, <1>4
  <2>3. n \in Nat /\ (act.outcome = "kFdEagain" => n = 0)
    BY <2>2
  <2> HIDE DEF n, f0
  <2>4. /\ io' \in [Fds -> [Dirs -> Nat]] /\ \A f \in Fds : f # f0 => io'[f] = io[f]
        /\ \A e \in Dirs : e # d => io'[f0][e] = io[f0][e]
        /\ io'[f0][d] = n
    BY <1>1, <1>4, <2>1, <2>3
  <2> QED BY <2>3, <2>4 DEF Moved
<1> QED BY <1>1, <1>14, <1>15, <1>16, <1>17

LEMMA Stepped ==
  ASSUME NEW t, Become(t), ThreadShape',
         Sound(t, pc', current_', events', io', inbound', batch', hfds')
  PROVE  SiloInv'
<1>1. Shape(t)
  BY DEF Sound
<1>2. Now' = t
  BY <1>1, Becomes
<1>3. Sound(Now, pc, current_, events, io, inbound, batch, hfds)'
  BY <1>2
<1> QED BY <1>3 DEF SiloInv

(* A step of the phases after the events.                                  *)
Quiet == /\ DOMAIN events = {} /\ hfds = <<>>
         /\ UNCHANGED <<events, shedLeft, impending_shed_, hfds, hup, spent>>

LEMMA QuietStep ==
  ASSUME SiloInv, NEW t, Become(t), Quiet,
         Sound(t, pc', current_', events', io', inbound', batch', hfds'),
         pc' \in Phases \ {"events", "shed", "done"},
         current_' \in DOMAIN t.perfd \cup {0},
         current_' # 0 => pc' \in {"read", "write", "runners"},
         pc' \in {"read", "write"} => current_' # 0,
         io' \in [Fds -> [Dirs -> Nat]], batch' # <<>> => pc' = "admit"
  PROVE  SiloInv'
<1>1. perfd' = t.perfd /\ lists' = t.lists /\ Live' = DOMAIN t.perfd
  BY Becomes DEF Sound
<1>2. pc' # "done" /\ pc' \in Phases /\ pc' # "events" /\ pc' \notin {"events", "shed"}
  OBVIOUS
<1>3. ThreadShape'
  <2>1. /\ DOMAIN events' = {} /\ DOMAIN events' \subseteq Live'
        /\ \A h \in DOMAIN events' : events'[h] \subseteq Readiness
        /\ events' = [h \in DOMAIN events' |-> events'[h]]
    BY DEF Quiet, SiloInv, ThreadShape
  <2>2. /\ shedLeft' \in Nat /\ hup' \subseteq Fds
        /\ spent' \in [kernel : Nat, sheds : Nat, runs : Nat]
    BY DEF Quiet, SiloInv, ThreadShape
  <2>3. hfds' = <<>> /\ Len(hfds') <= 1
    BY DEF Quiet
  <2> QED BY <1>1, <1>2, <2>1, <2>2, <2>3 DEF ThreadShape
<1> QED BY <1>3, Stepped

Middle == {"actives", "read", "write", "runners"}

LEMMA SamePhases ==
  ASSUME NEW s, NEW g, NEW p \in Middle, NEW q \in Middle, ListPhases(s, g, p)
  PROVE  ListPhases(s, g, q)
BY DEF ListPhases, Middle

(* The state at an upcall.                                                 *)
LEMMA AtUpcall ==
  ASSUME SiloInv, pc \in {"read", "write"}
  PROVE  /\ current_ \in Live /\ current_ # 0 /\ hfds = <<>> /\ batch = <<>>
         /\ DOMAIN events = {} /\ io \in [Fds -> [Dirs -> Nat]]
         /\ Sound(Now, pc, current_, events, io, inbound, batch, hfds)
         /\ Shape(Now) /\ Local(Now, current_, pc, current_, events, io)
         /\ SoundBut(Now, current_, pc, current_, events, io, inbound, batch, hfds)
         /\ pc \in Middle
         /\ current_ \in DOMAIN Now.perfd /\ Now.perfd = perfd
<1>1. /\ current_ \in Live /\ current_ # 0 /\ hfds = <<>> /\ batch = <<>>
      /\ DOMAIN events = {} /\ io \in [Fds -> [Dirs -> Nat]]
      /\ Sound(Now, pc, current_, events, io, inbound, batch, hfds)
      /\ pc \in Middle
  BY DEF SiloInv, ThreadShape, Middle
<1>2. SoundBut(Now, current_, pc, current_, events, io, inbound, batch, hfds)
  BY <1>1, SoundButAny
<1>3. current_ \in DOMAIN Now.perfd /\ Now.perfd = perfd
  BY <1>1, NowIs
<1>4. Shape(Now) /\ Local(Now, current_, pc, current_, events, io)
  BY <1>1, <1>3 DEF Sound
<1> QED BY <1>1, <1>2, <1>3, <1>4

(* The upcall of h is over: the others do not notice.                      *)
LEMMA UpcallBut ==
  ASSUME NEW s, NEW t, NEW h, NEW p \in Middle, NEW q \in Middle, NEW e, NEW v,
         NEW x, NEW y, NEW q1, NEW q2, NEW q3,
         SoundBut(s, h, p, h, v, x, q1, q2, q3), Shape(t), Touches(s, t, h),
         h \in DOMAIN s.perfd, e \in {0, h},
         \A f \in Fds : f # s.perfd[h].fd => y[f] = x[f]
  PROVE  SoundBut(t, h, q, e, v, y, q1, q2, q3)
<1>1. \A g \in DOMAIN s.perfd : g # h => ListPhases(s, g, q)
  <2>1. \A g \in DOMAIN s.perfd : g # h => ListPhases(s, g, p)
    BY DEF SoundBut, Local
  <2> QED BY <2>1, SamePhases
<1> QED BY <1>1, TouchBut

LEMMA SelfTouches ==
  ASSUME NEW s, NEW h PROVE Touches(s, s, h)
BY DEF Touches, SameTable, Same

LEMMA HandleReadInv ==
  ASSUME SiloInv, WellBehaved, HandleRead
  PROVE  SiloInv'
<1>0. /\ pc = "read" /\ pc' = "write" /\ current_' = current_
      /\ UNCHANGED <<events, shedLeft, impending_shed_, batch, hfds, hup, inbound, spent>>
      /\ pc \in {"read", "write"} /\ pc' \in Middle
  BY DEF HandleRead, At, Middle
<1> DEFINE h == current_
<1>1. /\ h \in Live /\ h # 0 /\ hfds = <<>> /\ batch = <<>>
      /\ DOMAIN events = {} /\ io \in [Fds -> [Dirs -> Nat]]
      /\ Sound(Now, pc, h, events, io, inbound, batch, hfds)
      /\ Shape(Now) /\ Local(Now, h, pc, h, events, io)
      /\ SoundBut(Now, h, pc, h, events, io, inbound, batch, hfds)
      /\ pc \in Middle
      /\ h \in DOMAIN Now.perfd /\ Now.perfd = perfd
  BY <1>0, AtUpcall
<1>2. Quiet
  BY <1>0, <1>1 DEF Quiet
<1>3. ASSUME NEW t, Become(t), io' \in [Fds -> [Dirs -> Nat]], h \in DOMAIN t.perfd,
             Sound(t, "write", h, events, io', inbound, batch, hfds)
      PROVE  SiloInv'
  <2>1. Sound(t, pc', current_', events', io', inbound', batch', hfds')
    BY <1>0, <1>3
  <2> QED BY <1>0, <1>1, <1>2, <1>3, <2>1, QuietStep DEF Phases
<1>4. CASE /\ "read" \notin perfd[h].wants /\ Become(Now) /\ UNCHANGED io
  <2>1. Local(Now, h, "write", h, events, io)
    BY <1>0, <1>1, <1>4, NoReadLocal
  <2>2. SoundBut(Now, h, "write", h, events, io, inbound, batch, hfds)
    BY <1>0, <1>1, SelfTouches, UpcallBut
  <2>3. Sound(Now, "write", h, events, io, inbound, batch, hfds)
    BY <2>1, <2>2, SoundIs
  <2> QED BY <1>1, <1>3, <1>4, <2>3
<1>5. ASSUME "read" \in perfd[h].wants,
             NEW act \in Acts[OwnerOf[perfd[h].fd]]["read"], NEW g \in Known(h),
             MayCall(act.call, g), Transfer(perfd[h].fd, "read", act),
             Become(Settle(Call([Now EXCEPT !.perfd[h].wants = @ \ {"read"}],
                                act.call, g), h, "read", act.outcome))
      PROVE  SiloInv'
  <2> DEFINE t == Settle(Call([Now EXCEPT !.perfd[h].wants = @ \ {"read"}],
                              act.call, g), h, "read", act.outcome)
  <2>0. "read" \in Dirs
    BY DEF Dirs
  <2>1. /\ SoundBut(t, h, pc, h, events, io, inbound, batch, hfds)
        /\ h \in DOMAIN t.perfd /\ t.perfd[h].fd = perfd[h].fd
        /\ \E s1 : Upcalled(Now, s1, t, h, "read", act)
        /\ Moved(io, io', perfd[h].fd, "read", act)
        /\ \A f \in Fds : f # perfd[h].fd => io'[f] = io[f]
        /\ io' \in [Fds -> [Dirs -> Nat]]
    BY <1>0, <1>5, <2>0, UpcallSteps
  <2>2. Become(t)
    BY <1>5
  <2> HIDE DEF t
  <2>3. PICK s1 : Upcalled(Now, s1, t, h, "read", act)
    BY <2>1
  <2>4. Local(t, h, "write", h, events, io')
    BY <1>0, <1>1, <1>5, <2>1, <2>3, ReadLocal
  <2>5. Shape(t) /\ Touches(t, t, h)
    BY <2>1, SelfTouches DEF SoundBut
  <2>6. SoundBut(t, h, "write", h, events, io', inbound, batch, hfds)
    BY <1>0, <1>1, <2>1, <2>5, UpcallBut
  <2>7. Sound(t, "write", h, events, io', inbound, batch, hfds)
    BY <2>4, <2>6, SoundIs
  <2> QED BY <1>3, <2>1, <2>2, <2>7
<1> QED BY <1>4, <1>5 DEF HandleRead, Upcall

LEMMA HandleWriteInv ==
  ASSUME SiloInv, WellBehaved, HandleWrite
  PROVE  SiloInv'
<1>0. /\ pc = "write" /\ pc' = "actives" /\ current_' = 0
      /\ UNCHANGED <<events, shedLeft, impending_shed_, batch, hfds, hup, inbound, spent>>
      /\ pc \in {"read", "write"} /\ pc' \in Middle
  BY DEF HandleWrite, At, Middle
<1> DEFINE h == current_
<1>1. /\ h \in Live /\ h # 0 /\ hfds = <<>> /\ batch = <<>>
      /\ DOMAIN events = {} /\ io \in [Fds -> [Dirs -> Nat]]
      /\ Sound(Now, pc, h, events, io, inbound, batch, hfds)
      /\ Shape(Now) /\ Local(Now, h, pc, h, events, io)
      /\ SoundBut(Now, h, pc, h, events, io, inbound, batch, hfds)
      /\ pc \in Middle
      /\ h \in DOMAIN Now.perfd /\ Now.perfd = perfd
  BY <1>0, AtUpcall
<1>2. Quiet
  BY <1>0, <1>1 DEF Quiet
<1>3. ASSUME NEW u, Become(u), io' \in [Fds -> [Dirs -> Nat]],
             Sound(u, "actives", 0, events, io', inbound, batch, hfds)
      PROVE  SiloInv'
  <2>1. Sound(u, pc', current_', events', io', inbound', batch', hfds')
    BY <1>0, <1>3
  <2> QED BY <1>0, <1>1, <1>2, <1>3, <2>1, QuietStep DEF Phases
<1>4. ASSUME "write" \notin perfd[h].wants, Become(Place(Now, h)), UNCHANGED io
      PROVE  SiloInv'
  <2> DEFINE u == Place(Now, h)
  <2>1. Shape(u) /\ Touches(Now, u, h)
    BY <1>1, PlaceIs
  <2>2. Local(u, h, "actives", 0, events, io)
    BY <1>0, <1>1, <1>4, NoWriteLocal
  <2>3. SoundBut(u, h, "actives", 0, events, io, inbound, batch, hfds)
    BY <1>0, <1>1, <2>1, UpcallBut
  <2>4. Sound(u, "actives", 0, events, io, inbound, batch, hfds)
    BY <2>2, <2>3, SoundIs
  <2> QED BY <1>1, <1>3, <1>4, <2>4
<1>5. ASSUME "write" \in perfd[h].wants,
             NEW act \in Acts[OwnerOf[perfd[h].fd]]["write"], NEW g \in Known(h),
             MayCall(act.call, g), Transfer(perfd[h].fd, "write", act),
             Become(Place(Settle(Call([Now EXCEPT !.perfd[h].wants = @ \ {"write"}],
                                act.call, g), h, "write", act.outcome), h))
      PROVE  SiloInv'
  <2> DEFINE t == Settle(Call([Now EXCEPT !.perfd[h].wants = @ \ {"write"}],
                              act.call, g), h, "write", act.outcome)
             u == Place(t, h)
  <2>0. "write" \in Dirs
    BY DEF Dirs
  <2>1. /\ SoundBut(t, h, pc, h, events, io, inbound, batch, hfds)
        /\ h \in DOMAIN t.perfd /\ t.perfd[h].fd = perfd[h].fd
        /\ \E s1 : Upcalled(Now, s1, t, h, "write", act)
        /\ Moved(io, io', perfd[h].fd, "write", act)
        /\ \A f \in Fds : f # perfd[h].fd => io'[f] = io[f]
        /\ io' \in [Fds -> [Dirs -> Nat]]
    BY <1>0, <1>5, <2>0, UpcallSteps
  <2>2. Become(u)
    BY <1>5
  <2> HIDE DEF t
  <2>3. PICK s1 : Upcalled(Now, s1, t, h, "write", act)
    BY <2>1
  <2>4. Shape(t)
    BY <2>1 DEF SoundBut
  <2>5. Local(u, h, "actives", 0, events, io')
    BY <1>0, <1>1, <1>5, <2>1, <2>3, <2>4, WriteLocal
  <2>6. Shape(u) /\ Touches(t, u, h)
    BY <2>1, <2>4, PlaceIs
  <2> HIDE DEF u
  <2>7. SoundBut(u, h, "actives", 0, events, io', inbound, batch, hfds)
    BY <1>0, <1>1, <2>1, <2>6, UpcallBut
  <2>8. Sound(u, "actives", 0, events, io', inbound, batch, hfds)
    BY <2>5, <2>7, SoundIs
  <2> QED BY <1>3, <2>1, <2>2, <2>8
<1> QED BY <1>4, <1>5 DEF HandleWrite, Upcall

(* A step to another phase that leaves the table alone.                    *)
LEMMA PhaseSound ==
  ASSUME NEW s, NEW p, NEW q, NEW v, NEW x, NEW q1, NEW q2, NEW q3,
         Sound(s, p, 0, v, x, q1, q2, q3),
         \A g \in DOMAIN s.perfd : ListPhases(s, g, q)
  PROVE  Sound(s, q, 0, v, x, q1, q2, q3)
<1>1. Shape(s) /\ \A g \in DOMAIN s.perfd : Local(s, g, p, 0, v, x)
  BY DEF Sound
<1>2. ASSUME NEW g \in DOMAIN s.perfd PROVE Local(s, g, q, 0, v, x)
  <2>1. g # 0 /\ Same(s, s, g)
    BY <1>1, ListFacts DEF Same
  <2>2. Local(s, g, p, 0, v, x) /\ ListPhases(s, g, q)
    BY <1>1
  <2> QED BY <2>1, <2>2, LocalFrame
<1> QED BY <1>2 DEF Sound

LEMMA GotoInv ==
  ASSUME SiloInv, NEW p, NEW q, Goto(p, q), current_ = 0,
         q \in Phases \ {"events", "done", "read", "write"},
         hfds = <<>>, batch = <<>>, DOMAIN events = {},
         \A g \in Live : ListPhases(Now, g, q)
  PROVE  SiloInv'
<1>1. /\ pc' = q /\ current_' = 0
      /\ UNCHANGED <<table, events, shedLeft, impending_shed_, batch, hfds, kernel,
                     inbound, exiting, spent>>
  BY DEF Goto
<1>2. Now' = Now /\ Live' = Live
  BY <1>1, TableStays
<1>3. /\ UNCHANGED <<events, shedLeft, impending_shed_, batch, hfds, io, hup, inbound,
                     spent, lists>>
  BY <1>1 DEF kernel, table
<1>4. ThreadShape'
  <2>1. /\ pc' \in Phases /\ pc' # "events" /\ pc' # "done" /\ pc' \notin {"read", "write"}
    BY <1>1
  <2> QED BY <1>1, <1>2, <1>3, <2>1 DEF SiloInv, ThreadShape
<1>6. Sound(Now, q, 0, events, io, inbound, batch, hfds)
  <2>1. Sound(Now, pc, 0, events, io, inbound, batch, hfds)
    BY DEF SiloInv
  <2>2. \A g \in DOMAIN Now.perfd : ListPhases(Now, g, q)
    BY NowIs
  <2> QED BY <2>1, <2>2, PhaseSound
<1>7. Sound(Now, pc, current_, events, io, inbound, batch, hfds)'
  BY <1>1, <1>2, <1>3, <1>6
<1> QED BY <1>4, <1>7 DEF SiloInv

(* What an empty list means.                                               *)
LEMMA EmptyList ==
  ASSUME NEW l, lists[l] = <<>>
  PROVE  \A g : g \notin Mem(Now, l)
<1>1. \A g : g \notin ToSet(<<>>)
  BY DEF ToSet
<1> QED BY <1>1, NowIs DEF Mem

(* The state between the upcalls and functions.                            *)
LEMMA AtPhase ==
  ASSUME SiloInv, NEW p, pc = p, p \in Phases \ {"read", "write"}
  PROVE  /\ p # "runners" => current_ = 0
         /\ p # "shed" => hfds = <<>>
         /\ p # "admit" => batch = <<>>
         /\ p # "events" => DOMAIN events = {}
         /\ \A g \in Live : g # 0 /\ ListPhases(Now, g, p)
         /\ \A g \in Live : Local(Now, g, p, current_, events, io)
         /\ Sound(Now, p, current_, events, io, inbound, batch, hfds)
         /\ Shape(Now) /\ io \in [Fds -> [Dirs -> Nat]] /\ DOMAIN Now.perfd = Live
<1>1. /\ p # "runners" => current_ = 0
      /\ p # "shed" => hfds = <<>>
      /\ p # "admit" => batch = <<>>
      /\ p # "events" => DOMAIN events = {}
      /\ io \in [Fds -> [Dirs -> Nat]]
  BY DEF SiloInv, ThreadShape
<1>2. Sound(Now, p, current_, events, io, inbound, batch, hfds)
  BY DEF SiloInv
<1>3. Shape(Now) /\ DOMAIN Now.perfd = Live
  BY <1>2, NowIs DEF Sound
<1>4. \A g \in Live : g # 0
  BY <1>3, ListFacts
<1>5. \A g \in Live : Local(Now, g, p, current_, events, io)
  BY <1>2, <1>3 DEF Sound
<1>6. \A g \in Live : ListPhases(Now, g, p)
  BY <1>5 DEF Local
<1> QED BY <1>1, <1>2, <1>3, <1>4, <1>5, <1>6

LEMMA EventsDoneInv ==
  ASSUME SiloInv, EventsDone
  PROVE  SiloInv'
<1>1. pc = "events" /\ Goto("events", "shed") /\ DOMAIN events = {}
  BY DEF EventsDone, Goto, At
<1>2. \A g \in Live : ListPhases(Now, g, "events")
  BY <1>1, AtPhase DEF Phases
<1>3. \A g \in Live : ListPhases(Now, g, "shed")
  BY <1>2 DEF ListPhases
<1>4. current_ = 0 /\ hfds = <<>> /\ batch = <<>>
  BY <1>1, AtPhase DEF Phases
<1> QED BY <1>1, <1>3, <1>4, GotoInv DEF Phases

LEMMA SheddersDoneInv ==
  ASSUME SiloInv, SheddersDone
  PROVE  SiloInv'
<1>1. pc = "shed" /\ Goto("shed", "actives") /\ hfds = <<>> /\ lists["shedders_"] = <<>>
  BY DEF SheddersDone, Goto, At
<1>2. \A g \in Live : ListPhases(Now, g, "shed")
  BY <1>1, AtPhase DEF Phases
<1>3. \A g \in Live : ListPhases(Now, g, "actives")
  BY <1>1, <1>2, EmptyList DEF ListPhases
<1>4. current_ = 0 /\ DOMAIN events = {} /\ batch = <<>>
  BY <1>1, AtPhase DEF Phases
<1> QED BY <1>1, <1>3, <1>4, GotoInv DEF Phases

LEMMA ActivesDoneInv ==
  ASSUME SiloInv, ActivesDone
  PROVE  SiloInv'
<1>1. pc = "actives" /\ Goto("actives", "runners")
  BY DEF ActivesDone, Goto, At
<1>2. \A g \in Live : ListPhases(Now, g, "actives")
  BY <1>1, AtPhase DEF Phases
<1>3. \A g \in Live : ListPhases(Now, g, "runners")
  BY <1>2, SamePhases DEF Middle
<1>4. current_ = 0 /\ DOMAIN events = {} /\ hfds = <<>> /\ batch = <<>>
  BY <1>1, AtPhase DEF Phases
<1> QED BY <1>1, <1>3, <1>4, GotoInv DEF Phases

LEMMA RunnersDoneInv ==
  ASSUME SiloInv, RunnersDone
  PROVE  SiloInv'
<1> DEFINE q == IF lists["active_"] = <<>> THEN "eject" ELSE "actives"
<1>1. /\ pc = "runners" /\ Goto("runners", q) /\ current_ = 0
      /\ lists["runners_"] = <<>>
  BY DEF RunnersDone, Goto, At
<1>2. \A g \in Live : ListPhases(Now, g, "runners")
  BY <1>1, AtPhase DEF Phases
<1>3. \A g \in Live : ListPhases(Now, g, q)
  <2>1. CASE lists["active_"] = <<>>
    BY <1>1, <1>2, <2>1, EmptyList DEF ListPhases
  <2>2. CASE lists["active_"] # <<>>
    BY <1>2, <2>2, SamePhases DEF Middle
  <2> QED BY <2>1, <2>2
<1>4. DOMAIN events = {} /\ hfds = <<>> /\ batch = <<>>
  BY <1>1, AtPhase DEF Phases
<1>5. q \in Phases \ {"events", "done", "read", "write"}
  BY DEF Phases
<1> HIDE DEF q
<1> QED BY <1>1, <1>3, <1>4, <1>5, GotoInv

LEMMA EjectersDoneInv ==
  ASSUME SiloInv, EjectersDone
  PROVE  SiloInv'
<1>1. pc = "eject" /\ Goto("eject", "idle") /\ lists["ejects_"] = <<>>
  BY DEF EjectersDone, Goto, At
<1>2. \A g \in Live : ListPhases(Now, g, "eject")
  BY <1>1, AtPhase DEF Phases
<1>3. \A g \in Live : ListPhases(Now, g, "idle")
  BY <1>1, <1>2, EmptyList DEF ListPhases
<1>4. current_ = 0 /\ DOMAIN events = {} /\ hfds = <<>> /\ batch = <<>>
  BY <1>1, AtPhase DEF Phases
<1> QED BY <1>1, <1>3, <1>4, GotoInv DEF Phases

LEMMA NoIdlersInv ==
  ASSUME SiloInv, NoIdlers
  PROVE  SiloInv'
<1>1. pc = "idle" /\ Goto("idle", "close")
  BY DEF NoIdlers, Goto, At
<1>2. \A g \in Live : ListPhases(Now, g, "idle")
  BY <1>1, AtPhase DEF Phases
<1>3. \A g \in Live : ListPhases(Now, g, "close")
  BY <1>2 DEF ListPhases
<1>4. current_ = 0 /\ DOMAIN events = {} /\ hfds = <<>> /\ batch = <<>>
  BY <1>1, AtPhase DEF Phases
<1> QED BY <1>1, <1>3, <1>4, GotoInv DEF Phases

LEMMA EraseTouches ==
  ASSUME NEW s, Shape(s), NEW h, NEW hook \in {ActiveIdle, Shared}
  PROVE  /\ Shape(Erase(s, h, hook)) /\ Touches(s, Erase(s, h, hook), h)
         /\ Erase(s, h, hook).perfd = s.perfd /\ Erase(s, h, hook).edge = s.edge
         /\ \A l \in ListNames : h \in Mem(Erase(s, h, hook), l)
                                   <=> h \in Mem(s, l) /\ l \notin hook
<1> DEFINE t == Erase(s, h, hook)
<1>1. /\ Shape(t) /\ OnlyLists(s, t)
      /\ \A l \in ListNames : \A x :
            x \in Mem(t, l) <=> x \in Mem(s, l) /\ ~(l \in hook /\ x = h)
  BY EraseIs
<1> HIDE DEF t
<1>2. Touches(s, t, h)
  BY <1>1, ListTouches
<1> QED BY <1>1, <1>2 DEF t, OnlyLists

LEMMA Names ==
  /\ ActiveIdle \subseteq ListNames /\ Shared \subseteq ListNames
  /\ ListNames = {"active_", "idlers_", "ejects_", "runners_", "closers_", "shedders_"}
  /\ ActiveIdle = {"active_", "idlers_", "ejects_"}
  /\ Shared = {"runners_", "closers_", "shedders_"}
  /\ \A l \in ListNames : l \in ActiveIdle <=> l \notin Shared
BY DEF ListNames, ActiveIdle, Shared

(* The first active descriptor, taken out for its upcalls.                 *)
LEMMA ActiveLocal ==
  ASSUME NEW s, NEW t, NEW h, NEW v, NEW x, Shape(s), h \in DOMAIN s.perfd,
         Local(s, h, "actives", 0, v, x), h \in Mem(s, "active_"), DOMAIN v = {},
         t.perfd[h] = s.perfd[h], h \in t.edge <=> h \in s.edge,
         \A l \in ListNames : h \in Mem(t, l) <=> h \in Mem(s, l) /\ l \notin ActiveIdle
  PROVE  Local(t, h, "read", h, v, x)
<1>1. /\ h # 0 /\ Owner(t, h) = Owner(s, h)
      /\ h \notin Mem(s, "ejects_") /\ h \notin Mem(s, "idlers_")
  <2>1. HookOf("active_") = HookOf("ejects_") /\ HookOf("active_") = HookOf("idlers_")
    BY DEF HookOf, ActiveIdle
  <2> QED BY <2>1, Names, ListFacts DEF Owner
<1>2. /\ ListPhases(s, h, "actives") /\ WantsAreKept(s, h, "actives", 0)
      /\ Placed(s, h, "actives", 0) /\ EdgeKept(s, h, v, x)
  BY DEF Local
<1>3. ~Doomed(s, h) /\ ~Doomed(t, h)
  BY <1>2, Names DEF WantsAreKept, Doomed
<1>4. ListPhases(t, h, "read")
  BY <1>2, Names DEF ListPhases
<1>5. WantsAreKept(t, h, "read", h)
  BY <1>2, <1>3, Names DEF WantsAreKept
<1>6. Placed(t, h, "read", h)
  BY <1>1, <1>2, Names DEF Placed
<1>7. Running(t, h, "read", h)
  BY <1>3, Names DEF Running
<1>8. EdgeKept(t, h, v, x)
  BY <1>1, <1>2, <1>3 DEF EdgeKept
<1> QED BY <1>3, <1>4, <1>5, <1>6, <1>7, <1>8 DEF Local

LEMMA ActiveBeginInv ==
  ASSUME SiloInv, ActiveBegin
  PROVE  SiloInv'
<1> DEFINE h == Head(lists["active_"])
           t == Erase(Now, h, ActiveIdle)
<1>0. /\ pc = "actives" /\ pc' = "read" /\ current_' = h /\ lists["active_"] # <<>>
      /\ Become(t)
      /\ UNCHANGED <<events, shedLeft, impending_shed_, batch, hfds, io, hup, inbound,
                     spent>>
  BY DEF ActiveBegin, At, kernel
<1>1. /\ current_ = 0 /\ hfds = <<>> /\ batch = <<>> /\ DOMAIN events = {}
      /\ Sound(Now, "actives", 0, events, io, inbound, batch, hfds)
      /\ Shape(Now) /\ io \in [Fds -> [Dirs -> Nat]] /\ DOMAIN Now.perfd = Live
      /\ \A g \in Live : g # 0 /\ Local(Now, g, "actives", 0, events, io)
      /\ \A g \in Live : ListPhases(Now, g, "actives")
  BY <1>0, AtPhase DEF Phases
<1>2. h \in Mem(Now, "active_") /\ h \in Live /\ h # 0
  <2>1. lists["active_"] \in Seq(Nat) /\ Mem(Now, "active_") \subseteq Live
    BY <1>1, Names, NowIs, ListFacts
  <2>2. h \in Mem(Now, "active_")
    BY <1>0, <2>1, NowIs, HeadMember DEF Mem
  <2> QED BY <1>1, <2>1, <2>2
<1>3. /\ Shape(t) /\ Touches(Now, t, h) /\ t.perfd = Now.perfd /\ t.edge = Now.edge
      /\ \A l \in ListNames : h \in Mem(t, l) <=> h \in Mem(Now, l) /\ l \notin ActiveIdle
  BY <1>1, EraseTouches
<1> HIDE DEF h, t
<1>4. Local(t, h, "read", h, events, io)
  BY <1>1, <1>2, <1>3, ActiveLocal
<1>5. SoundBut(t, h, "read", h, events, io, inbound, batch, hfds)
  <2>1. SoundBut(Now, h, "actives", 0, events, io, inbound, batch, hfds)
    BY <1>1, SoundButAny
  <2>2. \A g \in Live : ListPhases(Now, g, "read")
    BY <1>1, SamePhases DEF Middle
  <2> QED BY <1>1, <1>2, <1>3, <2>1, <2>2, TouchBut
<1>6. Sound(t, "read", h, events, io, inbound, batch, hfds)
  BY <1>4, <1>5, SoundIs
<1>7. Sound(t, pc', current_', events', io', inbound', batch', hfds')
  BY <1>0, <1>6
<1>8. Quiet
  BY <1>0, <1>1 DEF Quiet
<1> QED BY <1>0, <1>1, <1>2, <1>3, <1>7, <1>8, QuietStep DEF Phases

(* The first runner, taken out for its functions.                          *)
LEMMA RunnerLocal ==
  ASSUME NEW s, NEW t, NEW h, NEW v, NEW x, Shape(s), h \in DOMAIN s.perfd,
         Local(s, h, "runners", 0, v, x), h \in Mem(s, "runners_"), DOMAIN v = {},
         t.perfd[h] = s.perfd[h], h \in t.edge <=> h \in s.edge,
         \A l \in ListNames : h \in Mem(t, l) <=> h \in Mem(s, l) /\ l \notin Shared
  PROVE  Local(t, h, "runners", h, v, x)
<1>1. /\ h # 0 /\ Owner(t, h) = Owner(s, h)
      /\ h \notin Mem(s, "closers_") /\ h \notin Mem(s, "shedders_")
  <2>1. HookOf("runners_") = HookOf("closers_") /\ HookOf("runners_") = HookOf("shedders_")
    BY DEF HookOf, ActiveIdle
  <2> QED BY <2>1, Names, ListFacts DEF Owner
<1>2. /\ ListPhases(s, h, "runners") /\ WantsAreKept(s, h, "runners", 0)
      /\ Placed(s, h, "runners", 0) /\ EdgeKept(s, h, v, x)
  BY DEF Local
<1>3. ~Doomed(s, h) /\ ~Doomed(t, h)
  BY <1>1, Names DEF Doomed
<1>4. ListPhases(t, h, "runners")
  BY <1>2, Names DEF ListPhases
<1>5. WantsAreKept(t, h, "runners", h)
  BY <1>1, <1>2, <1>3, Names DEF WantsAreKept
<1>6. Placed(t, h, "runners", h)
  BY <1>1, <1>2, Names DEF Placed
<1>7. Running(t, h, "runners", h)
  BY <1>2, Names DEF Running, WantsAreKept
<1>8. EdgeKept(t, h, v, x)
  BY <1>2, <1>3, Names DEF EdgeKept
<1> QED BY <1>3, <1>4, <1>5, <1>6, <1>7, <1>8 DEF Local

LEMMA RunnerBeginInv ==
  ASSUME SiloInv, RunnerBegin
  PROVE  SiloInv'
<1> DEFINE h == Head(lists["runners_"])
           t == Erase(Now, h, Shared)
<1>0. /\ pc = "runners" /\ pc' = "runners" /\ current_' = h /\ lists["runners_"] # <<>>
      /\ Become(t) /\ current_ = 0
      /\ UNCHANGED <<events, shedLeft, impending_shed_, batch, hfds, io, hup, inbound,
                     spent>>
  BY DEF RunnerBegin, At, kernel
<1>1. /\ hfds = <<>> /\ batch = <<>> /\ DOMAIN events = {}
      /\ Sound(Now, "runners", 0, events, io, inbound, batch, hfds)
      /\ Shape(Now) /\ io \in [Fds -> [Dirs -> Nat]] /\ DOMAIN Now.perfd = Live
      /\ \A g \in Live : g # 0 /\ Local(Now, g, "runners", 0, events, io)
      /\ \A g \in Live : ListPhases(Now, g, "runners")
  BY <1>0, AtPhase DEF Phases
<1>2. h \in Mem(Now, "runners_") /\ h \in Live /\ h # 0
  <2>1. lists["runners_"] \in Seq(Nat) /\ Mem(Now, "runners_") \subseteq Live
    BY <1>1, Names, NowIs, ListFacts
  <2>2. h \in Mem(Now, "runners_")
    BY <1>0, <2>1, NowIs, HeadMember DEF Mem
  <2> QED BY <1>1, <2>1, <2>2
<1>3. /\ Shape(t) /\ Touches(Now, t, h) /\ t.perfd = Now.perfd /\ t.edge = Now.edge
      /\ \A l \in ListNames : h \in Mem(t, l) <=> h \in Mem(Now, l) /\ l \notin Shared
  BY <1>1, EraseTouches
<1> HIDE DEF h, t
<1>4. Local(t, h, "runners", h, events, io)
  BY <1>1, <1>2, <1>3, RunnerLocal
<1>5. SoundBut(t, h, "runners", h, events, io, inbound, batch, hfds)
  <2>1. SoundBut(Now, h, "runners", 0, events, io, inbound, batch, hfds)
    BY <1>1, SoundButAny
  <2> QED BY <1>1, <1>2, <1>3, <2>1, TouchBut
<1>6. Sound(t, "runners", h, events, io, inbound, batch, hfds)
  BY <1>4, <1>5, SoundIs
<1>7. Sound(t, pc', current_', events', io', inbound', batch', hfds')
  BY <1>0, <1>6
<1>8. Quiet
  BY <1>0, <1>1 DEF Quiet
<1> QED BY <1>0, <1>1, <1>2, <1>3, <1>7, <1>8, QuietStep DEF Phases

(* A function comes off the queue of h.                                    *)
LEMMA Dequeued ==
  ASSUME NEW s, Shape(s), NEW h \in DOMAIN s.perfd, s.perfd[h].fns > 0
  PROVE  /\ Shape([s EXCEPT !.perfd[h].fns = @ - 1])
         /\ Touches(s, [s EXCEPT !.perfd[h].fns = @ - 1], h)
         /\ SameMem(s, [s EXCEPT !.perfd[h].fns = @ - 1])
         /\ Flags([s EXCEPT !.perfd[h].fns = @ - 1], h, s.perfd[h].wants,
                  s.perfd[h].squelch, s.perfd[h].muted, s.perfd[h].fns - 1)
<1> DEFINE p == s.perfd[h]
           q == [p EXCEPT !.fns = @ - 1]
           e == [s EXCEPT !.perfd[h] = q]
           t == [s EXCEPT !.perfd[h].fns = @ - 1]
<1>1. p \in PerFds /\ p.fns \in 0..MaxFns
  BY PerFdFacts
<1>2. t = e
  OBVIOUS
<1>3. p.fns - 1 \in 0..MaxFns
  BY <1>1, SiloAssumption
<1>4. /\ q \in PerFds /\ q.fd = p.fd /\ q.fns = p.fns - 1
      /\ q.wants = p.wants /\ q.squelch = p.squelch /\ q.muted = p.muted
  <2> HIDE DEF p
  <2> QED BY <1>1, <1>3 DEF PerFds
<1> HIDE DEF q, t
<1>5. /\ Shape(e) /\ Touches(s, e, h) /\ SameMem(s, e)
      /\ Flags(e, h, q.wants, q.squelch, q.muted, q.fns)
  BY <1>4, SetFlags
<1> HIDE DEF e
<1> QED BY <1>2, <1>4, <1>5 DEF t

(* A function of h has asked for an upcall.                                *)
LEMMA FnLocal ==
  ASSUME NEW s, NEW t, NEW h, NEW v, NEW x, NEW d \in Dirs, Shape(s),
         h \in DOMAIN s.perfd, Local(s, h, "runners", h, v, x), DOMAIN v = {},
         s.perfd[h].fns > 0, t.perfd[h].fd = s.perfd[h].fd,
         h \in t.edge <=> h \in s.edge,
         t.perfd[h].wants = s.perfd[h].wants \cup {d},
         t.perfd[h].squelch = s.perfd[h].squelch \ {d},
         t.perfd[h].muted = s.perfd[h].muted \ {d},
         \A m \in ActiveIdle : h \in Mem(t, m) <=> m = "active_",
         \A m \in Shared : h \in Mem(t, m) <=> h \in Mem(s, m)
  PROVE  Local(t, h, "runners", h, v, x)
<1>1. Owner(t, h) = Owner(s, h)
  BY DEF Owner
<1>2. /\ ListPhases(s, h, "runners") /\ WantsAreKept(s, h, "runners", h)
      /\ Placed(s, h, "runners", h) /\ Running(s, h, "runners", h) /\ EdgeKept(s, h, v, x)
  BY DEF Local
<1>3. \A m \in Shared : h \notin Mem(s, m) /\ h \notin Mem(t, m)
  BY <1>2 DEF Running
<1>4. ~Doomed(s, h) /\ ~Doomed(t, h) /\ h \notin Mem(t, "ejects_") /\ h \in Mem(t, "active_")
  BY <1>3, Names DEF Doomed
<1>5. ListPhases(t, h, "runners")
  BY <1>3, Names DEF ListPhases
<1>6. WantsAreKept(t, h, "runners", h)
  BY <1>2, <1>4 DEF WantsAreKept
<1>7. Placed(t, h, "runners", h)
  BY <1>1, <1>2, <1>3, <1>4, Names DEF Placed
<1>8. Running(t, h, "runners", h)
  BY <1>3, <1>4 DEF Running
<1>9. h \notin Mem(s, "ejects_")
  BY <1>2 DEF Running
<1>10. EdgeKept(t, h, v, x)
  BY <1>2, <1>4, <1>9 DEF EdgeKept
<1> QED BY <1>4, <1>5, <1>6, <1>7, <1>8, <1>10 DEF Local

LEMMA RunFnInv ==
  ASSUME SiloInv, WellBehaved, RunFn
  PROVE  SiloInv'
<1> DEFINE h == current_
<1>0. /\ pc = "runners" /\ pc' = "runners" /\ h # 0
      /\ UNCHANGED <<events, shedLeft, impending_shed_, batch, hfds, io, hup, inbound,
                     spent>>
  BY DEF RunFn, At, kernel
<1>1. /\ hfds = <<>> /\ batch = <<>> /\ DOMAIN events = {}
      /\ Sound(Now, "runners", h, events, io, inbound, batch, hfds)
      /\ Shape(Now) /\ io \in [Fds -> [Dirs -> Nat]] /\ DOMAIN Now.perfd = Live
      /\ \A g \in Live : Local(Now, g, "runners", h, events, io)
  BY <1>0, AtPhase DEF Phases
<1>2. h \in Live /\ Now.perfd = perfd
  BY <1>0, NowIs DEF SiloInv, ThreadShape
<1>3. Quiet
  BY <1>0, <1>1 DEF Quiet
<1>4. SoundBut(Now, h, "runners", h, events, io, inbound, batch, hfds)
  BY <1>1, SoundButAny
<1>5. ASSUME NEW t, NEW c \in {0, h}, Become(t), current_' = c, c \in DOMAIN t.perfd \cup {0},
             Sound(t, "runners", c, events, io, inbound, batch, hfds)
      PROVE  SiloInv'
  <2>1. Sound(t, pc', current_', events', io', inbound', batch', hfds')
    BY <1>0, <1>5
  <2> QED BY <1>0, <1>1, <1>3, <1>5, <2>1, QuietStep DEF Phases
<1>6. ASSUME perfd[h].fns > 0, NEW c \in FnCalls, NEW g \in Known(h), current_' = h,
             Become(Call([Now EXCEPT !.perfd[h].fns = @ - 1], c, g))
      PROVE  SiloInv'
  <2> DEFINE s0 == [Now EXCEPT !.perfd[h].fns = @ - 1]
  <2>1. PICK d \in Dirs : c = RequestOf(d)
    <3>1. c \in Requests
      BY DEF WellBehaved
    <3> QED BY <3>1 DEF Requests, RequestOf, Dirs
  <2>2. g = h
    <3>1. Solo(OwnerOf[perfd[h].fd])
      BY <1>1, <1>2, <1>6 DEF Local, Placed, Owner
    <3>2. Ownership(Now, inbound, batch, hfds)
      BY <1>1 DEF Sound
    <3> QED BY <1>1, <1>2, <3>1, <3>2, KnownSolo
  <2>3. /\ Shape(s0) /\ Touches(Now, s0, h) /\ SameMem(Now, s0)
        /\ Flags(s0, h, Now.perfd[h].wants, Now.perfd[h].squelch, Now.perfd[h].muted,
                 Now.perfd[h].fns - 1)
    BY <1>1, <1>2, <1>6, Dequeued
  <2> DEFINE t == Request(s0, h, d)
  <2>4. Call(s0, c, g) = t
    BY <2>1, <2>2 DEF Call, RequestOf, Dirs
  <2> HIDE DEF s0
  <2>5. h \in DOMAIN s0.perfd
    BY <1>1, <1>2, <2>3 DEF Touches, SameTable
  <2>6. /\ Shape(t) /\ Touches(s0, t, h)
        /\ Flags(t, h, s0.perfd[h].wants \cup {d}, s0.perfd[h].squelch \ {d},
                 s0.perfd[h].muted \ {d}, s0.perfd[h].fns)
        /\ \A m \in ActiveIdle : h \in Mem(t, m) <=> m = "active_"
        /\ \A m \in Shared : h \in Mem(t, m) <=> h \in Mem(s0, m)
    BY <2>3, <2>5, RequestIs
  <2>7. Become(t)
    BY <1>6, <2>4 DEF s0
  <2> HIDE DEF t
  <2>8. Touches(Now, t, h)
    BY <2>3, <2>6, TouchesTrans
  <2>9. Local(t, h, "runners", h, events, io)
    <3>1. t.perfd[h].fd = Now.perfd[h].fd /\ (h \in t.edge <=> h \in Now.edge)
      BY <2>8 DEF Touches, SameTable
    <3>2. /\ t.perfd[h].wants = Now.perfd[h].wants \cup {d}
          /\ t.perfd[h].squelch = Now.perfd[h].squelch \ {d}
          /\ t.perfd[h].muted = Now.perfd[h].muted \ {d}
      BY <2>3, <2>6 DEF Flags
    <3>3. \A m \in Shared : h \in Mem(t, m) <=> h \in Mem(Now, m)
      BY <2>3, <2>6, Names DEF SameMem
    <3>4. Now.perfd[h].fns > 0 /\ Local(Now, h, "runners", h, events, io)
      BY <1>1, <1>2, <1>6
    <3>5. /\ h \in DOMAIN Now.perfd /\ Shape(Now) /\ DOMAIN events = {}
          /\ \A m \in ActiveIdle : h \in Mem(t, m) <=> m = "active_"
      BY <1>1, <1>2, <2>6
    <3> HIDE DEF h
    <3> QED BY <3>1, <3>2, <3>3, <3>4, <3>5, FnLocal
  <2>10. SoundBut(t, h, "runners", h, events, io, inbound, batch, hfds)
    BY <1>1, <1>2, <1>4, <2>6, <2>8, TouchStays
  <2>11. Sound(t, "runners", h, events, io, inbound, batch, hfds)
    BY <2>9, <2>10, SoundIs
  <2>12. h \in DOMAIN t.perfd
    BY <1>1, <1>2, <2>8 DEF Touches, SameTable
  <2> QED BY <1>5, <1>6, <2>7, <2>11, <2>12
<1>7. ASSUME perfd[h].fns = 0, current_' = 0, UNCHANGED table
      PROVE  SiloInv'
  <2>1. Become(Now)
    BY <1>7 DEF Become, Now, table
  <2>2. Local(Now, h, "runners", 0, events, io)
    <3>1. /\ ListPhases(Now, h, "runners") /\ WantsAreKept(Now, h, "runners", h)
          /\ Placed(Now, h, "runners", h) /\ EdgeKept(Now, h, events, io)
      BY <1>1, <1>2 DEF Local
    <3>2. WantsAreKept(Now, h, "runners", 0)
      BY <3>1 DEF WantsAreKept
    <3>3. Placed(Now, h, "runners", 0)
      BY <1>0, <1>2, <1>7, <3>1 DEF Placed
    <3>4. Running(Now, h, "runners", 0)
      BY <1>0 DEF Running
    <3> QED BY <1>1, <3>1, <3>2, <3>3, <3>4 DEF Local
  <2>3. SoundBut(Now, h, "runners", 0, events, io, inbound, batch, hfds)
    <3>1. \A g \in DOMAIN Now.perfd : ListPhases(Now, g, "runners")
      BY <1>1 DEF Local
    <3> QED BY <1>1, <1>2, <1>4, <3>1, SelfTouches, TouchBut
  <2>4. Sound(Now, "runners", 0, events, io, inbound, batch, hfds)
    BY <2>2, <2>3, SoundIs
  <2> QED BY <1>5, <1>7, <2>1, <2>4
<1>8. \/ /\ perfd[h].fns > 0
         /\ \E c \in FnCalls, g \in Known(h) :
              /\ MayCall(c, g)
              /\ Become(Call([Now EXCEPT !.perfd[h].fns = @ - 1], c, g))
         /\ current_' = h
      \/ perfd[h].fns = 0 /\ current_' = 0 /\ UNCHANGED table
  BY DEF RunFn
<1> QED BY <1>6, <1>7, <1>8

(* The others do not notice that h is freed.                               *)
LEMMA FreeOthers ==
  ASSUME NEW s, NEW t, NEW h, NEW p, NEW v, NEW x, Shape(s), Shape(t),
         \A g \in DOMAIN s.perfd : Local(s, g, p, 0, v, x),
         DOMAIN t.perfd = DOMAIN s.perfd \ {h},
         \A g \in DOMAIN s.perfd : g # h => Same(s, t, g)
  PROVE  \A g \in DOMAIN t.perfd : Local(t, g, p, 0, v, x)
<1>1. ASSUME NEW g \in DOMAIN t.perfd PROVE Local(t, g, p, 0, v, x)
  <2>1. g \in DOMAIN s.perfd /\ g # h
    OBVIOUS
  <2>2. g # 0 /\ Same(s, t, g) /\ Local(s, g, p, 0, v, x)
    BY <2>1, ListFacts
  <2>3. ListPhases(s, g, p)
    BY <2>2 DEF Local
  <2> QED BY <2>2, <2>3, LocalFrame
<1> QED BY <1>1

(* A descriptor that is closed or ejected.                                 *)
LEMMA FreeSound ==
  ASSUME NEW s, NEW h, NEW p, NEW v, NEW x, NEW q1, NEW q2,
         Sound(s, p, 0, v, x, q1, q2, <<>>), h \in DOMAIN s.perfd,
         NEW who \in {"ejected", "closed"}
  PROVE  Sound(Free(s, h, who), p, 0, v, x, q1, q2, <<>>)
<1> DEFINE t == Free(s, h, who)
           f0 == s.perfd[h].fd
<1>1. /\ Shape(s) /\ \A g \in DOMAIN s.perfd : Local(s, g, p, 0, v, x)
      /\ Ownership(s, q1, q2, <<>>) /\ HandlesNamed(s, <<>>)
  BY DEF Sound
<1>2. /\ Shape(t) /\ DOMAIN t.perfd = DOMAIN s.perfd \ {h}
      /\ \A g \in DOMAIN s.perfd : g # h => Same(s, t, g)
      /\ t.handles_ = s.handles_
      /\ \A f \in Fds : t.fate[f] = IF f = f0 THEN who ELSE s.fate[f]
  BY <1>1, FreeIs DEF Fates
<1> HIDE DEF t
<1>3. \A g \in DOMAIN t.perfd : Local(t, g, p, 0, v, x)
  BY <1>1, <1>2, FreeOthers
<1>4. \A g \in DOMAIN t.perfd : /\ g \in DOMAIN s.perfd /\ g # h
                                /\ t.perfd[g].fd = s.perfd[g].fd
                                /\ t.perfd[g].fd # f0 /\ Owner(t, g) = Owner(s, g)
  BY <1>1, <1>2 DEF Same, Owner, Ownership
<1>5. f0 \in Fds /\ s.fate[f0] = "silo"
  BY <1>1, PerFdFacts DEF Ownership
<1>6. Ownership(t, q1, q2, <<>>)
  <2>1. ASSUME NEW f \in Fds
        PROVE  /\ t.fate[f] = "inbound"
                    <=> Queued(q1, f) \/ Queued(q2, f) \/ Queued(<<>>, f)
               /\ t.fate[f] = "silo" <=> \E g \in DOMAIN t.perfd : t.perfd[g].fd = f
    <3>0. /\ s.fate[f] = "inbound" <=> Queued(q1, f) \/ Queued(q2, f) \/ Queued(<<>>, f)
          /\ s.fate[f] = "silo" <=> \E g \in DOMAIN s.perfd : s.perfd[g].fd = f
      BY <1>1 DEF Ownership
    <3>1. CASE f = f0
      BY <1>2, <1>4, <1>5, <3>0, <3>1
    <3>2. CASE f # f0
      BY <1>2, <1>4, <3>0, <3>2
    <3> QED BY <3>1, <3>2
  <2>2. \A g, i \in DOMAIN t.perfd : t.perfd[g].fd = t.perfd[i].fd => g = i
    BY <1>1, <1>4 DEF Ownership
  <2> QED BY <1>1, <2>1, <2>2 DEF Ownership
<1>7. HandlesNamed(t, <<>>)
  <2>1. \A f \in Fds : t.fate[f] \in {"client", "inbound"} => t.fate[f] = s.fate[f]
    BY <1>2
  <2>2. \A i \in 1..Len(<<>>) : FALSE
    OBVIOUS
  <2> QED BY <1>1, <1>2, <1>4, <2>1, <2>2 DEF HandlesNamed
<1> QED BY <1>2, <1>3, <1>6, <1>7 DEF Sound, t

LEMMA InList ==
  ASSUME SiloInv, NEW l \in ListNames, lists[l] # <<>>
  PROVE  Head(lists[l]) \in Mem(Now, l) /\ Head(lists[l]) \in Live
<1>0. Shape(Now)
  BY DEF SiloInv, Sound
<1>1. lists[l] \in Seq(Nat) /\ Mem(Now, l) \subseteq Live
  BY <1>0, NowIs, ListFacts
<1>2. Head(lists[l]) \in Mem(Now, l)
  BY <1>1, NowIs, HeadMember DEF Mem
<1> QED BY <1>1, <1>2

(* A step that ends the life of a descriptor in one of the last phases.    *)
LEMMA FreeStep ==
  ASSUME SiloInv, pc \in {"eject", "close"}, NEW h \in Live,
         NEW who \in {"ejected", "closed"}, Become(Free(Now, h, who)),
         UNCHANGED <<thread, kernel, inbound, exiting, spent>>
  PROVE  SiloInv'
<1> DEFINE t == Free(Now, h, who)
<1>0. /\ pc \in Phases \ {"read", "write", "events", "shed", "done", "admit", "runners"}
      /\ UNCHANGED <<events, shedLeft, impending_shed_, batch, hfds, io, hup, inbound,
                     spent, pc, current_>>
  BY DEF thread, kernel, Phases
<1>1. /\ current_ = 0 /\ hfds = <<>> /\ batch = <<>> /\ DOMAIN events = {}
      /\ Sound(Now, pc, 0, events, io, inbound, batch, <<>>)
      /\ io \in [Fds -> [Dirs -> Nat]] /\ DOMAIN Now.perfd = Live
  BY <1>0, AtPhase
<1>2. Sound(t, pc, 0, events, io, inbound, batch, <<>>)
  BY <1>1, FreeSound
<1> HIDE DEF t
<1>3. Sound(t, pc', current_', events', io', inbound', batch', hfds')
  BY <1>0, <1>1, <1>2
<1>4. Quiet
  BY <1>0, <1>1 DEF Quiet
<1>5. Become(t)
  BY DEF t
<1> QED BY <1>0, <1>1, <1>3, <1>4, <1>5, QuietStep

LEMMA RunEjectersInv ==
  ASSUME SiloInv, RunEjecters
  PROVE  SiloInv'
<1>1. Head(lists["ejects_"]) \in Live
  BY InList, Names DEF RunEjecters
<1> QED BY <1>1, FreeStep DEF RunEjecters, At

LEMMA RunClosersInv ==
  ASSUME SiloInv, RunClosers
  PROVE  SiloInv'
<1> DEFINE h == Head(lists["closers_"])
<1>0. pc = "close"
  BY DEF RunClosers, At
<1>1. h \in Live /\ h \in Mem(Now, "closers_")
  BY InList, Names DEF RunClosers
<1>2. WantsAreKept(Now, h, "close", current_)
  BY <1>0, <1>1, AtPhase DEF Phases, Local
<1>3. ~IsLinked(Now, h, ActiveIdle)
  BY <1>1, <1>2 DEF WantsAreKept, Doomed, IsLinked, Mem
<1>4. Become(Free(Now, h, "closed"))
  BY <1>3 DEF RunClosers
<1> QED BY <1>0, <1>1, <1>4, FreeStep DEF RunClosers

(***************************************************************************)
(* The queues of items                                                     *)
(***************************************************************************)
LEMMA NothingQueued ==
  QueueSound(<<>>) /\ \A f : ~Queued(<<>>, f)
<1>1. <<>> \in Seq(ItemSet) /\ \A i \in 1..Len(<<>>) : FALSE
  OBVIOUS
<1> QED BY <1>1 DEF QueueSound, Queued

LEMMA QueueAppend ==
  ASSUME NEW q, QueueSound(q), NEW item \in ItemSet, Once(item.fds),
         \A f \in ToSet(item.fds) : ~Queued(q, f)
  PROVE  /\ QueueSound(Append(q, item))
         /\ \A f : Queued(Append(q, item), f) <=> Queued(q, f) \/ f \in ToSet(item.fds)
<1> DEFINE r == Append(q, item)
           n == Len(q)
<1>1. q \in Seq(ItemSet)
  BY DEF QueueSound
<1>2. /\ r \in Seq(ItemSet) /\ n \in Nat /\ Len(r) = n + 1
      /\ \A i \in 1..n : r[i] = q[i]
      /\ r[n + 1] = item
  BY <1>1
<1> HIDE DEF r, n
<1>3. /\ \A i \in 1..Len(r) : i \in 1..n \/ i = n + 1
      /\ \A i \in 1..n : i \in 1..Len(r)
      /\ n + 1 \in 1..Len(r) /\ n + 1 \notin 1..n
  BY <1>2
<1>4. /\ \A f : \A i \in 1..n : Holds(r, i, f) <=> Holds(q, i, f)
      /\ \A f : Holds(r, n + 1, f) <=> f \in ToSet(item.fds)
  BY <1>2, <1>3 DEF Holds, n
<1>5. \A f : Queued(r, f) <=> Queued(q, f) \/ f \in ToSet(item.fds)
  BY <1>3, <1>4 DEF Queued, n
<1>6. \A i \in 1..Len(r) : Once(r[i].fds)
  BY <1>2, <1>3 DEF QueueSound, n
<1>7. ASSUME NEW f \in Fds, NEW i \in 1..Len(r), NEW j \in 1..Len(r),
             Holds(r, i, f), Holds(r, j, f)
      PROVE  i = j
  <2>1. CASE i \in 1..n /\ j \in 1..n
    BY <1>4, <1>7, <2>1 DEF QueueSound, n
  <2>2. CASE i \in 1..n /\ j = n + 1
    BY <1>4, <1>7, <2>2 DEF Queued, n
  <2>3. CASE i = n + 1 /\ j \in 1..n
    BY <1>4, <1>7, <2>3 DEF Queued, n
  <2> QED BY <1>3, <2>1, <2>2, <2>3
<1> QED BY <1>2, <1>5, <1>6, <1>7 DEF QueueSound, r

(* The queue without its first item.                                       *)
LEMMA QueueTail ==
  ASSUME NEW q, QueueSound(q), q # <<>>
  PROVE  /\ QueueSound(Tail(q)) /\ Head(q) \in ItemSet /\ Once(Head(q).fds)
         /\ \A f \in Fds : Queued(Tail(q), f)
                             <=> Queued(q, f) /\ f \notin ToSet(Head(q).fds)
         /\ \A f \in ToSet(Head(q).fds) : Queued(q, f)
<1> DEFINE r == Tail(q)
           n == Len(q)
<1>1. q \in Seq(ItemSet)
  BY DEF QueueSound
<1>2. /\ r \in Seq(ItemSet) /\ n \in Nat /\ n > 0 /\ Len(r) = n - 1
      /\ \A i \in 1..(n - 1) : r[i] = q[i + 1]
      /\ Head(q) = q[1]
  BY <1>1
<1>3. Head(q) \in ItemSet /\ Once(Head(q).fds) /\ 1 \in 1..Len(q)
  BY <1>1, <1>2 DEF QueueSound
<1> HIDE DEF r
<1>4. /\ \A i \in 1..Len(r) : i + 1 \in 1..n /\ i + 1 # 1 /\ r[i] = q[i + 1]
      /\ \A i \in 1..n : i # 1 => i - 1 \in 1..Len(r) /\ (i - 1) + 1 = i
  BY <1>2
<1>5. \A f : \A i \in 1..Len(r) : Holds(r, i, f) <=> Holds(q, i + 1, f)
  BY <1>4 DEF Holds
<1>6. \A f : Holds(q, 1, f) <=> f \in ToSet(Head(q).fds)
  BY <1>2, <1>3 DEF Holds
<1>7. \A i \in 1..Len(r) : Once(r[i].fds)
  BY <1>4 DEF QueueSound
<1>8. ASSUME NEW f \in Fds, NEW i \in 1..Len(r), NEW j \in 1..Len(r),
             Holds(r, i, f), Holds(r, j, f)
      PROVE  i = j
  <2>1. i + 1 = j + 1
    BY <1>4, <1>5, <1>8 DEF QueueSound
  <2>2. i \in Nat /\ j \in Nat
    BY <1>2
  <2> QED BY <2>1, <2>2
<1>9. ASSUME NEW f \in Fds
      PROVE  Queued(r, f) <=> Queued(q, f) /\ f \notin ToSet(Head(q).fds)
  <2>1. ASSUME Queued(r, f) PROVE Queued(q, f) /\ f \notin ToSet(Head(q).fds)
    <3>1. PICK i \in 1..Len(r) : Holds(r, i, f)
      BY <2>1 DEF Queued
    <3>2. Holds(q, i + 1, f) /\ i + 1 \in 1..n /\ i + 1 # 1
      BY <1>4, <1>5, <3>1
    <3>3. ~Holds(q, 1, f)
      BY <1>3, <3>2 DEF QueueSound
    <3> QED BY <1>6, <3>2, <3>3 DEF Queued
  <2>2. ASSUME Queued(q, f), f \notin ToSet(Head(q).fds) PROVE Queued(r, f)
    <3>1. PICK i \in 1..n : Holds(q, i, f)
      BY <2>2 DEF Queued
    <3>2. i # 1
      BY <1>6, <2>2, <3>1
    <3>3. i - 1 \in 1..Len(r) /\ (i - 1) + 1 = i
      BY <1>4, <3>2
    <3>4. Holds(r, i - 1, f)
      BY <1>5, <3>1, <3>3
    <3> QED BY <3>3, <3>4 DEF Queued
  <2> QED BY <2>1, <2>2
<1>10. \A f \in ToSet(Head(q).fds) : Queued(q, f)
  BY <1>3, <1>6 DEF Queued
<1> QED BY <1>2, <1>3, <1>7, <1>8, <1>9, <1>10 DEF QueueSound, r

LEMMA QueuePrepend ==
  ASSUME NEW q, QueueSound(q), NEW item \in ItemSet, Once(item.fds),
         \A f \in ToSet(item.fds) : ~Queued(q, f)
  PROVE  /\ QueueSound(<<item>> \o q)
         /\ \A f : Queued(<<item>> \o q, f) <=> Queued(q, f) \/ f \in ToSet(item.fds)
<1> DEFINE r == <<item>> \o q
           n == Len(q)
<1>1. q \in Seq(ItemSet) /\ <<item>> \in Seq(ItemSet) /\ Len(<<item>>) = 1 /\ n \in Nat
  BY DEF QueueSound
<1>2. r \in Seq(ItemSet) /\ Len(r) = 1 + n
  BY <1>1, ConcatProperties
<1>3. \A i \in 1..(1 + n) : r[i] = IF i <= 1 THEN <<item>>[i] ELSE q[i - 1]
  BY <1>1, ConcatProperties
<1> HIDE DEF r, n
<1>4. /\ \A i \in 1..Len(r) : i = 1 \/ (i - 1 \in 1..n /\ (i - 1) + 1 = i)
      /\ \A i \in 1..n : i + 1 \in 1..Len(r) /\ i + 1 # 1 /\ ~(i + 1 <= 1) /\ (i + 1) - 1 = i
      /\ 1 \in 1..Len(r) /\ 1 <= 1 /\ 1..Len(r) = 1..(1 + n)
  BY <1>1, <1>2
<1>5. r[1] = item /\ \A i \in 1..n : r[i + 1] = q[i]
  BY <1>3, <1>4
<1>6. /\ \A f : \A i \in 1..n : Holds(r, i + 1, f) <=> Holds(q, i, f)
      /\ \A f : Holds(r, 1, f) <=> f \in ToSet(item.fds)
  BY <1>4, <1>5 DEF Holds, n
<1>7. ASSUME NEW f
      PROVE  Queued(r, f) <=> Queued(q, f) \/ f \in ToSet(item.fds)
  <2>1. ASSUME Queued(r, f) PROVE Queued(q, f) \/ f \in ToSet(item.fds)
    <3>1. PICK i \in 1..Len(r) : Holds(r, i, f)
      BY <2>1 DEF Queued
    <3>2. CASE i = 1
      BY <1>6, <3>1, <3>2
    <3>3. CASE i # 1
      <4>1. i - 1 \in 1..n /\ (i - 1) + 1 = i
        BY <1>4, <3>3
      <4>2. Holds(q, i - 1, f)
        BY <1>6, <3>1, <4>1
      <4> QED BY <4>1, <4>2 DEF Queued, n
    <3> QED BY <3>2, <3>3
  <2>2. ASSUME Queued(q, f) PROVE Queued(r, f)
    <3>1. PICK i \in 1..n : Holds(q, i, f)
      BY <2>2 DEF Queued, n
    <3> QED BY <1>4, <1>6, <3>1 DEF Queued
  <2>3. ASSUME f \in ToSet(item.fds) PROVE Queued(r, f)
    BY <1>4, <1>6, <2>3 DEF Queued
  <2> QED BY <2>1, <2>2, <2>3
<1>8. ASSUME NEW i \in 1..Len(r) PROVE Once(r[i].fds)
  <2>1. CASE i = 1
    BY <1>5, <2>1
  <2>2. CASE i # 1
    <3>1. i - 1 \in 1..n /\ (i - 1) + 1 = i
      BY <1>4, <2>2
    <3>2. r[i] = q[i - 1]
      BY <1>5, <3>1
    <3> QED BY <3>1, <3>2 DEF QueueSound, n
  <2> QED BY <2>1, <2>2
<1>9. ASSUME NEW f \in Fds, NEW i \in 1..Len(r), NEW j \in 1..Len(r),
             Holds(r, i, f), Holds(r, j, f)
      PROVE  i = j
  <2>1. ASSUME NEW m \in 1..Len(r), m # 1, Holds(r, m, f)
        PROVE  m - 1 \in 1..n /\ (m - 1) + 1 = m /\ Holds(q, m - 1, f) /\ Queued(q, f)
    <3>1. m - 1 \in 1..n /\ (m - 1) + 1 = m
      BY <1>4, <2>1
    <3>2. Holds(q, m - 1, f)
      BY <1>6, <2>1, <3>1
    <3> QED BY <3>1, <3>2 DEF Queued, n
  <2>2. ASSUME Holds(r, 1, f) PROVE ~Queued(q, f)
    BY <1>6, <2>2
  <2>3. CASE i # 1 /\ j # 1
    <3>1. i - 1 = j - 1
      BY <1>9, <2>1, <2>3 DEF QueueSound, n
    <3> QED BY <1>9, <2>1, <2>3, <3>1
  <2>4. CASE i = 1 \/ j = 1
    BY <1>9, <2>1, <2>2, <2>4
  <2> QED BY <2>3, <2>4
<1> QED BY <1>2, <1>7, <1>8, <1>9 DEF QueueSound, r

LEMMA OnceTail ==
  ASSUME NEW S, NEW q \in Seq(S), Once(q), q # <<>>
  PROVE  /\ Tail(q) \in Seq(S) /\ Once(Tail(q))
         /\ \A x : x \in ToSet(Tail(q)) <=> x \in ToSet(q) /\ x # Head(q)
<1> DEFINE r == Tail(q)
           n == Len(q)
<1>1. /\ r \in Seq(S) /\ n \in Nat /\ n > 0 /\ Len(r) = n - 1
      /\ \A i \in 1..(n - 1) : r[i] = q[i + 1]
      /\ Head(q) = q[1]
  OBVIOUS
<1>2. /\ \A x : x \in ToSet(q) <=> \E i \in 1..n : q[i] = x
      /\ \A x : x \in ToSet(r) <=> \E i \in 1..Len(r) : r[i] = x
  BY <1>1, Members
<1> HIDE DEF r
<1>3. /\ \A i \in 1..Len(r) : i + 1 \in 1..n /\ i + 1 # 1 /\ r[i] = q[i + 1] /\ i \in Nat
      /\ \A i \in 1..n : i # 1 => i - 1 \in 1..Len(r) /\ (i - 1) + 1 = i
      /\ 1 \in 1..n
  BY <1>1
<1>4. ASSUME NEW i \in 1..Len(r), NEW j \in 1..Len(r), r[i] = r[j] PROVE i = j
  <2>1. i + 1 = j + 1
    BY <1>3, <1>4 DEF Once
  <2> QED BY <1>3, <2>1
<1>5. ASSUME NEW x, x \in ToSet(r) PROVE x \in ToSet(q) /\ x # Head(q)
  <2>1. PICK i \in 1..Len(r) : r[i] = x
    BY <1>2, <1>5
  <2>2. q[i + 1] = x /\ i + 1 \in 1..n /\ i + 1 # 1
    BY <1>3, <2>1
  <2>3. q[i + 1] # q[1]
    BY <1>3, <2>2 DEF Once
  <2> QED BY <1>1, <1>2, <2>2, <2>3
<1>6. ASSUME NEW x, x \in ToSet(q), x # Head(q) PROVE x \in ToSet(r)
  <2>1. PICK i \in 1..n : q[i] = x
    BY <1>2, <1>6
  <2>2. i # 1
    BY <1>1, <1>6, <2>1
  <2>3. i - 1 \in 1..Len(r) /\ (i - 1) + 1 = i
    BY <1>3, <2>2
  <2>4. r[i - 1] = x
    BY <1>3, <2>1, <2>3
  <2> QED BY <1>2, <2>3, <2>4
<1> QED BY <1>1, <1>4, <1>5, <1>6 DEF Once, r

(* The batch after its first descriptor.                                   *)
LEMMA BatchLeft ==
  ASSUME QueueSound(batch), batch # <<>>, Head(batch).fds # <<>>
  PROVE  HeadFd \in Fds /\ Queued(batch, HeadFd) /\ Unqueues(batch, AfterHeadFd, HeadFd)
<1> DEFINE b == Head(batch)
           w == b.fds
           f == Head(w)
           it == [b EXCEPT !.fds = Tail(@)]
<1>1. /\ QueueSound(Tail(batch)) /\ b \in ItemSet /\ Once(w)
      /\ \A g \in Fds : Queued(Tail(batch), g) <=> Queued(batch, g) /\ g \notin ToSet(w)
      /\ \A g \in ToSet(w) : Queued(batch, g)
  BY QueueTail
<1>2. w \in Seq(Fds)
  <2> HIDE DEF b
  <2> QED BY <1>1 DEF ItemSet
<1>3. HeadFd = f
  BY DEF HeadFd
<1>4. f \in ToSet(w) /\ f \in Fds /\ Queued(batch, f)
  BY <1>1, <1>2, HeadMember
<1>5. /\ Tail(w) \in Seq(Fds) /\ Once(Tail(w))
      /\ \A x : x \in ToSet(Tail(w)) <=> x \in ToSet(w) /\ x # f
  BY <1>1, <1>2, OnceTail
<1>6. CASE Tail(w) = <<>>
  <2>1. AfterHeadFd = Tail(batch)
    BY <1>6 DEF AfterHeadFd
  <2>2. \A x : x \notin ToSet(<<>>)
    BY DEF ToSet
  <2>3. \A x : x \in ToSet(w) => x = f
    BY <1>5, <1>6, <2>2
  <2>4. \A g \in Fds : Queued(Tail(batch), g) <=> Queued(batch, g) /\ g # f
    BY <1>1, <1>4, <2>3
  <2> HIDE DEF f
  <2> QED BY <1>1, <1>3, <1>4, <2>1, <2>4 DEF Unqueues
<1>7. CASE Tail(w) # <<>>
  <2>1. AfterHeadFd = <<it>> \o Tail(batch)
    BY <1>7 DEF AfterHeadFd
  <2>2. it \in ItemSet /\ it.fds = Tail(w)
    <3> HIDE DEF b
    <3> QED BY <1>1, <1>5 DEF ItemSet
  <2> HIDE DEF it, w, f
  <2>3. \A g \in ToSet(it.fds) : g \in Fds
    BY <1>5, <2>2, Members DEF w
  <2>4. \A g \in ToSet(it.fds) : ~Queued(Tail(batch), g)
    BY <1>1, <1>5, <2>2, <2>3
  <2>5. /\ QueueSound(<<it>> \o Tail(batch))
        /\ \A g : Queued(<<it>> \o Tail(batch), g)
                    <=> Queued(Tail(batch), g) \/ g \in ToSet(it.fds)
    BY <1>1, <1>5, <2>2, <2>4, QueuePrepend
  <2>6. \A g \in Fds : Queued(AfterHeadFd, g) <=> Queued(batch, g) /\ g # f
    BY <1>1, <1>4, <1>5, <2>1, <2>2, <2>5
  <2> QED BY <1>3, <1>4, <2>1, <2>5, <2>6 DEF Unqueues
<1> QED BY <1>6, <1>7

(***************************************************************************)
(* Shedding                                                                *)
(***************************************************************************)
(* A queue of one item.                                                    *)
LEMMA OneItem ==
  ASSUME NEW item \in ItemSet, Once(item.fds)
  PROVE  QueueSound(<<item>>) /\ \A f : Queued(<<item>>, f) <=> f \in ToSet(item.fds)
<1>1. Append(<<>>, item) = <<item>>
  OBVIOUS
<1> HIDE DEF Append
<1> QED BY <1>1, NothingQueued, QueueAppend

LEMMA Single ==
  ASSUME NEW x PROVE \A i \in 1..Len(<<x>>) : <<x>>[i] = x
OBVIOUS

LEMMA EmptyOnce ==
  Once(<<>>) /\ \A x : x \notin ToSet(<<>>)
BY DEF Once, ToSet

LEMMA ShedBeginInv ==
  ASSUME SiloInv, ShedBegin
  PROVE  SiloInv'
<1> DEFINE h == Head(lists["shedders_"])
           k == OwnerOf[perfd[h].fd]
           item == [h |-> k, fds |-> <<>>]
<1>0. /\ pc = "shed" /\ hfds = <<>> /\ lists["shedders_"] # <<>> /\ hfds' = <<item>>
      /\ UNCHANGED <<table, current_, pc, events, shedLeft, impending_shed_, batch,
                     io, hup, inbound, spent>>
  BY DEF ShedBegin, At, kernel
<1>1. h \in Live
  BY <1>0, InList, Names
<1>3. /\ current_ = 0 /\ batch = <<>> /\ DOMAIN events = {}
      /\ Sound(Now, "shed", 0, events, io, inbound, batch, hfds)
      /\ Shape(Now) /\ DOMAIN Now.perfd = Live
  BY <1>0, AtPhase DEF Phases
<1>4. k \in Handlers /\ Owner(Now, h) = k
  BY <1>1, <1>3, PerFdFacts, NowIs DEF Owner
<1> HIDE DEF h, k
<1>5. /\ item \in ItemSet /\ item.fds = <<>> /\ item.h = k
  BY <1>4 DEF ItemSet
<1> HIDE DEF item
<1>6. QueueSound(<<item>>) /\ \A f : ~Queued(<<item>>, f)
  BY <1>5, OneItem, EmptyOnce
<1>7. Ownership(Now, inbound, batch, <<item>>)
  <2>1. Ownership(Now, inbound, batch, <<>>)
    BY <1>0, <1>3 DEF Sound
  <2> QED BY <1>6, <2>1, NothingQueued DEF Ownership
<1>8. HandlesNamed(Now, <<item>>)
  <2>1. HandlesNamed(Now, <<>>)
    BY <1>0, <1>3 DEF Sound
  <2>2. \A i \in 1..Len(<<item>>) : <<item>>[i] = item
    OBVIOUS
  <2>3. \E g \in DOMAIN Now.perfd : Owner(Now, g) = item.h
    BY <1>1, <1>3, <1>4, <1>5
  <2> QED BY <2>1, <2>2, <2>3 DEF HandlesNamed
<1>9. Sound(Now, "shed", 0, events, io, inbound, batch, <<item>>)
  BY <1>3, <1>7, <1>8 DEF Sound
<1>10. Now' = Now /\ Live' = Live
  BY <1>0, TableStays
<1>11. Sound(Now, pc, current_, events, io, inbound, batch, hfds)'
  BY <1>0, <1>3, <1>9, <1>10
<1>12. ThreadShape'
  <2>1. Len(hfds') <= 1
    BY <1>0
  <2> QED BY <1>0, <1>10, <2>1 DEF SiloInv, ThreadShape
<1> QED BY <1>11, <1>12 DEF SiloInv

(* The one item that is being collected.                                   *)
LEMMA Collecting ==
  ASSUME SiloInv, hfds # <<>>
  PROVE  /\ hfds = <<hfds[1]>> /\ hfds[1] \in ItemSet /\ Once(hfds[1].fds)
         /\ 1 \in 1..Len(hfds)
         /\ \A f : Queued(hfds, f) <=> f \in ToSet(hfds[1].fds)
<1>1. QueueSound(hfds) /\ Len(hfds) <= 1
  BY DEF SiloInv, Sound, Ownership, ThreadShape
<1>2. hfds \in Seq(ItemSet)
  BY <1>1 DEF QueueSound
<1>3. Len(hfds) = 1
  <2>1. Len(hfds) \in Nat /\ Len(hfds) # 0
    BY <1>2, EmptySeq
  <2>2. Len(hfds) <= 1
    BY <1>1
  <2> QED BY <2>1, <2>2
<1>4. hfds = <<hfds[1]>> /\ 1 \in 1..Len(hfds) /\ hfds[1] \in ItemSet
  BY <1>2, <1>3
<1>5. Once(hfds[1].fds)
  BY <1>1, <1>4 DEF QueueSound
<1> QED BY <1>4, <1>5, OneItem

LEMMA ShedEndInv ==
  ASSUME SiloInv, ShedEnd
  PROVE  SiloInv'
<1> DEFINE item == hfds[1]
<1>0. /\ pc = "shed" /\ hfds # <<>> /\ inbound' = Append(inbound, item) /\ hfds' = <<>>
      /\ UNCHANGED <<table, current_, pc, events, shedLeft, impending_shed_, batch,
                     io, hup, spent>>
  BY DEF ShedEnd, At
<1>1. /\ item \in ItemSet /\ Once(item.fds)
      /\ \A f : Queued(hfds, f) <=> f \in ToSet(item.fds)
  BY <1>0, Collecting
<1>2. /\ current_ = 0
      /\ Sound(Now, "shed", 0, events, io, inbound, batch, hfds)
  BY <1>0, AtPhase DEF Phases
<1>3. Ownership(Now, inbound, batch, hfds) /\ HandlesNamed(Now, hfds)
  BY <1>2 DEF Sound
<1> HIDE DEF item
<1>4. \A f \in ToSet(item.fds) : f \in Fds
  <2>1. item.fds \in Seq(Fds)
    BY <1>1 DEF ItemSet
  <2> QED BY <2>1, Members
<1>5. /\ QueueSound(inbound')
      /\ \A f : Queued(inbound', f) <=> Queued(inbound, f) \/ f \in ToSet(item.fds)
  <2>1. \A f \in ToSet(item.fds) : ~Queued(inbound, f)
    BY <1>1, <1>3, <1>4 DEF Ownership
  <2>2. QueueSound(inbound)
    BY <1>3 DEF Ownership
  <2> QED BY <1>0, <1>1, <2>1, <2>2, QueueAppend
<1>6. Ownership(Now, inbound', batch, <<>>)
  BY <1>1, <1>3, <1>5, NothingQueued DEF Ownership
<1>7. HandlesNamed(Now, <<>>)
  <2>1. \A i \in 1..Len(<<>>) : FALSE
    OBVIOUS
  <2> QED BY <1>3, <2>1 DEF HandlesNamed
<1>8. Sound(Now, "shed", 0, events, io, inbound', batch, <<>>)
  BY <1>2, <1>6, <1>7 DEF Sound
<1>9. Now' = Now /\ Live' = Live /\ lists' = lists
  BY <1>0, TableStays DEF table
<1>10. Sound(Now, pc, current_, events, io, inbound, batch, hfds)'
  BY <1>0, <1>2, <1>8, <1>9
<1>11. ThreadShape'
  <2>1. Len(hfds') <= 1
    BY <1>0
  <2> QED BY <1>0, <1>9, <2>1 DEF SiloInv, ThreadShape
<1> QED BY <1>10, <1>11 DEF SiloInv

(* One handle of the handler that is shed.                                 *)
LEMMA ShedSound ==
  ASSUME NEW s, NEW h, NEW it \in ItemSet, NEW p, NEW v, NEW x, NEW q1, NEW q2,
         Sound(s, p, 0, v, x, q1, q2, <<it>>), Once(it.fds),
         h \in DOMAIN s.perfd, Owner(s, h) = it.h,
         NEW e \in Seq(Nat), Solo(it.h) => e = <<>>,
         NEW jt, jt = [h |-> it.h, fds |-> Append(it.fds, s.perfd[h].fd)]
  PROVE  Sound([Free(s, h, "inbound") EXCEPT !.handles_[it.h] = e],
               p, 0, v, x, q1, q2, <<jt>>)
<1> DEFINE u == Free(s, h, "inbound")
           k == it.h
           t == [u EXCEPT !.handles_[k] = e]
           f0 == s.perfd[h].fd
<1>1. /\ Shape(s) /\ \A g \in DOMAIN s.perfd : Local(s, g, p, 0, v, x)
      /\ Ownership(s, q1, q2, <<it>>) /\ HandlesNamed(s, <<it>>)
  BY DEF Sound
<1>2. /\ Shape(u) /\ DOMAIN u.perfd = DOMAIN s.perfd \ {h}
      /\ \A g \in DOMAIN s.perfd : g # h => Same(s, u, g)
      /\ u.handles_ = s.handles_
      /\ \A f \in Fds : u.fate[f] = IF f = f0 THEN "inbound" ELSE s.fate[f]
  BY <1>1, FreeIs DEF Fates
<1> HIDE DEF u
<1>3. k \in Handlers /\ e \in Seq(Nat) /\ (Solo(k) => e = <<>>)
  BY DEF ItemSet
<1> HIDE DEF k
<1>4. /\ Shape(t) /\ t.perfd = u.perfd /\ t.lists = u.lists /\ t.edge = u.edge
      /\ t.fate = u.fate
      /\ \A j \in Handlers : t.handles_[j] = IF j = k THEN e ELSE u.handles_[j]
  <2>1. Shape(u) /\ k \in Handlers /\ e \in Seq(Nat)
    BY <1>2, <1>3
  <2> QED BY <2>1, HandlesSet
<1> HIDE DEF t
<1>5. /\ DOMAIN t.perfd = DOMAIN s.perfd \ {h}
      /\ \A g \in DOMAIN s.perfd : g # h => Same(s, t, g)
      /\ \A f \in Fds : t.fate[f] = IF f = f0 THEN "inbound" ELSE s.fate[f]
  BY <1>2, <1>4 DEF Same, Mem
<1>6. \A g \in DOMAIN t.perfd : Local(t, g, p, 0, v, x)
  BY <1>1, <1>4, <1>5, FreeOthers
<1>7. \A g \in DOMAIN t.perfd : /\ g \in DOMAIN s.perfd /\ g # h
                                /\ t.perfd[g].fd = s.perfd[g].fd
                                /\ t.perfd[g].fd # f0 /\ Owner(t, g) = Owner(s, g)
  BY <1>1, <1>5 DEF Same, Owner, Ownership
<1>8. f0 \in Fds /\ s.fate[f0] = "silo" /\ OwnerOf[f0] = k
  BY <1>1, PerFdFacts DEF Ownership, Owner, k
<1> HIDE DEF f0
<1>9. \A f : Queued(<<it>>, f) <=> f \in ToSet(it.fds)
  BY OneItem
<1>10. /\ jt \in ItemSet /\ jt.h = k /\ jt.fds = Append(it.fds, f0)
  <2>1. it.fds \in Seq(Fds)
    BY DEF ItemSet
  <2>2. Append(it.fds, f0) \in Seq(Fds)
    BY <1>8, <2>1
  <2> HIDE DEF Append
  <2> QED BY <1>3, <2>2 DEF ItemSet, k, f0
<1>11. /\ Once(jt.fds) /\ \A f : f \in ToSet(jt.fds) <=> f \in ToSet(it.fds) \/ f = f0
  <2>1. it.fds \in Seq(Fds)
    BY DEF ItemSet
  <2>2. ~Queued(<<it>>, f0)
    BY <1>1, <1>8 DEF Ownership
  <2>3. f0 \notin ToSet(it.fds)
    BY <1>9, <2>2
  <2>4. /\ Once(Append(it.fds, f0))
        /\ \A f : f \in ToSet(Append(it.fds, f0)) <=> f \in ToSet(it.fds) \/ f = f0
    BY <1>8, <2>1, <2>3, AppendOnce
  <2> QED BY <1>10, <2>4
<1>12. QueueSound(<<jt>>) /\ \A f : Queued(<<jt>>, f) <=> Queued(<<it>>, f) \/ f = f0
  BY <1>9, <1>10, <1>11, OneItem
<1>13. Ownership(t, q1, q2, <<jt>>)
  <2>1. ASSUME NEW f \in Fds
        PROVE  /\ t.fate[f] = "inbound"
                    <=> Queued(q1, f) \/ Queued(q2, f) \/ Queued(<<jt>>, f)
               /\ t.fate[f] = "silo" <=> \E g \in DOMAIN t.perfd : t.perfd[g].fd = f
               /\ ~(Queued(q1, f) /\ Queued(<<jt>>, f))
               /\ ~(Queued(q2, f) /\ Queued(<<jt>>, f))
    <3>0. /\ s.fate[f] = "inbound" <=> Queued(q1, f) \/ Queued(q2, f) \/ Queued(<<it>>, f)
          /\ s.fate[f] = "silo" <=> \E g \in DOMAIN s.perfd : s.perfd[g].fd = f
          /\ ~(Queued(q1, f) /\ Queued(<<it>>, f))
          /\ ~(Queued(q2, f) /\ Queued(<<it>>, f))
      BY <1>1 DEF Ownership
    <3>1. CASE f = f0
      BY <1>5, <1>7, <1>8, <1>12, <3>0, <3>1
    <3>2. CASE f # f0
      <4>1. t.fate[f] = s.fate[f]
        BY <1>5, <3>2
      <4>2. (\E g \in DOMAIN t.perfd : t.perfd[g].fd = f)
              <=> \E g \in DOMAIN s.perfd : s.perfd[g].fd = f
        BY <1>5, <1>7, <3>2 DEF f0
      <4> QED BY <1>12, <3>0, <3>2, <4>1, <4>2
    <3> QED BY <3>1, <3>2
  <2>2. \A g, i \in DOMAIN t.perfd : t.perfd[g].fd = t.perfd[i].fd => g = i
    BY <1>1, <1>7 DEF Ownership
  <2> QED BY <1>1, <1>12, <2>1, <2>2 DEF Ownership
<1>14. HandlesNamed(t, <<jt>>)
  <2>0. /\ \A g \in DOMAIN s.perfd : Solo(Owner(s, g)) => s.handles_[Owner(s, g)] = <<g>>
        /\ \A f \in Fds : s.fate[f] \in {"client", "inbound"} /\ Solo(OwnerOf[f])
                             => s.handles_[OwnerOf[f]] = <<>>
    BY <1>1 DEF HandlesNamed
  <2>1. ASSUME NEW g \in DOMAIN t.perfd, Solo(Owner(t, g))
        PROVE  t.handles_[Owner(t, g)] = <<g>>
    <3>1. g \in DOMAIN s.perfd /\ Owner(t, g) = Owner(s, g)
      BY <1>7
    <3>2. Owner(s, g) # k /\ Owner(s, g) \in Handlers
      <4>1. s.perfd[g].fd \in Fds /\ s.perfd[g].fd # f0 /\ Owner(s, g) \in Handlers
        BY <1>1, <1>7, <3>1, PerFdFacts
      <4>2. Owner(s, g) = k => Solo(k)
        BY <2>1, <3>1
      <4> QED BY <1>8, <4>1, <4>2 DEF Solo, Owner
    <3> QED BY <1>2, <1>4, <2>0, <2>1, <3>1, <3>2
  <2>2. ASSUME NEW f \in Fds, t.fate[f] \in {"client", "inbound"}, Solo(OwnerOf[f])
        PROVE  t.handles_[OwnerOf[f]] = <<>>
    <3>1. OwnerOf[f] \in Handlers
      BY SiloAssumption
    <3>2. CASE f = f0
      BY <1>3, <1>4, <1>8, <2>2, <3>1, <3>2
    <3>3. CASE f # f0
      <4>1. s.handles_[OwnerOf[f]] = <<>>
        BY <1>5, <2>0, <2>2, <3>3
      <4>2. CASE OwnerOf[f] = k
        BY <1>3, <1>4, <2>2, <3>1, <4>2
      <4>3. CASE OwnerOf[f] # k
        BY <1>2, <1>4, <3>1, <4>1, <4>3
      <4> QED BY <4>2, <4>3
    <3> QED BY <3>2, <3>3
  <2>3. \A i \in 1..Len(<<jt>>) : <<jt>>[i] = jt
    BY Single
  <2>4. Solo(jt.h) => t.handles_[jt.h] = <<>>
    BY <1>3, <1>4, <1>10
  <2> QED BY <2>1, <2>2, <2>3, <2>4 DEF HandlesNamed
<1>15. Sound(t, p, 0, v, x, q1, q2, <<jt>>)
  BY <1>4, <1>6, <1>13, <1>14 DEF Sound
<1> QED BY <1>15 DEF t, u, k

(* A handler of one descriptor sheds it and nothing else; a handler of     *)
(* several sheds what it has, until a check ends the process.              *)
LEMMA SoloShed ==
  ASSUME SiloInv, ShedHandle, Solo(hfds[1].h)
  PROVE  LET h == Head(handles_[hfds[1].h])
         IN  /\ h \in Live /\ OwnerOf[perfd[h].fd] = hfds[1].h
             /\ Tail(handles_[hfds[1].h]) = <<>>
<1> DEFINE it == hfds[1]
           k == it.h
<1>0. pc = "shed" /\ hfds # <<>> /\ handles_[k] # <<>>
  BY DEF ShedHandle, At
<1>1. 1 \in 1..Len(hfds)
  BY <1>0, Collecting
<1>2. /\ Sound(Now, "shed", 0, events, io, inbound, batch, hfds)
      /\ DOMAIN Now.perfd = Live
  BY <1>0, AtPhase DEF Phases
<1>3. HandlesNamed(Now, hfds) /\ Now.handles_ = handles_ /\ Now.perfd = perfd
  BY <1>2, NowIs DEF Sound
<1>4. PICK g \in Live : Owner(Now, g) = k
  BY <1>0, <1>1, <1>2, <1>3 DEF HandlesNamed
<1>5. handles_[k] = <<g>>
  BY <1>2, <1>3, <1>4 DEF HandlesNamed
<1> QED BY <1>3, <1>4, <1>5 DEF Owner

LEMMA ShedHandleInv ==
  ASSUME SiloInv, ShedHandle, fault' = "none"
  PROVE  SiloInv'
<1> DEFINE it == hfds[1]
           k == it.h
           h == Head(handles_[k])
           e == Tail(handles_[k])
           jt == [h |-> k, fds |-> Append(it.fds, perfd[h].fd)]
           t == [Free(Now, h, "inbound") EXCEPT !.handles_[k] = e]
<1>0. /\ pc = "shed" /\ hfds # <<>> /\ handles_[k] # <<>>
      /\ UNCHANGED <<current_, pc, events, shedLeft, impending_shed_, batch, io, hup,
                     inbound, spent>>
  BY DEF ShedHandle, At, kernel
<1>1. /\ hfds = <<it>> /\ it \in ItemSet /\ Once(it.fds)
  BY <1>0, Collecting
<1>2. Solo(k) => e = <<>>
  BY SoloShed
<1>3. /\ current_ = 0 /\ batch = <<>> /\ DOMAIN events = {}
      /\ Sound(Now, "shed", 0, events, io, inbound, batch, hfds)
      /\ Shape(Now) /\ DOMAIN Now.perfd = Live
  BY <1>0, AtPhase DEF Phases
<1>4. /\ k \in Handlers /\ Now.perfd = perfd /\ Now.handles_ = handles_
      /\ handles_ \in [Handlers -> Seq(Nat)]
  BY <1>1, <1>3, NowIs DEF ItemSet, Shape, TableShape
<1>5. e \in Seq(Nat)
  BY <1>0, <1>4
<1>6. /\ h \in Live /\ OwnerOf[perfd[h].fd] = k
      /\ Become([Free(Now, h, "inbound") EXCEPT !.handles_[k] = Tail(@)])
      /\ hfds' = <<jt>>
  <2>1. \A w : Fault(Now, w).fault = w
    BY DEF Fault, Now
  <2>2. \A w : Become(Fault(Now, w)) => fault' = w
    BY <2>1 DEF Become
  <2> QED BY <2>2 DEF ShedHandle
<1>8. Become(t)
  <2> DEFINE u == Free(Now, h, "inbound")
  <2>2. u.handles_ = handles_ /\ Shape(u)
    <3>1. Shape(Now) /\ h \in DOMAIN Now.perfd /\ "inbound" \in Fates
      BY <1>3, <1>6 DEF Fates
    <3> HIDE DEF h, it
    <3> QED BY <1>4, <3>1, FreeIs
  <2>3. IsBundle(u) /\ u.handles_ \in [Handlers -> Seq(Nat)]
    BY <2>2 DEF Shape, TableShape
  <2> HIDE DEF u
  <2>4. [u EXCEPT !.handles_[k] = Tail(@)] = [u EXCEPT !.handles_[k] = e]
    BY <2>2
  <2> QED BY <1>6, <2>4 DEF u
<1> HIDE DEF it
<1>9. Sound(t, "shed", 0, events, io, inbound, batch, <<jt>>)
  <2>1. Owner(Now, h) = k /\ h \in DOMAIN Now.perfd
    BY <1>3, <1>4, <1>6 DEF Owner
  <2>2. jt = [h |-> it.h, fds |-> Append(it.fds, Now.perfd[h].fd)]
    BY <1>4
  <2>3. Sound(Now, "shed", 0, events, io, inbound, batch, <<it>>)
    BY <1>1, <1>3
  <2>4. e \in Seq(Nat) /\ (Solo(it.h) => e = <<>>)
    BY <1>2, <1>5
  <2> HIDE DEF h, jt, e
  <2> QED BY <1>1, <2>1, <2>2, <2>3, <2>4, ShedSound
<1> HIDE DEF t, jt
<1>10. Sound(t, pc', current_', events', io', inbound', batch', hfds')
  BY <1>0, <1>3, <1>6, <1>9
<1>11. ThreadShape'
  <2>1. Len(hfds') <= 1
    BY <1>6
  <2>2. Live' = DOMAIN t.perfd
    BY <1>8, <1>9, Becomes DEF Sound
  <2> QED BY <1>0, <1>3, <2>1, <2>2 DEF SiloInv, ThreadShape
<1> QED BY <1>8, <1>10, <1>11, Stepped

(***************************************************************************)
(* Events and idlers                                                       *)
(***************************************************************************)
LEMMA Wanted ==
  ASSUME NEW s, Shape(s), NEW h \in DOMAIN s.perfd, NEW ds \in SUBSET Dirs
  PROVE  /\ Shape([s EXCEPT !.perfd[h].wants = @ \cup ds])
         /\ Touches(s, [s EXCEPT !.perfd[h].wants = @ \cup ds], h)
         /\ SameMem(s, [s EXCEPT !.perfd[h].wants = @ \cup ds])
         /\ Flags([s EXCEPT !.perfd[h].wants = @ \cup ds], h, s.perfd[h].wants \cup ds,
                  s.perfd[h].squelch, s.perfd[h].muted, s.perfd[h].fns)
<1> DEFINE p == s.perfd[h]
           q == [p EXCEPT !.wants = @ \cup ds]
           e == [s EXCEPT !.perfd[h] = q]
           t == [s EXCEPT !.perfd[h].wants = @ \cup ds]
<1>1. p \in PerFds /\ p.wants \subseteq Dirs
  BY PerFdFacts
<1>2. t = e
  OBVIOUS
<1>3. /\ q \in PerFds /\ q.fd = p.fd /\ q.fns = p.fns
      /\ q.wants = p.wants \cup ds /\ q.squelch = p.squelch /\ q.muted = p.muted
  <2> HIDE DEF p
  <2> QED BY <1>1 DEF PerFds
<1> HIDE DEF q, t
<1>4. /\ Shape(e) /\ Touches(s, e, h) /\ SameMem(s, e)
      /\ Flags(e, h, q.wants, q.squelch, q.muted, q.fns)
  BY <1>3, SetFlags
<1> HIDE DEF e
<1> QED BY <1>2, <1>3, <1>4 DEF t

(* A descriptor that leaves: expunged, and in one of the lists that end    *)
(* its stay.                                                               *)
LEMMA SentLocal ==
  ASSUME NEW s, NEW t, NEW h, NEW q, NEW w, NEW x, NEW l \in {"closers_", "shedders_"},
         Shape(s), h \in DOMAIN s.perfd, s.perfd[h].muted = s.perfd[h].squelch,
         s.perfd[h].fns > 0 => Solo(Owner(s, h)), h \notin DOMAIN w,
         t.perfd[h].fd = s.perfd[h].fd,
         Flags(t, h, {}, s.perfd[h].squelch, s.perfd[h].muted, s.perfd[h].fns),
         \A m \in ListNames : h \in Mem(t, m) <=> m = l,
         q \notin {"wait", "admit", "done"}, l = "shedders_" => q \in {"events", "shed"}
  PROVE  Local(t, h, q, 0, w, x)
<1>1. /\ Owner(t, h) = Owner(s, h) /\ h # 0 /\ Doomed(t, h)
      /\ \A m \in ListNames : h \in Mem(t, m) => m \in {"closers_", "shedders_"}
  BY ListFacts, Names DEF Owner, Doomed
<1>2. /\ t.perfd[h].wants = {} /\ t.perfd[h].squelch = s.perfd[h].squelch
      /\ t.perfd[h].muted = s.perfd[h].muted /\ t.perfd[h].fns = s.perfd[h].fns
  BY DEF Flags
<1>3. \A m \in ActiveIdle : h \notin Mem(t, m)
  BY <1>1, Names
<1>4. /\ h \notin Mem(t, "runners_") /\ h \notin Mem(t, "ejects_")
      /\ h \notin Mem(t, "active_") /\ h \notin Mem(t, "idlers_")
  BY <1>1, Names
<1>5. ListPhases(t, h, q)
  BY <1>4, Names DEF ListPhases
<1>6. WantsAreKept(t, h, q, 0)
  BY <1>2, <1>3, <1>4 DEF WantsAreKept
<1>7. Placed(t, h, q, 0)
  BY <1>1, <1>2, <1>4 DEF Placed
<1>8. Running(t, h, q, 0)
  BY <1>1 DEF Running
<1>9. EdgeKept(t, h, w, x)
  BY <1>1 DEF EdgeKept
<1> QED BY <1>5, <1>6, <1>7, <1>8, <1>9 DEF Local

(* An event was taken: whatever it woke is wanted now.                     *)
LEMMA EventLocal ==
  ASSUME NEW s, NEW t, NEW h, NEW v, NEW w, NEW x, Shape(s), h \in DOMAIN s.perfd,
         Local(s, h, "events", 0, v, x), h \in DOMAIN v, h \notin DOMAIN w,
         t.perfd[h].fd = s.perfd[h].fd, h \in t.edge <=> h \in s.edge,
         Flags(t, h, s.perfd[h].wants \cup ((v[h] \cap Dirs) \ s.perfd[h].squelch),
               s.perfd[h].squelch, s.perfd[h].muted, s.perfd[h].fns),
         \A m \in Shared : h \in Mem(t, m) <=> h \in Mem(s, m),
         \/ /\ t.perfd[h].wants = {}
            /\ \A m \in ActiveIdle : h \in Mem(t, m) <=> h \in Mem(s, m)
         \/ \A m \in ActiveIdle : h \in Mem(t, m) <=> m = "active_"
  PROVE  Local(t, h, "events", 0, w, x)
<1>1. Owner(t, h) = Owner(s, h) /\ h # 0
  BY ListFacts DEF Owner
<1>2. /\ ListPhases(s, h, "events") /\ WantsAreKept(s, h, "events", 0)
      /\ Placed(s, h, "events", 0) /\ EdgeKept(s, h, v, x) /\ ~Doomed(s, h)
  BY DEF Local
<1>3. /\ t.perfd[h].wants = s.perfd[h].wants \cup ((v[h] \cap Dirs) \ s.perfd[h].squelch)
      /\ t.perfd[h].squelch = s.perfd[h].squelch
      /\ t.perfd[h].muted = s.perfd[h].muted /\ t.perfd[h].fns = s.perfd[h].fns
  BY DEF Flags
<1>4. /\ h \notin Mem(s, "runners_") /\ h \notin Mem(s, "ejects_") /\ ~Doomed(t, h)
      /\ h \notin Mem(t, "runners_") /\ h \notin Mem(t, "ejects_")
      /\ \A m \in Shared : h \notin Mem(t, m)
  BY <1>2, Names DEF ListPhases, Doomed
<1>5. ListPhases(t, h, "events")
  BY <1>4, Names DEF ListPhases
<1>6. WantsAreKept(t, h, "events", 0)
  <2>1. t.perfd[h].wants # {} => h \in Mem(t, "active_")
    BY Names
  <2>2. t.perfd[h].wants \cap t.perfd[h].squelch = {}
    BY <1>2, <1>3 DEF WantsAreKept
  <2> QED BY <1>2, <1>3, <1>4, <2>1, <2>2 DEF WantsAreKept
<1>7. Placed(t, h, "events", 0)
  <2>1. \E l \in ActiveIdle : h \in Mem(s, l)
    BY <1>1, <1>2, <1>4 DEF Placed
  <2>2. \E l \in ActiveIdle : h \in Mem(t, l)
    BY <2>1, Names
  <2>3. t.perfd[h].fns > 0 => Solo(Owner(t, h))
    BY <1>1, <1>2, <1>3 DEF Placed
  <2> QED BY <1>4, <2>2, <2>3 DEF Placed
<1>8. Running(t, h, "events", 0)
  BY <1>1 DEF Running
<1>9. EdgeKept(t, h, w, x)
  <2>1. ASSUME NEW d \in Dirs, x[t.perfd[h].fd][d] > 0, d \notin t.perfd[h].muted
        PROVE  h \in t.edge \/ d \in t.perfd[h].wants
    <3>1. h \in s.edge \/ d \in v[h] \/ d \in s.perfd[h].wants
      BY <1>2, <1>3, <1>4, <2>1 DEF EdgeKept
    <3>2. s.perfd[h].muted = s.perfd[h].squelch
      BY <1>2 DEF WantsAreKept
    <3> QED BY <1>3, <2>1, <3>1, <3>2
  <2> QED BY <2>1 DEF EdgeKept
<1> QED BY <1>4, <1>5, <1>6, <1>7, <1>8, <1>9 DEF Local

LEMMA TakeEventInv ==
  ASSUME SiloInv, TakeEvent
  PROVE  SiloInv'
<1>0. /\ pc = "events" /\ pc' = "events"
      /\ UNCHANGED <<current_, impending_shed_, batch, hfds, io, hup, inbound, spent>>
  BY DEF TakeEvent, At, kernel
<1>1. /\ current_ = 0 /\ batch = <<>> /\ hfds = <<>>
      /\ Sound(Now, "events", 0, events, io, inbound, batch, hfds)
      /\ Shape(Now) /\ DOMAIN Now.perfd = Live
      /\ \A g \in Live : Local(Now, g, "events", 0, events, io)
      /\ \A g \in Live : ListPhases(Now, g, "events")
  BY <1>0, AtPhase DEF Phases
<1>2. PICK h \in DOMAIN events : /\ ConvertEvent(h)
                                 /\ events' = [g \in DOMAIN events \ {h} |-> events[g]]
  BY DEF TakeEvent
<1>3. h \in Live /\ DOMAIN events \subseteq Live /\ Now.perfd = perfd /\ Now.lists = lists
  BY NowIs DEF SiloInv, ThreadShape
<1>4. /\ DOMAIN events' = DOMAIN events \ {h} /\ h \notin DOMAIN events'
      /\ \A g \in DOMAIN events' : events'[g] = events[g]
  BY <1>2
<1> DEFINE s == Wanting(h, Unsquelched(h))
           r == Relink(h, s)
           hangup == "hup" \in events[h]
           shed == ~hangup /\ shedLeft > 0
           c == PushBack(Expunge(Now, h), h, "closers_")
           z == PushBack(Expunge(Now, h), h, "shedders_")
           t == IF hangup THEN c ELSE IF shed THEN z
                ELSE IF s.perfd[h].wants = {} THEN s ELSE r
<1>5. Become(t) /\ shedLeft' = IF shed THEN shedLeft - 1 ELSE shedLeft
  BY <1>2 DEF ConvertEvent, Dispose
<1>6. /\ Shape(s) /\ Touches(Now, s, h) /\ SameMem(Now, s)
      /\ Flags(s, h, perfd[h].wants \cup Unsquelched(h), perfd[h].squelch,
               perfd[h].muted, perfd[h].fns)
  <2>1. Unsquelched(h) \in SUBSET Dirs
    BY DEF Unsquelched
  <2> HIDE DEF Unsquelched
  <2> QED BY <1>1, <1>3, <2>1, Wanted DEF Wanting
<1>7. WantsAreKept(Now, h, "events", 0) /\ (Now.perfd[h].fns > 0 => Solo(Owner(Now, h)))
  BY <1>1, <1>3 DEF Local, Placed
<1>8. ASSUME NEW l \in {"closers_", "shedders_"}
      PROVE  /\ Shape(PushBack(Expunge(Now, h), h, l))
             /\ Touches(Now, PushBack(Expunge(Now, h), h, l), h)
             /\ Local(PushBack(Expunge(Now, h), h, l), h, "events", 0, events', io)
  <2> DEFINE u == PushBack(Expunge(Now, h), h, l)
  <2>1. /\ Shape(u) /\ Touches(Now, u, h)
        /\ \A m \in ListNames : h \in Mem(u, m) <=> m = l
        /\ Flags(u, h, {}, Now.perfd[h].squelch, Now.perfd[h].muted, Now.perfd[h].fns)
    BY <1>1, <1>3, <1>8, Names, SentIs
  <2> HIDE DEF u
  <2>2. u.perfd[h].fd = Now.perfd[h].fd
    BY <2>1 DEF Touches
  <2>3. Local(u, h, "events", 0, events', io)
    <3>1. /\ Shape(Now) /\ h \in DOMAIN Now.perfd /\ h \notin DOMAIN events'
          /\ \A m \in ListNames : h \in Mem(u, m) <=> m = l
          /\ Flags(u, h, {}, Now.perfd[h].squelch, Now.perfd[h].muted, Now.perfd[h].fns)
      BY <1>1, <1>3, <1>4, <2>1
    <3>2. /\ Now.perfd[h].muted = Now.perfd[h].squelch
          /\ Now.perfd[h].fns > 0 => Solo(Owner(Now, h))
      BY <1>7 DEF WantsAreKept
    <3> QED BY <1>8, <2>2, <3>1, <3>2, SentLocal
  <2> QED BY <2>1, <2>3 DEF u
<1>9. /\ Shape(r) /\ Touches(Now, r, h) /\ r.perfd = s.perfd
      /\ \A m \in ActiveIdle : h \in Mem(r, m) <=> m = "active_"
      /\ \A m \in Shared : h \in Mem(r, m) <=> h \in Mem(Now, m)
  <2> HIDE DEF s
  <2>1. h \in DOMAIN s.perfd
    BY <1>1, <1>3, <1>6 DEF Touches, SameTable
  <2>2. /\ Shape(r) /\ Touches(s, r, h) /\ r.perfd = s.perfd
        /\ \A m \in ActiveIdle : h \in Mem(r, m) <=> m = "active_"
        /\ \A m \in Shared : h \in Mem(r, m) <=> h \in Mem(s, m)
    BY <1>6, <2>1, RelinkIs DEF Relink
  <2> HIDE DEF r
  <2>3. Touches(Now, r, h)
    BY <1>6, <2>2, TouchesTrans
  <2>4. \A m \in Shared : h \in Mem(r, m) <=> h \in Mem(Now, m)
    BY <1>6, <2>2, Names DEF SameMem
  <2> QED BY <2>2, <2>3, <2>4
<1>10. Shape(t) /\ Touches(Now, t, h) /\ Local(t, h, "events", 0, events', io)
  <2>1. CASE hangup
    BY <1>8, <2>1
  <2>2. CASE shed
    BY <1>8, <2>2
  <2>3. ASSUME ~hangup, ~shed,
               NEW u, Shape(u), Touches(Now, u, h), u.perfd = s.perfd,
               \A m \in Shared : h \in Mem(u, m) <=> h \in Mem(Now, m),
               \/ /\ u.perfd[h].wants = {}
                  /\ \A m \in ActiveIdle : h \in Mem(u, m) <=> h \in Mem(Now, m)
               \/ \A m \in ActiveIdle : h \in Mem(u, m) <=> m = "active_"
        PROVE  Local(u, h, "events", 0, events', io)
    <3>1. u.perfd[h].fd = Now.perfd[h].fd /\ (h \in u.edge <=> h \in Now.edge)
      BY <2>3 DEF Touches, SameTable
    <3>2. Flags(u, h, Now.perfd[h].wants
                        \cup ((events[h] \cap Dirs) \ Now.perfd[h].squelch),
                Now.perfd[h].squelch, Now.perfd[h].muted, Now.perfd[h].fns)
      BY <1>3, <1>6, <2>3 DEF Flags, Unsquelched
    <3>3. Local(Now, h, "events", 0, events, io) /\ h \in DOMAIN Now.perfd
      BY <1>1, <1>3
    <3> HIDE DEF s
    <3> QED BY <1>1, <1>2, <1>4, <2>3, <3>1, <3>2, <3>3, EventLocal
  <2>4. CASE ~hangup /\ ~shed /\ s.perfd[h].wants = {}
    <3>1. t = s
      BY <2>4
    <3> HIDE DEF s, t, hangup, shed
    <3>2. \A m \in ListNames : h \in Mem(s, m) <=> h \in Mem(Now, m)
      BY <1>6 DEF SameMem
    <3>3. Local(s, h, "events", 0, events', io)
      BY <1>6, <2>3, <2>4, <3>2, Names
    <3> QED BY <1>6, <3>1, <3>3
  <2>5. CASE ~hangup /\ ~shed /\ s.perfd[h].wants # {}
    <3>1. t = r
      BY <2>5
    <3> HIDE DEF s, t, r, hangup, shed
    <3>2. Local(r, h, "events", 0, events', io)
      BY <1>9, <2>3, <2>5
    <3> QED BY <1>9, <3>1, <3>2
  <2> QED BY <2>1, <2>2, <2>4, <2>5
<1>13. shedLeft' \in Nat
  <2>1. shedLeft \in Nat
    BY DEF SiloInv, ThreadShape
  <2> QED BY <1>5, <2>1
<1> HIDE DEF t, s, r, c, z, shed, hangup
<1>14. Sound(t, "events", 0, events', io, inbound, batch, hfds)
  <2>1. SoundBut(Now, h, "events", 0, events, io, inbound, batch, hfds)
    BY <1>1, SoundButAny
  <2>2. \A g \in DOMAIN Now.perfd : g # h => /\ g \in DOMAIN events' <=> g \in DOMAIN events
                                             /\ g \in DOMAIN events' => events'[g] = events[g]
    BY <1>4
  <2>3. SoundBut(t, h, "events", 0, events', io, inbound, batch, hfds)
    BY <1>1, <1>3, <1>10, <2>1, <2>2, TouchBut
  <2> QED BY <1>10, <2>3, SoundIs
<1>15. Sound(t, pc', current_', events', io', inbound', batch', hfds')
  BY <1>0, <1>1, <1>14
<1>16. Live' = Live
  BY <1>1, <1>5, <1>10, Becomes DEF Touches, SameTable
<1>17. ThreadShape'
  <2>1. /\ DOMAIN events' \subseteq Live'
        /\ \A g \in DOMAIN events' : events'[g] \subseteq Readiness
    BY <1>3, <1>4, <1>16 DEF SiloInv, ThreadShape
  <2>2. events' = [g \in DOMAIN events' |-> events'[g]]
    BY <1>2
  <2> QED BY <1>0, <1>13, <1>16, <2>1, <2>2 DEF SiloInv, ThreadShape
<1> QED BY <1>5, <1>15, <1>17, Stepped

(* The first idler, called and put back.                                   *)
LEMMA IdleLocal ==
  ASSUME NEW s, NEW t, NEW h, NEW v, NEW x, Shape(s), h \in DOMAIN s.perfd,
         Local(s, h, "idle", 0, v, x), h \in Mem(s, "idlers_"), DOMAIN v = {},
         t.perfd[h] = s.perfd[h], h \in t.edge <=> h \in s.edge,
         \A m \in ActiveIdle : h \in Mem(t, m) <=> m = "idlers_",
         \A m \in Shared : h \in Mem(t, m) <=> h \in Mem(s, m)
  PROVE  Local(t, h, "close", 0, v, x)
<1>1. Owner(t, h) = Owner(s, h) /\ h # 0
  BY ListFacts DEF Owner
<1>2. /\ ListPhases(s, h, "idle") /\ WantsAreKept(s, h, "idle", 0)
      /\ Placed(s, h, "idle", 0) /\ EdgeKept(s, h, v, x)
  BY DEF Local
<1>3. /\ ~Doomed(s, h) /\ ~Doomed(t, h)
      /\ h \notin Mem(s, "runners_") /\ h \notin Mem(t, "runners_")
      /\ h \notin Mem(s, "active_") /\ h \notin Mem(t, "active_")
      /\ h \notin Mem(s, "ejects_") /\ h \notin Mem(t, "ejects_")
      /\ h \notin Mem(t, "closers_") /\ h \notin Mem(t, "shedders_")
      /\ h \in Mem(t, "idlers_")
  BY <1>2, Names DEF WantsAreKept, Doomed, ListPhases
<1>4. s.perfd[h].wants = {}
  BY <1>1, <1>2, <1>3 DEF WantsAreKept
<1>5. ListPhases(t, h, "close")
  BY <1>3 DEF ListPhases
<1>6. WantsAreKept(t, h, "close", 0)
  BY <1>2, <1>3, <1>4 DEF WantsAreKept
<1>7. Placed(t, h, "close", 0)
  BY <1>1, <1>2, <1>3, Names DEF Placed
<1>8. Running(t, h, "close", 0)
  BY <1>1 DEF Running
<1>9. EdgeKept(t, h, v, x)
  BY <1>2, <1>3 DEF EdgeKept
<1> QED BY <1>3, <1>5, <1>6, <1>7, <1>8, <1>9 DEF Local

(* A HandleIdle that asks for an upcall and keeps the descriptor links it  *)
(* twice; nothing else it may do is a mistake.                             *)
LEMMA RunIdlersInv ==
  ASSUME SiloInv, WellBehaved, RunIdlers
  PROVE  SiloInv' \/ (fault' = "PushBack of a linked hook" /\ IdleCalls \cap Requests # {})
<1> DEFINE h == Head(lists["idlers_"])
           s == Erase(Now, h, ActiveIdle)
<1>0. /\ pc = "idle" /\ pc' = "close" /\ current_' = current_ /\ lists["idlers_"] # <<>>
      /\ UNCHANGED <<events, shedLeft, impending_shed_, batch, hfds, io, hup, inbound,
                     spent>>
  BY DEF RunIdlers, At, kernel
<1>1. /\ current_ = 0 /\ hfds = <<>> /\ batch = <<>> /\ DOMAIN events = {}
      /\ Sound(Now, "idle", 0, events, io, inbound, batch, hfds)
      /\ Shape(Now) /\ io \in [Fds -> [Dirs -> Nat]] /\ DOMAIN Now.perfd = Live
      /\ \A g \in Live : g # 0 /\ Local(Now, g, "idle", 0, events, io)
  BY <1>0, AtPhase DEF Phases
<1>2. h \in Mem(Now, "idlers_") /\ h \in Live /\ h # 0
  BY <1>0, <1>1, InList, Names
<1>3. /\ Shape(s) /\ Touches(Now, s, h) /\ s.perfd = Now.perfd /\ s.edge = Now.edge
      /\ \A l \in ListNames : h \in Mem(s, l) <=> h \in Mem(Now, l) /\ l \notin ActiveIdle
  BY <1>1, EraseTouches
<1>4. SoundBut(s, h, "idle", 0, events, io, inbound, batch, <<>>)
  <2>1. SoundBut(Now, h, "idle", 0, events, io, inbound, batch, <<>>)
    BY <1>1, SoundButAny
  <2> HIDE DEF h, s
  <2> QED BY <1>1, <1>2, <1>3, <2>1, TouchStays
<1>5. Quiet
  BY <1>0, <1>1 DEF Quiet
<1>6. ASSUME NEW t1, NEW t, Become(t), Shape(t), Touches(t1, t, h), h \in DOMAIN t1.perfd,
             SoundBut(t1, h, "idle", 0, events, io, inbound, batch, <<>>),
             Local(t, h, "close", 0, events, io)
      PROVE  SiloInv'
  <2>1. \A g \in DOMAIN t1.perfd : g # h => ListPhases(t1, g, "close")
    BY <1>6 DEF SoundBut, Local, ListPhases
  <2> HIDE DEF h
  <2>2. SoundBut(t, h, "close", 0, events, io, inbound, batch, <<>>)
    BY <1>6, <2>1, TouchBut
  <2>3. Sound(t, "close", 0, events, io, inbound, batch, <<>>)
    BY <1>6, <2>2, SoundIs
  <2>4. Sound(t, pc', current_', events', io', inbound', batch', hfds')
    BY <1>0, <1>1, <2>3
  <2> QED BY <1>0, <1>1, <1>5, <1>6, <2>4, QuietStep DEF Phases
<1> HIDE DEF h, s
<1>7. ASSUME NEW t1, SoundBut(t1, h, "idle", 0, events, io, inbound, batch, <<>>),
             Same(s, t1, h), h \in DOMAIN t1.perfd, Become(PushBack(t1, h, "idlers_"))
      PROVE  SiloInv'
  <2>1. Shape(t1)
    BY <1>7 DEF SoundBut
  <2>2. /\ t1.perfd[h] = Now.perfd[h] /\ (h \in t1.edge <=> h \in Now.edge)
        /\ \A l \in ListNames : h \in Mem(t1, l) <=> h \in Mem(Now, l) /\ l \notin ActiveIdle
    BY <1>3, <1>7 DEF Same
  <2>3. h \in DOMAIN Now.perfd /\ Local(Now, h, "idle", 0, events, io)
    BY <1>1, <1>2
  <2> DEFINE t == PushBack(t1, h, "idlers_")
  <2>4. HookOf("idlers_") = ActiveIdle
    BY DEF HookOf, ActiveIdle
  <2>5. \A m \in HookOf("idlers_") : h \notin Mem(t1, m)
    BY <2>2, <2>4, Names
  <2>6. /\ Shape(t) /\ OnlyLists(t1, t)
        /\ \A m \in ListNames : \A x :
              x \in Mem(t, m) <=> x \in Mem(t1, m) \/ (m = "idlers_" /\ x = h)
    BY <1>7, <2>1, <2>5, Names, PushBackIs
  <2>7. Become(t)
    BY <1>7
  <2> HIDE DEF t
  <2>8. Touches(t1, t, h)
    BY <2>6, ListTouches
  <2>9. /\ t.perfd[h] = Now.perfd[h] /\ (h \in t.edge <=> h \in Now.edge)
        /\ \A m \in ActiveIdle : h \in Mem(t, m) <=> m = "idlers_"
        /\ \A m \in Shared : h \in Mem(t, m) <=> h \in Mem(Now, m)
    BY <2>2, <2>6, Names DEF OnlyLists
  <2>10. Local(t, h, "close", 0, events, io)
    BY <1>1, <1>2, <2>3, <2>9, IdleLocal
  <2> QED BY <1>6, <1>7, <2>6, <2>7, <2>8, <2>10
<1>17. ASSUME NEW t1, SoundBut(t1, h, "idle", 0, events, io, inbound, batch, <<>>),
              h \in DOMAIN t1.perfd, t1.perfd[h].muted = t1.perfd[h].squelch,
              t1.perfd[h].fns > 0 => Solo(Owner(t1, h)),
              Become(PushBack(Expunge(t1, h), h, "closers_"))
       PROVE  SiloInv'
  <2> DEFINE t == PushBack(Expunge(t1, h), h, "closers_")
  <2>1. Shape(t1)
    BY <1>17 DEF SoundBut
  <2>2. /\ Shape(t) /\ Touches(t1, t, h)
        /\ \A m \in ListNames : h \in Mem(t, m) <=> m = "closers_"
        /\ Flags(t, h, {}, t1.perfd[h].squelch, t1.perfd[h].muted, t1.perfd[h].fns)
    BY <1>17, <2>1, Names, SentIs
  <2>3. Become(t)
    BY <1>17
  <2> HIDE DEF t
  <2>4. t.perfd[h].fd = t1.perfd[h].fd
    BY <2>2 DEF Touches
  <2>5. Local(t, h, "close", 0, events, io)
    BY <1>1, <1>17, <2>1, <2>2, <2>4, SentLocal
  <2> QED BY <1>6, <1>17, <2>2, <2>3, <2>5
<1>18. /\ Local(Now, h, "idle", 0, events, io) /\ h \in DOMAIN Now.perfd
       /\ Now.perfd[h].muted = Now.perfd[h].squelch
       /\ Now.perfd[h].fns > 0 => Solo(Owner(Now, h))
  BY <1>1, <1>2 DEF Local, WantsAreKept, Placed
<1>8. Same(s, s, h) /\ h \in DOMAIN s.perfd
  BY <1>1, <1>2, <1>3 DEF Same
<1>9. ASSUME NEW c \in IdleCalls \ Requests, NEW g, MayCall(c, g)
      PROVE  /\ SoundBut(Call(s, c, g), h, "idle", 0, events, io, inbound, batch, <<>>)
             /\ Same(s, Call(s, c, g), h) /\ h \in DOMAIN Call(s, c, g).perfd
  <2>1. c \in {"none", "Add"}
    BY DEF WellBehaved
  <2>2. CASE c = "none"
    <3>1. Call(s, c, g) = s
      BY <2>2 DEF Call
    <3> QED BY <1>4, <1>8, <3>1
  <2>3. CASE c = "Add"
    <3>1. QueueSound(batch) /\ \A f \in Fds : Queued(batch, f) <=> Queued(batch, f)
      BY <1>1 DEF Sound, Ownership
    <3>2. s.fate = fate /\ DOMAIN events \subseteq DOMAIN s.perfd /\ MayCall("Add", g)
      BY <1>1, <1>3, <1>9, <2>3, NowIs DEF Touches, SameTable
    <3>3. h \in DOMAIN s.perfd \cup {0} /\ 0 \in {0, h}
      BY <1>8
    <3>4. /\ SoundBut(Call(s, "Add", g), h, "idle", 0, events, io, inbound, batch, <<>>)
          /\ \A i \in DOMAIN s.perfd : Same(s, Call(s, "Add", g), i)
          /\ DOMAIN s.perfd \subseteq DOMAIN Call(s, "Add", g).perfd
      BY <1>4, <3>1, <3>2, <3>3, AddCall
    <3> QED BY <1>8, <2>3, <3>4
  <2> QED BY <2>1, <2>2, <2>3
<1>10. \/ Become(PushBack(s, h, "idlers_"))
       \/ \E c \in IdleCalls, g \in Known(h) :
            /\ MayCall(c, g)
            /\ \/ Become(PushBack(Call(s, c, g), h, "idlers_"))
               \/ Become(PushBack(Expunge(Call(s, c, g), h), h, "closers_"))
  BY DEF RunIdlers, s, h
<1>11. CASE Become(PushBack(s, h, "idlers_"))
  BY <1>4, <1>7, <1>8, <1>11
<1>12. ASSUME NEW c \in IdleCalls \ Requests, NEW g \in Known(h), MayCall(c, g),
              \/ Become(PushBack(Call(s, c, g), h, "idlers_"))
              \/ Become(PushBack(Expunge(Call(s, c, g), h), h, "closers_"))
       PROVE  SiloInv'
  <2> DEFINE t1 == Call(s, c, g)
  <2>1. /\ SoundBut(t1, h, "idle", 0, events, io, inbound, batch, <<>>)
        /\ Same(s, t1, h) /\ h \in DOMAIN t1.perfd
    BY <1>9, <1>12
  <2>2. Become(PushBack(t1, h, "idlers_")) \/ Become(PushBack(Expunge(t1, h), h, "closers_"))
    BY <1>12
  <2> HIDE DEF t1
  <2>3. t1.perfd[h] = Now.perfd[h] /\ Owner(t1, h) = Owner(Now, h)
    BY <1>3, <2>1 DEF Same, Owner
  <2> QED BY <1>7, <1>17, <1>18, <2>1, <2>2, <2>3
<1>13. ASSUME NEW c \in IdleCalls \cap Requests, NEW g \in Known(h),
              \/ Become(PushBack(Call(s, c, g), h, "idlers_"))
              \/ Become(PushBack(Expunge(Call(s, c, g), h), h, "closers_"))
       PROVE  SiloInv' \/ fault' = "PushBack of a linked hook"
  <2>1. PICK d \in Dirs : c = RequestOf(d)
    BY DEF Requests, RequestOf, Dirs
  <2>2. g = h
    <3>1. Solo(OwnerOf[perfd[h].fd])
      <4>1. OwnerOf[perfd[h].fd] \in Handlers
        BY <1>1, <1>2, PerFdFacts, NowIs DEF Owner
      <4> QED BY <1>13, <4>1 DEF WellBehaved
    <3>2. Ownership(Now, inbound, batch, hfds)
      BY <1>1 DEF Sound
    <3> QED BY <1>1, <1>2, <3>1, <3>2, KnownSolo
  <2> DEFINE t1 == Request(s, h, d)
  <2>3. Call(s, c, g) = t1
    BY <2>1, <2>2 DEF Call, RequestOf, Dirs
  <2>4. /\ Shape(t1) /\ Touches(s, t1, h)
        /\ Flags(t1, h, s.perfd[h].wants \cup {d}, s.perfd[h].squelch \ {d},
                 s.perfd[h].muted \ {d}, s.perfd[h].fns)
        /\ \A m \in ActiveIdle : h \in Mem(t1, m) <=> m = "active_"
    BY <1>3, <1>8, RequestIs
  <2>5. \/ Become(PushBack(t1, h, "idlers_"))
        \/ Become(PushBack(Expunge(t1, h), h, "closers_"))
    BY <1>13, <2>3
  <2> HIDE DEF t1
  <2>6. CASE Become(PushBack(t1, h, "idlers_"))
    <3>1. IsLinked(t1, h, HookOf("idlers_"))
      BY <2>4 DEF HookOf, ActiveIdle, IsLinked, Mem
    <3>2. PushBack(t1, h, "idlers_") = [t1 EXCEPT !.fault = "PushBack of a linked hook"]
      BY <3>1 DEF PushBack, Fault
    <3>3. [t1 EXCEPT !.fault = "PushBack of a linked hook"].fault
             = "PushBack of a linked hook"
      BY <2>4 DEF Shape, IsBundle
    <3> QED BY <2>6, <3>2, <3>3 DEF Become
  <2>7. CASE Become(PushBack(Expunge(t1, h), h, "closers_"))
    <3>1. SoundBut(t1, h, "idle", 0, events, io, inbound, batch, <<>>)
      BY <1>4, <1>8, <2>4, TouchStays
    <3>2. /\ h \in DOMAIN t1.perfd /\ t1.perfd[h].muted = t1.perfd[h].squelch
          /\ t1.perfd[h].fns = Now.perfd[h].fns /\ Owner(t1, h) = Owner(Now, h)
      BY <1>3, <1>8, <1>18, <2>4 DEF Touches, SameTable, Flags, Owner
    <3> QED BY <1>17, <1>18, <2>7, <3>1, <3>2
  <2> QED BY <2>5, <2>6, <2>7
<1> QED BY <1>10, <1>11, <1>12, <1>13

(***************************************************************************)
(* Admission and the end of the thread                                     *)
(***************************************************************************)
LEMMA ClosersDoneInv ==
  ASSUME SiloInv, ClosersDone
  PROVE  SiloInv'
<1>0. /\ pc = "close" /\ pc' = "admit" /\ lists["closers_"] = <<>>
      /\ batch' = inbound /\ inbound' = <<>>
      /\ UNCHANGED <<table, current_, events, shedLeft, impending_shed_, hfds, io, hup,
                     spent>>
  BY DEF ClosersDone, At, kernel
<1>1. /\ current_ = 0 /\ hfds = <<>> /\ batch = <<>> /\ DOMAIN events = {}
      /\ Sound(Now, "close", 0, events, io, inbound, batch, hfds)
      /\ io \in [Fds -> [Dirs -> Nat]] /\ DOMAIN Now.perfd = Live
      /\ \A g \in Live : ListPhases(Now, g, "close")
  BY <1>0, AtPhase DEF Phases
<1>2. Sound(Now, "admit", 0, events, io, inbound, batch, hfds)
  <2>1. \A g \in DOMAIN Now.perfd : ListPhases(Now, g, "admit")
    BY <1>0, <1>1, EmptyList DEF ListPhases
  <2> QED BY <1>1, <2>1, PhaseSound
<1>3. Sound(Now, "admit", 0, events, io, <<>>, inbound, hfds)
  <2>1. Ownership(Now, inbound, <<>>, hfds)
    BY <1>1, <1>2 DEF Sound
  <2>2. Ownership(Now, <<>>, inbound, hfds)
    BY <2>1 DEF Ownership
  <2> QED BY <1>2, <2>2 DEF Sound
<1>4. Become(Now)
  BY <1>0 DEF Become, Now, table
<1>5. Sound(Now, pc', current_', events', io', inbound', batch', hfds')
  BY <1>0, <1>1, <1>3
<1>6. Quiet
  BY <1>0, <1>1 DEF Quiet
<1> QED BY <1>0, <1>1, <1>4, <1>5, <1>6, QuietStep DEF Phases

(* The state at an admission.                                              *)
LEMMA AtAdmit ==
  ASSUME SiloInv, pc = "admit"
  PROVE  /\ current_ = 0 /\ hfds = <<>> /\ DOMAIN events = {}
         /\ SoundBut(Now, 0, "admit", 0, events, io, inbound, batch, <<>>)
         /\ io \in [Fds -> [Dirs -> Nat]] /\ DOMAIN Now.perfd = Live /\ Shape(Now)
         /\ Ownership(Now, inbound, batch, <<>>) /\ QueueSound(batch)
         /\ DOMAIN events \subseteq DOMAIN Now.perfd
<1>1. /\ current_ = 0 /\ hfds = <<>> /\ DOMAIN events = {}
      /\ Sound(Now, "admit", 0, events, io, inbound, batch, hfds)
      /\ io \in [Fds -> [Dirs -> Nat]] /\ DOMAIN Now.perfd = Live /\ Shape(Now)
  BY AtPhase DEF Phases
<1>2. SoundBut(Now, 0, "admit", 0, events, io, inbound, batch, <<>>)
  BY <1>1, SoundButAny
<1>3. Ownership(Now, inbound, batch, <<>>) /\ QueueSound(batch)
  BY <1>1 DEF Sound, Ownership
<1> QED BY <1>1, <1>2, <1>3

(* A step of RunAdmission.                                                 *)
LEMMA AdmitStep ==
  ASSUME SiloInv, pc = "admit", pc' = "admit",
         UNCHANGED <<current_, events, shedLeft, impending_shed_, hfds, io, hup,
                     inbound, spent>>,
         NEW t, Become(t),
         SoundBut(t, 0, "admit", 0, events, io, inbound, batch', <<>>)
  PROVE  SiloInv'
<1>1. /\ current_ = 0 /\ hfds = <<>> /\ DOMAIN events = {}
      /\ io \in [Fds -> [Dirs -> Nat]]
  BY AtAdmit
<1>2. Shape(t)
  BY DEF SoundBut
<1>3. 0 \notin DOMAIN t.perfd
  BY <1>2, ListFacts
<1>4. Sound(t, "admit", 0, events, io, inbound, batch', <<>>)
  BY <1>3, SoundIs
<1>5. Sound(t, pc', current_', events', io', inbound', batch', hfds')
  BY <1>1, <1>4
<1>6. Quiet
  BY <1>1 DEF Quiet
<1> QED BY <1>1, <1>5, <1>6, QuietStep DEF Phases

LEMMA AdmitFdInv ==
  ASSUME SiloInv, AdmitFd
  PROVE  SiloInv'
<1>0. /\ pc = "admit" /\ pc' = "admit" /\ batch # <<>> /\ Head(batch).fds # <<>>
      /\ Become(AddFd(Now, HeadFd)) /\ batch' = AfterHeadFd
      /\ UNCHANGED <<current_, events, shedLeft, impending_shed_, hfds, io, hup,
                     inbound, spent>>
  BY DEF AdmitFd, At, kernel
<1>1. /\ SoundBut(Now, 0, "admit", 0, events, io, inbound, batch, <<>>)
      /\ Ownership(Now, inbound, batch, <<>>) /\ QueueSound(batch)
      /\ DOMAIN events \subseteq DOMAIN Now.perfd
  BY <1>0, AtAdmit
<1> DEFINE f == HeadFd
           r == AfterHeadFd
<1>2. f \in Fds /\ Queued(batch, f) /\ Unqueues(batch, r, f)
  BY <1>0, <1>1, BatchLeft
<1> HIDE DEF f, r
<1>3. Now.fate[f] \in {"client", "inbound"} /\ ~Queued(inbound, f)
  BY <1>1, <1>2 DEF Ownership
<1>4. SoundBut(AddFd(Now, f), 0, "admit", 0, events, io, inbound, r, <<>>)
  <2>1. 0 \in DOMAIN Now.perfd \cup {0} /\ 0 \in {0, 0}
    OBVIOUS
  <2> QED BY <1>1, <1>2, <1>3, <2>1, AddBut
<1> QED BY <1>0, <1>4, AdmitStep DEF f, r

(* An affinitized function has asked for an upcall of h.                   *)
LEMMA AskLocal ==
  ASSUME NEW s, NEW t, NEW h, NEW v, NEW x, NEW d \in Dirs, Shape(s),
         h \in DOMAIN s.perfd, Local(s, h, "admit", 0, v, x), DOMAIN v = {},
         Touches(s, t, h),
         Flags(t, h, s.perfd[h].wants \cup {d}, s.perfd[h].squelch \ {d},
               s.perfd[h].muted \ {d}, s.perfd[h].fns),
         \A m \in ActiveIdle : h \in Mem(t, m) <=> m = "active_",
         \A m \in Shared : h \in Mem(t, m) <=> h \in Mem(s, m)
  PROVE  Local(t, h, "admit", 0, v, x)
<1>1. /\ Owner(t, h) = Owner(s, h) /\ h # 0 /\ t.perfd[h].fd = s.perfd[h].fd
      /\ h \in t.edge <=> h \in s.edge
  BY ListFacts DEF Owner, Touches, SameTable
<1>2. /\ ListPhases(s, h, "admit") /\ WantsAreKept(s, h, "admit", 0)
      /\ Placed(s, h, "admit", 0) /\ EdgeKept(s, h, v, x)
  BY DEF Local
<1>3. /\ t.perfd[h].wants = s.perfd[h].wants \cup {d}
      /\ t.perfd[h].squelch = s.perfd[h].squelch \ {d}
      /\ t.perfd[h].muted = s.perfd[h].muted \ {d} /\ t.perfd[h].fns = s.perfd[h].fns
  BY DEF Flags
<1>4. /\ ~Doomed(s, h) /\ ~Doomed(t, h) /\ h \notin Mem(s, "ejects_")
      /\ h \notin Mem(t, "ejects_") /\ h \in Mem(t, "active_")
      /\ h \notin Mem(t, "runners_") /\ \A m \in Shared : h \notin Mem(t, m)
  BY <1>2, Names DEF Doomed, ListPhases
<1>5. ListPhases(t, h, "admit")
  BY <1>4, Names DEF ListPhases
<1>6. WantsAreKept(t, h, "admit", 0)
  BY <1>2, <1>3, <1>4 DEF WantsAreKept
<1>7. Placed(t, h, "admit", 0)
  BY <1>1, <1>2, <1>3, <1>4, Names DEF Placed
<1>8. Running(t, h, "admit", 0)
  BY <1>1 DEF Running
<1>9. EdgeKept(t, h, v, x)
  BY <1>1, <1>2, <1>3, <1>4 DEF EdgeKept
<1> QED BY <1>4, <1>5, <1>6, <1>7, <1>8, <1>9 DEF Local

(* An affinitized function that asks for an upcall of a descriptor that    *)
(* has gone ends the process; nothing else it may do does.                 *)
LEMMA AdmitFnInv ==
  ASSUME SiloInv, WellBehaved, AdmitFn
  PROVE  SiloInv' \/ (fault' = "ValueOrDie" /\ AffinityCalls \cap Requests # {})
<1>0. /\ pc = "admit" /\ pc' = "admit" /\ batch # <<>> /\ Head(batch).fds = <<>>
      /\ batch' = Tail(batch)
      /\ UNCHANGED <<current_, events, shedLeft, impending_shed_, hfds, io, hup,
                     inbound, spent>>
  BY DEF AdmitFn, At, kernel
<1>1. /\ SoundBut(Now, 0, "admit", 0, events, io, inbound, batch, <<>>)
      /\ Ownership(Now, inbound, batch, <<>>) /\ QueueSound(batch)
      /\ DOMAIN events \subseteq DOMAIN Now.perfd
  BY <1>0, AtAdmit
<1> DEFINE r == Tail(batch)
<1>2. QueueSound(r) /\ \A f \in Fds : Queued(r, f) <=> Queued(batch, f)
  BY <1>0, <1>1, QueueTail, EmptyOnce
<1>3. batch' = r
  BY <1>0
<1> HIDE DEF r
<1>4. SoundBut(Now, 0, "admit", 0, events, io, inbound, r, <<>>)
  <2>1. Ownership(Now, inbound, r, <<>>)
    BY <1>1, <1>2 DEF Ownership
  <2> QED BY <1>1, <2>1 DEF SoundBut
<1>5. CASE UNCHANGED table
  <2>1. Become(Now)
    BY <1>5 DEF Become, Now, table
  <2> QED BY <1>0, <1>3, <1>4, <2>1, AdmitStep
<1>8. ASSUME NEW c \in AffinityCalls \cap Requests, NEW g, Become(Call(Now, c, g))
      PROVE  SiloInv' \/ fault' = "ValueOrDie"
  <2>1. PICK d \in Dirs : c = RequestOf(d)
    BY DEF Requests, RequestOf, Dirs
  <2> DEFINE t == Request(Now, g, d)
  <2>2. Become(t)
    <3>1. Call(Now, c, g) = t
      BY <2>1 DEF Call, RequestOf, Dirs
    <3> QED BY <1>8, <3>1
  <2>3. CASE g \notin DOMAIN Now.perfd
    <3>1. t = Fault(Now, "ValueOrDie")
      BY <2>3 DEF Request
    <3>2. Fault(Now, "ValueOrDie").fault = "ValueOrDie"
      BY DEF Fault, Now
    <3> HIDE DEF t
    <3> QED BY <2>2, <3>1, <3>2 DEF Become
  <2>4. CASE g \in DOMAIN Now.perfd
    <3>0. Shape(Now) /\ DOMAIN events = {}
      BY <1>0, AtAdmit
    <3>1. /\ Shape(t) /\ Touches(Now, t, g)
          /\ Flags(t, g, Now.perfd[g].wants \cup {d}, Now.perfd[g].squelch \ {d},
                   Now.perfd[g].muted \ {d}, Now.perfd[g].fns)
          /\ \A m \in ActiveIdle : g \in Mem(t, m) <=> m = "active_"
          /\ \A m \in Shared : g \in Mem(t, m) <=> g \in Mem(Now, m)
      BY <2>4, <3>0, RequestIs
    <3> HIDE DEF t
    <3>2. Sound(Now, "admit", 0, events, io, inbound, r, <<>>)
      <4>1. 0 \notin DOMAIN Now.perfd
        BY <3>0, ListFacts
      <4> QED BY <1>4, <4>1, SoundIs
    <3>3. SoundBut(t, g, "admit", 0, events, io, inbound, r, <<>>)
      <4>1. SoundBut(Now, g, "admit", 0, events, io, inbound, r, <<>>)
        BY <3>2, SoundButAny
      <4> QED BY <2>4, <3>1, <4>1, TouchStays
    <3>4. Local(t, g, "admit", 0, events, io)
      <4>1. Local(Now, g, "admit", 0, events, io)
        BY <2>4, <3>2 DEF Sound
      <4> QED BY <2>4, <3>0, <3>1, <4>1, AskLocal
    <3>5. SoundBut(t, 0, "admit", 0, events, io, inbound, r, <<>>)
      BY <3>3, <3>4, SoundIs, SoundButAny
    <3> QED BY <1>0, <1>3, <2>2, <3>5, AdmitStep
  <2> QED BY <2>3, <2>4
<1>6. ASSUME NEW c \in AffinityCalls \ Requests, NEW g, MayCall(c, g),
             Become(Call(Now, c, g))
      PROVE  SiloInv'
  <2>1. c \in {"none", "Add"}
    BY DEF WellBehaved
  <2>2. CASE c = "none"
    <3>1. Become(Now)
      BY <1>6, <2>2 DEF Call
    <3> QED BY <1>0, <1>3, <1>4, <3>1, AdmitStep
  <2>3. CASE c = "Add"
    <3>1. 0 \in DOMAIN Now.perfd \cup {0} /\ 0 \in {0, 0} /\ Now.fate = fate
      BY NowIs
    <3>2. MayCall("Add", g) /\ Become(Call(Now, "Add", g))
      BY <1>6, <2>3
    <3>3. SoundBut(Call(Now, "Add", g), 0, "admit", 0, events, io, inbound, r, <<>>)
      BY <1>1, <1>2, <3>1, <3>2, AddCall
    <3> QED BY <1>0, <1>3, <3>2, <3>3, AdmitStep
  <2> QED BY <2>1, <2>2, <2>3
<1>7. \/ UNCHANGED table
      \/ \E c \in AffinityCalls : \E g : MayCall(c, g) /\ Become(Call(Now, c, g))
  BY DEF AdmitFn
<1> QED BY <1>5, <1>6, <1>7, <1>8

LEMMA ConsiderLoadSheddingInv ==
  ASSUME SiloInv, ConsiderLoadShedding
  PROVE  SiloInv'
<1>0. /\ pc = "admit" /\ pc' = "wait" /\ batch = <<>>
      /\ UNCHANGED <<table, current_, events, shedLeft, batch, hfds, io, hup, inbound>>
      /\ \/ impending_shed_' = FALSE /\ spent' = spent
         \/ /\ spent.sheds < MaxSheds /\ spent' = [spent EXCEPT !.sheds = @ + 1]
  BY DEF ConsiderLoadShedding, At, kernel
<1>1. /\ current_ = 0 /\ hfds = <<>> /\ DOMAIN events = {}
      /\ Sound(Now, "admit", 0, events, io, inbound, batch, hfds)
      /\ DOMAIN Now.perfd = Live /\ \A g \in Live : ListPhases(Now, g, "admit")
  BY <1>0, AtPhase DEF Phases
<1>2. Sound(Now, "wait", 0, events, io, inbound, batch, hfds)
  <2>1. \A g \in DOMAIN Now.perfd : ListPhases(Now, g, "wait")
    BY <1>1 DEF ListPhases
  <2> QED BY <1>1, <2>1, PhaseSound
<1>3. Now' = Now /\ Live' = Live /\ lists' = lists
  BY <1>0, TableStays DEF table
<1>4. Sound(Now, pc, current_, events, io, inbound, batch, hfds)'
  BY <1>0, <1>1, <1>2, <1>3
<1>5. /\ spent \in [kernel : Nat, sheds : Nat, runs : Nat]
      /\ spent' \in [kernel : Nat, sheds : Nat, runs : Nat]
  <2>1. spent \in [kernel : Nat, sheds : Nat, runs : Nat]
    BY DEF SiloInv, ThreadShape
  <2> QED BY <1>0, <2>1
<1>6. ThreadShape'
  <2>1. pc' \in Phases /\ pc' \notin {"read", "write", "shed", "done", "events"}
    BY <1>0 DEF Phases
  <2> QED BY <1>0, <1>1, <1>3, <1>5, <2>1 DEF SiloInv, ThreadShape
<1> QED BY <1>4, <1>6 DEF SiloInv

(* A table without handles.                                                *)
LEMMA EmptyTable ==
  ASSUME NEW N \in Nat \ {0}, NEW H \in [Handlers -> Seq(Nat)], NEW F \in [Fds -> Fates],
         NEW p, NEW c, NEW v, NEW x, NEW q1, NEW q2, NEW t,
         t = [perfd |-> NoHandles, next |-> N, lists |-> [l \in ListNames |-> <<>>],
              handles_ |-> H, edge |-> {}, fate |-> F, fault |-> "none"],
         QueueSound(q1), QueueSound(q2),
         \A f \in Fds : /\ F[f] = "inbound" <=> Queued(q1, f) \/ Queued(q2, f)
                        /\ ~(Queued(q1, f) /\ Queued(q2, f)) /\ F[f] # "silo",
         \A f \in Fds : F[f] \in {"client", "inbound"} /\ Solo(OwnerOf[f])
                         => H[OwnerOf[f]] = <<>>
  PROVE  Sound(t, p, c, v, x, q1, q2, <<>>)
<1> DEFINE L == [l \in ListNames |-> <<>>]
<1>1. DOMAIN NoHandles = {} /\ NoHandles \in [{} -> PerFds]
  BY DEF NoHandles
<1>2. \A l \in ListNames : L[l] = <<>>
  OBVIOUS
<1>3. L \in [ListNames -> Seq(Nat)]
  OBVIOUS
<1> HIDE DEF L, NoHandles
<1>4. /\ IsBundle(t) /\ t.perfd = NoHandles /\ t.next = N /\ t.lists = L
      /\ t.handles_ = H /\ t.edge = {} /\ t.fate = F /\ t.fault = "none"
  BY BundleOf DEF L
<1>5. DOMAIN t.perfd = {}
  BY <1>1, <1>4
<1>6. TableShape(t)
  BY <1>1, <1>4, <1>5 DEF TableShape
<1>7. ListShape(t)
  <2>1. \A l \in ListNames : Once(t.lists[l]) /\ Mem(t, l) = {}
    BY <1>2, <1>4, EmptyOnce DEF Mem
  <2> QED BY <1>3, <1>4, <2>1 DEF ListShape
<1>8. Ownership(t, q1, q2, <<>>)
  BY <1>4, <1>5, NothingQueued DEF Ownership
<1>9. HandlesNamed(t, <<>>)
  <2>1. \A i \in 1..Len(<<>>) : FALSE
    OBVIOUS
  <2> QED BY <1>4, <1>5, <2>1 DEF HandlesNamed
<1> QED BY <1>4, <1>5, <1>6, <1>7, <1>8, <1>9 DEF Sound, Shape

LEMMA ThreadEndsInv ==
  ASSUME SiloInv, pc \in {"wait", "admit"}, ThreadEnds, UNCHANGED handles_
  PROVE  SiloInv'
<1> DEFINE F == [f \in Fds |->
                  IF \/ fate[f] = "silo"
                     \/ \E i \in DOMAIN batch : f \in ToSet(batch[i].fds)
                  THEN "closed" ELSE fate[f]]
           t == [perfd |-> NoHandles, next |-> next, lists |-> [l \in ListNames |-> <<>>],
                 handles_ |-> handles_, edge |-> {}, fate |-> F, fault |-> "none"]
<1>1. /\ current_ = 0 /\ hfds = <<>> /\ DOMAIN events = {}
      /\ Sound(Now, pc, 0, events, io, inbound, batch, hfds)
      /\ Shape(Now) /\ io \in [Fds -> [Dirs -> Nat]] /\ DOMAIN Now.perfd = Live
  BY AtPhase DEF Phases
<1>2. /\ next \in Nat \ {0} /\ handles_ \in [Handlers -> Seq(Nat)] /\ fault = "none"
      /\ fate \in [Fds -> Fates]
  BY <1>1, NowIs DEF Shape, TableShape
<1>3. /\ pc' = "done" /\ current_' = 0 /\ events' = NoHandles /\ batch' = <<>>
      /\ UNCHANGED <<shedLeft, impending_shed_, hfds, io, hup, inbound, spent>>
      /\ Become(t)
  BY <1>2 DEF ThreadEnds, kernel, Become
<1>4. Ownership(Now, inbound, batch, <<>>) /\ HandlesNamed(Now, <<>>) /\ Now.fate = fate
      /\ Now.handles_ = handles_
  BY <1>1, NowIs DEF Sound
<1>5. QueueSound(inbound) /\ QueueSound(batch)
  BY <1>4 DEF Ownership
<1>6. \A f : (\E i \in DOMAIN batch : f \in ToSet(batch[i].fds)) <=> Queued(batch, f)
  <2>1. batch \in Seq(ItemSet)
    BY <1>5 DEF QueueSound
  <2>2. DOMAIN batch = 1..Len(batch)
    BY <2>1
  <2> QED BY <2>2 DEF Queued, Holds
<1>7. /\ F \in [Fds -> Fates]
      /\ \A f \in Fds : F[f] = IF fate[f] = "silo" \/ Queued(batch, f)
                               THEN "closed" ELSE fate[f]
  BY <1>2, <1>6 DEF Fates
<1>8. \A f \in Fds : /\ F[f] = "inbound" <=> Queued(inbound, f) \/ Queued(<<>>, f)
                     /\ ~(Queued(inbound, f) /\ Queued(<<>>, f)) /\ F[f] # "silo"
  <2> HIDE DEF F
  <2> QED BY <1>4, <1>7, NothingQueued DEF Ownership
<1>9. \A f \in Fds : F[f] \in {"client", "inbound"} /\ Solo(OwnerOf[f])
                       => handles_[OwnerOf[f]] = <<>>
  <2> HIDE DEF F
  <2>1. \A f \in Fds : F[f] \in {"client", "inbound"} => F[f] = fate[f]
    BY <1>7
  <2> QED BY <1>4, <2>1 DEF HandlesNamed
<1> HIDE DEF F
<1>10. Sound(t, "done", 0, events', io, inbound, <<>>, <<>>)
  BY <1>2, <1>5, <1>7, <1>8, <1>9, NothingQueued, EmptyTable
<1>11. t.perfd = NoHandles /\ t.lists = [l \in ListNames |-> <<>>]
  OBVIOUS
<1> HIDE DEF t
<1>12. Sound(t, pc', current_', events', io', inbound', batch', hfds')
  BY <1>1, <1>3, <1>10
<1>13. DOMAIN NoHandles = {} /\ NoHandles = [h \in DOMAIN NoHandles |-> NoHandles[h]]
  BY DEF NoHandles
<1>14. Live' = {}
  BY <1>3, <1>10, <1>11, <1>13, Becomes DEF Sound
<1>15. ThreadShape'
  <2>1. DOMAIN events' = {} /\ events' = [h \in DOMAIN events' |-> events'[h]]
    BY <1>3, <1>13
  <2>2. hfds' = <<>> /\ Len(hfds') <= 1
    BY <1>1, <1>3
  <2>3. "done" \in Phases /\ "done" \notin {"read", "write", "events", "admit"}
    BY DEF Phases
  <2> QED BY <1>3, <1>14, <2>1, <2>2, <2>3 DEF SiloInv, ThreadShape
<1> QED BY <1>3, <1>12, <1>15, Stepped

LEMMA AdmitFailsInv ==
  ASSUME SiloInv, AdmitFails
  PROVE  SiloInv'
BY ThreadEndsInv DEF AdmitFails, At

LEMMA ExitInv ==
  ASSUME SiloInv, Exit
  PROVE  SiloInv'
BY ThreadEndsInv DEF Exit, At

LEMMA SiloInvInit ==
  ASSUME Init
  PROVE  SiloInv
<1> DEFINE H == [k \in Handlers |-> <<>>]
           F == [f \in Fds |-> "client"]
<1>1. 1 \in Nat \ {0} /\ H \in [Handlers -> Seq(Nat)] /\ F \in [Fds -> Fates]
  BY DEF Fates
<1>2. /\ \A f \in Fds : F[f] = "client"
      /\ \A k \in Handlers : H[k] = <<>>
      /\ \A f \in Fds : OwnerOf[f] \in Handlers
  BY SiloAssumption
<1>3. Now = [perfd |-> NoHandles, next |-> 1, lists |-> [l \in ListNames |-> <<>>],
             handles_ |-> H, edge |-> {}, fate |-> F, fault |-> "none"]
  BY DEF Init, Now
<1> HIDE DEF H, F
<1>4. Sound(Now, pc, current_, events, io, <<>>, <<>>, <<>>)
  <2>1. \A f \in Fds : /\ F[f] = "inbound" <=> Queued(<<>>, f) \/ Queued(<<>>, f)
                       /\ ~(Queued(<<>>, f) /\ Queued(<<>>, f)) /\ F[f] # "silo"
    BY <1>2, NothingQueued
  <2>2. \A f \in Fds : F[f] \in {"client", "inbound"} /\ Solo(OwnerOf[f])
                         => H[OwnerOf[f]] = <<>>
    BY <1>2
  <2> QED BY <1>1, <1>3, <2>1, <2>2, NothingQueued, EmptyTable, ZenonT(40)
<1>5. Sound(Now, pc, current_, events, io, inbound, batch, hfds)
  BY <1>4 DEF Init
<1>6. DOMAIN NoHandles = {} /\ NoHandles = [h \in DOMAIN NoHandles |-> NoHandles[h]]
  BY DEF NoHandles
<1>7. ThreadShape
  <2>1. io \in [Fds -> [Dirs -> Nat]]
    BY DEF Init
  <2>2. spent \in [kernel : Nat, sheds : Nat, runs : Nat]
    BY DEF Init
  <2>3. DOMAIN events = {} /\ events = [h \in DOMAIN events |-> events[h]]
    BY <1>6 DEF Init
  <2>4. Len(hfds) <= 1 /\ hfds = <<>> /\ batch = <<>>
    BY DEF Init
  <2>5. pc \in Phases /\ pc = "wait" /\ current_ = 0 /\ shedLeft \in Nat /\ hup \subseteq Fds
    BY DEF Init, Phases
  <2> QED BY <2>1, <2>2, <2>3, <2>4, <2>5 DEF ThreadShape
<1> QED BY <1>5, <1>7 DEF SiloInv

(***************************************************************************)
(* The kernel and the other threads                                        *)
(***************************************************************************)
(* Replacing the set of edges.                                             *)
LEMMA EdgesSet ==
  ASSUME NEW s, Shape(s), NEW E \in SUBSET (DOMAIN s.perfd), NEW t,
         t = [perfd |-> s.perfd, next |-> s.next, lists |-> s.lists,
              handles_ |-> s.handles_, edge |-> E, fate |-> s.fate, fault |-> s.fault]
  PROVE  /\ Shape(t) /\ t.perfd = s.perfd /\ t.lists = s.lists /\ t.fate = s.fate
         /\ t.handles_ = s.handles_ /\ t.edge = E
<1>1. /\ IsBundle(t) /\ t.perfd = s.perfd /\ t.next = s.next /\ t.lists = s.lists
      /\ t.handles_ = s.handles_ /\ t.edge = E /\ t.fate = s.fate /\ t.fault = s.fault
  BY BundleOf
<1>2. TableShape(t)
  BY <1>1 DEF Shape, TableShape
<1>3. ListShape(t)
  BY <1>1 DEF Shape, ListShape, Mem
<1> QED BY <1>1, <1>2, <1>3 DEF Shape

(* A descriptor whose edges, events and readiness change, and whose lists  *)
(* and flags do not.                                                       *)
LEMMA EdgeLocal ==
  ASSUME NEW s, NEW t, NEW g, NEW p, NEW q, NEW c, NEW v, NEW w, NEW x, NEW y,
         Local(s, g, p, c, v, x), t.perfd = s.perfd, t.lists = s.lists,
         p = q \/ (g # c /\ ListPhases(s, g, q)), EdgeKept(t, g, w, y),
         g \in DOMAIN w => ~Doomed(s, g)
  PROVE  Local(t, g, q, c, w, y)
<1>1. /\ \A l : Mem(t, l) = Mem(s, l)
      /\ Owner(t, g) = Owner(s, g) /\ (Doomed(t, g) <=> Doomed(s, g))
  BY DEF Mem, Owner, Doomed
<1>2. ListPhases(t, g, q)
  BY <1>1 DEF Local, ListPhases
<1>3. WantsAreKept(t, g, q, c)
  BY <1>1 DEF Local, WantsAreKept
<1>4. Placed(t, g, q, c)
  BY <1>1 DEF Local, Placed
<1>5. Running(t, g, q, c)
  BY <1>1 DEF Local, Running
<1> QED BY <1>1, <1>2, <1>3, <1>4, <1>5 DEF Local

LEMMA EpollWaitInv ==
  ASSUME SiloInv, EpollWait
  PROVE  SiloInv'
<1>00. PICK hs \in SUBSET edge, poke \in BOOLEAN : Report(hs, poke)
  BY DEF EpollWait
<1> DEFINE count == Cardinality(hs) + (IF poke THEN 1 ELSE 0)
           E == Reportable \ hs
           t == [perfd |-> Now.perfd, next |-> Now.next, lists |-> Now.lists,
                 handles_ |-> Now.handles_, edge |-> E, fate |-> Now.fate,
                 fault |-> Now.fault]
<1>0. /\ pc = "wait" /\ pc' = "events" /\ current_' = current_
      /\ events' = [h \in hs |-> Ready(perfd[h].fd)]
      /\ shedLeft' = IF impending_shed_ THEN (count + 1) \div 2 ELSE 0
      /\ edge' = E /\ impending_shed_' = FALSE
      /\ UNCHANGED <<perfd, next, lists, handles_, fate, fault, batch, hfds, io, hup,
                     inbound, spent>>
  BY <1>00 DEF EpollWait, At, Report
<1>1. /\ current_ = 0 /\ hfds = <<>> /\ batch = <<>> /\ DOMAIN events = {}
      /\ Sound(Now, "wait", 0, events, io, inbound, batch, hfds)
      /\ Shape(Now) /\ DOMAIN Now.perfd = Live
      /\ \A g \in Live : Local(Now, g, "wait", 0, events, io) /\ g # 0
      /\ \A g \in Live : ListPhases(Now, g, "wait")
  BY <1>0, AtPhase DEF Phases
<1>2. /\ Now.perfd = perfd /\ Now.edge = edge /\ Now.lists = lists /\ edge \subseteq Live
  BY <1>1, NowIs DEF Shape, TableShape
<1>3. Become(t)
  <2>1. Now.fault = "none"
    BY <1>1 DEF Shape, TableShape
  <2> QED BY <1>0, <2>1, NowIs DEF Become
<1>4. /\ Shape(t) /\ t.perfd = Now.perfd /\ t.lists = Now.lists /\ t.fate = Now.fate
      /\ t.handles_ = Now.handles_ /\ t.edge = E
  <2>1. E \in SUBSET (DOMAIN Now.perfd)
    BY <1>1, <1>2 DEF Reportable
  <2> HIDE DEF E
  <2> QED BY <1>1, <2>1, EdgesSet
<1> HIDE DEF t
<1>5. /\ DOMAIN events' = hs /\ hs \subseteq edge
      /\ \A h \in hs : events'[h] = Ready(perfd[h].fd)
      /\ events' = [h \in DOMAIN events' |-> events'[h]]
  BY <1>0
<1>6. \A f : Ready(f) \subseteq Readiness /\ \A d \in Dirs : io[f][d] > 0 => d \in Ready(f)
  BY DEF Ready, Readiness
<1>7. ASSUME NEW g \in Live PROVE Local(t, g, "events", 0, events', io)
  <2>1. ListPhases(Now, g, "events") /\ ~Doomed(Now, g)
    BY <1>1 DEF ListPhases, Doomed
  <2>2. EdgeKept(t, g, events', io)
    <3>1. ASSUME NEW d \in Dirs, io[t.perfd[g].fd][d] > 0, d \notin t.perfd[g].muted
          PROVE  \/ (g \in DOMAIN events' /\ d \in events'[g]) \/ d \in t.perfd[g].wants
                 \/ g \in t.edge
      <4>1. EdgeKept(Now, g, events, io) /\ g \notin Mem(Now, "ejects_")
        BY <1>1 DEF Local, ListPhases
      <4>2. g \in edge \/ d \in perfd[g].wants
        BY <1>1, <1>2, <1>4, <2>1, <3>1, <4>1 DEF EdgeKept
      <4>3. d \in Ready(perfd[g].fd)
        BY <1>2, <1>4, <1>6, <3>1
      <4>4. g \in edge => g \in hs \/ g \in E
        BY <4>3 DEF Reportable
      <4> QED BY <1>2, <1>4, <1>5, <4>2, <4>3, <4>4
    <3> QED BY <3>1 DEF EdgeKept
  <2>3. Local(Now, g, "wait", 0, events, io) /\ g # 0
    BY <1>1
  <2> QED BY <1>4, <2>1, <2>2, <2>3, EdgeLocal
<1>8. Sound(t, "events", 0, events', io, inbound, batch, hfds)
  <2>1. Ownership(Now, inbound, batch, hfds) /\ HandlesNamed(Now, hfds)
    BY <1>1 DEF Sound
  <2>2. Ownership(t, inbound, batch, hfds) /\ HandlesNamed(t, hfds)
    BY <1>4, <2>1, SameOwnership
  <2> QED BY <1>1, <1>4, <1>7, <2>2 DEF Sound
<1>9. Sound(t, pc', current_', events', io', inbound', batch', hfds')
  BY <1>0, <1>1, <1>8
<1>10. Live' = Live
  BY <1>0 DEF Live
<1>11. shedLeft' \in Nat
  <2>1. Cardinality(hs) \in Nat
    <3>1. next \in Nat /\ \A h \in Live : h \in Nat /\ 0 < h /\ h < next
      BY <1>1, <1>2, NowIs DEF Shape, TableShape
    <3>2. hs \subseteq 0..next
      BY <1>2, <1>5, <3>1
    <3>3. IsFiniteSet(0..next)
      BY <3>1, FS_Interval
    <3> QED BY <3>2, <3>3, FS_Subset, FS_CardinalityType
  <2>2. count \in Nat
    <3> QED BY <2>1
  <2> HIDE DEF count
  <2>3. (count + 1) \div 2 \in Nat
    BY <2>2
  <2> QED BY <1>0, <2>3 DEF count
<1>12. ThreadShape'
  <2>1. /\ DOMAIN events' \subseteq Live'
        /\ \A h \in DOMAIN events' : events'[h] \subseteq Readiness
    BY <1>2, <1>5, <1>6, <1>10
  <2>2. pc' \in Phases /\ pc' = "events"
    BY <1>0 DEF Phases
  <2>3. Len(hfds') <= 1 /\ hfds' = <<>> /\ batch' = <<>> /\ current_' = 0
    BY <1>0, <1>1
  <2>4. /\ io' \in [Fds -> [Dirs -> Nat]] /\ hup' \subseteq Fds
        /\ spent' \in [kernel : Nat, sheds : Nat, runs : Nat]
    BY <1>0 DEF SiloInv, ThreadShape
  <2> QED BY <1>5, <1>11, <2>1, <2>2, <2>3, <2>4 DEF ThreadShape
<1> QED BY <1>3, <1>9, <1>12, Stepped

LEMMA KernelEventInv ==
  ASSUME SiloInv, NEW f \in Fds, KernelEvent(f)
  PROVE  SiloInv'
<1> DEFINE E == edge \cup {h \in Live : perfd[h].fd = f}
           t == [perfd |-> Now.perfd, next |-> Now.next, lists |-> Now.lists,
                 handles_ |-> Now.handles_, edge |-> E, fate |-> Now.fate,
                 fault |-> Now.fault]
<1>0. /\ spent' = [spent EXCEPT !.kernel = @ + 1] /\ edge' = E
      /\ UNCHANGED <<perfd, next, lists, handles_, fate, fault, current_, pc, events,
                     shedLeft, impending_shed_, batch, hfds, inbound>>
  BY DEF KernelEvent, RaiseEdge, thread
<1>1. /\ Sound(Now, pc, current_, events, io, inbound, batch, hfds) /\ Shape(Now)
      /\ DOMAIN Now.perfd = Live
      /\ \A g \in Live : Local(Now, g, pc, current_, events, io)
      /\ io \in [Fds -> [Dirs -> Nat]] /\ hup \subseteq Fds
      /\ spent \in [kernel : Nat, sheds : Nat, runs : Nat]
  BY NowIs DEF SiloInv, ThreadShape, Sound
<1>2. /\ Now.perfd = perfd /\ Now.edge = edge /\ Now.lists = lists /\ edge \subseteq Live
  BY <1>1, NowIs DEF Shape, TableShape
<1>3. /\ io' \in [Fds -> [Dirs -> Nat]] /\ hup' \subseteq Fds
      /\ \A g \in Fds : g # f => io'[g] = io[g]
  <2>1. CASE UNCHANGED io /\ hup' = hup \cup {f}
    BY <1>1, <2>1
  <2>2. ASSUME NEW d \in Dirs, io' = [io EXCEPT ![f][d] = @ + 1], UNCHANGED hup
        PROVE  /\ io' \in [Fds -> [Dirs -> Nat]] /\ hup' \subseteq Fds
               /\ \A g \in Fds : g # f => io'[g] = io[g]
    <3>1. io[f][d] + 1 \in Nat
      BY <1>1
    <3> QED BY <1>1, <2>2, <3>1
  <2> QED BY <2>1, <2>2 DEF KernelEvent
<1>4. E \in SUBSET (DOMAIN Now.perfd)
  BY <1>1, <1>2
<1>5. Become(t)
  <2>1. Now.fault = "none"
    BY <1>1 DEF Shape, TableShape
  <2> QED BY <1>0, <2>1, NowIs DEF Become
<1>6. \A g \in Live : /\ g \in edge => g \in E
                      /\ perfd[g].fd = f => g \in E
  OBVIOUS
<1> HIDE DEF E
<1>7. /\ Shape(t) /\ t.perfd = Now.perfd /\ t.lists = Now.lists /\ t.fate = Now.fate
      /\ t.handles_ = Now.handles_ /\ t.edge = E
  BY <1>1, <1>4, EdgesSet
<1> HIDE DEF t
<1>8. ASSUME NEW g \in Live PROVE Local(t, g, pc, current_, events, io')
  <2>1. Local(Now, g, pc, current_, events, io) /\ perfd[g].fd \in Fds
    BY <1>1, <1>2, PerFdFacts
  <2>2. EdgeKept(t, g, events, io')
    <3>1. CASE perfd[g].fd = f
      BY <1>6, <1>7, <3>1 DEF EdgeKept
    <3>2. CASE perfd[g].fd # f
      <4>1. io'[perfd[g].fd] = io[perfd[g].fd]
        BY <1>3, <2>1, <3>2
      <4>2. EdgeKept(Now, g, events, io)
        BY <2>1 DEF Local
      <4>3. Mem(t, "ejects_") = Mem(Now, "ejects_") /\ (Doomed(t, g) <=> Doomed(Now, g))
        BY <1>7 DEF Mem, Doomed
      <4> QED BY <1>2, <1>6, <1>7, <4>1, <4>2, <4>3 DEF EdgeKept
    <3> QED BY <3>1, <3>2
  <2>3. g \in DOMAIN events => ~Doomed(Now, g)
    BY <2>1 DEF Local
  <2> QED BY <1>7, <2>1, <2>2, <2>3, EdgeLocal
<1>9. Sound(t, pc, current_, events, io', inbound, batch, hfds)
  <2>1. Ownership(Now, inbound, batch, hfds) /\ HandlesNamed(Now, hfds)
    BY <1>1 DEF Sound
  <2>2. Ownership(t, inbound, batch, hfds) /\ HandlesNamed(t, hfds)
    BY <1>7, <2>1, SameOwnership
  <2> QED BY <1>1, <1>7, <1>8, <2>2 DEF Sound
<1>10. Sound(t, pc', current_', events', io', inbound', batch', hfds')
  BY <1>0, <1>9
<1>11. Live' = Live /\ spent' \in [kernel : Nat, sheds : Nat, runs : Nat]
  BY <1>0, <1>1 DEF Live
<1>12. ThreadShape'
  BY <1>0, <1>3, <1>11 DEF SiloInv, ThreadShape
<1> QED BY <1>5, <1>10, <1>12, Stepped

LEMMA RegisterInv ==
  ASSUME SiloInv, NEW f \in Fds, Register(f)
  PROVE  SiloInv'
<1> DEFINE item == [h |-> OwnerOf[f], fds |-> <<f>>]
           F == [fate EXCEPT ![f] = "inbound"]
           t == [perfd |-> Now.perfd, next |-> Now.next, lists |-> Now.lists,
                 handles_ |-> Now.handles_, edge |-> Now.edge, fate |-> F,
                 fault |-> Now.fault]
<1>0. /\ fate[f] = "client" /\ inbound' = Append(inbound, item) /\ fate' = F
      /\ UNCHANGED <<perfd, next, lists, handles_, edge, fault, current_, pc, events,
                     shedLeft, impending_shed_, batch, hfds, io, hup, spent>>
  BY DEF Register, Route, thread
<1>1. /\ Sound(Now, pc, current_, events, io, inbound, batch, hfds) /\ Shape(Now)
      /\ DOMAIN Now.perfd = Live
      /\ \A g \in Live : Local(Now, g, pc, current_, events, io)
      /\ Ownership(Now, inbound, batch, hfds) /\ HandlesNamed(Now, hfds)
  BY NowIs DEF SiloInv, Sound
<1>2. /\ Now.next \in Nat /\ Now.handles_ \in [Handlers -> Seq(Nat)]
      /\ fate \in [Fds -> Fates] /\ Now.fate = fate /\ Now.next >= Now.next
  BY <1>1, NowIs DEF Shape, TableShape
<1>3. /\ F \in [Fds -> Fates]
      /\ \A g \in Fds : F[g] = IF g = f THEN "inbound" ELSE fate[g]
  BY <1>2 DEF Fates
<1>4. Become(t)
  <2>1. Now.fault = "none"
    BY <1>1 DEF Shape, TableShape
  <2> QED BY <1>0, <2>1, NowIs DEF Become
<1>5. item \in ItemSet /\ item.fds = <<f>> /\ Once(<<f>>)
      /\ \A g : g \in ToSet(<<f>>) <=> g = f
  <2>1. OwnerOf[f] \in Handlers /\ <<f>> \in Seq(Fds)
    BY SiloAssumption
  <2>2. item \in ItemSet /\ item.fds = <<f>>
    BY <2>1 DEF ItemSet
  <2>3. Once(<<f>>)
    BY DEF Once
  <2>4. \A g : g \in ToSet(<<f>>) <=> g = f
    BY DEF ToSet
  <2> QED BY <2>2, <2>3, <2>4
<1> HIDE DEF F, item
<1>6. /\ Shape(t) /\ t.perfd = Now.perfd /\ t.handles_ = Now.handles_ /\ t.fate = F
      /\ \A g : Same(Now, t, g)
  BY <1>1, <1>2, <1>3, Renamed
<1>7. t.lists = Now.lists /\ t.edge = Now.edge
  OBVIOUS
<1> HIDE DEF t
<1>8. /\ QueueSound(inbound')
      /\ \A g : Queued(inbound', g) <=> Queued(inbound, g) \/ g = f
  <2>1. ~Queued(inbound, f) /\ QueueSound(inbound)
    BY <1>0, <1>1, <1>2 DEF Ownership
  <2> QED BY <1>0, <1>5, <2>1, QueueAppend
<1>9. Ownership(t, inbound', batch, hfds)
  <2>1. ~Queued(batch, f) /\ ~Queued(hfds, f) /\ ~Queued(inbound, f)
    BY <1>0, <1>1, <1>2 DEF Ownership
  <2>2. \A g \in DOMAIN Now.perfd : Now.perfd[g].fd # f
    BY <1>0, <1>1, <1>2 DEF Ownership
  <2>3. ASSUME NEW g \in Fds
        PROVE  /\ t.fate[g] = "inbound"
                    <=> Queued(inbound', g) \/ Queued(batch, g) \/ Queued(hfds, g)
               /\ ~(Queued(inbound', g) /\ Queued(batch, g))
               /\ ~(Queued(inbound', g) /\ Queued(hfds, g))
               /\ t.fate[g] = "silo" <=> \E h \in DOMAIN t.perfd : t.perfd[h].fd = g
    <3>1. CASE g = f
      BY <1>3, <1>6, <1>8, <2>1, <2>2, <3>1
    <3>2. CASE g # f
      BY <1>1, <1>2, <1>3, <1>6, <1>8, <3>2 DEF Ownership
    <3> QED BY <3>1, <3>2
  <2> QED BY <1>1, <1>6, <1>8, <2>3 DEF Ownership
<1>10. HandlesNamed(t, hfds)
  <2>1. \A g : Owner(t, g) = Owner(Now, g)
    BY <1>6 DEF Owner
  <2>2. \A g \in Fds : t.fate[g] \in {"client", "inbound"}
                         => Now.fate[g] \in {"client", "inbound"}
    BY <1>0, <1>2, <1>3, <1>6
  <2> QED BY <1>1, <1>6, <2>1, <2>2 DEF HandlesNamed
<1>11. ASSUME NEW g \in Live PROVE Local(t, g, pc, current_, events, io)
  <2>1. Local(Now, g, pc, current_, events, io)
    BY <1>1
  <2>2. EdgeKept(t, g, events, io)
    BY <1>6, <1>7, <2>1 DEF Local, EdgeKept, Mem, Doomed
  <2>3. g \in DOMAIN events => ~Doomed(Now, g)
    BY <2>1 DEF Local
  <2> QED BY <1>6, <1>7, <2>1, <2>2, <2>3, EdgeLocal
<1>12. Sound(t, pc, current_, events, io, inbound', batch, hfds)
  BY <1>1, <1>6, <1>9, <1>10, <1>11 DEF Sound
<1>13. Sound(t, pc', current_', events', io', inbound', batch', hfds')
  BY <1>0, <1>12
<1>14. Live' = Live
  BY <1>0 DEF Live
<1>15. ThreadShape'
  BY <1>0, <1>14 DEF SiloInv, ThreadShape
<1> QED BY <1>4, <1>13, <1>15, Stepped

LEMMA RunWithAffinityInv ==
  ASSUME SiloInv, NEW k \in Handlers, RunWithAffinity(k)
  PROVE  SiloInv'
<1> DEFINE item == [h |-> k, fds |-> <<>>]
<1>0. /\ inbound' = Append(inbound, item) /\ spent' = [spent EXCEPT !.runs = @ + 1]
      /\ UNCHANGED <<table, current_, pc, events, shedLeft, impending_shed_, batch,
                     hfds, io, hup>>
  BY DEF RunWithAffinity, Route, thread
<1>1. item \in ItemSet /\ item.fds = <<>>
  BY DEF ItemSet
<1> HIDE DEF item
<1>2. /\ Sound(Now, pc, current_, events, io, inbound, batch, hfds)
      /\ Ownership(Now, inbound, batch, hfds)
  BY DEF SiloInv, Sound
<1>3. /\ QueueSound(inbound')
      /\ \A g : Queued(inbound', g) <=> Queued(inbound, g)
  <2>1. QueueSound(inbound)
    BY <1>2 DEF Ownership
  <2> QED BY <1>0, <1>1, <2>1, EmptyOnce, QueueAppend
<1>4. Ownership(Now, inbound', batch, hfds)
  BY <1>2, <1>3 DEF Ownership
<1>5. Sound(Now, pc, current_, events, io, inbound', batch, hfds)
  BY <1>2, <1>4 DEF Sound
<1>6. Now' = Now /\ Live' = Live /\ lists' = lists
  BY <1>0, TableStays DEF table
<1>7. Sound(Now, pc, current_, events, io, inbound, batch, hfds)'
  BY <1>0, <1>5, <1>6
<1>8. spent' \in [kernel : Nat, sheds : Nat, runs : Nat]
  <2>1. spent \in [kernel : Nat, sheds : Nat, runs : Nat]
    BY DEF SiloInv, ThreadShape
  <2> QED BY <1>0, <2>1
<1>9. ThreadShape'
  BY <1>0, <1>6, <1>8 DEF SiloInv, ThreadShape
<1> QED BY <1>7, <1>9 DEF SiloInv

(* Steps that change nothing the invariant looks at.                       *)
LEMMA StutterInv ==
  ASSUME SiloInv,
         UNCHANGED <<table, current_, pc, events, shedLeft, impending_shed_, batch,
                     hfds, io, hup, inbound, spent>>
  PROVE  SiloInv'
<1>1. Now' = Now /\ Live' = Live /\ lists' = lists
  BY TableStays DEF table
<1>2. Sound(Now, pc, current_, events, io, inbound, batch, hfds)'
  BY <1>1 DEF SiloInv
<1>3. ThreadShape'
  BY <1>1 DEF SiloInv, ThreadShape
<1> QED BY <1>2, <1>3 DEF SiloInv

(* A step in which a check ends the process: only the three of Misused,    *)
(* and nothing but the phase and the batch moves.                          *)
Unmoved == UNCHANGED <<perfd, next, lists, handles_, edge, fate, io, events, current_,
                       inbound, hfds>>

Kill == /\ fault' # "none" /\ Misused' /\ Unmoved
        /\ pc' \in {"shed", "close", "admit"}
        /\ \/ batch' = batch
           \/ batch # <<>> /\ Head(batch).fds = <<>> /\ batch' = Tail(batch)

LEMMA Dies ==
  ASSUME NEW t, Become(t), fault' # "none"
  PROVE  UNCHANGED <<perfd, next, lists, handles_, edge, fate>>
BY DEF Become

LEMMA HandlesFault ==
  ASSUME NEW s, IsBundle(s), NEW k
  PROVE  [s EXCEPT !.handles_[k] = Tail(@)].fault = s.fault
BY DEF IsBundle

LEMMA ShedHandleStep ==
  ASSUME SiloInv, ShedHandle
  PROVE  SiloInv' \/ Kill
<1>1. CASE fault' = "none"
  BY <1>1, ShedHandleInv
<1>2. CASE fault' # "none"
  <2> DEFINE k == hfds[1].h
             h == Head(handles_[k])
             u == Free(Now, h, "inbound")
  <2>0. /\ pc = "shed" /\ hfds # <<>>
        /\ UNCHANGED <<pc, current_, events, batch, io, inbound>>
    BY DEF ShedHandle, At, kernel
  <2>1. \/ ~(h \in Live /\ OwnerOf[perfd[h].fd] = k) /\ UNCHANGED hfds
        \/ /\ h \in Live /\ OwnerOf[perfd[h].fd] = k
           /\ Become([u EXCEPT !.handles_[k] = Tail(@)])
    BY DEF ShedHandle
  <2>2. CASE h \in Live /\ Become([u EXCEPT !.handles_[k] = Tail(@)])
    <3>1. Shape(Now) /\ h \in DOMAIN Now.perfd /\ "inbound" \in Fates
      BY <2>2, NowIs DEF SiloInv, Sound, Fates
    <3>2. Shape(u)
      <4> HIDE DEF h
      <4> QED BY <3>1, FreeIs
    <3>3. u.fault = "none" /\ IsBundle(u)
      BY <3>2 DEF Shape, TableShape
    <3> HIDE DEF u, k
    <3>4. [u EXCEPT !.handles_[k] = Tail(@)].fault = "none"
      BY <3>3, HandlesFault
    <3> QED BY <1>2, <2>2, <3>4 DEF Become
  <2>3. CASE ~(h \in Live /\ OwnerOf[perfd[h].fd] = k) /\ UNCHANGED hfds
    <3>1. ~Solo(k)
      BY <2>3, SoloShed
    <3>2. \E w : Become(Fault(Now, w))
      BY <2>3 DEF ShedHandle
    <3>3. UNCHANGED <<perfd, next, lists, handles_, edge, fate>>
      BY <1>2, <3>2, Dies
    <3>4. Misused'
      BY <2>0, <2>3, <3>1 DEF Misused
    <3> QED BY <1>2, <2>0, <2>3, <3>3, <3>4 DEF Kill, Unmoved
  <2> QED BY <2>1, <2>2, <2>3
<1> QED BY <1>1, <1>2

LEMMA RunIdlersStep ==
  ASSUME SiloInv, WellBehaved, RunIdlers
  PROVE  SiloInv' \/ Kill
<1>1. CASE SiloInv'
  BY <1>1
<1>2. CASE fault' = "PushBack of a linked hook" /\ IdleCalls \cap Requests # {}
  <2>1. \E t : Become(t)
    BY DEF RunIdlers
  <2>2. UNCHANGED <<perfd, next, lists, handles_, edge, fate>>
    BY <1>2, <2>1, Dies
  <2>3. pc' = "close" /\ UNCHANGED <<current_, events, batch, hfds, io, inbound>>
    BY DEF RunIdlers, kernel
  <2>4. Misused'
    BY <1>2, <2>3 DEF Misused
  <2> QED BY <1>2, <2>2, <2>3, <2>4 DEF Kill, Unmoved
<1> QED BY <1>1, <1>2, RunIdlersInv

LEMMA AdmitFnStep ==
  ASSUME SiloInv, WellBehaved, AdmitFn
  PROVE  SiloInv' \/ Kill
<1>1. CASE SiloInv'
  BY <1>1
<1>2. CASE fault' = "ValueOrDie" /\ AffinityCalls \cap Requests # {}
  <2>1. UNCHANGED table \/ \E t : Become(t)
    BY DEF AdmitFn
  <2>2. UNCHANGED <<perfd, next, lists, handles_, edge, fate>>
    BY <1>2, <2>1, Dies DEF table
  <2>3. /\ pc' = "admit" /\ UNCHANGED <<current_, events, hfds, io, inbound>>
        /\ batch # <<>> /\ Head(batch).fds = <<>> /\ batch' = Tail(batch)
    BY DEF AdmitFn, At, kernel
  <2>4. Misused'
    BY <1>2, <2>3 DEF Misused
  <2> QED BY <1>2, <2>2, <2>3, <2>4 DEF Kill, Unmoved
<1> QED BY <1>1, <1>2, AdmitFnInv

LEMMA SiloInvStep ==
  ASSUME SiloInv, WellBehaved, [Next]_vars
  PROVE  SiloInv' \/ Kill
<1>1. CASE Loop
  BY <1>1, EpollWaitInv, TakeEventInv, EventsDoneInv, ShedBeginInv, ShedHandleStep,
     ShedEndInv, SheddersDoneInv, ActiveBeginInv, HandleReadInv, HandleWriteInv,
     ActivesDoneInv, RunnerBeginInv, RunFnInv, RunnersDoneInv, RunEjectersInv,
     EjectersDoneInv, RunIdlersStep, NoIdlersInv, RunClosersInv, ClosersDoneInv,
     AdmitFdInv, AdmitFailsInv, AdmitFnStep, ConsiderLoadSheddingInv, ExitInv DEF Loop
<1>2. CASE NotifyExiting
  BY <1>2, StutterInv DEF NotifyExiting, thread, kernel
<1>3. CASE Environment
  BY <1>2, <1>3, RegisterInv, KernelEventInv, RunWithAffinityInv DEF Environment
<1>4. CASE UNCHANGED vars
  BY <1>4, StutterInv DEF vars, thread, kernel
<1> QED BY <1>1, <1>3, <1>4 DEF Next
-----------------------------------------------------------------------------
(***************************************************************************)
(* What the invariant says                                                 *)
(***************************************************************************)
LEMMA InvFacts ==
  ASSUME SiloInv
  PROVE  /\ Shape(Now) /\ DOMAIN Now.perfd = Live /\ Now.perfd = perfd
         /\ Ownership(Now, inbound, batch, hfds)
         /\ \A h \in Live : /\ h # 0 /\ ListPhases(Now, h, pc)
                            /\ WantsAreKept(Now, h, pc, current_)
                            /\ Placed(Now, h, pc, current_)
                            /\ Running(Now, h, pc, current_)
                            /\ EdgeKept(Now, h, events, io)
         /\ \A h, l : In(h, l) <=> h \in Mem(Now, l)
         /\ \A h : Leaving(h) <=> Doomed(Now, h) \/ h \in Mem(Now, "ejects_")
<1>1. /\ Shape(Now) /\ DOMAIN Now.perfd = Live /\ Now.perfd = perfd
      /\ Ownership(Now, inbound, batch, hfds)
      /\ \A h \in Live : Local(Now, h, pc, current_, events, io)
  BY NowIs DEF SiloInv, Sound
<1>2. \A h \in Live : h # 0
  BY <1>1, ListFacts
<1>3. \A h, l : In(h, l) <=> h \in Mem(Now, l)
  BY NowIs DEF In, Mem
<1>4. \A h : Leaving(h) <=> Doomed(Now, h) \/ h \in Mem(Now, "ejects_")
  BY <1>3 DEF Leaving, Doomed
<1> QED BY <1>1, <1>2, <1>3, <1>4 DEF Local

LEMMA FaultFree ==
  ASSUME SiloInv PROVE NoFault
BY InvFacts, NowIs DEF NoFault, Shape, TableShape

LEMMA EdgesAreKept ==
  ASSUME SiloInv PROVE NoLostEdge
<1>1. ASSUME NEW h \in Live, NEW d \in Dirs, io[perfd[h].fd][d] > 0,
             d \notin perfd[h].muted
      PROVE  \/ h \in edge \/ (h \in DOMAIN events /\ d \in events[h])
             \/ (d \in perfd[h].wants /\ In(h, "active_"))
             \/ h = current_ \/ Leaving(h)
  <2>1. EdgeKept(Now, h, events, io) /\ WantsAreKept(Now, h, pc, current_)
    BY InvFacts
  <2>2. \/ h \in edge \/ (h \in DOMAIN events /\ d \in events[h])
        \/ d \in perfd[h].wants
        \/ h \in Mem(Now, "ejects_") \/ Doomed(Now, h)
    BY <1>1, <2>1, NowIs DEF EdgeKept
  <2>3. d \in perfd[h].wants =>
           h \in Mem(Now, "active_") \/ h \in Mem(Now, "ejects_") \/ h = current_
    BY <2>1, NowIs DEF WantsAreKept
  <2> QED BY <2>2, <2>3, InvFacts
<1> QED BY <1>1 DEF NoLostEdge

LEMMA Typed ==
  ASSUME SiloInv PROVE TypeOK
<1>1. Shape(Now) /\ DOMAIN Now.perfd = Live /\ Now.perfd = perfd
  BY InvFacts
<1>2. Live \subseteq 1..(next - 1) /\ next \in Nat
  <2>1. next \in Nat /\ \A h \in Live : h \in Nat /\ 0 < h /\ h < next
    BY <1>1, NowIs DEF Shape, TableShape
  <2> QED BY <2>1
<1>3. \A h \in Live : perfd[h] \in PerFds
  BY <1>1, PerFdFacts
<1>4. DOMAIN lists = ListNames /\ \A l \in ListNames : ToSet(lists[l]) \subseteq Live
  <2>1. lists \in [ListNames -> Seq(Nat)]
    BY <1>1, NowIs DEF Shape, ListShape
  <2> QED BY <1>1, <2>1, NowIs, ListFacts DEF Mem
<1>5. edge \subseteq Live /\ fate \in [Fds -> Fates]
  BY <1>1, NowIs DEF Shape, TableShape
<1>6. current_ \in Live \cup {0} /\ pc \in Phases /\ DOMAIN events \subseteq Live
  BY DEF SiloInv, ThreadShape
<1> QED BY <1>2, <1>3, <1>4, <1>5, <1>6 DEF TypeOK, PerFds, Fates

(* How many items of a queue hold f.                                       *)
LEMMA HoldCount ==
  ASSUME NEW q, QueueSound(q), NEW f \in Fds
  PROVE  Cardinality({i \in DOMAIN q : f \in ToSet(q[i].fds)})
           = IF Queued(q, f) THEN 1 ELSE 0
<1> DEFINE I == {i \in DOMAIN q : f \in ToSet(q[i].fds)}
<1>1. DOMAIN q = 1..Len(q)
  <2>1. q \in Seq(ItemSet)
    BY DEF QueueSound
  <2> QED BY <2>1
<1>2. \A i : i \in I <=> i \in 1..Len(q) /\ Holds(q, i, f)
  BY <1>1 DEF Holds
<1> HIDE DEF I
<1>3. CASE Queued(q, f)
  <2>1. PICK i \in 1..Len(q) : Holds(q, i, f)
    BY <1>3 DEF Queued
  <2>2. I = {i}
    BY <1>2, <2>1 DEF QueueSound
  <2> QED BY <1>3, <2>2, FS_Singleton DEF I
<1>4. CASE ~Queued(q, f)
  <2>1. I = {}
    BY <1>2, <1>4 DEF Queued
  <2> QED BY <1>4, <2>1, FS_EmptySet DEF I
<1> QED BY <1>3, <1>4

LEMMA HeldOnce ==
  ASSUME Ownership(Now, inbound, batch, hfds) PROVE FdHeldOnce
<1>1. ASSUME NEW f \in Fds
      PROVE  Holders(f) = IF fate[f] \in {"inbound", "silo"} THEN 1 ELSE 0
  <2> DEFINE H == {h \in Live : perfd[h].fd = f}
             n == Cardinality(H)
             n1 == Cardinality({i \in DOMAIN inbound : f \in ToSet(inbound[i].fds)})
             n2 == Cardinality({i \in DOMAIN batch : f \in ToSet(batch[i].fds)})
             n3 == Cardinality({i \in DOMAIN hfds : f \in ToSet(hfds[i].fds)})
  <2>1. /\ QueueSound(inbound) /\ QueueSound(batch) /\ QueueSound(hfds)
        /\ fate[f] = "inbound" <=> Queued(inbound, f) \/ Queued(batch, f) \/ Queued(hfds, f)
        /\ ~(Queued(inbound, f) /\ Queued(batch, f))
        /\ ~(Queued(inbound, f) /\ Queued(hfds, f))
        /\ ~(Queued(batch, f) /\ Queued(hfds, f))
        /\ fate[f] = "silo" <=> \E h \in Live : perfd[h].fd = f
        /\ \A g, h \in Live : perfd[g].fd = perfd[h].fd => g = h
    BY NowIs DEF Ownership
  <2>2. /\ n1 = IF Queued(inbound, f) THEN 1 ELSE 0
        /\ n2 = IF Queued(batch, f) THEN 1 ELSE 0
        /\ n3 = IF Queued(hfds, f) THEN 1 ELSE 0
    BY <2>1, HoldCount
  <2>3. n = IF fate[f] = "silo" THEN 1 ELSE 0
    <3>1. CASE fate[f] = "silo"
      <4>1. PICK h \in Live : perfd[h].fd = f
        BY <2>1, <3>1
      <4>2. H = {h}
        BY <2>1, <4>1
      <4> QED BY <3>1, <4>2, FS_Singleton
    <3>2. CASE fate[f] # "silo"
      <4>1. H = {}
        BY <2>1, <3>2
      <4> QED BY <3>2, <4>1, FS_EmptySet
    <3> QED BY <3>1, <3>2
  <2>4. Holders(f) = n + n1 + n2 + n3
    BY DEF Holders
  <2> HIDE DEF n, n1, n2, n3
  <2> QED BY <2>1, <2>2, <2>3, <2>4
<1> QED BY <1>1 DEF FdHeldOnce

LEMMA Rescheduled ==
  ASSUME SiloInv PROVE YieldIsRescheduled
<1>1. ASSUME pc = "eject", NEW h \in Live, perfd[h].wants # {} PROVE Leaving(h)
  <2>1. ListPhases(Now, h, pc) /\ WantsAreKept(Now, h, pc, current_) /\ Now.perfd = perfd
    BY InvFacts
  <2>2. h \in Mem(Now, "ejects_")
    BY <1>1, <2>1 DEF ListPhases, WantsAreKept
  <2> QED BY <2>2, InvFacts
<1> QED BY <1>1 DEF YieldIsRescheduled

LEMMA CanIdle ==
  ASSUME SiloInv PROVE EveryFdCanIdle
<1>1. ASSUME pc = "wait", NEW h \in Live PROVE In(h, "idlers_") \/ In(h, "active_")
  <2>1. /\ ListPhases(Now, h, pc) /\ Placed(Now, h, pc, current_) /\ h # 0
    BY InvFacts
  <2>2. h \in Mem(Now, "idlers_") \/ h \in Mem(Now, "active_")
    BY <1>1, <2>1, Names DEF ListPhases, Placed, Doomed
  <2> QED BY <2>2, InvFacts
<1>2. ASSUME pc = "wait", NEW l \in {"ejects_", "closers_", "shedders_"}
      PROVE  lists[l] = <<>>
  <2>1. /\ Shape(Now) /\ DOMAIN Now.perfd = Live /\ l \in ListNames
        /\ \A h \in Live : ListPhases(Now, h, pc)
    BY InvFacts, Names
  <2>2. lists[l] \in Seq(Nat) /\ Mem(Now, l) \subseteq Live
    BY <2>1, NowIs, ListFacts
  <2>3. \A h \in Live : h \notin Mem(Now, l)
    BY <1>2, <2>1 DEF ListPhases
  <2>4. ToSet(lists[l]) = {}
    BY <2>2, <2>3, NowIs DEF Mem
  <2> QED BY <2>2, <2>4, Members
<1> QED BY <1>1, <1>2 DEF EveryFdCanIdle

LEMMA UpcallsAllowed ==
  ASSUME SiloInv PROVE SuspendRespected /\ DoomedIsQuiet
<1>1. ASSUME NEW d \in Dirs, Upcalling(d)
      PROVE  d \notin perfd[current_].muted /\ ~Leaving(current_)
  <2>1. pc = d /\ d \in perfd[current_].wants /\ pc \in {"read", "write"}
    BY <1>1 DEF Upcalling, Dirs
  <2>2. current_ \in Live /\ Now.perfd = perfd
    BY <2>1, AtUpcall
  <2>3. WantsAreKept(Now, current_, pc, current_) /\ Running(Now, current_, pc, current_)
    BY <2>2, InvFacts
  <2>4. d \notin perfd[current_].muted
    BY <2>1, <2>2, <2>3 DEF WantsAreKept
  <2>5. ~Doomed(Now, current_) /\ current_ \notin Mem(Now, "ejects_")
    <3>1. ~Doomed(Now, current_)
      BY <2>1, <2>2, <2>3 DEF WantsAreKept
    <3>2. CASE d = "read"
      BY <2>1, <2>3, <3>1, <3>2, Names DEF Running
    <3>3. CASE d = "write"
      BY <2>1, <2>2, <2>3, <3>1, <3>3 DEF Running
    <3> QED BY <3>1, <3>2, <3>3 DEF Dirs
  <2> QED BY <2>4, <2>5, InvFacts
<1> QED BY <1>1 DEF SuspendRespected, DoomedIsQuiet
-----------------------------------------------------------------------------
(***************************************************************************)
(* Ejection: a descriptor stays in ejects_ until RunEjecters               *)
(***************************************************************************)
(* A call leaves the descriptors alone that it is not made for.            *)
LEMMA CallOthers ==
  ASSUME NEW s, NEW h, NEW g, NEW p, NEW c, NEW v, NEW q1, NEW q2, NEW a,
         SoundBut(s, h, p, c, v, io, q1, q2, <<>>), Callable(s, h, g, a, c, v),
         NEW i \in DOMAIN s.perfd, i # h
  PROVE  i \in DOMAIN Call(s, a, g).perfd /\ Same(s, Call(s, a, g), i)
<1> USE DEF Callable
<1> DEFINE t == Call(s, a, g)
<1>0. Shape(s)
  BY DEF SoundBut
<1>1. CASE a = "none"
  <2>1. t = s
    BY <1>1 DEF Call
  <2> QED BY <2>1 DEF Same
<1>2. CASE a = "Add"
  <2>1. QueueSound(q2)
    BY DEF SoundBut, Ownership
  <2> QED BY <1>2, <2>1, AddCall
<1>3. ASSUME NEW u, Touches(s, u, h)
      PROVE  i \in DOMAIN u.perfd /\ Same(s, u, i)
  BY <1>3 DEF Touches, SameTable
<1>4. ASSUME NEW e \in Dirs, a = RequestOf(e)
      PROVE  Touches(s, t, h)
  <2>1. t = Request(s, h, e)
    BY <1>4 DEF Call, RequestOf, Dirs
  <2> HIDE DEF t
  <2> QED BY <1>0, <2>1, RequestIs
<1>5. CASE a = "Run"
  <2>1. t = Run(s, h) /\ s.perfd[h].fns < MaxFns
    BY <1>5 DEF Call, MayCall
  <2> HIDE DEF t
  <2>2. Touches(s, t, h)
    BY <1>0, <2>1, RunIs
  <2> QED BY <1>3, <2>2 DEF t
<1>6. CASE a = "Eject"
  <2>1. t = Eject(s, h)
    BY <1>6 DEF Call
  <2> HIDE DEF t
  <2>2. CASE \A l \in ActiveIdle : h \notin Mem(s, l)
    <3>1. t = PushBack(Expunge(s, h), h, "ejects_") /\ "ejects_" \in ListNames
      BY <1>0, <2>1, <2>2, EjectIs DEF ListNames, ActiveIdle
    <3>2. Touches(s, t, h)
      BY <1>0, <3>1, SentIs
    <3> QED BY <1>3, <3>2 DEF t
  <2>3. CASE \E l \in ActiveIdle : h \in Mem(s, l)
    <3>1. t = s
      BY <2>1, <2>3, EjectLinked
    <3> QED BY <3>1 DEF Same, t
  <2> QED BY <2>2, <2>3
<1>7. a \in {"none", "Add", "Run", "Eject"} \/ \E e \in Dirs : a = RequestOf(e)
  BY DEF CallNames, RequestOf, Dirs
<1> QED BY <1>1, <1>2, <1>3, <1>4, <1>5, <1>6, <1>7

LEMMA UpcallOthers ==
  ASSUME SiloInv, WellBehaved, NEW d \in Dirs, pc = d, d \in perfd[current_].wants,
         NEW act \in Acts[OwnerOf[perfd[current_].fd]][d], NEW g \in Known(current_),
         MayCall(act.call, g),
         NEW t, t = Settle(Call([Now EXCEPT !.perfd[current_].wants = @ \ {d}],
                                act.call, g), current_, d, act.outcome),
         NEW i \in Live, i # current_
  PROVE  i \in DOMAIN t.perfd /\ Same(Now, t, i)
<1> DEFINE h == current_
           k == OwnerOf[perfd[h].fd]
           s0 == [Now EXCEPT !.perfd[h].wants = @ \ {d}]
           s1 == Call(s0, act.call, g)
<1>1. /\ h \in Live /\ h # 0 /\ hfds = <<>> /\ DOMAIN events = {} /\ Shape(Now)
      /\ SoundBut(Now, h, pc, h, events, io, inbound, batch, <<>>)
      /\ h \in DOMAIN Now.perfd /\ Now.perfd = perfd /\ Now.fate = fate
  BY AtUpcall, NowIs DEF Dirs
<1>2. k \in Handlers
  BY <1>1, PerFdFacts DEF Owner
<1>3. act.call \in CallNames /\ act.outcome \in Outcomes
  BY <1>2, SiloAssumption
<1>4. act.call \in {"none", "Add"} \/ g = h
  <2>1. act.call \in {"none", "Add"} \/ Solo(k)
    BY <1>2 DEF WellBehaved, ActsBehave
  <2>2. Ownership(Now, inbound, batch, hfds)
    BY InvFacts
  <2> QED BY <1>1, <2>1, <2>2, KnownSolo
<1>5. /\ Shape(s0) /\ Touches(Now, s0, h)
      /\ Flags(s0, h, Now.perfd[h].wants \ {d}, Now.perfd[h].squelch,
               Now.perfd[h].muted, Now.perfd[h].fns)
  BY <1>1, Unwanting
<1> HIDE DEF s0
<1>6. SoundBut(s0, h, pc, h, events, io, inbound, batch, <<>>)
  BY <1>1, <1>5, TouchStays
<1>7. Callable(s0, h, g, act.call, h, events)
  <2>1. /\ h \in DOMAIN s0.perfd /\ s0.fate = fate /\ s0.perfd[h].fns = perfd[h].fns
        /\ DOMAIN events \subseteq DOMAIN s0.perfd
    BY <1>1, <1>5 DEF Touches, SameTable, Flags
  <2> QED BY <1>3, <1>4, <2>1 DEF Callable
<1>8. i \in DOMAIN s0.perfd /\ Same(Now, s0, i)
  BY <1>5, NowIs DEF Touches, SameTable
<1>9. i \in DOMAIN s1.perfd /\ Same(s0, s1, i)
  BY <1>6, <1>7, <1>8, CallOthers
<1>10. SoundBut(s1, h, pc, h, events, io, inbound, batch, <<>>) /\ h \in DOMAIN s1.perfd
  BY <1>6, <1>7, CallIs DEF Called
<1>11. t = Settle(s1, h, d, act.outcome)
  BY DEF s0
<1> HIDE DEF s1
<1>12. Shape(s1)
  BY <1>10 DEF SoundBut
<1>13. Touches(s1, t, h)
  BY <1>3, <1>10, <1>11, <1>12, SettleSettles
<1>14. i \in DOMAIN t.perfd /\ Same(s1, t, i)
  BY <1>9, <1>13 DEF Touches, SameTable
<1> QED BY <1>8, <1>9, <1>14 DEF Same

(* What EjectIsFinal says of a step and of the descriptor i.               *)
StaysEjected(i) ==
  \/ i \in DOMAIN perfd' /\ i \in ToSet(lists'["ejects_"])
  \/ fate'[perfd[i].fd] = "ejected"

LEMMA SameStays ==
  ASSUME NEW t, Become(t), NEW i \in Live, i \in DOMAIN t.perfd,
         i \in Mem(t, "ejects_"), i \in Mem(Now, "ejects_")
  PROVE  StaysEjected(i)
<1>1. i \in DOMAIN perfd /\ i \in ToSet(lists["ejects_"])
  BY NowIs DEF Mem, Live
<1>2. CASE t.fault = "none"
  BY <1>2 DEF StaysEjected, Become, Mem
<1>3. CASE t.fault # "none"
  BY <1>1, <1>3 DEF StaysEjected, Become
<1> QED BY <1>2, <1>3

LEMMA TableKeepsEject ==
  ASSUME NEW i \in Live, In(i, "ejects_"), perfd' = perfd, lists' = lists
  PROVE  StaysEjected(i)
BY DEF StaysEjected, In, Live

(* The steps that touch a list while a descriptor waits to be ejected.     *)
LEMMA BeginKeepsEject ==
  ASSUME SiloInv, NEW i \in Live, In(i, "ejects_"), ActiveBegin \/ RunnerBegin
  PROVE  StaysEjected(i)
<1>0. /\ Shape(Now) /\ i \in Mem(Now, "ejects_") /\ i \in DOMAIN Now.perfd
      /\ {"active_", "ejects_"} \subseteq ListNames
      /\ HookOf("active_") = HookOf("ejects_") /\ "ejects_" \in ActiveIdle
      /\ "ejects_" \notin Shared
  BY InvFacts, Names DEF HookOf, ActiveIdle, Shared, ListNames
<1>1. CASE ActiveBegin
  <2> DEFINE h == Head(lists["active_"])
             t == Erase(Now, h, ActiveIdle)
  <2>1. h \in Mem(Now, "active_") /\ Become(t)
    BY <1>0, <1>1, InList DEF ActiveBegin
  <2>2. i # h
    BY <1>0, <2>1 DEF Shape, ListShape
  <2>3. /\ OnlyLists(Now, t)
        /\ i \in Mem(t, "ejects_") <=> i \in Mem(Now, "ejects_") /\ i # h
    BY <1>0, EraseIs
  <2> HIDE DEF t, h
  <2> QED BY <1>0, <2>1, <2>2, <2>3, SameStays DEF OnlyLists
<1>2. CASE RunnerBegin
  <2> DEFINE h == Head(lists["runners_"])
             t == Erase(Now, h, Shared)
  <2>1. Become(t)
    BY <1>2 DEF RunnerBegin
  <2>3. OnlyLists(Now, t) /\ (i \in Mem(t, "ejects_") <=> i \in Mem(Now, "ejects_"))
    BY <1>0, EraseIs
  <2> HIDE DEF t, h
  <2> QED BY <1>0, <2>1, <2>3, SameStays DEF OnlyLists
<1> QED BY <1>1, <1>2

LEMMA ReadKeepsEject ==
  ASSUME SiloInv, WellBehaved, NEW i \in Live, In(i, "ejects_"), HandleRead
  PROVE  StaysEjected(i)
<1>1. pc = "read" /\ Upcall("read") /\ "read" \in Dirs
  BY DEF HandleRead, At, Dirs
<1>2. i \in Mem(Now, "ejects_") /\ i # current_ /\ i \in DOMAIN Now.perfd
  <2>1. i \in Mem(Now, "ejects_") /\ Running(Now, i, pc, current_) /\ i \in DOMAIN Now.perfd
    BY InvFacts
  <2> QED BY <1>1, <2>1 DEF Running, ActiveIdle
<1>3. CASE "read" \notin perfd[current_].wants
  <2>1. Become(Now)
    BY <1>1, <1>3 DEF Upcall
  <2> QED BY <1>2, <2>1, SameStays
<1>4. CASE "read" \in perfd[current_].wants
  <2>1. PICK act \in Acts[OwnerOf[perfd[current_].fd]]["read"], g \in Known(current_) :
           /\ MayCall(act.call, g)
           /\ Become(Settle(Call([Now EXCEPT !.perfd[current_].wants = @ \ {"read"}],
                                 act.call, g), current_, "read", act.outcome))
    BY <1>1, <1>4 DEF Upcall
  <2> DEFINE t == Settle(Call([Now EXCEPT !.perfd[current_].wants = @ \ {"read"}],
                              act.call, g), current_, "read", act.outcome)
  <2>2. i \in DOMAIN t.perfd /\ Same(Now, t, i)
    BY <1>1, <1>2, <1>4, <2>1, UpcallOthers
  <2>3. Become(t)
    BY <2>1
  <2> HIDE DEF t
  <2> QED BY <1>2, <2>2, <2>3, SameStays, Names DEF Same
<1> QED BY <1>3, <1>4

LEMMA WriteKeepsEject ==
  ASSUME SiloInv, WellBehaved, NEW i \in Live, In(i, "ejects_"), HandleWrite
  PROVE  StaysEjected(i)
<1> DEFINE h == current_
<1>1. pc = "write" /\ Upcall("write") /\ "write" \in Dirs
  BY DEF HandleWrite, At, Dirs
<1>2. /\ i \in Mem(Now, "ejects_") /\ i \in DOMAIN Now.perfd /\ "ejects_" \in ListNames
      /\ Shape(Now) /\ h \in DOMAIN Now.perfd /\ h \in Live /\ Now.perfd = perfd
  BY <1>1, AtUpcall, InvFacts, Names
<1>3. CASE "write" \notin perfd[h].wants
  <2> DEFINE t == Place(Now, h)
  <2>1. Become(t)
    BY <1>1, <1>3 DEF Upcall
  <2>2. /\ Touches(Now, t, h) /\ t.perfd = Now.perfd
        /\ (\E l \in ListNames : h \in Mem(Now, l)) =>
              \A m \in ListNames : h \in Mem(t, m) <=> h \in Mem(Now, m)
    BY <1>2, PlaceIs
  <2> HIDE DEF t
  <2>3. i \in Mem(t, "ejects_") /\ i \in DOMAIN t.perfd
    BY <1>2, <2>2 DEF Touches, Same, SameTable
  <2> QED BY <1>2, <2>1, <2>3, SameStays
<1>4. CASE "write" \in perfd[h].wants
  <2>1. PICK act \in Acts[OwnerOf[perfd[h].fd]]["write"], g \in Known(h) :
           /\ MayCall(act.call, g) /\ Transfer(perfd[h].fd, "write", act)
           /\ Become(Place(Settle(Call([Now EXCEPT !.perfd[h].wants = @ \ {"write"}],
                                 act.call, g), h, "write", act.outcome), h))
    BY <1>1, <1>4 DEF Upcall
  <2> DEFINE t == Settle(Call([Now EXCEPT !.perfd[h].wants = @ \ {"write"}],
                              act.call, g), h, "write", act.outcome)
             u == Place(t, h)
  <2>2. i # h
    <3>1. Running(Now, h, pc, h)
      BY <1>2, InvFacts
    <3> QED BY <1>1, <1>2, <1>4, <3>1 DEF Running
  <2>3. i \in DOMAIN t.perfd /\ Same(Now, t, i)
    BY <1>1, <1>4, <2>1, <2>2, UpcallOthers
  <2>4. /\ SoundBut(t, h, pc, h, events, io, inbound, batch, hfds)
        /\ h \in DOMAIN t.perfd
    BY <1>1, <1>4, <2>1, UpcallSteps
  <2>5. Become(u)
    BY <2>1
  <2> HIDE DEF t
  <2>6. Touches(t, u, h)
    BY <2>4, PlaceIs DEF SoundBut
  <2> HIDE DEF u
  <2>7. i \in DOMAIN u.perfd /\ Same(Now, u, i)
    BY <2>2, <2>3, <2>6 DEF Touches, SameTable, Same
  <2> QED BY <1>2, <2>5, <2>7, SameStays, Names DEF Same
<1> QED BY <1>3, <1>4

LEMMA FnKeepsEject ==
  ASSUME SiloInv, WellBehaved, NEW i \in Live, In(i, "ejects_"), RunFn
  PROVE  StaysEjected(i)
<1> DEFINE h == current_
<1>0. pc = "runners" /\ h # 0
  BY DEF RunFn, At
<1>1. /\ i \in Mem(Now, "ejects_") /\ i \in DOMAIN Now.perfd /\ Shape(Now)
      /\ h \in Live /\ h \in DOMAIN Now.perfd /\ Now.perfd = perfd
      /\ Ownership(Now, inbound, batch, hfds)
  BY <1>0, InvFacts DEF SiloInv, ThreadShape
<1>2. i # h
  <2>1. Running(Now, i, pc, h)
    BY InvFacts
  <2> QED BY <1>0, <1>1, <2>1 DEF Running
<1>3. CASE UNCHANGED table
  BY <1>3, TableKeepsEject DEF table
<1>4. ASSUME perfd[h].fns > 0, NEW c \in FnCalls, NEW g \in Known(h),
             Become(Call([Now EXCEPT !.perfd[h].fns = @ - 1], c, g))
      PROVE  StaysEjected(i)
  <2> DEFINE s0 == [Now EXCEPT !.perfd[h].fns = @ - 1]
  <2>1. PICK d \in Dirs : c = RequestOf(d)
    <3>1. c \in Requests
      BY DEF WellBehaved
    <3> QED BY <3>1 DEF Requests, RequestOf, Dirs
  <2>2. g = h
    <3>1. Solo(OwnerOf[perfd[h].fd])
      BY <1>1, <1>4, InvFacts DEF Placed, Owner
    <3> QED BY <1>1, <3>1, KnownSolo
  <2>3. Shape(s0) /\ Touches(Now, s0, h)
    BY <1>1, <1>4, Dequeued
  <2> DEFINE t == Request(s0, h, d)
  <2>4. Call(s0, c, g) = t
    BY <2>1, <2>2 DEF Call, RequestOf, Dirs
  <2>5. Become(t)
    BY <1>4, <2>4
  <2> HIDE DEF s0
  <2>6. Touches(s0, t, h)
    <3>1. h \in DOMAIN s0.perfd
      BY <1>1, <2>3 DEF Touches, SameTable
    <3> QED BY <2>3, <3>1, RequestIs
  <2> HIDE DEF t
  <2>7. Touches(Now, t, h)
    BY <2>3, <2>6, TouchesTrans
  <2>8. i \in DOMAIN t.perfd /\ Same(Now, t, i)
    BY <1>1, <1>2, <2>7 DEF Touches, SameTable
  <2> QED BY <1>1, <2>5, <2>8, SameStays, Names DEF Same
<1>5. \/ /\ perfd[h].fns > 0
         /\ \E c \in FnCalls, g \in Known(h) :
              Become(Call([Now EXCEPT !.perfd[h].fns = @ - 1], c, g))
      \/ UNCHANGED table
  BY DEF RunFn
<1> QED BY <1>3, <1>4, <1>5

LEMMA EjectersKeepEject ==
  ASSUME SiloInv, NEW i \in Live, In(i, "ejects_"), RunEjecters
  PROVE  StaysEjected(i)
<1> DEFINE h == Head(lists["ejects_"])
           t == Free(Now, h, "ejected")
<1>1. h \in Live /\ Become(t)
  BY InList, Names DEF RunEjecters
<1>2. /\ Shape(Now) /\ DOMAIN Now.perfd = Live /\ Now.perfd = perfd
      /\ i \in Mem(Now, "ejects_") /\ perfd[i].fd \in Fds
  BY InvFacts, PerFdFacts
<1>3. /\ DOMAIN t.perfd = Live \ {h} /\ Shape(t)
      /\ \A g \in Live : g # h => Same(Now, t, g)
      /\ \A f \in Fds : t.fate[f] = IF f = perfd[h].fd THEN "ejected" ELSE Now.fate[f]
  BY <1>1, <1>2, FreeIs DEF Fates
<1> HIDE DEF t, h
<1>4. CASE i = h
  <2>1. fate' = t.fate
    BY <1>1, <1>3, Becomes
  <2> QED BY <1>2, <1>3, <1>4, <2>1 DEF StaysEjected
<1>5. CASE i # h
  BY <1>1, <1>2, <1>3, <1>5, SameStays, Names DEF Same
<1> QED BY <1>4, <1>5

LEMMA EjectStep ==
  ASSUME SiloInv, WellBehaved, [Next]_vars, NEW i \in Live, In(i, "ejects_")
  PROVE  StaysEjected(i)
<1>1. pc \in {"actives", "read", "write", "runners", "eject"}
  <2>1. ListPhases(Now, i, pc) /\ i \in Mem(Now, "ejects_")
    BY InvFacts
  <2> QED BY <2>1 DEF ListPhases
<1>2. \A p, q : Goto(p, q) => UNCHANGED table
  BY DEF Goto
<1>3. \/ ActiveBegin \/ RunnerBegin \/ HandleRead \/ HandleWrite \/ RunFn
      \/ RunEjecters \/ (perfd' = perfd /\ lists' = lists)
  <2>1. CASE Loop
    <3>1. \/ ActiveBegin \/ HandleRead \/ HandleWrite \/ ActivesDone
          \/ RunnerBegin \/ RunFn \/ RunnersDone \/ RunEjecters \/ EjectersDone
      BY <1>1, <2>1 DEF Loop, EpollWait, TakeEvent, EventsDone, ShedBegin, ShedHandle,
         ShedEnd, SheddersDone, RunIdlers, NoIdlers, RunClosers, ClosersDone, AdmitFd,
         AdmitFails, AdmitFn, ConsiderLoadShedding, Exit, Goto, At
    <3> QED BY <1>2, <3>1 DEF ActivesDone, RunnersDone, EjectersDone, table
  <2>2. CASE Environment
    BY <2>2 DEF Environment, Register, KernelEvent, RunWithAffinity, NotifyExiting, table
  <2>3. CASE UNCHANGED vars
    BY <2>3 DEF vars, table
  <2> QED BY <2>1, <2>2, <2>3 DEF Next
<1> QED BY <1>3, BeginKeepsEject, ReadKeepsEject, WriteKeepsEject, FnKeepsEject,
       EjectersKeepEject, TableKeepsEject
-----------------------------------------------------------------------------
(***************************************************************************)
(* Once a check has ended the process nothing moves any more.              *)
(***************************************************************************)
Properties == /\ EveryFdPlaced /\ NoLostEdge
              /\ SuspendRespected /\ DoomedIsQuiet

Dead == fault # "none" /\ Misused /\ Properties

LEMMA Alives ==
  ASSUME SiloInv PROVE fault = "none" /\ Properties
<1>1. fault = "none" /\ Ownership(Now, inbound, batch, hfds)
  BY InvFacts, NowIs DEF Shape, TableShape
<1> QED BY <1>1, Typed, HeldOnce, Rescheduled, CanIdle, EdgesAreKept, UpcallsAllowed
       DEF Properties, EveryFdPlaced

LEMMA KillDies ==
  ASSUME SiloInv, Kill PROVE Dead'
<1>1. /\ EveryFdPlaced /\ NoLostEdge /\ Ownership(Now, inbound, batch, hfds)
  BY Alives, InvFacts DEF Properties
<1>2. /\ perfd' = perfd /\ next' = next /\ lists' = lists /\ handles_' = handles_
      /\ edge' = edge /\ fate' = fate /\ io' = io /\ events' = events
      /\ current_' = current_ /\ inbound' = inbound /\ hfds' = hfds
      /\ pc' \in {"shed", "close", "admit"} /\ fault' # "none" /\ Misused'
  BY DEF Kill, Unmoved
<1>3. Live' = Live /\ \A h, l : (In(h, l))' <=> In(h, l)
  BY <1>2 DEF Live, In
<1>4. \A h : (Leaving(h))' <=> Leaving(h)
  BY <1>3 DEF Leaving
<1>5. TypeOK'
  BY <1>1, <1>2, <1>3 DEF EveryFdPlaced, TypeOK, Phases
<1>6. NoLostEdge'
  BY <1>1, <1>2, <1>3, <1>4 DEF NoLostEdge
<1>7. YieldIsRescheduled' /\ EveryFdCanIdle' /\ SuspendRespected' /\ DoomedIsQuiet'
  BY <1>2 DEF YieldIsRescheduled, EveryFdCanIdle, SuspendRespected, DoomedIsQuiet,
              Upcalling, Dirs
<1>8. FdHeldOnce'
  <2>1. QueueSound(batch') /\ \A f \in Fds : Queued(batch', f) <=> Queued(batch, f)
    <3>1. CASE batch' = batch
      BY <1>1, <3>1 DEF Ownership
    <3>2. CASE batch # <<>> /\ Head(batch).fds = <<>> /\ batch' = Tail(batch)
      <4>1. QueueSound(batch)
        BY <1>1 DEF Ownership
      <4> QED BY <3>2, <4>1, QueueTail, EmptyOnce
    <3> QED BY <3>1, <3>2 DEF Kill
  <2>2. Ownership(Now, inbound, batch', hfds)
    BY <1>1, <2>1 DEF Ownership
  <2>3. Ownership(Now', inbound', batch', hfds')
    <3>1. Now'.perfd = Now.perfd /\ Now'.fate = Now.fate
      BY <1>2 DEF Now
    <3> QED BY <1>2, <2>2, <3>1 DEF Ownership
  <2>4. Ownership(Now, inbound, batch, hfds) => FdHeldOnce
    BY HeldOnce
  <2>5. (Ownership(Now, inbound, batch, hfds) => FdHeldOnce)'
    BY <2>4, HeldOnce, PTL
  <2> QED BY <2>3, <2>5
<1> QED BY <1>2, <1>5, <1>6, <1>7, <1>8 DEF Dead, Properties, EveryFdPlaced

LEMMA OnlyTheLivingMove ==
  ASSUME Next PROVE fault = "none"
BY DEF Next, Loop, Environment, EpollWait, TakeEvent, EventsDone, ShedBegin, ShedHandle,
   ShedEnd, SheddersDone, ActiveBegin, HandleRead, HandleWrite, ActivesDone, RunnerBegin,
   RunFn, RunnersDone, RunEjecters, EjectersDone, RunIdlers, NoIdlers, RunClosers,
   ClosersDone, AdmitFd, AdmitFails, AdmitFn, ConsiderLoadShedding, Exit, Goto, At,
   Register, KernelEvent, RunWithAffinity, NotifyExiting, Alive

LEMMA DeadStays ==
  ASSUME Dead, [Next]_vars PROVE UNCHANGED vars /\ Dead'
<1>1. UNCHANGED vars
  BY OnlyTheLivingMove DEF Dead
<1>2. /\ perfd' = perfd /\ next' = next /\ lists' = lists /\ handles_' = handles_
      /\ edge' = edge /\ fate' = fate /\ io' = io /\ events' = events /\ batch' = batch
      /\ current_' = current_ /\ inbound' = inbound /\ hfds' = hfds /\ pc' = pc
      /\ fault' = fault
  BY <1>1 DEF vars, table, thread, kernel
<1>3. Live' = Live /\ Misused'
  BY <1>2 DEF Live, Misused, Dead
<1>4. TypeOK'
  BY <1>2, <1>3 DEF Dead, Properties, EveryFdPlaced, TypeOK
<1>5. FdHeldOnce'
  BY <1>2, <1>3 DEF Dead, Properties, EveryFdPlaced, FdHeldOnce, Holders
<1>6. YieldIsRescheduled' /\ EveryFdCanIdle'
  BY <1>2, <1>3 DEF Dead, Properties, EveryFdPlaced, YieldIsRescheduled, EveryFdCanIdle,
                    Leaving, In
<1>7. NoLostEdge'
  BY <1>2, <1>3 DEF Dead, Properties, NoLostEdge, Leaving, In
<1>8. SuspendRespected' /\ DoomedIsQuiet'
  BY <1>2, <1>3 DEF Dead, Properties, SuspendRespected, DoomedIsQuiet, Upcalling,
                    Leaving, In
<1> QED BY <1>1, <1>2, <1>3, <1>4, <1>5, <1>6, <1>7, <1>8
       DEF Dead, Properties, EveryFdPlaced

-----------------------------------------------------------------------------
(* The loop is sound for handlers that keep the rules, for any             *)
(* descriptors, handlers, table size and order of events: the invariant    *)
(* above holds in every state of a process that no check has killed.       *)
THEOREM SiloIsSound ==
  ASSUME WellBehaved
  PROVE  Spec => [](SiloInv \/ Dead)
<1>1. Init => SiloInv
  BY SiloInvInit
<1>2. (SiloInv \/ Dead) /\ [Next]_vars => (SiloInv \/ Dead)'
  BY SiloInvStep, KillDies, DeadStays
<1> QED BY <1>1, <1>2, PTL DEF Spec

(* No ValueOrDie, DCHECK or double link (intrusive_list.h, silo.cc) kills  *)
(* the process but the three of Misused: shedding what a handler of        *)
(* several descriptors no longer has (silo.cc:501), a HandleIdle that asks *)
(* and keeps (silo.cc:463), an affinitized function that asks for a        *)
(* descriptor that has gone (silo.cc:218).  The handlers are those of      *)
(* WellBehaved: what it leaves out is listed there.                        *)
THEOREM SiloNeverFaults ==
  ASSUME WellBehaved
  PROVE  Spec => []NoFault
<1>1. SiloInv \/ Dead => NoFault
  BY Alives DEF Dead, NoFault
<1> QED BY <1>1, SiloIsSound, PTL

(* The edge-triggered epoll set never loses an edge between EpollPwait2    *)
(* and the upcall: readiness that the handler has not suspended is still   *)
(* to be reported, or the descriptor is active and wants it.               *)
THEOREM SiloLosesNoEdge ==
  ASSUME WellBehaved
  PROVE  Spec => []NoLostEdge
<1>1. SiloInv \/ Dead => NoLostEdge
  BY Alives DEF Dead, Properties
<1> QED BY <1>1, SiloIsSound, PTL

(* Every descriptor that the Epoller handed over is in exactly one inbound *)
(* item or PerFd until it is closed or ejected, is called again if it      *)
(* yielded, and is idle or active between two loops.                       *)
THEOREM SiloPlacesEveryFd ==
  ASSUME WellBehaved
  PROVE  Spec => []EveryFdPlaced
<1>1. SiloInv \/ Dead => EveryFdPlaced
  BY Alives DEF Dead, Properties
<1> QED BY <1>1, SiloIsSound, PTL

(* Upcalls respect what handlers asked for: none of a suspended direction  *)
(* or of a descriptor that is leaving (silo.cc:361, 390), and a descriptor *)
(* queued by Eject stays queued until RunEjecters hands it to HandleEject. *)
THEOREM SiloRespectsUpcalls ==
  ASSUME WellBehaved
  PROVE  Spec => UpcallsRespected
<1>1. SiloInv \/ Dead => SuspendRespected /\ DoomedIsQuiet
  BY Alives DEF Dead, Properties
<1>2. (SiloInv \/ Dead) /\ [Next]_vars =>
        [\A h \in Live : In(h, "ejects_") =>
           \/ h \in DOMAIN perfd' /\ h \in ToSet(lists'["ejects_"])
           \/ fate'[perfd[h].fd] = "ejected"]_vars
  BY EjectStep, DeadStays DEF StaysEjected
<1> QED BY <1>1, <1>2, SiloIsSound, PTL DEF UpcallsRespected, EjectIsFinal, Spec
=============================================================================
