------------------------ MODULE HttpConnectionProofs ------------------------
(***************************************************************************)
(* Proof that a request is never looked up in a stale URI map (FreshMap),  *)
(* for every list of requests, every buffer size and every set of handlers.*)
(*                                                                         *)
(* The argument has two halves.  An upcall is a long composition of        *)
(* operators on a bundle; each of them either leaves the package and the   *)
(* served requests alone (Same) or refreshes the package whenever it hands *)
(* a request over (Step).  And a package whose generation is the server's  *)
(* is a copy of the server's map: generation_ only counts registrations,   *)
(* so this rests on the map growing and never changing otherwise.          *)
(***************************************************************************)
EXTENDS HttpConnection, FiniteSetTheorems, TLAPS

(* A bundle has these parts, and its history these.                        *)
Parts == {"stream", "sock", "fd", "ssl", "net", "package", "log"}
Logged == {"served", "posted", "out", "spoilt"}
Bundle(s) == /\ s = [f \in Parts |-> s[f]]
             /\ s.log = [f \in Logged |-> s.log[f]]

(* t comes from s without asking the server.                               *)
Same(s, t) == /\ Bundle(t)
              /\ t.package = s.package /\ t.log.served = s.log.served

(* t comes from s by asking the server at most once.                       *)
Step(s, t) ==
  /\ Bundle(t)
  /\ t.package = s.package \/ t.package = Updated(s.package)
  /\ t.log.served # s.log.served => t.package = Updated(s.package)
----------------------------------------------------------------------------
LEMMA SameIsStep ==
  ASSUME NEW s, NEW t, Same(s, t) PROVE Step(s, t)
BY DEF Same, Step

LEMMA SameThenStep ==
  ASSUME NEW s, NEW t, NEW u, Same(s, t), Step(t, u) PROVE Step(s, u)
BY DEF Same, Step

LEMMA StepThenSame ==
  ASSUME NEW s, NEW t, NEW u, Step(s, t), Same(t, u) PROVE Step(s, u)
BY DEF Same, Step

LEMMA SameThenSame ==
  ASSUME NEW s, NEW t, NEW u, Same(s, t), Same(t, u) PROVE Same(s, u)
BY DEF Same

LEMMA SameSelf == ASSUME NEW s, Bundle(s) PROVE Same(s, s)
BY DEF Same

(* Replacing any part but the package and the history.                     *)
LEMMA SetSock == ASSUME NEW s, NEW v, Bundle(s)
                 PROVE  Same(s, [s EXCEPT !.sock = v])
BY DEF Bundle, Same, Parts, Logged

LEMMA SetFd == ASSUME NEW s, NEW v, Bundle(s)
               PROVE  Same(s, [s EXCEPT !.fd = v])
BY DEF Bundle, Same, Parts, Logged

LEMMA SetSsl == ASSUME NEW s, NEW v, Bundle(s)
                PROVE  Same(s, [s EXCEPT !.ssl = v])
BY DEF Bundle, Same, Parts, Logged

LEMMA SetNet == ASSUME NEW s, NEW v, Bundle(s)
                PROVE  Same(s, [s EXCEPT !.net = v])
BY DEF Bundle, Same, Parts, Logged

LEMMA RequestSame ==
  ASSUME NEW s, NEW d, Bundle(s) PROVE Same(s, Request(s, d))
BY DEF Request, Bundle, Same, Parts, Logged

LEMMA PostAllSame ==
  ASSUME NEW s, NEW posts, Bundle(s) PROVE Same(s, PostAll(s, posts))
<1> DEFINE p == FoldLeft(Post, s, posts)
<1> HIDE DEF p
<1>1. PostAll(s, posts) = [s EXCEPT !.sock = p.sock, !.fd = p.fd,
                                    !.log.posted = p.log.posted]
  BY DEF PostAll, p
<1> QED BY <1>1, ZenonT(40) DEF Bundle, Same, Parts, Logged

LEMMA SettledSame ==
  ASSUME NEW s, Bundle(s) PROVE Same(s, Settled(s))
BY DEF Settled, Bundle, Same, Parts, Logged

LEMMA CrossedSame ==
  ASSUME NEW s, NEW d, Bundle(s) PROVE Same(s, Crossed(s, d).s)
<1> DEFINE t == [s EXCEPT !.sock.crossed = @ \cup {d}]
<1>1. Same(s, t)
  BY DEF Bundle, Same, Parts, Logged
<1>2. Bundle(t)
  BY <1>1 DEF Same
<1>3. Crossed(s, d).s = Request(t, Other(d))
  BY DEF Crossed, Returns
<1> HIDE DEF t
<1> QED BY <1>1, <1>2, <1>3, RequestSame, SameThenSame

LEMMA SentSame ==
  ASSUME NEW s, NEW n, Bundle(s) PROVE Same(s, Sent(s, n))
BY DEF Sent, Bundle, Same, Parts, Logged

LEMMA ConsumeSame ==
  ASSUME NEW s, NEW n, Bundle(s) PROVE Same(s, Consume(s, n))
BY SetSock DEF Consume

(* Every branch of Write sends and consumes at most.                       *)
LEMMA WriteSame ==
  ASSUME NEW s, Bundle(s) PROVE Same(s, Write(s).s)
<1> DEFINE size == Len(Head(s.sock.sources_))
           n == Min({Room(s.net), size - s.ssl.wrote})
           t == Sent(s, n)
           u == [t EXCEPT !.ssl.wrote = 0]
           v == [t EXCEPT !.ssl.wrote = @ + n]
<1>1. Write(s).s \in {s, Crossed(s, "write").s, Consume(t, n),
                      Consume(u, size), v}
  BY DEF Write, Returns
<1> HIDE DEF n, size
<1>2. Same(s, t) /\ Bundle(t)
  BY SentSame DEF Same
<1>3. Same(t, u) /\ Bundle(u) /\ Same(t, v)
  <2> HIDE DEF t
  <2> QED BY <1>2 DEF Bundle, Same, Parts, Logged
<1> HIDE DEF t, u, v
<1>4. Same(s, s) /\ Same(s, Crossed(s, "write").s)
  BY SameSelf, CrossedSame
<1>5. Same(s, Consume(t, n))
  BY <1>2, ConsumeSame, SameThenSame
<1>6. Same(s, Consume(u, size))
  BY <1>2, <1>3, ConsumeSame, SameThenSame
<1>7. Same(s, v)
  BY <1>2, <1>3, SameThenSame
<1> QED BY <1>1, <1>4, <1>5, <1>6, <1>7

LEMMA AttemptWriteSame ==
  ASSUME NEW s, Bundle(s) PROVE Same(s, AttemptWrite(s).s)
<1>1. AttemptWrite(s).s \in {s, Write(Settled(s)).s}
  BY DEF AttemptWrite, Returns
<1>2. Same(s, Settled(s)) /\ Bundle(Settled(s))
  BY SettledSame DEF Same
<1>3. Same(s, Write(Settled(s)).s)
  BY <1>2, WriteSame, SameThenSame
<1> QED BY <1>1, <1>3, SameSelf

LEMMA SslAcceptSame ==
  ASSUME NEW s, Bundle(s) PROVE Same(s, SslAccept(s))
<1> DEFINE a == IF s.ssl.step = "hello" /\ s.net.ctl = "good"
                THEN [s EXCEPT !.ssl.step = "flight", !.net.ctl = "none"] ELSE s
           n == IF a.ssl.step = "flight" THEN Min({Room(a.net), a.ssl.left}) ELSE 0
           b == [a EXCEPT !.ssl.left = @ - n, !.net.flight = @ + n,
                          !.ssl.step = IF @ = "flight" /\ n = a.ssl.left
                                       THEN "finish" ELSE @]
           c == [b EXCEPT !.ssl.step = "done", !.net.ctl = "none"]
<1>1. SslAccept(s) \in {b, c}
  BY DEF SslAccept
<1>2. Same(s, a) /\ Bundle(a)
  BY DEF Bundle, Same, Parts, Logged
<1> HIDE DEF a, n
<1>3. Same(a, b) /\ Bundle(b)
  BY <1>2 DEF Bundle, Same, Parts, Logged
<1> HIDE DEF b
<1>4. Same(b, c)
  BY <1>3 DEF Bundle, Same, Parts, Logged
<1> HIDE DEF c
<1>5. Same(s, b) /\ Same(s, c)
  BY <1>2, <1>3, <1>4, SameThenSame
<1> QED BY <1>1, <1>5

LEMMA RunAcceptSame ==
  ASSUME NEW s, Bundle(s) PROVE Same(s, RunAccept(s))
<1> DEFINE t == SslAccept(s)
           bad == s.net.ctl = "bad" \/ (hup /\ s.net.ctl = "none")
           u == [t EXCEPT !.sock.in_progress_ = ~bad /\ t.ssl.step # "done",
                          !.sock.wants = IF bad \/ t.ssl.step = "done" THEN {}
                                         ELSE IF t.ssl.step = "flight" THEN {"write"}
                                         ELSE {"read"}]
<1>1. RunAccept(s) = u
  BY DEF RunAccept
<1>2. Same(s, t) /\ Bundle(t)
  BY SslAcceptSame DEF Same
<1> HIDE DEF t, bad
<1>3. Same(t, u)
  BY <1>2 DEF Bundle, Same, Parts, Logged
<1> HIDE DEF u
<1> QED BY <1>1, <1>2, <1>3, SameThenSame

LEMMA HandshakeSame ==
  ASSUME NEW s, NEW d, Bundle(s) PROVE Same(s, Handshake(s, d).s)
<1> DEFINE t == RunAccept(s)
<1>1. Handshake(s, d).s \in {s, t, Request(t, Other(d))}
  BY DEF Handshake, Returns
<1>2. Same(s, t) /\ Bundle(t)
  BY RunAcceptSame DEF Same
<1> HIDE DEF t
<1>3. Same(s, Request(t, Other(d)))
  BY <1>2, RequestSame, SameThenSame
<1> QED BY <1>1, <1>2, <1>3, SameSelf
----------------------------------------------------------------------------
(* The stream reports a request as seen only when it asked the server.     *)
LEMMA SeenMeansCalled ==
  ASSUME NEW st, NEW data, NEW m,
         AddBytes(st, data, m).seen # <<>>
  PROVE  AddBytes(st, data, m).called
<1>1. ASSUME NEW t, NEW posts, NEW seen, Continue(t, posts, seen).seen # <<>>
      PROVE  Continue(t, posts, seen).called
  <2>1. CASE MayGrow(t)
    BY <1>1, <2>1 DEF Continue, Rearm
  <2>2. CASE ~MayGrow(t)
    BY <1>1, <2>2 DEF Continue, ReportSad
  <2> QED BY <2>1, <2>2
<1>2. ASSUME NEW t, NEW posts, NEW seen PROVE ReportSad(t, posts, seen).called
  BY DEF ReportSad
<1>3. ASSUME NEW t, TryParse(t, m).seen # <<>> PROVE TryParse(t, m).called
  <2> DEFINE p == Parse(SubSeq(t.buf_, 1, t.bytes_))
             served == Serve(p.request[1], m)
  <2>1. TryParse(t, m) \in {ReportSad(t, <<>>, <<>>), Continue(t, <<>>, <<>>),
                            Continue(ShiftVector(t, p.n), served.posts, p.request),
                            ReportSad(t, served.posts, p.request)}
    BY DEF TryParse
  <2> HIDE DEF p, served
  <2> QED BY <1>1, <1>2, <1>3, <2>1
<1> QED BY <1>3 DEF AddBytes

(* A cleanup that hands a request over has refreshed the package.          *)
LEMMA CleanupStep ==
  ASSUME NEW s, NEW data, Bundle(s) PROVE Step(s, Cleanup(s, data))
<1> DEFINE fresh == Updated(s.package)
           r == AddBytes(s.stream, data, fresh.uri_map)
           t == [s EXCEPT !.stream = r.st,
                          !.package = IF r.called THEN fresh ELSE @,
                          !.log.served = IF r.seen = <<>> THEN @
                                         ELSE Append(@, r.seen)]
<1>1. Cleanup(s, data) = PostAll(t, r.posts)
  BY DEF Cleanup
<1>2. r.seen # <<>> => r.called
  BY SeenMeansCalled
<1> HIDE DEF fresh, r
<1>3. Step(s, t)
  <2>1. t.package = IF r.called THEN fresh ELSE s.package
    BY DEF Bundle, Parts
  <2>2. t.log.served = IF r.seen = <<>> THEN s.log.served
                       ELSE Append(s.log.served, r.seen)
    BY DEF Bundle, Parts, Logged
  <2>3. Bundle(t)
    BY DEF Bundle, Parts, Logged
  <2> HIDE DEF t
  <2> QED BY <1>2, <2>1, <2>2, <2>3 DEF Step, fresh
<1> HIDE DEF t
<1>4. Bundle(t)
  BY <1>3 DEF Step
<1> QED BY <1>1, <1>3, <1>4, PostAllSame, StepThenSame

LEMMA DeliverStep ==
  ASSUME NEW s, NEW data, Bundle(s) PROVE Step(s, Deliver(s, data))
<1> DEFINE c == Cleanup(s, data)
           t == [c EXCEPT !.sock.sinks_ = Tail(@)]
<1>1. Step(s, c) /\ Bundle(c)
  BY CleanupStep DEF Step
<1> HIDE DEF c
<1>2. Same(c, t)
  BY <1>1, SetSock
<1> HIDE DEF t
<1>3. Deliver(s, data) = t
  BY DEF Deliver, c, t
<1> QED BY <1>1, <1>2, <1>3, StepThenSame

LEMMA ReadStep ==
  ASSUME NEW s, Bundle(s) PROVE Step(s, Read(s).s)
<1> DEFINE n == Min({Head(s.sock.sinks_), Len(s.net.in)})
           t == [s EXCEPT !.net.in = SubSeq(@, n + 1, Len(@))]
           data == SubSeq(s.net.in, 1, n)
<1>1. Read(s).s \in {s, Crossed(s, "read").s, Deliver(t, data)}
  BY DEF Read, Returns
<1>2. Same(s, t) /\ Bundle(t)
  BY SetNet DEF Same
<1> HIDE DEF t, data
<1>3. Step(s, Deliver(t, data))
  BY <1>2, DeliverStep, SameThenStep
<1>4. Step(s, s) /\ Step(s, Crossed(s, "read").s)
  BY SameSelf, CrossedSame, SameIsStep
<1> QED BY <1>1, <1>3, <1>4

LEMMA AttemptReadStep ==
  ASSUME NEW s, Bundle(s) PROVE Step(s, AttemptRead(s).s)
<1>1. AttemptRead(s).s \in {s, Read(Settled(s)).s}
  BY DEF AttemptRead, Returns
<1>2. Same(s, Settled(s)) /\ Bundle(Settled(s))
  BY SettledSame DEF Same
<1>3. Step(s, Read(Settled(s)).s)
  BY <1>2, ReadStep, SameThenStep
<1> QED BY <1>1, <1>3, SameSelf, SameIsStep

LEMMA AttemptStep ==
  ASSUME NEW s, NEW d, Bundle(s) PROVE Step(s, Attempt(s, d).s)
BY AttemptReadStep, AttemptWriteSame, SameIsStep DEF Attempt

LEMMA EstablishedStep ==
  ASSUME NEW s, NEW d, Bundle(s) PROVE Step(s, Established(s, d).s)
<1> DEFINE o == Other(d)
           t == [s EXCEPT !.sock.crossed = @ \ {o}]
           q == Request(t, o)
           r == Attempt(q, o)
           u == [r.s EXCEPT !.log.spoilt = @ \/ r.o = "kClose"]
<1>1. Established(s, d).s \in {u, Attempt(s, d).s}
  BY DEF Established, Returns
<1> HIDE DEF o
<1>2. Same(s, t) /\ Bundle(t)
  BY SetSock DEF Same
<1> HIDE DEF t
<1>3. Same(s, q) /\ Bundle(q)
  BY <1>2, RequestSame, SameThenSame DEF Same
<1> HIDE DEF q
<1>4. Step(s, r.s) /\ Bundle(r.s)
  BY <1>3, AttemptStep, SameThenStep DEF Step
<1> HIDE DEF r
<1>5. Same(r.s, u)
  BY <1>4 DEF Bundle, Same, Parts, Logged
<1> HIDE DEF u
<1> QED BY <1>1, <1>4, <1>5, AttemptStep, StepThenSame

LEMMA HandleStep ==
  ASSUME NEW s, NEW d, Bundle(s) PROVE Step(s, Handle(s, d).s)
BY HandshakeSame, EstablishedStep, SameIsStep DEF Handle
----------------------------------------------------------------------------
(* What makes the comparison of generations sound: the silo's copy was     *)
(* taken from a map that has only grown since.                             *)
MapGrows == /\ IsFiniteSet(uri_map_) /\ IsFiniteSet(holding)
            /\ package.uri_map \subseteq uri_map_
            /\ package.generation = Cardinality(package.uri_map)
LogShape == log = [f \in Logged |-> log[f]]
FreshInv == MapGrows /\ LogShape

(* What a step of the silo may do to the package and the served requests.  *)
Asked == /\ package' = package \/ package' = Updated(package)
         /\ log'.served # log.served => package' = Updated(package)
         /\ LogShape'

LEMMA NowIsBundle == LogShape => Bundle(Now)
BY DEF LogShape, Bundle, Now, Parts, Logged

LEMMA BecomeAsks ==
  ASSUME NEW t, Step(Now, t), Become(t) PROVE Asked
BY DEF Step, Become, Now, Asked, LogShape, Bundle

LEMMA UpcallAsks ==
  ASSUME NEW d, LogShape, Upcall(d) PROVE Asked
<1> DEFINE s == [Now EXCEPT !.sock.h_ = TRUE, !.fd.wants = @ \ {d}]
           r == Handle(s, d)
           t == [r.s EXCEPT
                  !.fd.wants = IF r.o = "kYield" THEN @ \cup {d} ELSE @,
                  !.fd.squelch = IF r.o = "kSuspend" THEN @ \cup {d} ELSE @]
<1>1. UNCHANGED conn \/ Become(t)
  BY DEF Upcall
<1>2. Same(Now, s) /\ Bundle(s)
  BY NowIsBundle DEF Bundle, Same, Parts, Logged
<1> HIDE DEF s
<1>3. Step(Now, r.s) /\ Bundle(r.s)
  BY <1>2, HandleStep, SameThenStep DEF Step
<1> HIDE DEF r
<1>4. Same(r.s, t)
  BY <1>3 DEF Bundle, Same, Parts, Logged
<1> HIDE DEF t
<1>5. Step(Now, t)
  BY <1>3, <1>4, StepThenSame
<1>6. CASE UNCHANGED conn
  BY <1>6 DEF conn, Asked, LogShape
<1>7. CASE Become(t)
  BY <1>5, <1>7, BecomeAsks
<1> QED BY <1>1, <1>6, <1>7

LEMMA PrimeAsks ==
  ASSUME LogShape, PrimeStream PROVE Asked
<1> DEFINE p == Prime(stream)
           s == [Now EXCEPT !.stream = p.st]
           t == PostAll(s, p.posts)
<1>1. Become(t)
  BY DEF PrimeStream
<1> HIDE DEF p
<1>2. Same(Now, s) /\ Bundle(s)
  BY NowIsBundle DEF Bundle, Same, Parts, Logged
<1> HIDE DEF s
<1>3. Step(Now, t)
  BY <1>2, PostAllSame, SameThenSame, SameIsStep
<1> HIDE DEF t
<1> QED BY <1>1, <1>3, BecomeAsks

(* Every step asks the server at most once, or is a registration.          *)
LEMMA NextAsks ==
  ASSUME LogShape, [Next]_vars
  PROVE  \/ Asked /\ UNCHANGED server
         \/ /\ UNCHANGED <<package, log>>
            /\ \/ uri_map_' = uri_map_ /\ \E u \in Uris : holding' = {u}
               \/ uri_map_' = uri_map_ \cup holding /\ holding' = {}
<1>1. CASE PrimeStream
  BY <1>1, PrimeAsks DEF PrimeStream, SiloUnchanged
<1>2. CASE HandleRead
  BY <1>2, UpcallAsks DEF HandleRead, SiloUnchanged
<1>3. CASE HandleWrite
  BY <1>3, UpcallAsks DEF HandleWrite, SiloUnchanged
<1>4. ASSUME UNCHANGED <<package, log>> PROVE Asked
  BY <1>4 DEF Asked, LogShape
<1>5. CASE Poll \/ ActiveBegin \/ HandleIdle
  <2>1. UNCHANGED <<package, log>> /\ UNCHANGED server
    BY <1>5 DEF Poll, ActiveBegin, HandleIdle, conn, SiloUnchanged
  <2> QED BY <1>4, <2>1
<1>6. CASE PeerSends \/ PeerControls \/ PeerReceives \/ PeerHangsUp \/ Rekey
  <2>1. UNCHANGED <<package, log>> /\ UNCHANGED server
    BY <1>6 DEF PeerSends, PeerControls, PeerReceives, PeerHangsUp, Rekey,
                PeerUnchanged
  <2> QED BY <1>4, <2>1
<1>7. CASE UNCHANGED vars
  BY <1>4, <1>7 DEF vars, conn
<1>8. ASSUME NEW u \in Uris, RegisterBegin(u)
      PROVE  UNCHANGED <<package, log>> /\ uri_map_' = uri_map_ /\ holding' = {u}
  BY <1>8 DEF RegisterBegin, conn
<1>9. CASE RegisterEnd
  BY <1>9 DEF RegisterEnd, conn
<1> QED BY <1>1, <1>2, <1>3, <1>5, <1>6, <1>7, <1>8, <1>9 DEF Next

(* A package that passes the comparison, or has just been copied, is the   *)
(* map: without a registration under way Updated is exact.                 *)
LEMMA UpdatedIsExact ==
  ASSUME MapGrows, holding = {}
  PROVE  Updated(package).uri_map = uri_map_
<1>1. CASE package.generation = generation_
  <2>1. package.uri_map = uri_map_
    BY <1>1, FS_Subset DEF MapGrows, generation_
  <2> QED BY <1>1, <2>1 DEF Updated
<1>2. CASE package.generation # generation_
  BY <1>2 DEF Updated
<1> QED BY <1>1, <1>2

LEMMA FreshStep ==
  ASSUME FreshInv, [Next]_vars
  PROVE  /\ FreshInv'
         /\ log'.served # log.served /\ holding = {} => package'.uri_map = uri_map_
<1>1. CASE Asked /\ UNCHANGED server
  <2>1. LogShape'
    BY <1>1 DEF Asked
  <2>2. MapGrows'
    <3>1. CASE package' = package
      BY <1>1, <3>1 DEF FreshInv, MapGrows, server
    <3>2. CASE package' = Updated(package)
      BY <1>1, <3>2 DEF FreshInv, MapGrows, server, Updated, generation_
    <3> QED BY <1>1, <3>1, <3>2 DEF Asked
  <2> QED BY <1>1, <2>1, <2>2, UpdatedIsExact DEF FreshInv, Asked
<1>2. CASE /\ UNCHANGED <<package, log>>
           /\ \/ uri_map_' = uri_map_ /\ \E u \in Uris : holding' = {u}
              \/ uri_map_' = uri_map_ \cup holding /\ holding' = {}
  <2>1. IsFiniteSet(holding')
    BY <1>2, FS_Singleton, FS_EmptySet
  <2>2. IsFiniteSet(uri_map_ \cup holding)
    BY FS_Union DEF FreshInv, MapGrows
  <2>3. IsFiniteSet(uri_map_') /\ uri_map_ \subseteq uri_map_'
    BY <1>2, <2>2 DEF FreshInv, MapGrows
  <2> QED BY <1>2, <2>1, <2>3 DEF FreshInv, MapGrows, LogShape
<1> QED BY <1>1, <1>2, NextAsks DEF FreshInv

(* A request is looked up in a map that has its handler, if the handler    *)
(* was registered before and nobody holds the server's lock just then:     *)
(* HttpServer's Update never keeps a stale package because its generation  *)
(* happens to match (FreshMap).                                            *)
THEOREM MapIsFresh == Spec => FreshMap
<1>1. Init => FreshInv
  <2> SUFFICES ASSUME Init PROVE FreshInv
    OBVIOUS
  <2>1. LogShape
    BY DEF Init, LogShape, Logged
  <2>2. MapGrows
    BY ConnectionAssumption, FS_EmptySet DEF Init, MapGrows
  <2> QED BY <2>1, <2>2 DEF FreshInv
<1>2. FreshInv /\ [Next]_vars => FreshInv'
  BY FreshStep
<1>3. FreshInv /\ [Next]_vars =>
        [log'.served # log.served /\ holding = {} => package'.uri_map = uri_map_]_vars
  BY FreshStep
<1> QED BY <1>1, <1>2, <1>3, PTL DEF Spec, FreshMap
=============================================================================
