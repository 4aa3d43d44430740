--------------------------- MODULE HttpConnection ---------------------------
(***************************************************************************)
(* One connection of the HTTP server, from its admission to a silo until   *)
(* it is closed: http::WebSocket or net::SslSocket with its handshaker,    *)
(* the HttpStream it carries, the URI map of HttpServer, and the peer.     *)
(*                                                                         *)
(* The silo is what Silo shows of it to one descriptor: wanted and         *)
(* squelched directions, edges that are reported once, a read upcall       *)
(* followed by a write upcall.  OpenSSL is external: it transfers plain    *)
(* bytes, exchanges control messages during the handshake, and may owe the *)
(* peer, or wait for, a control message later on (due), so that a read     *)
(* wants to write or a write wants to read.                                *)
(***************************************************************************)
EXTENDS HttpStream

CONSTANTS Kinds,        \* the sockets in question: "ssl", "web"
          Pipelining,   \* the peer sends requests without awaiting responses
          SendBuffer,   \* capacity of the kernel's send buffer
          FlightLen,    \* length of the server's handshake messages
          Rekeys,       \* what may become due after the handshake
          Uris, Early,  \* the handlers, and those registered from the start
          MaxRekeys     \* bound: control exchanges after the handshake

Dirs == {"read", "write"}
Other(d) == IF d = "read" THEN "write" ELSE "read"

ASSUME ConnectionAssumption ==
  /\ Kinds \subseteq {"ssl", "web"}
  /\ Rekeys \subseteq Dirs /\ Early \subseteq Uris /\ IsFiniteSet(Early)
  /\ {SendBuffer, FlightLen} \subseteq Nat \ {0} /\ MaxRekeys \in Nat

VARIABLES kind,      \* the class of the socket
          stream,    \* the HttpStream
          sock,      \* members of the socket and its handshaker
          fd,        \* the PerFd: wanted and squelched directions
          ssl,       \* external: the SSL object
          net,       \* kernel: bytes and control message to read, bytes sent
          package,   \* the silo thread's copy of the URI map
          log,       \* history: requests served, bytes posted and written;
                     \* spoilt: close_requested_ began as true (WebSocket does
                     \* not initialise it) or a kClose was dropped
          pc,        \* where the silo is with this descriptor
          edge,      \* kernel: an edge is not yet reported
          hup,       \* the peer has gone
          sent,      \* how many bytes the peer has sent
          rekeys,    \* the bound used up so far
          uri_map_,  \* HttpServer::uri_map_
          holding    \* what the holder of HttpServer::mu_ is registering

server == <<uri_map_, holding>>
conn == <<stream, sock, fd, ssl, net, package, log>>
vars == <<kind, conn, pc, edge, hup, sent, rekeys, server>>

Script == FlattenSeq([k \in DOMAIN Requests |-> Bytes(k)])
Room(n) == SendBuffer - n.flight
Ready == (IF net.in # <<>> \/ net.ctl # "none" \/ hup THEN {"read"} ELSE {})
         \cup (IF Room(net) > 0 THEN {"write"} ELSE {})
generation_ == Cardinality(uri_map_)

Init ==
  /\ kind \in Kinds
  /\ stream = NewStream
  /\ \E uninitialised \in (IF kind = "web" THEN BOOLEAN ELSE {FALSE}) :
       /\ sock = [h_ |-> FALSE, sources_ |-> <<>>, sinks_ |-> <<>>,
                  close_requested_ |-> uninitialised, crossed |-> {},
                  in_progress_ |-> kind = "ssl", wants |-> {"read"}]
       /\ log = [served |-> <<>>, posted |-> <<>>, out |-> <<>>,
                 spoilt |-> uninitialised]
  /\ fd = [wants |-> {}, squelch |-> {}]
  /\ ssl = [step |-> "hello", left |-> FlightLen, wrote |-> 0, due |-> "none"]
  /\ net = [in |-> <<>>, ctl |-> "none", flight |-> 0]
  /\ package = [generation |-> 0, uri_map |-> {}]
  /\ pc = "admitted" /\ edge = TRUE /\ hup = FALSE /\ sent = 0 /\ rekeys = 0
  /\ uri_map_ = Early /\ holding = {}
----------------------------------------------------------------------------
(* As in Silo, an upcall works on a bundle of what it may change.          *)
Now == [stream |-> stream, sock |-> sock, fd |-> fd, ssl |-> ssl, net |-> net,
        package |-> package, log |-> log]

Become(s) == /\ stream' = s.stream /\ sock' = s.sock /\ fd' = s.fd
             /\ ssl' = s.ssl /\ net' = s.net /\ package' = s.package
             /\ log' = s.log

Returns(s, o) == [s |-> s, o |-> o]

(* Context::RequestRead and RequestWrite.                                  *)
Request(s, d) == [s EXCEPT !.fd.wants = @ \cup {d}, !.fd.squelch = @ \ {d}]

(* Asked for only if the queue was empty and an upcall has told the socket *)
(* its handle.                                                             *)
RequestIf(s, empty, d) == IF empty /\ s.sock.h_ THEN Request(s, d) ELSE s

(* Slip: the first response after an empty queue asks for no write upcall. *)
PostSource_NoRequest(s, data) ==
  IF s.sock.close_requested_ THEN s
  ELSE [s EXCEPT !.sock.sources_ = Append(@, data), !.log.posted = @ \o data]

PostSource(s, data) ==
  IF s.sock.close_requested_ THEN s
  ELSE [RequestIf(s, s.sock.sources_ = <<>>, "write")
          EXCEPT !.sock.sources_ = Append(@, data), !.log.posted = @ \o data]

PostSink(s, n) ==
  [RequestIf(s, s.sock.sinks_ = <<>>, "read") EXCEPT !.sock.sinks_ = Append(@, n)]

PostClose(s) ==
  RequestIf([s EXCEPT !.sock.close_requested_ = TRUE],
            s.sock.sources_ = <<>>, "write")

Post(s, p) ==
  CASE p.op = "source" -> PostSource(s, p.data)
    [] p.op = "sink" -> PostSink(s, p.size)
    [] p.op = "close" -> PostClose(s)

(* All of them, in their order.  They reach the queues and what is wanted. *)
PostAll(s, posts) ==
  LET p == FoldLeft(Post, s, posts)
  IN  [s EXCEPT !.sock = p.sock, !.fd = p.fd, !.log.posted = p.log.posted]

(* Slip: a package of an older generation is kept.                         *)
Updated_Never(p) == IF p.generation = 0 THEN [generation |-> generation_,
                                              uri_map |-> uri_map_] ELSE p

(* UpdateIfNeeded and Update: without the lock the old copy is used.       *)
Updated(p) == IF p.generation = generation_ \/ holding # {} THEN p
              ELSE [generation |-> generation_, uri_map |-> uri_map_]

(* SinkBuffer's cleanup: the stream takes the bytes and posts.             *)
Cleanup(s, data) ==
  LET fresh == Updated(s.package)
      r == AddBytes(s.stream, data, fresh.uri_map)
  IN  PostAll([s EXCEPT !.stream = r.st,
                        !.package = IF r.called THEN fresh ELSE @,
                        !.log.served = IF r.seen = <<>> THEN @
                                       ELSE Append(@, r.seen)],
              r.posts)

(* sinks_.pop() runs the cleanup of the first buffer while the buffer is   *)
(* still in the queue.                                                     *)
Deliver(s, data) == [Cleanup(s, data) EXCEPT !.sock.sinks_ = Tail(@)]
----------------------------------------------------------------------------
(* External: what SSL_read and SSL_write do first with a control message.  *)
Settled(s) ==
  LET got == s.net.ctl # "none" /\ s.ssl.due = "read"
      gave == s.ssl.due = "write" /\ Room(s.net) > 0
  IN  [s EXCEPT !.ssl.due = IF got \/ gave THEN "none" ELSE @,
                !.net.ctl = IF got THEN "none" ELSE @,
                !.net.flight = IF gave THEN @ + 1 ELSE @]

(* The operation of direction d has to wait for the other direction.       *)
Crossed(s, d) ==
  Returns(Request([s EXCEPT !.sock.crossed = @ \cup {d}], Other(d)), "kSuspend")

(* NonBlockingRead or NonBlockingSslRead into the first sink buffer.  A    *)
(* read of no bytes looks like the end of the stream.                      *)
Read(s) ==
  LET n == Min({Head(s.sock.sinks_), Len(s.net.in)})
  IN  IF s.ssl.due = "write" THEN Crossed(s, "read")
      ELSE IF Head(s.sock.sinks_) = 0 THEN Returns(s, "error")
      ELSE IF n > 0
      THEN Returns(Deliver([s EXCEPT !.net.in = SubSeq(@, n + 1, Len(@))],
                           SubSeq(s.net.in, 1, n)), "kYield")
      ELSE Returns(s, IF hup THEN "error" ELSE "kFdEagain")

AttemptRead(s) == IF s.sock.sinks_ = <<>> THEN Returns(s, "kSuspend")
                  ELSE Read(Settled(s))

(* n more bytes of the first source buffer are in the kernel's hands.      *)
Sent(s, n) ==
  [s EXCEPT !.net.flight = @ + n,
            !.log.out = @ \o SubSeq(Head(s.sock.sources_), s.ssl.wrote + 1,
                                    s.ssl.wrote + n)]

(* Slip: a short write is taken for a complete one.                        *)
Consume_All(s, n) == [s EXCEPT !.sock.sources_ = Tail(@)]

(* SourceBuffer::Consume, and the pop when nothing remains.                *)
Consume(s, n) ==
  LET data == Head(s.sock.sources_)
  IN  [s EXCEPT !.sock.sources_ =
         IF n = Len(data) THEN Tail(@)
         ELSE [@ EXCEPT ![1] = SubSeq(data, n + 1, Len(data))]]

(* NonBlockingWrite may write less than asked; SSL_write returns when it   *)
(* has written all, and remembers what it has written until then.          *)
Write(s) ==
  LET size == Len(Head(s.sock.sources_))
      n == Min({Room(s.net), size - s.ssl.wrote})
  IN  IF s.ssl.due = "read" /\ hup THEN Returns(s, "error")
      ELSE IF s.ssl.due = "read" THEN Crossed(s, "write")
      ELSE IF kind = "web" /\ n > 0 THEN Returns(Consume(Sent(s, n), n), "kYield")
      ELSE IF kind = "ssl" /\ s.ssl.wrote + n = size
      THEN Returns(Consume([Sent(s, n) EXCEPT !.ssl.wrote = 0], size), "kYield")
      ELSE Returns([Sent(s, n) EXCEPT !.ssl.wrote = @ + n], "kFdEagain")

(* Slip: the close request is looked at before the write.                  *)
AttemptWrite_EarlyClose(s) ==
  IF s.sock.sources_ = <<>> THEN Returns(s, "kSuspend")
  ELSE LET w == Write(Settled(s))
       IN  IF s.sock.sources_ = <<>> /\ s.sock.close_requested_
           THEN Returns(w.s, "kClose") ELSE w

AttemptWrite(s) ==
  IF s.sock.sources_ = <<>> THEN Returns(s, "kSuspend")
  ELSE LET w == Write(Settled(s))
       IN  IF w.s.sock.sources_ = <<>> /\ w.s.sock.close_requested_
           THEN Returns(w.s, "kClose") ELSE w

Attempt(s, d) == IF d = "read" THEN AttemptRead(s) ELSE AttemptWrite(s)

(* HandleReadEstablished and HandleWriteEstablished, and all of WebSocket: *)
(* an operation that waited for this direction is repeated first, and its  *)
(* outcome is swallowed.                                                   *)
Established(s, d) ==
  LET o == Other(d)
      r == Attempt(Request([s EXCEPT !.sock.crossed = @ \ {o}], o), o)
  IN  IF o \in s.sock.crossed
      THEN Returns([r.s EXCEPT !.log.spoilt = @ \/ r.o = "kClose"],
                   IF r.o = "error" THEN "error" ELSE "kYield")
      ELSE Attempt(s, d)
----------------------------------------------------------------------------
(* External: SSL_accept reads a hello, writes its flight and reads the     *)
(* answer, as far as it gets.                                              *)
SslAccept(s) ==
  LET hello == s.ssl.step = "hello" /\ s.net.ctl = "good"
      a == IF hello THEN [s EXCEPT !.ssl.step = "flight", !.net.ctl = "none"] ELSE s
      n == IF a.ssl.step = "flight" THEN Min({Room(a.net), a.ssl.left}) ELSE 0
      b == [a EXCEPT !.ssl.left = @ - n, !.net.flight = @ + n,
                     !.ssl.step = IF @ = "flight" /\ n = a.ssl.left
                                  THEN "finish" ELSE @]
  IN  IF b.ssl.step = "finish" /\ b.net.ctl = "good"
      THEN [b EXCEPT !.ssl.step = "done", !.net.ctl = "none"] ELSE b

(* SslHandshaker::RunAccept: the outcome kComplete, kWantedRead,           *)
(* kWantedWrite or an error, as the set of directions wanted.              *)
RunAccept(s) ==
  LET t == SslAccept(s)
      bad == s.net.ctl = "bad" \/ (hup /\ s.net.ctl = "none")
  IN  [t EXCEPT !.sock.in_progress_ = ~bad /\ t.ssl.step # "done",
                !.sock.wants = IF bad \/ t.ssl.step = "done" THEN {}
                               ELSE IF t.ssl.step = "flight" THEN {"write"}
                               ELSE {"read"}]

(* The first half of SslSocket::HandleRead and HandleWrite.                *)
Handshake(s, d) ==
  LET t == RunAccept(s)
  IN  IF d \notin s.sock.wants THEN Returns(s, "kSuspend")
      ELSE IF t.ssl.step = "done" THEN Returns(Request(t, Other(d)), "kYield")
      ELSE IF t.sock.wants = {} THEN Returns(t, "error")
      ELSE IF d \in t.sock.wants THEN Returns(t, "kFdEagain")
      ELSE Returns(Request(t, Other(d)), "kSuspend")

Handle(s, d) == IF s.sock.in_progress_ THEN Handshake(s, d) ELSE Established(s, d)

(* RunActives: the upcall of direction d, if it is wanted, and its outcome.*)
Upcall(d) ==
  LET r == Handle([Now EXCEPT !.sock.h_ = TRUE, !.fd.wants = @ \ {d}], d)
      after == IF d = "read" THEN "write" ELSE "idle"
  IN  \/ d \notin fd.wants /\ pc' = after /\ UNCHANGED conn
      \/ /\ d \in fd.wants
         /\ pc' = IF r.o \in {"kClose", "error"} THEN "closed" ELSE after
         /\ Become([r.s EXCEPT
               !.fd.wants = IF r.o = "kYield" THEN @ \cup {d} ELSE @,
               !.fd.squelch = IF r.o = "kSuspend" THEN @ \cup {d} ELSE @])

SiloUnchanged == UNCHANGED <<kind, hup, sent, rekeys, server>>

(* RunAdmission: the function that HttpServer sends along with the         *)
(* descriptor primes the stream before the first upcall.                   *)
PrimeStream ==
  /\ pc = "admitted" /\ pc' = "idle"
  /\ LET p == Prime(stream)
     IN  Become(PostAll([Now EXCEPT !.stream = p.st], p.posts))
  /\ UNCHANGED edge /\ SiloUnchanged

(* EpollPwait2 reports the edge; a hang-up closes.                         *)
Poll ==
  /\ pc = "idle" /\ fd.wants = {} /\ edge
  /\ edge' = FALSE
  /\ pc' = IF hup THEN "closed" ELSE "idle"
  /\ fd' = [fd EXCEPT !.wants = Ready \ fd.squelch]
  /\ UNCHANGED <<stream, sock, ssl, net, package, log>> /\ SiloUnchanged

ActiveBegin ==
  /\ pc = "idle" /\ fd.wants # {} /\ pc' = "read"
  /\ UNCHANGED <<conn, edge>> /\ SiloUnchanged

HandleRead == pc = "read" /\ Upcall("read") /\ UNCHANGED edge /\ SiloUnchanged
HandleWrite == pc = "write" /\ Upcall("write") /\ UNCHANGED edge /\ SiloUnchanged

(* HandleIdle of IoHandler: the idle descriptor is closed.                 *)
HandleIdle ==
  /\ pc = "idle" /\ fd.wants = {} /\ pc' = "closed"
  /\ UNCHANGED <<conn, edge>> /\ SiloUnchanged
----------------------------------------------------------------------------
(* The peer.  Its bytes arrive in pieces of any size.                      *)
PeerUnchanged == UNCHANGED <<kind, stream, sock, fd, package, log, pc, server>>

(* How many bytes the peer may have sent: without pipelining, up to the    *)
(* end of the first request that is not answered yet.                      *)
Answered(k) == Len(log.out) >= k * ResponseLen /\ net.flight = 0
EndOf(k) == Len(FlattenSeq([i \in 1..k |-> Bytes(i)]))
Sendable == {n \in (sent + 1)..Len(Script) :
               Pipelining \/ \A k \in DOMAIN Requests :
                                EndOf(k) < n => Answered(k)}

PeerSends ==
  /\ pc # "closed" /\ ~hup /\ ~sock.in_progress_
  /\ \E n \in Sendable : /\ net' = [net EXCEPT !.in = @ \o SubSeq(Script, sent + 1, n)]
                         /\ sent' = n
  /\ edge' = TRUE
  /\ PeerUnchanged /\ UNCHANGED <<ssl, hup, rekeys>>

(* Control messages: the handshake's (good or not), or one that is due.    *)
PeerControls ==
  /\ pc # "closed" /\ ~hup /\ kind = "ssl" /\ net.ctl = "none"
  /\ \/ ssl.step = "hello" \/ ssl.due = "read"
     \/ (ssl.step = "finish" /\ net.flight = 0)
  /\ \E c \in {"good", "bad"} : /\ c = "bad" => sock.in_progress_
                               /\ net' = [net EXCEPT !.ctl = c]
  /\ edge' = TRUE
  /\ PeerUnchanged /\ UNCHANGED <<ssl, hup, sent, rekeys>>

PeerReceives ==
  /\ pc # "closed" /\ net.flight > 0
  /\ net' = [net EXCEPT !.flight = 0] /\ edge' = TRUE
  /\ PeerUnchanged /\ UNCHANGED <<ssl, hup, sent, rekeys>>

PeerHangsUp ==
  /\ pc # "closed" /\ ~hup /\ hup' = TRUE /\ edge' = TRUE
  /\ PeerUnchanged /\ UNCHANGED <<ssl, net, sent, rekeys>>

(* External: a control message becomes due after the handshake.            *)
Rekey ==
  /\ pc # "closed" /\ ssl.step = "done" /\ ssl.due = "none" /\ rekeys < MaxRekeys
  /\ \E d \in Rekeys : ssl' = [ssl EXCEPT !.due = d]
  /\ rekeys' = rekeys + 1
  /\ PeerUnchanged /\ UNCHANGED <<net, edge, hup, sent>>

(* HttpServer::RegisterUriHandler on another thread.                       *)
RegisterBegin(u) ==
  /\ holding = {} /\ u \notin uri_map_ /\ holding' = {u}
  /\ UNCHANGED <<kind, conn, pc, edge, hup, sent, rekeys, uri_map_>>

RegisterEnd ==
  /\ holding # {} /\ uri_map_' = uri_map_ \cup holding /\ holding' = {}
  /\ UNCHANGED <<kind, conn, pc, edge, hup, sent, rekeys>>
----------------------------------------------------------------------------
Next == \/ PrimeStream \/ Poll \/ ActiveBegin \/ HandleRead \/ HandleWrite
        \/ HandleIdle
        \/ PeerSends \/ PeerControls \/ PeerReceives \/ PeerHangsUp \/ Rekey
        \/ \E u \in Uris : RegisterBegin(u)
        \/ RegisterEnd

Spec == Init /\ [][Next]_vars

(* The silo's thread has something to do with the descriptor, and does it. *)
SiloHasWork == \/ pc \in {"admitted", "read", "write"}
               \/ pc = "idle" /\ (fd.wants # {} \/ edge)
SiloWorks == pc' # pc \/ (edge /\ ~edge')

(* The silo's thread runs (weak fairness, written out), and a peer that    *)
(* stays reads what it is sent and answers control messages.  It need not  *)
(* send requests.                                                          *)
FairSpec == /\ Spec /\ ([]<>~SiloHasWork \/ []<><<SiloWorks>>_vars)
            /\ WF_vars(PeerReceives) /\ WF_vars(PeerControls)
----------------------------------------------------------------------------
(* The stream has at most one buffer in the socket's queue, its buffer     *)
(* holds what it counts, and the kernel's send buffer is not overfilled.   *)
TypeOK ==
  /\ fd.wants \subseteq Dirs /\ fd.squelch \subseteq Dirs
  /\ sock.crossed \subseteq Dirs /\ sock.wants \subseteq Dirs
  /\ sock.sinks_ \in Seq(Nat) /\ Len(sock.sinks_) <= 1
  /\ stream.bytes_ \in 0..Len(stream.buf_)
  /\ Len(stream.buf_) <= max_buffer_size
  /\ net.flight \in 0..SendBuffer /\ ssl.left \in 0..FlightLen
  /\ pc \in {"admitted", "idle", "read", "write", "closed"}

(* The server is asked for the requests that the peer sent, in their order *)
(* and with their bodies, however the bytes are cut on their way.          *)
ServedInOrder ==
  /\ Len(log.served) <= Len(Requests)
  /\ \A i \in DOMAIN log.served : log.served[i] = Bytes(i)

(* What is posted is written once and in order: what has been written,     *)
(* followed by what is queued, is what was posted, over short writes,      *)
(* retries and repeated SSL operations.                                    *)
OutputIntact ==
  LET queued == FlattenSeq(sock.sources_)
  IN  log.posted = log.out \o SubSeq(queued, ssl.wrote + 1, Len(queued))

(* A direction gets an upcall when epoll has something to report for it.   *)
Listening(d) == d \notin fd.squelch /\ (d \in Ready => edge)

(* No lost wakeup: when the silo is done with the descriptor, each queue   *)
(* that is not empty (during the handshake: the direction SSL_accept asked *)
(* for) has its direction listening, or the other one if the operation is  *)
(* crossed.                                                                *)
Armed ==
  (pc = "idle" /\ fd.wants = {}) =>
    IF sock.in_progress_ THEN \A d \in sock.wants : Listening(d)
    ELSE \A d \in Dirs :
           (IF d = "read" THEN sock.sinks_ # <<>> ELSE sock.sources_ # <<>>)
             => Listening(IF d \in sock.crossed THEN Other(d) ELSE d)

(* A request is looked up in a map that has its handler, if the handler    *)
(* was registered before and nobody holds the server's lock just then.     *)
FreshMap ==
  [][log'.served # log.served /\ holding = {} => package'.uri_map = uri_map_]_vars

(* The connection has come to its end.  Two kinds of connection are        *)
(* excepted from what follows, and only the idle timeout ends them: one    *)
(* that began with close_requested_ set drops every response, and one      *)
(* whose queue is emptied by a write repeated in a read upcall loses the   *)
(* kClose of that write.                                                   *)
Over == pc = "closed" \/ log.spoilt

(* Every request that the peer has sent to its end is answered, or the     *)
(* connection is over.                                                     *)
RequestsAnswered == \A k \in DOMAIN Requests :
  (sent >= EndOf(k)) ~> (Over \/ Len(log.out) >= k * ResponseLen)

(* A close that was asked for is carried out once the queue is written; it *)
(* does not wait for the idle timeout.                                     *)
CloseCompletes == sock.close_requested_ ~> Over

(* The bytes that the stream keeps are the ones that follow what it has    *)
(* handed over: ShiftVector moves the unconsumed bytes down unharmed.      *)
UnconsumedKept ==
  LET done == Len(FlattenSeq(log.served))
  IN  stream.r_ => SubSeq(stream.buf_, 1, stream.bytes_)
                     = SubSeq(Script, done + 1, done + stream.bytes_)

(* Until max_buffer_size is reached, the stream offers room for more: a    *)
(* buffer without room makes the next read look like the end of input.     *)
RoomForMore == \A i \in DOMAIN sock.sinks_ :
  stream.bytes_ < max_buffer_size => sock.sinks_[i] > 0
(* The socket is sound: types, output intact over short and repeated       *)
(* writes, and no queue left without a direction that will serve it.       *)
SocketSound == TypeOK /\ OutputIntact /\ Armed
=============================================================================
