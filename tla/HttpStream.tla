----------------------------- MODULE HttpStream -----------------------------
(***************************************************************************)
(* http::HttpStream and http::RequestParser, and how HttpServer::Serve     *)
(* answers: what happens, in one call of AddBytes, to the bytes of a       *)
(* connection.  The module is a library of operators; HttpConnection runs  *)
(* them inside the upcalls of a socket.                                    *)
(*                                                                         *)
(* Byte j of the k-th request of the connection is <<k, j>>.  Byte 1 is    *)
(* the request line with its headers, byte 2 the blank line that ends      *)
(* them, and the rest is the body.  Zero is what resize() fills in.        *)
(***************************************************************************)
EXTENDS Naturals, Sequences, SequencesExt, FiniteSetsExt

CONSTANTS Requests,              \* Requests[k]: [body, uri, bad]
          standing_buffer_size, max_buffer_size,
          Failing,               \* URIs whose handler returns an error
          ResponseLen            \* the length of every response

ASSUME StreamAssumption ==
  /\ \A k \in DOMAIN Requests : /\ Requests[k].body \in Nat
                                /\ Requests[k].bad \in BOOLEAN
  /\ {standing_buffer_size, max_buffer_size, ResponseLen} \subseteq Nat \ {0}

Zero == <<0, 0>>
Length(k) == 2 + Requests[k].body
Bytes(k) == [j \in 1..Length(k) |-> <<k, j>>]

(* RequestParser::Parse: bad stands for a malformed line, header or        *)
(* Content-Length, which is noticed once the headers are complete.         *)
Parse(s) ==
  LET ends == {i \in DOMAIN s : s[i][2] = 2}
      n == Length(s[1][1])
  IN  IF ends = {} THEN [code |-> "more"]
      ELSE IF Min(ends) # 2 \/ s[1][2] # 1 \/ Requests[s[1][1]].bad
      THEN [code |-> "fatal"]
      ELSE IF Len(s) < n THEN [code |-> "more"]
      ELSE [code |-> "ok", n |-> n, request |-> SubSeq(s, 1, n)]
----------------------------------------------------------------------------
(* The calls of io::Poster that one AddBytes makes, in their order.        *)
Source(k, status) ==
  [op |-> "source", data |-> [j \in 1..ResponseLen |-> <<k, status, j>>]]
Sink(n) == [op |-> "sink", size |-> n]
Close == [op |-> "close"]

(* HttpServer::Serve for a request whose first byte is b.                  *)
Serve(b, uri_map) ==
  LET uri == Requests[b[1]].uri
  IN  IF uri \notin uri_map THEN [ok |-> TRUE, posts |-> <<Source(b[1], 404)>>]
      ELSE IF uri \in Failing THEN [ok |-> FALSE, posts |-> <<>>]
      ELSE [ok |-> TRUE, posts |-> <<Source(b[1], 200)>>]

Resize(buf, n) ==
  [i \in 1..n |-> IF i <= Len(buf) THEN buf[i] ELSE Zero]

(* Slip: the consumed bytes stay.                                          *)
ShiftVector_KeepsCount(st, n) == st

(* The unconsumed bytes move down; the code takes them from bytes_ on, not *)
(* from n on, and may read past the end.                                   *)
ShiftVector(st, n) ==
  LET live == st.bytes_ - n
      old == Resize(st.buf_, st.bytes_ + live)
  IN  [st EXCEPT !.bytes_ = live,
                 !.buf_ = [i \in DOMAIN @ |->
                             IF i <= live THEN old[st.bytes_ + i] ELSE @[i]]]

Avail(st) == Len(st.buf_) - st.bytes_
GrowTo(st) == IF Avail(st) < standing_buffer_size
              THEN Min({max_buffer_size, 2 * Len(st.buf_)}) ELSE Len(st.buf_)

MayGrow(st) == Avail(st) < standing_buffer_size => GrowTo(st) # Len(st.buf_)
GrowVectorIfNeeded(st) == [st EXCEPT !.buf_ = Resize(@, GrowTo(st))]

TrimVectorIfNeeded(st) ==
  IF st.bytes_ <= standing_buffer_size
  THEN [st EXCEPT !.buf_ = Resize(@, standing_buffer_size)] ELSE st

(* The end of TryParse, and ReportSadIfNeeded when anything failed: Serve  *)
(* is asked with an empty path, which nothing is registered for.  called   *)
(* says whether the server was asked, seen what it was asked to serve.     *)
Rearm(st, posts, seen) ==
  LET t == TrimVectorIfNeeded(GrowVectorIfNeeded(st))
  IN  [st |-> t, posts |-> Append(posts, Sink(Avail(t))),
       seen |-> seen, called |-> seen # <<>>]

ReportSad(st, posts, seen) ==
  [st |-> [st EXCEPT !.r_ = FALSE], posts |-> posts \o <<Source(0, 404), Close>>,
   seen |-> seen, called |-> TRUE]

Continue(st, posts, seen) ==
  IF MayGrow(st) THEN Rearm(st, posts, seen) ELSE ReportSad(st, posts, seen)

TryParse(st, uri_map) ==
  LET p == Parse(SubSeq(st.buf_, 1, st.bytes_))
      served == Serve(p.request[1], uri_map)
  IN  IF p.code = "fatal" THEN ReportSad(st, <<>>, <<>>)
      ELSE IF p.code = "more" THEN Continue(st, <<>>, <<>>)
      ELSE IF served.ok
      THEN Continue(ShiftVector(st, p.n), served.posts, p.request)
      ELSE ReportSad(st, served.posts, p.request)

(* The cleanup of a SinkBuffer into which data was written: the buffer     *)
(* was posted at offset bytes_.                                            *)
AddBytes(st, data, uri_map) ==
  LET n == st.bytes_ + Len(data)
  IN  TryParse([st EXCEPT !.bytes_ = n,
                          !.buf_ = [i \in DOMAIN @ |->
                                      IF i \in (st.bytes_ + 1)..n
                                      THEN data[i - st.bytes_] ELSE @[i]]],
               uri_map)

(* A stream before and after Prime.                                        *)
NewStream == [buf_ |-> <<>>, bytes_ |-> 0, r_ |-> TRUE]
Prime(st) ==
  LET t == [st EXCEPT !.buf_ = Resize(@, standing_buffer_size)]
  IN  [st |-> t, posts |-> <<Sink(Len(t.buf_))>>]
=============================================================================
