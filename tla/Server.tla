------------------------------- MODULE Server -------------------------------
(***************************************************************************)
(* The way of a connection into http/http_server.cc: the Listener accepts  *)
(* it, a TlsSniffer peeks at its first two bytes and ejects it, and the    *)
(* server gives it to a WebSocket or an SslSocket and primes its stream.   *)
(* Each hand-over is a registration with the Epoller, so this module       *)
(* composes with Epoller.  The server builds one silo, and all its upcalls *)
(* run there; the sockets' own behaviour is module HttpConnection.         *)
(***************************************************************************)
EXTENDS Epoller

CONSTANTS
    Conns,        \* connections of peers
    Listen,       \* the listening descriptor
    Main          \* the thread that creates the server

\* The descriptor of connection c while its sniffer and while its socket owns
\* it, and the call of Prime on its stream.
SniffFd(c) == <<"sniffer", c>>
SockFd(c) == <<"socket", c>>
PrimeFn(c) == <<"prime", c>>

\* The silo of the server.
S == 0

\* The stream that Prime is called on is the one its socket was made with, and
\* the listening descriptor is nobody else's.
ASSUME ServerAssumption ==
    /\ Main \in Clients /\ Listen \in Fds
    /\ \A c \in Conns :
          /\ {SniffFd(c), SockFd(c)} \subseteq Fds /\ PrimeFn(c) \in Fns
          /\ OwnerOf[PrimeFn(c)] = OwnerOf[SockFd(c)]
          /\ Listen # SockFd(c)

VARIABLES
    peer,         \* of every connection: its state, bytes sent (0..2), hung up
    kind,         \* what the first two bytes are: "tls", "http" or "junk"
    probably_tls_,
    ejecting      \* connections in the silo's list of ejects

serverVars == <<peer, kind, probably_tls_, ejecting>>

ServerInit ==
    /\ peer = [c \in Conns |-> [at |-> "away", bytes |-> 0, hup |-> FALSE]]
    /\ kind \in [Conns -> {"tls", "http", "junk"}]
    /\ probably_tls_ = [c \in Conns |-> FALSE]
    /\ ejecting = {}

\* HttpServer::Create and Listener::Build: an Epoller of one silo, to which the
\* listening socket is registered.
Create ==
    /\ threads_ = 0
    /\ threads_' = 1
    /\ todo' = [todo EXCEPT ![Main] = <<FdItem({Listen})>>]
    /\ UNCHANGED <<affinity_, route, lists, fds, functions, util, dead, sheds,
                   exiting_, serverVars>>

PeerConnects(c) ==
    /\ threads_ > 0 /\ peer[c].at = "away" /\ Listen \notin closed
    /\ peer' = [peer EXCEPT ![c].at = "backlog"]
    /\ UNCHANGED <<epollerVars, kind, probably_tls_, ejecting>>

PeerSends(c) ==
    /\ peer[c].at # "away" /\ peer[c].bytes < 2 /\ ~peer[c].hup
    /\ peer' = [peer EXCEPT ![c].bytes = @ + 1]
    /\ UNCHANGED <<epollerVars, kind, probably_tls_, ejecting>>

PeerHangsUp(c) ==
    /\ peer[c].at # "away" /\ ~peer[c].hup
    /\ peer' = [peer EXCEPT ![c].hup = TRUE]
    /\ UNCHANGED <<epollerVars, kind, probably_tls_, ejecting>>

-----------------------------------------------------------------------------
(* Upcalls, all in the thread of the one silo *)

Upcall(f) == Idle(S) /\ f \in table[S]

\* What the silo's thread calls Route for next, and nothing else of the Epoller.
Routes(items) ==
    /\ todo' = [todo EXCEPT ![S] = items]
    /\ UNCHANGED <<affinity_, route, lists, handles_, functions, silos>>

Closes(f) == CloseFd(S, f)

\* Listener::HandleRead, NonBlockingAccept, HttpServer::OnInboundConnection.
\* Its CHECK_OK would end the process if the descriptor that was just accepted
\* could not be made non-blocking: taken not to happen.
Accept(c) ==
    /\ Upcall(Listen) /\ peer[c].at = "backlog"
    /\ peer' = [peer EXCEPT ![c].at = "accepted"]
    /\ Routes(<<FdItem({SniffFd(c)})>>)
    /\ UNCHANGED <<table, closed, kind, probably_tls_, ejecting>>

\* Any error of accept4 but EAGAIN closes the listening descriptor.
AcceptFails == Upcall(Listen) /\ Closes(Listen) /\ UNCHANGED serverVars

\* TlsSniffer::HandleRead: two bytes decide, one byte or none before the end of
\* the input is the end of the connection.
SniffSlip(c) ==
    /\ Upcall(SniffFd(c)) /\ c \notin ejecting
    /\ peer[c].bytes > 0 \/ peer[c].hup
    /\ IF peer[c].bytes = 2 /\ kind[c] # "junk"
       THEN /\ probably_tls_' = [probably_tls_ EXCEPT ![c] = kind[c] = "tls"]
            /\ ejecting' = ejecting \cup {c}
            /\ UNCHANGED epollerVars
       ELSE /\ IF peer[c].bytes = 2 THEN UNCHANGED epollerVars ELSE Closes(SniffFd(c))
            /\ UNCHANGED <<probably_tls_, ejecting>>
    /\ UNCHANGED <<peer, kind>>

Sniff(c) ==
    /\ Upcall(SniffFd(c)) /\ c \notin ejecting
    /\ peer[c].bytes > 0 \/ peer[c].hup
    /\ IF peer[c].bytes = 2 /\ kind[c] # "junk"
       THEN /\ probably_tls_' = [probably_tls_ EXCEPT ![c] = kind[c] = "tls"]
            /\ ejecting' = ejecting \cup {c}
            /\ UNCHANGED epollerVars
       ELSE Closes(SniffFd(c)) /\ UNCHANGED <<probably_tls_, ejecting>>
    /\ UNCHANGED <<peer, kind>>

\* A sniffer has the default HandleIdle, which closes.
SniffIdle(c) ==
    /\ Upcall(SniffFd(c)) /\ c \notin ejecting
    /\ Closes(SniffFd(c))
    /\ UNCHANGED serverVars

FireUpSlip(c) == <<FnItem(PrimeFn(c)), FdItem({SockFd(c)})>>

\* The socket is registered by its New, and then its stream is to be primed.
FireUp(c) == <<FdItem({SockFd(c)}), FnItem(PrimeFn(c))>>

\* RunEjecters, TlsSniffer::HandleEject, HttpServer::Sniffed, FireUpHttp and
\* FireUpHttps; of the two only the latter can fail before the registration.
HandleEject(c) ==
    /\ Upcall(SniffFd(c)) /\ c \in ejecting
    /\ ejecting' = ejecting \ {c}
    /\ table' = [table EXCEPT ![S] = @ \ {SniffFd(c)}]
    /\ \/ Routes(FireUp(c)) /\ UNCHANGED closed
       \/ probably_tls_[c] /\ Routes(<<>>) /\ closed' = closed \cup {SockFd(c)}
    /\ UNCHANGED <<peer, kind, probably_tls_>>

\* The socket closes: the peer went away, or its stream has come to an end.
SocketCloses(c) ==
    /\ Upcall(SockFd(c)) /\ (peer[c].hup \/ PrimeFn(c) \in ran)
    /\ Closes(SockFd(c))
    /\ UNCHANGED serverVars

ConnUpcall(c) == Sniff(c) \/ HandleEject(c)

ServerNext ==
    \/ Create
    \/ \E c \in Conns : PeerConnects(c) \/ PeerSends(c) \/ PeerHangsUp(c)
    \/ \E c \in Conns : Accept(c) \/ ConnUpcall(c) \/ SniffIdle(c) \/ SocketCloses(c)
    \/ AcceptFails
    \/ \E t \in {Main, S} : Route(t) /\ UNCHANGED serverVars
    \/ (GetInList(S) \/ Admission(S)) /\ UNCHANGED serverVars

-----------------------------------------------------------------------------
Vars == <<epollerVars, serverVars>>

ServerSpec == EpollerInit /\ ServerInit /\ [][ServerNext]_Vars

\* Prime runs on a socket that is in the epoll set, whatever the peer does during
\* the hand-over: it is never given up, and never runs when the socket's
\* descriptor is gone and the first request for input would be fatal.
PrimeFindsSocket ==
    [][\A c \in Conns :
          /\ PrimeFn(c) \in ran' \ ran => SockFd(c) \in table[S]
          /\ PrimeFn(c) \notin abandoned']_Vars

\* A connection whose peer has sent two bytes or hung up does not linger between
\* the listener, the sniffer and its socket: its stream is primed or it is closed.
ConnectionsSettle ==
    \A c \in Conns :
        peer[c].at # "away" /\ (peer[c].bytes = 2 \/ peer[c].hup) ~>
            \/ PrimeFn(c) \in ran
            \/ {SniffFd(c), SockFd(c), Listen} \cap closed # {}
=============================================================================
