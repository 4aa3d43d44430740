------------------------------ MODULE MCServer ------------------------------
(***************************************************************************)
(* Two questions in one run, told apart by `focus': the Epoller with two   *)
(* silos and client threads that register descriptors of one handler, and  *)
(* the HTTP server with its one silo.                                      *)
(***************************************************************************)
EXTENDS Server

CONSTANTS f1, f2, fn1, A, Foci

MCClientFds == {f1, f2}
MCFds == {f1, f2, Listen} \cup {SniffFd(c) : c \in Conns}
            \cup {SockFd(c) : c \in Conns}
MCFns == {fn1} \cup {PrimeFn(c) : c \in Conns}
MCOwnerOf ==
    [x \in MCFds \cup MCFns |->
        IF x \in {f1, f2, fn1} THEN A
        ELSE IF \E c \in Conns : x = PrimeFn(c)
        THEN SockFd(CHOOSE c \in Conns : x = PrimeFn(c)) ELSE x]

VARIABLE focus

vars == <<Vars, focus>>

Init ==
    /\ focus \in Foci
    /\ EpollerInit
    /\ IF focus = "server" THEN ServerInit
       ELSE ServerInit /\ kind = [c \in Conns |-> "junk"]

Next ==
    \/ focus = "epoller" /\ EpollerNext /\ UNCHANGED <<serverVars, focus>>
    \/ focus = "server" /\ ServerNext /\ UNCHANGED focus

\* Every client goes on with the Route it is in, and a silo with its loop: it
\* polls at least every 10 ms, whether or not it is poked.
Loop(s) == Route(s) \/ GetInList(s) \/ Admission(s)

Fairness ==
    /\ \A t \in Clients : WF_vars(Route(t) /\ UNCHANGED <<serverVars, focus>>)
    /\ \A s \in AllSilos : WF_vars(Loop(s) /\ UNCHANGED <<serverVars, focus>>)
    /\ WF_vars(UNCHANGED focus /\ \E c \in Conns : Accept(c) \/ ConnUpcall(c))

Spec == Init /\ [][Next]_vars /\ Fairness
=============================================================================
