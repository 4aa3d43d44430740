------------------------------- MODULE MCSilo -------------------------------
(* Small instances of Silo for TLC.                                        *)
EXTENDS Silo

CONSTANTS f1, f2

(* One handler per descriptor, and one handler for all of them.            *)
OwnHandlers == [f \in Fds |-> f]
OneHandler == [f \in Fds |-> CHOOSE k \in Handlers : TRUE]

Act(c, o) == [call |-> c, outcome |-> o]

Plain == {Act("none", o) : o \in Outcomes}
Always(acts) == [d \in Dirs |-> acts]

(* What the repository's handlers do.  EagerSwallow, GarbageFountain and   *)
(* Closing return every outcome without a call; Echoing asks for the other *)
(* direction; TootAndScoot and TlsSniffer eject themselves; Carly bounces  *)
(* its RequestRead through Run and never writes.                           *)
Mixed == Always(Plain \cup {Act("RequestRead", "kFdEagain"), Act("RequestRead", "kYield"),
                            Act("RequestWrite", "kFdEagain"), Act("RequestWrite", "kYield"),
                            Act("Eject", "kSuspend"), Act("Eject", "kYield")})
Carly == [d \in Dirs |-> IF d = "read"
                         THEN {Act("Run", "kSuspend"), Act("none", "kYield"),
                               Act("none", "kFdEagain"), Act("none", "kClose")}
                         ELSE {Act("none", "kSuspend")}]

MixedAndCarly == [k \in Handlers |-> IF k = f1 THEN Mixed ELSE Carly]
AllPlain == [k \in Handlers |-> Always(Plain)]

(* Both instances are about handlers that keep the rules.                  *)
ASSUME HandlersBehave == WellBehaved

(* A handler that runs a function and asks to be called again.             *)
RunAndYield == [k \in Handlers |-> Always(Plain \cup {Act("Run", "kYield")})]
=============================================================================
