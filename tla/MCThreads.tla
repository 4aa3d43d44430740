----------------------------- MODULE MCThreads -----------------------------
(***************************************************************************)
(* What the threads of a process share: a Mutex, an MpscQueue, a           *)
(* Notification, and their names and signals.  A behaviour exercises the   *)
(* one `focus' names.                                                      *)
(***************************************************************************)
EXTENDS Mutex, MpscQueue, Notification, Process

VARIABLE focus

vars == <<mutexVars, queueVars, notifyVars, processVars, focus>>

(* Besides its own Await, timed or not, a thread tries the lock or clears  *)
(* the predicate that the third thread sets.                               *)
MixedJobs == [t \in Lockers |-> CASE t = 1 -> {"await", "trylock"}
                                  [] t = 2 -> {"timed", "clear"}
                                  [] OTHER -> {"set"}]

Init ==
    /\ focus \in {"mutex", "queue", "notification", "process"}
    /\ MutexInit /\ NotificationInit /\ ProcessInit
    /\ IF focus = "queue" THEN QueueInit
       ELSE QueueInit /\ item = [p \in Producers |-> CHOOSE x \in Items : TRUE]

Next ==
    \/ /\ focus = "mutex" /\ MutexNext
       /\ UNCHANGED <<queueVars, notifyVars, processVars, focus>>
    \/ /\ focus = "queue" /\ QueueNext
       /\ UNCHANGED <<mutexVars, notifyVars, processVars, focus>>
    \/ /\ focus = "notification" /\ NotificationNext
       /\ UNCHANGED <<mutexVars, queueVars, processVars, focus>>
    \/ /\ focus = "process" /\ ProcessNext
       /\ UNCHANGED <<mutexVars, queueVars, notifyVars, focus>>

\* A thread that is not blocked goes on; the kernel delivers pending signals.
Fairness ==
    /\ \A t \in Lockers : WF_mutexVars(focus = "mutex" /\ Step(t))
    /\ WF_queueVars(focus = "queue" /\ Dequeue)
    /\ \A p \in Producers : WF_queueVars(focus = "queue" /\ Produce(p))
    /\ \A t \in Callers : WF_notifyVars(focus = "notification" /\ Proceed(t))
    /\ \A t \in Threads : WF_processVars(focus = "process" /\ Handling(t))

Spec == Init /\ [][Next]_vars /\ Fairness
=============================================================================
