---------------------------- MODULE Notification ----------------------------
(***************************************************************************)
(* base/notification.cc: a word and a futex.  Each atomic access and each  *)
(* futex call is a step.  A waiter that has returned may destroy the       *)
(* object and another be built in its memory while a Notify of the first   *)
(* still has its futex wake ahead of it: Renew.                            *)
(***************************************************************************)
EXTENDS Naturals, FiniteSets

CONSTANTS
    Callers,      \* threads that call the methods
    MaxRenewals   \* bound: times the memory is used again

VARIABLES
    state_,
    at,           \* of every caller: the point in its method
    timed,        \* its wait has a deadline
    heard,        \* what its last test or wait on this object returned
    notified,     \* ghost: Notify was called on this object
    renewals

notifyVars == <<state_, at, timed, heard, notified, renewals>>

kUnnotified == 0
kNotified == 1
kWaiting == 2

NotificationInit ==
    /\ state_ = kUnnotified
    /\ at = [t \in Callers |-> "idle"]
    /\ timed = [t \in Callers |-> FALSE]
    /\ heard = [t \in Callers |-> "nothing"]
    /\ notified = FALSE
    /\ renewals = 0

To(t, p) == at' = [at EXCEPT ![t] = p]

Return(t, answer) ==
    /\ To(t, "idle") /\ timed' = [timed EXCEPT ![t] = FALSE]
    /\ heard' = [heard EXCEPT ![t] = answer]

\* Notify: the exchange, and a wake only if a waiter announced itself.
Notify(t) ==
    /\ at[t] = "idle"
    /\ state_' = kNotified /\ notified' = TRUE
    /\ IF state_ = kWaiting THEN To(t, "wake") ELSE UNCHANGED at
    /\ UNCHANGED <<timed, heard, renewals>>

\* The futex wake of Notify: it wakes whoever sleeps on that address now.  The
\* wait with a deadline takes its return of 0 for the end of the wait.
AfterWake(u) == IF timed[u] THEN "final" ELSE "loop"

FutexWake(t) ==
    /\ at[t] = "wake"
    /\ at' = [u \in Callers |->
                 IF u = t THEN "idle"
                 ELSE IF at[u] = "asleep" THEN AfterWake(u) ELSE at[u]]
    /\ UNCHANGED <<state_, timed, heard, notified, renewals>>

HasBeenNotified(t) ==
    /\ at[t] = "idle"
    /\ Return(t, IF state_ = kNotified THEN "true" ELSE "false")
    /\ UNCHANGED <<state_, notified, renewals>>

\* WaitForNotification and WaitForNotificationWithTimeout, up to their loops.
WaitLoad(t, deadline) ==
    /\ at[t] = "idle"
    /\ \/ state_ = kNotified /\ Return(t, "true")
       \/ /\ state_ # kNotified
          /\ To(t, IF state_ = kUnnotified THEN "cas" ELSE "loop")
          /\ timed' = [timed EXCEPT ![t] = deadline]
          /\ heard' = [heard EXCEPT ![t] = "nothing"]
    /\ UNCHANGED <<state_, notified, renewals>>

WaitCasSlip(t) ==
    /\ at[t] = "cas"
    /\ state_' = kWaiting /\ To(t, "loop")
    /\ UNCHANGED <<heard, timed, notified, renewals>>

WaitCas(t) ==
    /\ at[t] = "cas"
    /\ \/ state_ = kNotified /\ Return(t, "true") /\ UNCHANGED state_
       \/ state_ # kNotified /\ state_' = kWaiting /\ To(t, "loop")
          /\ UNCHANGED <<heard, timed>>
    /\ UNCHANGED <<notified, renewals>>

\* The load of the loop's condition.
WaitLoopSlip(t) ==
    /\ at[t] = "loop"
    /\ Return(t, "true")
    /\ UNCHANGED <<state_, notified, renewals>>

WaitLoop(t) ==
    /\ at[t] = "loop"
    /\ \/ state_ = kWaiting /\ To(t, "futex") /\ UNCHANGED <<heard, timed>>
       \/ /\ state_ # kWaiting /\ timed[t]
          /\ To(t, "final") /\ UNCHANGED <<heard, timed>>
       \/ state_ # kWaiting /\ ~timed[t] /\ Return(t, "true")
    /\ UNCHANGED <<state_, notified, renewals>>

\* The kernel compares the word before it lets the thread sleep.
FutexWait(t) ==
    /\ at[t] = "futex"
    /\ To(t, IF state_ = kWaiting THEN "asleep" ELSE "loop")
    /\ UNCHANGED <<state_, timed, heard, notified, renewals>>

\* A signal ends the sleep (EINTR), or the deadline passes (ETIMEDOUT).
Interrupted(t) ==
    /\ at[t] = "asleep" /\ To(t, "loop")
    /\ UNCHANGED <<state_, timed, heard, notified, renewals>>

FutexWaitAbsolute(t) ==
    /\ at[t] = "asleep" /\ timed[t] /\ To(t, "final")
    /\ UNCHANGED <<state_, timed, heard, notified, renewals>>

\* The last load of a wait with a deadline decides its result.
WaitFinal(t) ==
    /\ at[t] = "final"
    /\ Return(t, IF state_ = kNotified THEN "true" ELSE "false")
    /\ UNCHANGED <<state_, notified, renewals>>

\* The object is destroyed and another built at its address.  Its users have
\* left it, but for a Notify that has only its wake to do.
Renew ==
    /\ renewals < MaxRenewals
    /\ \A t \in Callers : at[t] \in {"idle", "wake"}
    /\ state_' = kUnnotified /\ notified' = FALSE
    /\ heard' = [t \in Callers |-> "nothing"]
    /\ renewals' = renewals + 1
    /\ UNCHANGED <<at, timed>>

\* What a thread inside a method does next.
Proceed(t) ==
    FutexWake(t) \/ WaitCas(t) \/ WaitLoop(t) \/ FutexWait(t) \/ WaitFinal(t)

NotificationNext ==
    \/ \E t \in Callers :
          \/ Notify(t) \/ HasBeenNotified(t)
          \/ \E deadline \in BOOLEAN : WaitLoad(t, deadline)
          \/ FutexWake(t) \/ WaitCas(t) \/ WaitLoop(t) \/ FutexWait(t)
          \/ WaitFinal(t) \/ Interrupted(t) \/ FutexWaitAbsolute(t)
    \/ Renew

NotificationSpec == NotificationInit /\ [][NotificationNext]_notifyVars

-----------------------------------------------------------------------------
(* WaitMeansNotified: a wait or a test answers "notified" only if Notify   *)
(* was called on this very object, although the futex may wake a thread    *)
(* for a signal or for the Notify of an object that lived at this address. *)
WaitMeansNotified == \A t \in Callers : heard[t] = "true" => notified

InWait == {t \in Callers : at[t] \in {"cas", "loop", "futex", "asleep", "final"}}

(* EveryWaitEnds: once Notify was called every thread in a wait leaves it, *)
(* whichever of the load, the exchange and the futex calls of waiters and  *)
(* notifier come first: the wake that Notify omits is never needed.        *)
EveryWaitEnds == (notified /\ InWait # {}) ~> (InWait = {})
=============================================================================
