------------------------------- MODULE Mutex -------------------------------
(***************************************************************************)
(* base::Mutex (base/mutex.h, base/mutex.cc): a lock in one futex word.    *)
(* Every atomic access to state_ is one step.  A client thread runs jobs   *)
(* drawn from Jobs[t]: a plain Lock/Unlock pair, a TryLock, an Await or an *)
(* AwaitWithTimeout on the shared predicate cond, or a critical section    *)
(* that sets or clears cond.                                               *)
(***************************************************************************)
EXTENDS Naturals

CONSTANTS Lockers,    \* the threads that use the mutex
          SpinLimit,  \* kSpinLimit of LockSlow
          Jobs        \* Jobs[t]: the jobs thread t may run

JobKinds == {"lock", "trylock", "await", "timed", "set", "clear"}

ASSUME MutexAssumption == /\ SpinLimit \in Nat
                          /\ Jobs \in [Lockers -> SUBSET JobKinds]

kUnlocked == 0
kLockedUncontended == 1
kLockedContended == 2

VARIABLES mutex_state_,  \* state_, the futex word
          pc,      \* control point of each thread
          job,     \* the job each thread runs
          c,       \* LockSlow's local copy of state_
          spins,   \* LockSlow's spin counter
          after,   \* where a thread goes once its Unlock is done
          met,     \* what the Await* of the current job returned
          cond     \* the predicate threads await; guarded by the mutex

mutexVars == <<mutex_state_, pc, job, c, spins, after, met, cond>>

Labels == {"idle", "trylock", "load", "spin", "exchange", "wait", "asleep",
           "eval", "mark", "cs", "unlock", "notify",
           "cwait", "casleep", "nap", "napping"}

Goto(t, l) == pc' = [pc EXCEPT ![t] = l]

(* Threads between a successful acquisition and the exchange of Unlock.    *)
Holding == {"eval", "mark", "cs", "unlock"}
Holders == {t \in Lockers : pc[t] \in Holding}

(* Threads blocked inside std::atomic::wait on state_ = kLockedContended.  *)
Sleepers == {t \in Lockers : pc[t] \in {"asleep", "casleep"}}

Acquired(t) == Goto(t, IF job[t] \in {"await", "timed"} THEN "eval" ELSE "cs")

(* LockSlow returns: its locals are gone.                                  *)
LockSlowReturns(t) == /\ Acquired(t)
                      /\ c' = [c EXCEPT ![t] = kUnlocked]
                      /\ spins' = [spins EXCEPT ![t] = 0]

MutexInit == /\ mutex_state_ = kUnlocked
             /\ pc = [t \in Lockers |-> "idle"]
             /\ job = [t \in Lockers |-> "lock"]
             /\ c = [t \in Lockers |-> kUnlocked]
             /\ spins = [t \in Lockers |-> 0]
             /\ after = [t \in Lockers |-> "idle"]
             /\ met = [t \in Lockers |-> FALSE]
             /\ cond = FALSE
----------------------------------------------------------------------------
Begin(t) == /\ pc[t] = "idle"
            /\ \E j \in Jobs[t] : job' = [job EXCEPT ![t] = j]
            /\ Goto(t, "trylock")
            /\ UNCHANGED <<mutex_state_, c, spins, after, met, cond>>

(* The CAS of TryLock, also the fast path of Lock.                         *)
TryLock(t) ==
  /\ pc[t] = "trylock"
  /\ \/ /\ mutex_state_ = kUnlocked
        /\ mutex_state_' = kLockedUncontended
        /\ Acquired(t)
     \/ /\ mutex_state_ # kUnlocked
        /\ Goto(t, IF job[t] = "trylock" THEN "idle" ELSE "load")
        /\ UNCHANGED mutex_state_
  /\ UNCHANGED <<job, c, spins, after, met, cond>>

----------------------------------------------------------------------------
(* LockSlow: (re)load the word; spin while it is uncontended; exchange;    *)
(* wait.                                                                   *)
LockSlowLoad(t) ==
  /\ pc[t] = "load"
  /\ c' = [c EXCEPT ![t] = mutex_state_]
  /\ Goto(t, "spin")
  /\ UNCHANGED <<mutex_state_, job, spins, after, met, cond>>

LockSlowSpin(t) ==
  /\ pc[t] = "spin"
  /\ \/ /\ c[t] = kLockedUncontended /\ spins[t] < SpinLimit
        /\ spins' = [spins EXCEPT ![t] = @ + 1]
        /\ c' = [c EXCEPT ![t] = mutex_state_]
        /\ UNCHANGED pc
     \/ /\ c[t] # kLockedUncontended \/ spins[t] >= SpinLimit
        /\ Goto(t, IF c[t] = kLockedContended THEN "wait" ELSE "exchange")
        /\ UNCHANGED <<spins, c>>
  /\ UNCHANGED <<mutex_state_, job, after, met, cond>>

(* Slip: the slow path claims the word as uncontended.                     *)
LockSlowExchange_Uncontended(t) ==
  /\ pc[t] = "exchange"
  /\ mutex_state_' = kLockedUncontended
  /\ IF mutex_state_ = kUnlocked THEN LockSlowReturns(t)
                           ELSE Goto(t, "wait") /\ UNCHANGED <<c, spins>>
  /\ UNCHANGED <<job, after, met, cond>>

(* Slip: any word other than kLockedContended is taken as an acquisition.  *)
LockSlowExchange_NotContended(t) ==
  /\ pc[t] = "exchange"
  /\ mutex_state_' = kLockedContended
  /\ IF mutex_state_ # kLockedContended THEN LockSlowReturns(t)
                           ELSE Goto(t, "wait") /\ UNCHANGED <<c, spins>>
  /\ UNCHANGED <<job, after, met, cond>>

LockSlowExchange(t) ==
  /\ pc[t] = "exchange"
  /\ mutex_state_' = kLockedContended
  /\ IF mutex_state_ = kUnlocked THEN LockSlowReturns(t)
                           ELSE Goto(t, "wait") /\ UNCHANGED <<c, spins>>
  /\ UNCHANGED <<job, after, met, cond>>

(* state_.wait(kLockedContended): the kernel compares and sleeps in one    *)
(* step; a woken thread compares again before it returns.                  *)
AtomicWait(t, here, sleep, done) ==
  /\ pc[t] = here
  /\ Goto(t, IF mutex_state_ = kLockedContended THEN sleep ELSE done)
  /\ UNCHANGED <<mutex_state_, job, c, spins, after, met, cond>>

LockSlowWait(t) == AtomicWait(t, "wait", "asleep", "load")
----------------------------------------------------------------------------
(* Await / AwaitWithTimeout evaluate the predicate under the lock.  For    *)
(* the timed form the clock may or may not have passed the deadline.       *)

(* Slip: a passed deadline is reported as success.                         *)
AwaitEval_LateIsMet(t) ==
  /\ pc[t] = "eval"
  /\ met' = [met EXCEPT ![t] = cond \/ job[t] = "timed"]
  /\ \/ /\ cond \/ job[t] = "timed"
        /\ Goto(t, "cs") /\ UNCHANGED after
     \/ /\ ~cond /\ job[t] = "await"
        /\ Goto(t, "mark") /\ after' = [after EXCEPT ![t] = "cwait"]
  /\ UNCHANGED <<mutex_state_, job, c, spins, cond>>

AwaitEval(t) ==
  /\ pc[t] = "eval"
  /\ met' = [met EXCEPT ![t] = cond]
  /\ \/ /\ cond
        /\ Goto(t, "cs") /\ UNCHANGED after
     \/ /\ ~cond /\ job[t] = "await"
        /\ Goto(t, "mark") /\ after' = [after EXCEPT ![t] = "cwait"]
     \/ /\ ~cond /\ job[t] = "timed"     \* deadline passed
        /\ Goto(t, "cs") /\ UNCHANGED after
     \/ /\ ~cond /\ job[t] = "timed"     \* time left
        /\ Goto(t, "unlock") /\ after' = [after EXCEPT ![t] = "nap"]
  /\ UNCHANGED <<mutex_state_, job, c, spins, cond>>

(* WaitSlow marks the word contended before it unlocks.                    *)
WaitSlowMark(t) == /\ pc[t] = "mark"
                   /\ mutex_state_' = kLockedContended
                   /\ Goto(t, "unlock")
                   /\ UNCHANGED <<job, c, spins, after, met, cond>>

WaitSlowWait(t) == AtomicWait(t, "cwait", "casleep", "trylock")

(* WaitWithTimeoutSlow: FUTEX_WAIT sleeps only while the word is           *)
(* kUnlocked; it returns on the timeout, on a signal, or on a wake.        *)
TimedWait(t) ==
  /\ pc[t] = "nap"
  /\ Goto(t, IF mutex_state_ = kUnlocked THEN "napping" ELSE "trylock")
  /\ UNCHANGED <<mutex_state_, job, c, spins, after, met, cond>>

TimedWaitReturns(t) == /\ pc[t] = "napping"
                       /\ Goto(t, "trylock")
                       /\ UNCHANGED <<mutex_state_, job, c, spins, after, met, cond>>
----------------------------------------------------------------------------
(* The client's critical section.                                          *)
Work(t) == /\ pc[t] = "cs"
           /\ cond' = (job[t] = "set" \/ (cond /\ job[t] # "clear"))
           /\ after' = [after EXCEPT ![t] = "idle"]
           /\ met' = [met EXCEPT ![t] = FALSE]
           /\ Goto(t, "unlock")
           /\ UNCHANGED <<mutex_state_, job, c, spins>>

(* Slip: Unlock never wakes anyone.                                        *)
UnlockExchange_Silent(t) ==
  /\ pc[t] = "unlock"
  /\ mutex_state_' = kUnlocked
  /\ Goto(t, after[t])
  /\ UNCHANGED <<job, c, spins, after, met, cond>>

UnlockExchange(t) ==
  /\ pc[t] = "unlock"
  /\ mutex_state_' = kUnlocked
  /\ Goto(t, IF mutex_state_ = kLockedContended THEN "notify" ELSE after[t])
  /\ UNCHANGED <<job, c, spins, after, met, cond>>

(* notify_all: every sleeper goes back to its comparison.                  *)
UnlockNotify(t) ==
  /\ pc[t] = "notify"
  /\ pc' = [u \in Lockers |-> IF u = t THEN after[t]
                               ELSE IF pc[u] = "asleep" THEN "wait"
                               ELSE IF pc[u] = "casleep" THEN "cwait"
                               ELSE pc[u]]
  /\ UNCHANGED <<mutex_state_, job, c, spins, after, met, cond>>
----------------------------------------------------------------------------
Step(t) == \/ TryLock(t)
           \/ LockSlowLoad(t) \/ LockSlowSpin(t) \/ LockSlowExchange(t)
           \/ LockSlowWait(t)
           \/ AwaitEval(t) \/ WaitSlowMark(t) \/ WaitSlowWait(t)
           \/ TimedWait(t) \/ TimedWaitReturns(t)
           \/ Work(t) \/ UnlockExchange(t) \/ UnlockNotify(t)

MutexNext == \E t \in Lockers : Begin(t) \/ Step(t)

MutexSpec == MutexInit /\ [][MutexNext]_mutexVars

(* A thread that is inside an operation keeps being scheduled; the kernel  *)
(* ends a timed futex wait.  Nothing obliges a thread to begin a job.      *)
MutexFairness == \A t \in Lockers : WF_mutexVars(Step(t))
----------------------------------------------------------------------------
(* The futex word holds one of its three values and every thread is at a   *)
(* program point of lock, try_lock or unlock.                              *)
MutexTypeOK == /\ mutex_state_ \in {kUnlocked, kLockedUncontended, kLockedContended}
               /\ pc \in [Lockers -> Labels]
               /\ job \in [Lockers -> JobKinds]
               /\ c \in [Lockers -> {kUnlocked, kLockedUncontended, kLockedContended}]
               /\ spins \in [Lockers -> 0..SpinLimit]
               /\ after \in [Lockers -> {"idle", "cwait", "nap"}]
               /\ met \in [Lockers -> BOOLEAN]
               /\ cond \in BOOLEAN

(* At most one thread is between Lock and Unlock, whatever the mix of fast *)
(* path, slow path, barging and condition waits.                           *)
MutualExclusion == \A t, u \in Holders : t = u

(* The word tells the truth: it is kUnlocked exactly when nobody holds the *)
(* lock, so no TryLock can fail on, or barge into, a free mutex.           *)
WordMatchesHolder == (mutex_state_ = kUnlocked) <=> (Holders = {})

(* No lost wakeup: while a thread sleeps in state_.wait, the word still    *)
(* says contended (its next Unlock notifies) or a notify_all is under way. *)
NoLostWakeup == Sleepers # {} => \/ mutex_state_ = kLockedContended
                                 \/ \E u \in Lockers : pc[u] = "notify"

(* An Await* that returned true left its caller in a critical section      *)
(* where the predicate still holds.                                        *)
AwaitContract == \A t \in Lockers :
                   (pc[t] = "cs" /\ job[t] \in {"await", "timed"})
                      => (met[t] <=> cond) /\ (job[t] = "await" => met[t])

(* Every thread that the mutex puts to sleep is woken again.               *)
EverySleepEnds == \A t \in Lockers : (t \in Sleepers) ~> (t \notin Sleepers)
(* The lock is sound: the threads are where the type invariant allows,     *)
(* Lock excludes, and the word of TryLock and Unlock tells the truth.      *)
LockSound == MutexTypeOK /\ MutualExclusion /\ WordMatchesHolder
============================================================================
