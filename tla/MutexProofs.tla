---------------------------- MODULE MutexProofs ----------------------------
(***************************************************************************)
(* Mutual exclusion and the absence of lost wakeups for base::Mutex, for   *)
(* every set of threads, every job assignment and every spin limit.        *)
(***************************************************************************)
EXTENDS Mutex, TLAPS

(* The inductive invariant.  WordMatchesHolder is what makes exclusion     *)
(* inductive: an acquisition is an atomic 0 -> nonzero change of the word, *)
(* and the word is 0 only when nobody holds the lock.                      *)
LockInv == MutexTypeOK /\ MutualExclusion /\ WordMatchesHolder

(* The steps that neither acquire nor release the lock.                    *)
Quiet(t) == \/ Begin(t)
            \/ LockSlowLoad(t) \/ LockSlowSpin(t) \/ LockSlowWait(t)
            \/ AwaitEval(t) \/ WaitSlowWait(t)
            \/ TimedWait(t) \/ TimedWaitReturns(t) \/ Work(t)

(* Each of these steps moves one thread and keeps the word.                *)
LEMMA QuietSteps ==
  ASSUME MutexTypeOK, NEW t \in Lockers, Quiet(t)
  PROVE  /\ MutexTypeOK'
         /\ mutex_state_' = mutex_state_
         /\ \A u \in Lockers : u # t => pc'[u] = pc[u]
         /\ (pc[t] \in Holding) <=> (pc'[t] \in Holding)
         /\ pc[t] # "notify"
<1> USE MutexAssumption DEF MutexTypeOK, Goto, Labels, JobKinds, Holding
<1>1. CASE Begin(t)             BY <1>1 DEF Begin
<1>2. CASE LockSlowLoad(t)      BY <1>2 DEF LockSlowLoad
<1>3. CASE LockSlowSpin(t)      BY <1>3 DEF LockSlowSpin
<1>4. CASE LockSlowWait(t)      BY <1>4 DEF LockSlowWait, AtomicWait
<1>5. CASE AwaitEval(t)         BY <1>5 DEF AwaitEval
<1>6. CASE WaitSlowWait(t)      BY <1>6 DEF WaitSlowWait, AtomicWait
<1>7. CASE TimedWait(t)         BY <1>7 DEF TimedWait
<1>8. CASE TimedWaitReturns(t)  BY <1>8 DEF TimedWaitReturns
<1>9. CASE Work(t)              BY <1>9 DEF Work
<1> QED BY <1>1, <1>2, <1>3, <1>4, <1>5, <1>6, <1>7, <1>8, <1>9 DEF Quiet

(* The lock invariant is inductive.                                        *)
LEMMA LockInvStep == LockInv /\ [MutexNext]_mutexVars => LockInv'
<1> SUFFICES ASSUME LockInv, [MutexNext]_mutexVars PROVE LockInv'
  OBVIOUS
<1> USE DEF LockInv
<1>1. CASE UNCHANGED mutexVars
  BY <1>1 DEF mutexVars, MutexTypeOK, MutualExclusion, WordMatchesHolder, Holders
<1>2. ASSUME NEW t \in Lockers, Quiet(t) PROVE LockInv'
  BY <1>2, QuietSteps DEF MutualExclusion, WordMatchesHolder, Holders
<1>3. ASSUME NEW t \in Lockers, TryLock(t) PROVE LockInv'
  <2>1. MutexTypeOK'
    BY <1>3 DEF MutexTypeOK, TryLock, Acquired, Goto, Labels, kUnlocked,
                kLockedUncontended, kLockedContended
  <2>2. CASE mutex_state_ = kUnlocked
    <3>1. /\ Holders = {} /\ mutex_state_' # kUnlocked
          /\ \A u \in Lockers : u # t => pc'[u] = pc[u]
          /\ pc'[t] \in Holding
      BY <1>3, <2>2 DEF MutexTypeOK, TryLock, Acquired, Goto, WordMatchesHolder,
                        Holding, kUnlocked, kLockedUncontended
    <3> QED BY <2>1, <3>1 DEF MutualExclusion, WordMatchesHolder, Holders
  <2>3. CASE mutex_state_ # kUnlocked
    <3>1. /\ mutex_state_' = mutex_state_
          /\ \A u \in Lockers : u # t => pc'[u] = pc[u]
          /\ pc[t] \notin Holding /\ pc'[t] \notin Holding
      BY <1>3, <2>3 DEF MutexTypeOK, TryLock, Goto, Holding
    <3> QED BY <2>1, <3>1 DEF MutualExclusion, WordMatchesHolder, Holders
  <2> QED BY <2>2, <2>3
<1>4. ASSUME NEW t \in Lockers, LockSlowExchange(t) PROVE LockInv'
  <2>1. MutexTypeOK'
    BY <1>4, MutexAssumption
       DEF MutexTypeOK, LockSlowExchange, LockSlowReturns, Acquired, Goto, Labels,
           kUnlocked, kLockedUncontended, kLockedContended
  <2>2. /\ mutex_state_' # kUnlocked
        /\ \A u \in Lockers : u # t => pc'[u] = pc[u]
        /\ pc[t] \notin Holding
        /\ mutex_state_ = kUnlocked => pc'[t] \in Holding
        /\ mutex_state_ # kUnlocked => pc'[t] \notin Holding
    BY <1>4 DEF MutexTypeOK, LockSlowExchange, LockSlowReturns, Acquired, Goto,
                Holding, kUnlocked, kLockedContended
  <2> QED BY <2>1, <2>2 DEF MutualExclusion, WordMatchesHolder, Holders
<1>5. ASSUME NEW t \in Lockers, WaitSlowMark(t) PROVE LockInv'
  <2>1. MutexTypeOK'
    BY <1>5 DEF MutexTypeOK, WaitSlowMark, Goto, Labels, kLockedContended
  <2>2. /\ t \in Holders /\ mutex_state_' # kUnlocked
        /\ \A u \in Lockers : (pc'[u] \in Holding) <=> (pc[u] \in Holding)
    BY <1>5 DEF MutexTypeOK, WaitSlowMark, Goto, Holding, Holders,
                kUnlocked, kLockedContended
  <2> QED BY <2>1, <2>2 DEF MutualExclusion, WordMatchesHolder, Holders
<1>6. ASSUME NEW t \in Lockers, UnlockExchange(t) PROVE LockInv'
  <2>1. MutexTypeOK'
    BY <1>6 DEF MutexTypeOK, UnlockExchange, Goto, Labels, kUnlocked
  <2>2. /\ t \in Holders /\ mutex_state_' = kUnlocked
        /\ \A u \in Lockers : u # t => pc'[u] = pc[u]
        /\ pc'[t] \notin Holding
    BY <1>6 DEF MutexTypeOK, UnlockExchange, Goto, Holding, Holders
  <2> QED BY <2>1, <2>2 DEF MutualExclusion, WordMatchesHolder, Holders
<1>7. ASSUME NEW t \in Lockers, UnlockNotify(t) PROVE LockInv'
  <2>1. MutexTypeOK'
    BY <1>7 DEF MutexTypeOK, UnlockNotify, Labels
  <2>2. /\ mutex_state_' = mutex_state_
        /\ \A u \in Lockers : (pc'[u] \in Holding) <=> (pc[u] \in Holding)
    BY <1>7 DEF MutexTypeOK, UnlockNotify, Holding
  <2> QED BY <2>1, <2>2 DEF MutualExclusion, WordMatchesHolder, Holders
<1> QED BY <1>1, <1>2, <1>3, <1>4, <1>5, <1>6, <1>7 DEF MutexNext, Step, Quiet

(* Initially the word is 0, every thread is idle.                          *)
LEMMA LockInvInit == MutexInit => LockInv
<1> SUFFICES ASSUME MutexInit PROVE LockInv
  OBVIOUS
<1>1. MutexTypeOK
  <2>1. /\ mutex_state_ \in {kUnlocked, kLockedUncontended, kLockedContended}
        /\ c \in [Lockers -> {kUnlocked, kLockedUncontended, kLockedContended}]
    BY DEF MutexInit
  <2>2. spins \in [Lockers -> 0..SpinLimit]
    BY MutexAssumption DEF MutexInit
  <2>3. met \in [Lockers -> BOOLEAN] /\ cond \in BOOLEAN
    BY DEF MutexInit
  <2>4. /\ pc \in [Lockers -> Labels] /\ job \in [Lockers -> JobKinds]
        /\ after \in [Lockers -> {"idle", "cwait", "nap"}]
    BY DEF MutexInit, Labels, JobKinds
  <2> QED BY <2>1, <2>2, <2>3, <2>4 DEF MutexTypeOK
<1>2. Holders = {}
  BY DEF MutexInit, Holders, Holding
<1> QED BY <1>1, <1>2
        DEF MutexInit, LockInv, MutualExclusion, WordMatchesHolder

(* At most one thread is ever between Lock and Unlock.                     *)
THEOREM MutexExcludes == MutexSpec => []MutualExclusion
<1>1. LockInv => MutualExclusion  BY DEF LockInv
<1> QED BY <1>1, LockInvInit, LockInvStep, PTL DEF MutexSpec

(* The lock is sound in every state of every mix of Lock, TryLock, Await,  *)
(* AwaitWithTimeout and Unlock: types, exclusion and the truth of the word.*)
THEOREM MutexIsSound == MutexSpec => []LockSound
<1>1. LockInv => LockSound  BY DEF LockInv, LockSound
<1> QED BY <1>1, LockInvInit, LockInvStep, PTL DEF MutexSpec

(* The futex word is 0 exactly when nobody holds the lock.                 *)
THEOREM MutexWordIsTrue == MutexSpec => []WordMatchesHolder
<1>1. LockInv => WordMatchesHolder  BY DEF LockInv
<1> QED BY <1>1, LockInvInit, LockInvStep, PTL DEF MutexSpec

(* No lost wakeup: whoever takes the word away from kLockedContended owes  *)
(* a notify_all, and it is paid before any thread can be left asleep.      *)
THEOREM MutexWakesSleepers == MutexSpec => []NoLostWakeup
<1> DEFINE Inv == LockInv /\ NoLostWakeup
<1>1. MutexInit => Inv
  BY LockInvInit DEF MutexInit, NoLostWakeup, Sleepers
<1>2. Inv /\ [MutexNext]_mutexVars => Inv'
  <2> SUFFICES ASSUME Inv, [MutexNext]_mutexVars PROVE NoLostWakeup'
    BY LockInvStep
  <2> USE DEF LockInv, NoLostWakeup
  <2>1. CASE UNCHANGED mutexVars
    BY <2>1 DEF mutexVars, Sleepers
  <2>2. ASSUME NEW t \in Lockers, LockSlowWait(t) \/ WaitSlowWait(t)
        PROVE  NoLostWakeup'
    BY <2>2 DEF LockSlowWait, WaitSlowWait, AtomicWait, Goto, MutexTypeOK, Sleepers
  <2>3. ASSUME NEW t \in Lockers, LockSlowExchange(t) \/ WaitSlowMark(t)
        PROVE  NoLostWakeup'
    BY <2>3 DEF LockSlowExchange, WaitSlowMark
  <2>4. ASSUME NEW t \in Lockers, UnlockExchange(t) PROVE NoLostWakeup'
    <3>1. /\ \A u \in Lockers : u # t => pc'[u] = pc[u]
          /\ pc[t] # "notify"
          /\ t \notin Sleepers'
          /\ mutex_state_ = kLockedContended => pc'[t] = "notify"
      BY <2>4 DEF UnlockExchange, Goto, MutexTypeOK, Sleepers
    <3> QED BY <3>1 DEF Sleepers
  <2>5. ASSUME NEW t \in Lockers, UnlockNotify(t) PROVE NoLostWakeup'
    <3>1. Sleepers' = {}
      BY <2>5 DEF UnlockNotify, MutexTypeOK, Sleepers
    <3> QED BY <3>1
  <2>6. ASSUME NEW t \in Lockers, TryLock(t) PROVE NoLostWakeup'
    <3>1. /\ \A u \in Lockers : u # t => pc'[u] = pc[u]
          /\ pc[t] # "notify"
          /\ t \notin Sleepers'
          /\ mutex_state_ = kLockedContended => mutex_state_' = kLockedContended
      BY <2>6 DEF TryLock, Acquired, Goto, MutexTypeOK, Sleepers,
                  kUnlocked, kLockedContended
    <3> QED BY <3>1 DEF Sleepers
  <2>7. ASSUME NEW t \in Lockers,
               \/ Begin(t) \/ LockSlowLoad(t) \/ LockSlowSpin(t)
               \/ AwaitEval(t) \/ TimedWait(t) \/ TimedWaitReturns(t)
               \/ Work(t)
        PROVE  NoLostWakeup'
    <3>1. t \notin Sleepers'
      BY <2>7 DEF Begin, LockSlowLoad, LockSlowSpin, AwaitEval, TimedWait,
                  TimedWaitReturns, Work, Goto, MutexTypeOK, Sleepers
    <3>2. /\ mutex_state_' = mutex_state_
          /\ \A u \in Lockers : u # t => pc'[u] = pc[u]
          /\ pc[t] # "notify"
      BY <2>7, QuietSteps DEF Quiet
    <3> QED BY <3>1, <3>2 DEF Sleepers
  <2> QED BY <2>1, <2>2, <2>3, <2>4, <2>5, <2>6, <2>7 DEF MutexNext, Step
<1>3. Inv => NoLostWakeup  OBVIOUS
<1> QED BY <1>1, <1>2, <1>3, PTL DEF MutexSpec

(* A thread that is not in its critical section has nothing to show for    *)
(* its Await*: only a step that takes it there matters to the contract.    *)
LEMMA AwaitContractKept ==
  ASSUME MutexTypeOK, AwaitContract, NEW t \in Lockers,
         cond' = cond, met' = met, job'[t] = job[t] \/ pc'[t] # "cs",
         pc'[t] # "cs" \/ pc[t] = "cs" \/ job[t] \notin {"await", "timed"},
         \A u \in Lockers : u # t => job'[u] = job[u]
                                  /\ (pc'[u] = "cs" => pc[u] = "cs")
  PROVE  AwaitContract'
BY DEF AwaitContract

(* What an Await* told its caller is still so when the caller reads the    *)
(* guarded state: nobody else is in a critical section, so nobody else     *)
(* touches the predicate, and only AwaitEval leads an Await* into one.     *)
THEOREM MutexAwaitKeepsPromise == MutexSpec => []AwaitContract
<1> DEFINE Inv == LockInv /\ AwaitContract
<1>1. MutexInit => Inv
  BY LockInvInit DEF MutexInit, AwaitContract
<1>2. Inv /\ [MutexNext]_mutexVars => Inv'
  <2> SUFFICES ASSUME Inv, [MutexNext]_mutexVars PROVE AwaitContract'
    BY LockInvStep
  <2> USE DEF LockInv
  <2>1. CASE UNCHANGED mutexVars
    BY <2>1 DEF mutexVars, AwaitContract
  <2>2. ASSUME NEW t \in Lockers, AwaitEval(t) PROVE AwaitContract'
    <3>1. \A u \in Lockers : u # t => pc'[u] # "cs"
      BY <2>2 DEF AwaitEval, Goto, MutexTypeOK, MutualExclusion, Holders, Holding
    <3>2. cond' = cond /\ job' = job /\ met'[t] = cond
      BY <2>2 DEF AwaitEval, MutexTypeOK
    <3>3. ASSUME job[t] = "await", pc'[t] = "cs" PROVE cond
      BY <2>2, <3>3 DEF AwaitEval, Goto, MutexTypeOK
    <3> QED BY <3>1, <3>2, <3>3 DEF AwaitContract
  <2>3. ASSUME NEW t \in Lockers, Work(t) PROVE AwaitContract'
    <3>1. \A u \in Lockers : pc'[u] # "cs"
      BY <2>3 DEF Work, Goto, MutexTypeOK, MutualExclusion, Holders, Holding
    <3> QED BY <3>1 DEF AwaitContract
  <2>4. ASSUME NEW t \in Lockers, TryLock(t) PROVE AwaitContract'
    BY <2>4, AwaitContractKept DEF TryLock, Acquired, Goto, MutexTypeOK
  <2>5. ASSUME NEW t \in Lockers, LockSlowExchange(t) PROVE AwaitContract'
    BY <2>5, AwaitContractKept
       DEF LockSlowExchange, LockSlowReturns, Acquired, Goto, MutexTypeOK
  <2>6. ASSUME NEW t \in Lockers, UnlockNotify(t) PROVE AwaitContract'
    BY <2>6, AwaitContractKept DEF UnlockNotify, MutexTypeOK
  <2>7. ASSUME NEW t \in Lockers,
               \/ Begin(t) \/ LockSlowLoad(t) \/ LockSlowSpin(t)
               \/ LockSlowWait(t) \/ WaitSlowWait(t) \/ WaitSlowMark(t)
               \/ TimedWait(t) \/ TimedWaitReturns(t) \/ UnlockExchange(t)
        PROVE  AwaitContract'
    BY <2>7, AwaitContractKept
       DEF Begin, LockSlowLoad, LockSlowSpin, LockSlowWait, WaitSlowWait,
           AtomicWait, WaitSlowMark, TimedWait, TimedWaitReturns,
           UnlockExchange, Goto, MutexTypeOK
  <2> QED BY <2>1, <2>2, <2>3, <2>4, <2>5, <2>6, <2>7 DEF MutexNext, Step
<1>3. Inv => AwaitContract  OBVIOUS
<1> QED BY <1>1, <1>2, <1>3, PTL DEF MutexSpec
============================================================================
