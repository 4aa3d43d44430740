--------------------------- MODULE ThreadsProofs ----------------------------
(***************************************************************************)
(* Notification's answers are true and no sleeper is forgotten, for every  *)
(* set of callers and however often the object's memory is used again; and *)
(* the registry of a process names its threads, however many there are,    *)
(* whatever they do at startup and whenever signals arrive.                *)
(***************************************************************************)
EXTENDS Notification, Process, TLAPS

Points == {"idle", "wake", "cas", "loop", "futex", "asleep", "final"}

NotificationTypeOK ==
    /\ state_ \in {kUnnotified, kNotified, kWaiting}
    /\ at \in [Callers -> Points]
    /\ timed \in [Callers -> BOOLEAN]
    /\ heard \in [Callers -> {"nothing", "true", "false"}]
    /\ notified \in BOOLEAN

(* The word says kNotified exactly when this object was notified: no late  *)
(* compare-and-swap of a waiter takes the answer back.                     *)
WordIsTrue == (state_ = kNotified) <=> notified

(* A waiter past its compare-and-swap announced itself on this very object,*)
(* which nobody rebuilt under it: "not kWaiting" then means kNotified.     *)
WaiterAnnounced ==
    \A t \in Callers :
        at[t] \in {"loop", "futex", "asleep", "final"} => state_ # kUnnotified

(* A thread asleep on a notified object is owed a futex wake that some     *)
(* Notify has not yet made.                                                *)
WakeOwed ==
    (notified /\ \E t \in Callers : at[t] = "asleep")
        => \E u \in Callers : at[u] = "wake"

NotificationInv ==
    NotificationTypeOK /\ WordIsTrue /\ WaiterAnnounced /\ WaitMeansNotified

(* All steps of one caller but the futex wake.                             *)
CallerStep(t) ==
    \/ Notify(t) \/ HasBeenNotified(t)
    \/ \E deadline \in BOOLEAN : WaitLoad(t, deadline)
    \/ WaitCas(t) \/ WaitLoop(t) \/ FutexWait(t)
    \/ WaitFinal(t) \/ Interrupted(t) \/ FutexWaitAbsolute(t)

LEMMA NotificationInvInit == NotificationInit => NotificationInv
<1> SUFFICES ASSUME NotificationInit PROVE NotificationInv
  OBVIOUS
<1>1. NotificationTypeOK
  BY DEF NotificationInit, NotificationTypeOK, Points
<1>2. WordIsTrue /\ WaiterAnnounced /\ WaitMeansNotified
  BY DEF NotificationInit, WordIsTrue, WaiterAnnounced, WaitMeansNotified,
         kUnnotified, kNotified
<1> QED BY <1>1, <1>2 DEF NotificationInv

LEMMA NotificationTypes ==
  NotificationTypeOK /\ [NotificationNext]_notifyVars => NotificationTypeOK'
<1> SUFFICES ASSUME NotificationTypeOK, [NotificationNext]_notifyVars
             PROVE  NotificationTypeOK'
  OBVIOUS
<1> USE DEF NotificationTypeOK, To, Return, Points
<1>1. CASE UNCHANGED notifyVars  BY <1>1 DEF notifyVars
<1>2. ASSUME NEW t \in Callers, Notify(t) PROVE NotificationTypeOK'
  BY <1>2 DEF Notify
<1>3. ASSUME NEW t \in Callers, HasBeenNotified(t) \/ WaitFinal(t)
      PROVE  NotificationTypeOK'
  BY <1>3 DEF HasBeenNotified, WaitFinal
<1>4. ASSUME NEW t \in Callers, NEW deadline \in BOOLEAN, WaitLoad(t, deadline)
      PROVE  NotificationTypeOK'
  BY <1>4 DEF WaitLoad
<1>5. ASSUME NEW t \in Callers, WaitCas(t) PROVE NotificationTypeOK'
  BY <1>5 DEF WaitCas
<1>6. ASSUME NEW t \in Callers, WaitLoop(t) PROVE NotificationTypeOK'
  BY <1>6 DEF WaitLoop
<1>7. ASSUME NEW t \in Callers,
             FutexWait(t) \/ Interrupted(t) \/ FutexWaitAbsolute(t)
      PROVE  NotificationTypeOK'
  BY <1>7 DEF FutexWait, Interrupted, FutexWaitAbsolute
<1>8. ASSUME NEW t \in Callers, FutexWake(t) PROVE NotificationTypeOK'
  BY <1>8 DEF FutexWake, AfterWake
<1>9. CASE Renew  BY <1>9 DEF Renew
<1> QED BY <1>1, <1>2, <1>3, <1>4, <1>5, <1>6, <1>7, <1>8, <1>9
        DEF NotificationNext

LEMMA NotificationInvStep ==
  NotificationInv /\ [NotificationNext]_notifyVars => NotificationInv'
<1> SUFFICES ASSUME NotificationInv, [NotificationNext]_notifyVars
             PROVE  NotificationInv'
  OBVIOUS
<1>t. NotificationTypeOK /\ NotificationTypeOK'
  BY NotificationTypes DEF NotificationInv
<1> SUFFICES (WordIsTrue /\ WaiterAnnounced /\ WaitMeansNotified)'
  BY <1>t DEF NotificationInv
<1> USE <1>t DEF NotificationInv, NotificationTypeOK, WordIsTrue, WaiterAnnounced,
                 WaitMeansNotified, To, Return, Points,
                 kUnnotified, kNotified, kWaiting
<1> DEFINE Goal == (WordIsTrue /\ WaiterAnnounced /\ WaitMeansNotified)'
<1>1. CASE UNCHANGED notifyVars  BY <1>1 DEF notifyVars
<1>2. ASSUME NEW t \in Callers, Notify(t) PROVE Goal
  BY <1>2 DEF Notify
<1>3. ASSUME NEW t \in Callers, HasBeenNotified(t) \/ WaitFinal(t) PROVE Goal
  BY <1>3 DEF HasBeenNotified, WaitFinal
<1>4. ASSUME NEW t \in Callers, NEW deadline \in BOOLEAN, WaitLoad(t, deadline)
      PROVE  Goal
  BY <1>4 DEF WaitLoad
<1>5. ASSUME NEW t \in Callers, WaitCas(t) PROVE Goal
  BY <1>5 DEF WaitCas
<1>6. ASSUME NEW t \in Callers, WaitLoop(t) PROVE Goal
  BY <1>6 DEF WaitLoop
<1>7. ASSUME NEW t \in Callers,
             FutexWait(t) \/ Interrupted(t) \/ FutexWaitAbsolute(t)
      PROVE  Goal
  BY <1>7 DEF FutexWait, Interrupted, FutexWaitAbsolute
<1>8. ASSUME NEW t \in Callers, FutexWake(t) PROVE Goal
  BY <1>8 DEF FutexWake, AfterWake
<1>9. CASE Renew  BY <1>9 DEF Renew
<1> QED BY <1>1, <1>2, <1>3, <1>4, <1>5, <1>6, <1>7, <1>8, <1>9
        DEF NotificationNext

(* Whoever is told "notified", by a test or by either wait, was notified   *)
(* by a Notify of this object: a wake meant for an earlier object at the   *)
(* same address, a signal or a deadline never passes for it.               *)
THEOREM NotificationIsTruthful == NotificationSpec => []WaitMeansNotified
<1>1. NotificationInv => WaitMeansNotified  BY DEF NotificationInv
<1> QED BY <1>1, NotificationInvInit, NotificationInvStep, PTL
        DEF NotificationSpec

(* The wake that Notify omits is never needed: while a thread sleeps on a  *)
(* notified object, a futex wake is still on its way to it.                *)
THEOREM NotificationOwesWake == NotificationSpec => []WakeOwed
<1> DEFINE Inv == NotificationInv /\ WakeOwed
<1>1. NotificationInit => Inv
  BY NotificationInvInit DEF NotificationInit, WakeOwed
<1>2. Inv /\ [NotificationNext]_notifyVars => Inv'
  <2> SUFFICES ASSUME Inv, [NotificationNext]_notifyVars PROVE WakeOwed'
    BY NotificationInvStep
  <2> USE DEF NotificationInv, NotificationTypeOK, WordIsTrue, WakeOwed,
              To, Return, Points, kUnnotified, kNotified, kWaiting
  <2>1. CASE UNCHANGED notifyVars  BY <2>1 DEF notifyVars
  <2>2. ASSUME NEW t \in Callers, Notify(t) PROVE WakeOwed'
    <3>1. CASE state_ = kWaiting
      BY <2>2, <3>1 DEF Notify
    <3>2. CASE state_ = kNotified
      BY <2>2, <3>2 DEF Notify
    <3>3. CASE state_ = kUnnotified
      BY <2>2, <3>3 DEF Notify, WaiterAnnounced
    <3> QED BY <3>1, <3>2, <3>3
  <2>3. ASSUME NEW t \in Callers, FutexWake(t) PROVE WakeOwed'
    BY <2>3 DEF FutexWake, AfterWake
  <2>4. CASE Renew  BY <2>4 DEF Renew
  <2>5. ASSUME NEW t \in Callers, CallerStep(t), ~Notify(t), ~FutexWait(t)
        PROVE  WakeOwed'
    <3>1. /\ \A u \in Callers : u # t => at'[u] = at[u]
          /\ at'[t] # "asleep" /\ at[t] # "wake"
          /\ notified' = notified
      BY <2>5 DEF CallerStep, HasBeenNotified, WaitLoad, WaitCas, WaitLoop,
                  WaitFinal, Interrupted, FutexWaitAbsolute
    <3> QED BY <3>1
  <2>6. ASSUME NEW t \in Callers, FutexWait(t) PROVE WakeOwed'
    <3>1. /\ \A u \in Callers : u # t => at'[u] = at[u]
          /\ at'[t] = "asleep" => ~notified
          /\ notified' = notified /\ at[t] # "wake"
      BY <2>6 DEF FutexWait
    <3> QED BY <3>1
  <2> QED BY <2>1, <2>2, <2>3, <2>4, <2>5, <2>6
          DEF NotificationNext, CallerStep
<1>3. Inv => WakeOwed  OBVIOUS
<1> QED BY <1>1, <1>2, <1>3, PTL DEF NotificationSpec

-----------------------------------------------------------------------------
(* The registry of thread names                                            *)

Lives == {"none", "load", "create", "add", "adding", "setup", "hooks", "run",
          "remove", "removing", "returning"}

(* Between the end of Add and the end of Remove the registry names a       *)
(* thread.                                                                 *)
Registered == {"setup", "hooks", "run", "remove", "removing"}

RegistryTypeOK ==
    /\ life \in [Threads -> Lives]
    /\ mine \in [Threads -> {0, 1}]
    /\ g_thread_registry \in {0, 1}
    /\ names_ \in [Registries -> SUBSET Threads]
    /\ hooks \subseteq Threads

(* A thread that is past GetOrCreate has the one registry there is, and so *)
(* has one that is removing its name.                                      *)
HasTheRegistry ==
    \A t \in Threads :
        /\ life[t] \in {"add", "adding", "removing"} => mine[t] = 1
        /\ life[t] \in {"add", "adding"} \cup Registered => g_thread_registry = 1

(* The names of the first registry are exactly the threads between the end *)
(* of Add and the end of Remove; no other registry has any.                *)
NamesExact ==
    /\ \A t \in Threads : t \in names_[1] <=> life[t] \in Registered
    /\ \A r \in Registries : r # 1 => names_[r] = {}

RegistryInv == RegistryTypeOK /\ HasTheRegistry /\ NamesExact

LEMMA RegistryInvInit == ProcessInit => RegistryInv
<1> SUFFICES ASSUME ProcessInit PROVE RegistryInv
  OBVIOUS
<1> USE ProcessAssumption DEF ProcessInit
<1>1. RegistryTypeOK
  BY DEF RegistryTypeOK, Lives
<1>2. HasTheRegistry /\ NamesExact
  BY DEF HasTheRegistry, NamesExact, Registered
<1> QED BY <1>1, <1>2 DEF RegistryInv

(* A thread moves on, the registry's names and the other threads do not.   *)
OthersStay(t) ==
    /\ life' \in [Threads -> Lives] /\ mine' \in [Threads -> {0, 1}]
    /\ \A u \in Threads : u # t => life'[u] = life[u] /\ mine'[u] = mine[u]
    /\ g_thread_registry' \in {g_thread_registry, 1}
    /\ names_' = names_ /\ hooks' \subseteq Threads

LEMMA LifeStep ==
  ASSUME RegistryInv, NEW t \in Threads, OthersStay(t),
         life'[t] \in Registered <=> life[t] \in Registered,
         life'[t] \in {"add", "adding"} \cup Registered => g_thread_registry' = 1,
         life'[t] \in {"add", "adding", "removing"} => mine'[t] = 1
  PROVE  RegistryInv'
<1> USE DEF RegistryInv, OthersStay
<1>1. RegistryTypeOK'
  BY DEF RegistryTypeOK
<1>2. HasTheRegistry'
  BY DEF HasTheRegistry
<1>3. NamesExact'
  BY DEF NamesExact
<1> QED BY <1>1, <1>2, <1>3

(* The end of Add and the end of Remove, under the registry's mutex.       *)
LEMMA NameStep ==
  ASSUME RegistryInv, NEW t \in Threads, Added(t) \/ Removed(t)
  PROVE  RegistryInv'
<1> USE DEF RegistryInv
<1>1. mine[t] = 1 /\ g_thread_registry = 1
  BY DEF Added, Removed, At, HasTheRegistry, Registered
<1>2. /\ mine' = [mine EXCEPT ![t] = 0]
      /\ g_thread_registry' = g_thread_registry /\ hooks' = hooks
  BY DEF Added, Removed
<1>3. /\ \/ life'[t] \in {"setup", "run"} /\ names_'[1] = names_[1] \cup {t}
         \/ life'[t] = "returning" /\ names_'[1] = names_[1] \ {t}
      /\ \A u \in Threads : u # t => life'[u] = life[u]
      /\ \A r \in Registries : r # 1 => names_'[r] = names_[r]
      /\ life' \in [Threads -> Lives]
      /\ names_' \in [Registries -> SUBSET Threads]
  BY <1>1, ProcessAssumption DEF Added, Removed, At, RegistryTypeOK, Lives
<1>4. mine'[t] = 0 /\ \A u \in Threads : u # t => mine'[u] = mine[u]
  BY <1>2 DEF RegistryTypeOK
<1>5. RegistryTypeOK'
  BY <1>2, <1>3 DEF RegistryTypeOK
<1>6. HasTheRegistry'
  BY <1>1, <1>2, <1>3, <1>4 DEF HasTheRegistry, Registered
<1>7. NamesExact'
  BY <1>3 DEF NamesExact, Registered
<1> QED BY <1>5, <1>6, <1>7

(* GetOrCreate: the load alone, and what is done under the creation mutex. *)
LEMMA GetOrCreateStep ==
  ASSUME RegistryInv, NEW t \in Threads, GetOrCreate(t) \/ CreateLocked(t)
  PROVE  RegistryInv'
<1> USE DEF RegistryInv, RegistryTypeOK, At
<1>1. OthersStay(t)
  BY DEF GetOrCreate, CreateLocked, OthersStay, Lives
<1>2. life[t] \in {"load", "create"} /\ life'[t] \in {"create", "add"}
  BY DEF GetOrCreate, CreateLocked
<1>3. life'[t] = "add" => g_thread_registry' = 1 /\ mine'[t] = 1
  BY DEF GetOrCreate, CreateLocked
<1> QED BY <1>1, <1>2, <1>3, LifeStep DEF Registered

(* The steps of a thread between these.                                    *)
LEMMA ThreadStep ==
  ASSUME RegistryInv, NEW t \in Threads,
         \/ CreateThread(t) \/ Add(t) \/ FnReturns(t) \/ Remove(t) \/ Join(t)
         \/ t = Main /\ Initialize
  PROVE  RegistryInv'
<1> USE DEF RegistryInv, RegistryTypeOK, At, CreateThread, Add, FnReturns,
            Remove, Join, Initialize
<1>1. g_thread_registry' = g_thread_registry
  OBVIOUS
<1>2. /\ \/ life[t] = "none" /\ life'[t] = "load"
         \/ life[t] = "add" /\ life'[t] = "adding" /\ mine'[t] = mine[t]
         \/ life[t] = "run" /\ life'[t] = "remove"
         \/ life[t] = "remove" /\ life'[t] = "removing"
               /\ mine'[t] = g_thread_registry
         \/ life[t] = "returning" /\ life'[t] = "none"
         \/ life[t] = "setup" /\ life'[t] = "hooks"
  OBVIOUS
<1>3. OthersStay(t)
  BY DEF OthersStay, Lives
<1>4. /\ life'[t] \in {"add", "adding"} \cup Registered => g_thread_registry' = 1
      /\ life'[t] \in {"add", "adding", "removing"} => mine'[t] = 1
  BY <1>1, <1>2 DEF HasTheRegistry, Registered
<1>5. life'[t] \in Registered <=> life[t] \in Registered
  BY <1>2 DEF Registered
<1> QED BY <1>3, <1>4, <1>5, LifeStep

(* The startup hooks, of the main thread.                                  *)
LEMMA HooksStep ==
  ASSUME RegistryInv, RunStartupHooks
  PROVE  RegistryInv'
<1> USE DEF RegistryInv, RegistryTypeOK
<1>1. /\ g_thread_registry' = g_thread_registry /\ names_' = names_
      /\ mine' = mine /\ hooks' \subseteq Threads /\ life[Main] = "hooks"
  BY DEF RunStartupHooks
<1>2. CASE life' = life
  BY <1>1, <1>2 DEF HasTheRegistry, NamesExact
<1>3. ASSUME NEW u \in Threads,
             \/ life[u] = "none" /\ life' = [life EXCEPT ![u] = "load"]
             \/ u = Main /\ life' = [life EXCEPT ![u] = "run"]
      PROVE  RegistryInv'
  <2>1. OthersStay(u)
    BY <1>1, <1>3 DEF OthersStay, Lives
  <2>2. \/ life[u] = "none" /\ life'[u] = "load"
        \/ life[u] = "hooks" /\ life'[u] = "run" /\ g_thread_registry' = 1
    BY <1>1, <1>3 DEF HasTheRegistry, Registered
  <2> QED BY <2>1, <2>2, LifeStep DEF Registered
<1> QED BY <1>2, <1>3, ProcessAssumption DEF RunStartupHooks

(* Waiting for SIGINT and everything a signal handler does leave the       *)
(* registry alone.                                                         *)
LEMMA SignalStep ==
  ASSUME RegistryInv, NEW t \in Threads,
         \/ RegisterStartupHook(t) \/ WaitForSigInt(t) \/ ValidateEnvironment
         \/ \E s \in Signals : Signal(t, s) \/ SignalAgain(t, s)
         \/ Handling(t) \/ CapturedThreadHandler(t) \/ UNCHANGED processVars
  PROVE  RegistryInv'
<1>1. UNCHANGED <<life, mine, g_thread_registry, names_>> /\ hooks' \subseteq Threads
  BY DEF RegisterStartupHook, WaitForSigInt, ValidateEnvironment, Signal,
         SignalAgain, Handling, DepthLoad,
         DepthStore, ReentryTest, EnumerateOtherThreads, SignalThreads,
         AwaitCapturedThreads, StartDump, EmitThread, FinishDump,
         CapturedThreadHandler, processVars, threadVars, RegistryInv,
         RegistryTypeOK
<1> QED BY <1>1 DEF RegistryInv, RegistryTypeOK, HasTheRegistry, NamesExact

LEMMA RegistryInvStep ==
  RegistryInv /\ [ProcessNext]_processVars => RegistryInv'
<1> SUFFICES ASSUME RegistryInv, [ProcessNext]_processVars PROVE RegistryInv'
  OBVIOUS
<1>1. CASE UNCHANGED processVars
  BY <1>1, SignalStep, ProcessAssumption
<1>2. CASE Initialize
  BY <1>2, ThreadStep, ProcessAssumption
<1>3. CASE RunStartupHooks
  BY <1>3, HooksStep
<1>4. ASSUME NEW t \in Threads,
             \/ CreateThread(t) \/ FnReturns(t) \/ GetOrCreate(t)
             \/ CreateLocked(t) \/ Add(t) \/ Added(t) \/ Remove(t)
             \/ Removed(t) \/ Join(t)
      PROVE  RegistryInv'
  BY <1>4, ThreadStep, NameStep, GetOrCreateStep
<1>5. ASSUME NEW t \in Threads,
             \/ RegisterStartupHook(t) \/ WaitForSigInt(t)
             \/ \E s \in Signals : Signal(t, s) \/ SignalAgain(t, s)
             \/ Handling(t) \/ CapturedThreadHandler(t)
      PROVE  RegistryInv'
  BY <1>5, SignalStep
<1>6. CASE ValidateEnvironment
  BY <1>6, SignalStep, ProcessAssumption
<1> QED BY <1>1, <1>2, <1>3, <1>4, <1>5, <1>6 DEF ProcessNext, Handling

(* RegistryStaysTruthful: the registry names exactly the threads that are  *)
(* running, for any number of threads that race in GetOrCreate, and of     *)
(* registries it could have made (thread_registry.cc, GetOrCreate, Add,    *)
(* Remove; thread.cc, ThreadStart).                                        *)
THEOREM RegistryStaysTruthful == ProcessSpec => []RegistryTruthful
<1>1. ProcessInit => RegistryInv
  BY RegistryInvInit
<1>2. RegistryInv /\ [ProcessNext]_processVars => RegistryInv'
  BY RegistryInvStep
<1>3. RegistryInv => RegistryTruthful
  <2> SUFFICES ASSUME RegistryInv PROVE RegistryTruthful
    OBVIOUS
  <2>1. \A t \in Threads :
           life[t] \in {"setup", "hooks", "run", "remove"} =>
              g_thread_registry = 1 /\ t \in names_[g_thread_registry]
    BY DEF RegistryInv, HasTheRegistry, NamesExact, Registered
  <2>2. \A r \in Registries : \A t \in names_[r] : t \in Threads /\ r = 1
    BY DEF RegistryInv, RegistryTypeOK, NamesExact
  <2>3. \A t \in names_[1] : t \in Threads => life[t] \in Registered
    BY DEF RegistryInv, NamesExact
  <2> QED BY <2>1, <2>2, <2>3 DEF RegistryTruthful, Registered
<1> QED BY <1>1, <1>2, <1>3, PTL DEF ProcessSpec
=============================================================================
