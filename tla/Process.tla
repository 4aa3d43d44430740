------------------------------ MODULE Process ------------------------------
(***************************************************************************)
(* base/thread.cc, base/thread_registry.cc and base/process.cc: threads    *)
(* register their names and are joined, AwaitSigInt waits for Ctrl-C, and  *)
(* a deadly signal captures every other thread, dumps the stacks through   *)
(* an addr2line coprocess (base/stacktrace.cc) and exits.                  *)
(***************************************************************************)
EXTENDS Naturals, FiniteSets

CONSTANTS
    Threads, Main, Nobody,
    Waiters,      \* threads that call AwaitSigInt
    Registries,   \* addresses of ThreadRegistry objects, numbered from 1
    Attempts,     \* AwaitCapturedThreads gives up after so many (10000)
    MaxSignals    \* bound: signals that arrive

ASSUME ProcessAssumption == Main \in Threads /\ 1 \in Registries

Signals == {"SIGINT", "SIGSEGV"}

VARIABLES
    life,         \* of every thread: where it is in ThreadStart
    mine,         \* the registry it got from GetOrCreate
    g_thread_registry,
    names_,       \* of every registry: the threads it names
    holder,       \* of every registry: who holds mutex_
    hooks,        \* threads that startup hooks will start
    waiting,      \* of every thread: where it is in WaitForSigInt
    entry,        \* the generation it saw there
    global_sigint_generation,
    global_sigint_waiters,
    handler,      \* of every thread: where it is in DeadlySignalHandler
    sig,          \* the signal it handles
    depth,        \* what it read of global_signal_depth
    global_signal_depth,
    tids,         \* threads it has yet to signal, later to dump
    count,        \* threads it signalled, and how long it waits for them
    capture,      \* threads with kCaptureSignal pending
    frozen,       \* threads in CapturedThreadHandler
    global_stopped_count,
    child,        \* the addr2line coprocess
    report,       \* threads the dump gave with their names
    g_busy,
    ended,        \* the process is gone
    signals,
    raced         \* ghost: two handlers took the same depth

threadVars == <<life, mine, g_thread_registry, names_, holder, hooks>>
sigintVars == <<waiting, entry, global_sigint_generation, global_sigint_waiters>>
dumpVars == <<child, report, g_busy>>
signalVars == <<handler, sig, depth, global_signal_depth, tids, count, capture,
                frozen, global_stopped_count, dumpVars, ended, signals,
                raced>>
processVars == <<threadVars, sigintVars, signalVars>>

ProcessInit ==
    /\ life = [t \in Threads |-> IF t = Main THEN "load" ELSE "none"]
    /\ mine = [t \in Threads |-> 0]
    /\ g_thread_registry = 0
    /\ names_ = [r \in Registries |-> {}]
    /\ holder = [r \in Registries |-> Nobody]
    /\ hooks = {}
    /\ waiting = [t \in Threads |-> "no"]
    /\ entry = [t \in Threads |-> 0]
    /\ global_sigint_generation = 0 /\ global_sigint_waiters = 0
    /\ handler = [t \in Threads |-> "none"]
    /\ sig = [t \in Threads |-> "none"]
    /\ depth = [t \in Threads |-> 0]
    /\ global_signal_depth = 0
    /\ tids = [t \in Threads |-> {}]
    /\ count = [t \in Threads |-> [threads |-> 0, attempts |-> 0]]
    /\ capture = {} /\ frozen = {} /\ global_stopped_count = 0
    /\ child = "none" /\ report = {} /\ g_busy = FALSE
    /\ ended = FALSE /\ signals = 0 /\ raced = FALSE

Alive(t) == life[t] # "none"

\* Thread t runs its own code: it is in no signal handler.
Runs(t) == ~ended /\ Alive(t) /\ handler[t] = "none" /\ t \notin frozen

At(t, here, there) ==
    Runs(t) /\ life[t] = here /\ life' = [life EXCEPT ![t] = there]

-----------------------------------------------------------------------------
(* Threads and the registry of their names.                                *)

\* CreateThread, by a thread that runs, or by the main thread before it calls
\* Initialize.
MayCreate(p) ==
    Runs(p) /\ waiting[p] = "no"
        /\ (life[p] = "run" \/ (p = Main /\ life[p] = "load"))

CreateThread(t) ==
    /\ life[t] = "none" /\ \E p \in Threads : MayCreate(p)
    /\ life' = [life EXCEPT ![t] = "load"]
    /\ UNCHANGED <<mine, g_thread_registry, names_, holder, hooks, sigintVars,
                   signalVars>>

\* ThreadRegistry::GetOrCreate: the load without the creation mutex ...
GetOrCreate(t) ==
    /\ At(t, "load", IF g_thread_registry = 0 THEN "create" ELSE "add")
    /\ mine' = [mine EXCEPT ![t] = g_thread_registry]
    /\ UNCHANGED <<g_thread_registry, names_, holder, hooks, sigintVars,
                   signalVars>>

\* ... and what it does under it: load again, and make the registry if there
\* is still none.
CreateLockedSlip(t) ==
    /\ At(t, "create", "add")
    /\ g_thread_registry' = IF g_thread_registry + 1 \in Registries
                            THEN g_thread_registry + 1 ELSE g_thread_registry
    /\ mine' = [mine EXCEPT ![t] = g_thread_registry']
    /\ UNCHANGED <<names_, holder, hooks, sigintVars, signalVars>>

CreateLocked(t) ==
    /\ At(t, "create", "add")
    /\ g_thread_registry' = IF g_thread_registry = 0 THEN 1 ELSE g_thread_registry
    /\ mine' = [mine EXCEPT ![t] = g_thread_registry']
    /\ UNCHANGED <<names_, holder, hooks, sigintVars, signalVars>>

\* MutexLock on the registry's mutex_.
LockRegistry(t, r) == holder[r] = Nobody /\ holder' = [holder EXCEPT ![r] = t]

Add(t) ==
    /\ At(t, "add", "adding") /\ LockRegistry(t, mine[t])
    /\ UNCHANGED <<mine, g_thread_registry, names_, hooks, sigintVars, signalVars>>

Added(t) ==
    /\ At(t, "adding", IF t = Main THEN "setup" ELSE "run")
    /\ names_' = [names_ EXCEPT ![mine[t]] = @ \cup {t}]
    /\ holder' = [holder EXCEPT ![mine[t]] = Nobody]
    /\ mine' = [mine EXCEPT ![t] = 0]
    /\ UNCHANGED <<g_thread_registry, hooks, sigintVars, signalVars>>

\* The function of the thread returns; ~ScopedThreadRegistration.
FnReturns(t) ==
    /\ t # Main /\ waiting[t] = "no" /\ At(t, "run", "remove")
    /\ UNCHANGED <<mine, g_thread_registry, names_, holder, hooks, sigintVars,
                   signalVars>>

Remove(t) ==
    /\ At(t, "remove", "removing") /\ LockRegistry(t, g_thread_registry)
    /\ mine' = [mine EXCEPT ![t] = g_thread_registry]
    /\ UNCHANGED <<g_thread_registry, names_, hooks, sigintVars, signalVars>>

Removed(t) ==
    /\ At(t, "removing", "returning")
    /\ names_' = [names_ EXCEPT ![mine[t]] = @ \ {t}]
    /\ holder' = [holder EXCEPT ![mine[t]] = Nobody]
    /\ mine' = [mine EXCEPT ![t] = 0]
    /\ UNCHANGED <<g_thread_registry, hooks, sigintVars, signalVars>>

\* ready_to_join_ is stored, the thread ends and Join returns to its owner: the
\* kernel may give its tid to the next thread.  A signal pending on it is lost.
Join(t) ==
    /\ At(t, "returning", "none")
    /\ capture' = capture \ {t}
    /\ UNCHANGED <<mine, g_thread_registry, names_, holder, hooks, sigintVars,
                   handler, sig, depth, global_signal_depth, tids, count,
                   frozen, global_stopped_count, dumpVars, ended, signals,
                   raced>>

-----------------------------------------------------------------------------
(* Initialize and AwaitSigInt.                                             *)

\* ValidateEnvironment, before the main thread is registered: an unsuitable
\* environment ends the process.
ValidateEnvironment ==
    /\ Runs(Main) /\ life[Main] = "load"
    /\ ended' = TRUE
    /\ UNCHANGED <<threadVars, sigintVars, handler, sig, depth,
                   global_signal_depth, tids, count, capture, frozen,
                   global_stopped_count, dumpVars, signals, raced>>

RegisterStartupHook(t) ==
    /\ ~ended /\ life[Main] = "load" /\ t \notin hooks /\ t # Main
    /\ hooks' = hooks \cup {t}
    /\ UNCHANGED <<life, mine, g_thread_registry, names_, holder, sigintVars,
                   signalVars>>

\* After RegisterMainThread: the handlers are installed and the flags parsed, or
\* the process exits.
Initialize ==
    /\ At(Main, "setup", "hooks")
    /\ ended' \in BOOLEAN
    /\ UNCHANGED <<mine, g_thread_registry, names_, holder, hooks, sigintVars,
                   handler, sig, depth, global_signal_depth, tids, count,
                   capture, frozen, global_stopped_count, dumpVars,
                   signals, raced>>

\* The hooks run one after the other; each starts a thread.
RunStartupHooks ==
    /\ Runs(Main) /\ life[Main] = "hooks"
    /\ \/ \E t \in hooks :
             /\ hooks' = hooks \ {t}
             /\ life' = IF life[t] = "none" THEN [life EXCEPT ![t] = "load"]
                        ELSE life
       \/ hooks = {} /\ life' = [life EXCEPT ![Main] = "run"] /\ UNCHANGED hooks
    /\ UNCHANGED <<mine, g_thread_registry, names_, holder, sigintVars, signalVars>>

\* WaitForSigInt: announce, read the generation, poll until it changes.
WaitForSigInt(t) ==
    /\ Runs(t) /\ t \in Waiters /\ life[t] = "run"
    /\ \/ /\ waiting[t] = "no"
          /\ waiting' = [waiting EXCEPT ![t] = "counted"]
          /\ global_sigint_waiters' = global_sigint_waiters + 1
          /\ UNCHANGED entry
       \/ /\ waiting[t] = "counted"
          /\ waiting' = [waiting EXCEPT ![t] = "loop"]
          /\ entry' = [entry EXCEPT ![t] = global_sigint_generation]
          /\ UNCHANGED global_sigint_waiters
       \/ /\ waiting[t] = "loop" /\ entry[t] # global_sigint_generation
          /\ waiting' = [waiting EXCEPT ![t] = "no"]
          /\ entry' = [entry EXCEPT ![t] = 0]
          /\ global_sigint_waiters' = global_sigint_waiters - 1
    /\ UNCHANGED <<threadVars, global_sigint_generation, signalVars>>

-----------------------------------------------------------------------------
(* DeadlySignalHandler.                                                    *)

\* A signal arrives at a thread, wherever it is; the handlers are installed.
Signal(t, s) ==
    /\ ~ended /\ signals < MaxSignals /\ Alive(t) /\ handler[t] = "none"
    /\ life[Main] \in {"hooks", "run"}
    /\ signals' = signals + 1
    /\ handler' = [handler EXCEPT ![t] = "load"]
    /\ sig' = [sig EXCEPT ![t] = s]
    /\ frozen' = frozen \ {t}
    /\ UNCHANGED <<threadVars, sigintVars, depth, global_signal_depth, tids,
                   count, capture, global_stopped_count, dumpVars, ended,
                   raced>>

\* A signal arrives at a thread that is in the handler for another one: the
\* handler runs again on top of itself, here in one step.  It ends the process,
\* unless the handler below has not counted itself yet.
SignalAgain(t, s) ==
    /\ ~ended /\ signals < MaxSignals
    /\ handler[t] # "none" /\ (s = "SIGINT" => sig[t] # s)
    /\ signals' = signals + 1
    /\ global_signal_depth' = global_signal_depth + 1
    /\ ended' = (global_signal_depth > 0)
    /\ frozen' = frozen \ {t}
    /\ IF s = "SIGINT" /\ global_sigint_waiters > 0 /\ ~ended'
       THEN /\ global_sigint_generation' = global_sigint_generation + 1
            /\ UNCHANGED <<handler, sig, depth>>
       ELSE /\ handler' = [handler EXCEPT ![t] = "enumerate"]
            /\ sig' = [sig EXCEPT ![t] = "none"]
            /\ depth' = [depth EXCEPT ![t] = 0]
            /\ UNCHANGED global_sigint_generation
    /\ UNCHANGED <<threadVars, waiting, entry, global_sigint_waiters, tids, count,
                   capture, global_stopped_count, dumpVars, raced>>

Handles(t, here) == ~ended /\ handler[t] = here /\ t \notin frozen

\* global_signal_depth = global_signal_depth + 1, of a plain int: a load ...
DepthLoad(t) ==
    /\ Handles(t, "load")
    /\ handler' = [handler EXCEPT ![t] = "store"]
    /\ depth' = [depth EXCEPT ![t] = global_signal_depth]
    /\ UNCHANGED <<threadVars, sigintVars, sig, global_signal_depth, tids, count,
                   capture, frozen, global_stopped_count, dumpVars, ended,
                   signals, raced>>

\* ... and a store.
DepthStore(t) ==
    /\ Handles(t, "store")
    /\ handler' = [handler EXCEPT ![t] = "test"]
    /\ global_signal_depth' = depth[t] + 1
    /\ raced' = (raced \/ depth[t] # global_signal_depth)
    /\ depth' = [depth EXCEPT ![t] = 0]
    /\ UNCHANGED <<threadVars, sigintVars, sig, tids, count, capture,
                   frozen, global_stopped_count, dumpVars, ended, signals>>

\* The guard against reentry, and the SIGINT that only releases waiters.
ReentryTest(t) ==
    /\ Handles(t, "test")
    /\ sig' = [sig EXCEPT ![t] = "none"]
    /\ LET benign == sig[t] = "SIGINT" /\ global_sigint_waiters > 0
           reentered == global_signal_depth > 1
       IN  /\ ended' = reentered
           /\ handler' = [handler EXCEPT ![t] =
                             IF reentered THEN "none" ELSE IF benign THEN "none"
                             ELSE "enumerate"]
           /\ global_sigint_generation' = IF benign /\ ~reentered
                                          THEN global_sigint_generation + 1
                                          ELSE global_sigint_generation
    /\ UNCHANGED <<threadVars, waiting, entry, global_sigint_waiters, depth,
                   global_signal_depth, tids, count, capture, frozen,
                   global_stopped_count, dumpVars, signals, raced>>

\* The threads of /proc/self/task, without this one.
EnumerateOtherThreads(t) ==
    /\ Handles(t, "enumerate")
    /\ LET others == {u \in Threads : Alive(u)} \ {t}
       IN  /\ tids' = [tids EXCEPT ![t] = others]
           /\ count' = [count EXCEPT ![t] = [threads |-> Cardinality(others),
                                             attempts |-> Attempts]]
    /\ handler' = [handler EXCEPT ![t] = "signal"]
    /\ UNCHANGED <<threadVars, sigintVars, sig, depth, global_signal_depth,
                   capture, frozen, global_stopped_count, dumpVars, ended,
                   signals, raced>>

\* tkill to each; a thread that is gone by now takes none.
SignalThreads(t) ==
    /\ Handles(t, "signal")
    /\ \/ \E u \in tids[t] :
             /\ tids' = [tids EXCEPT ![t] = @ \ {u}]
             /\ capture' = IF Alive(u) THEN capture \cup {u} ELSE capture
             /\ UNCHANGED handler
       \/ /\ tids[t] = {} /\ handler' = [handler EXCEPT ![t] = "await"]
          /\ UNCHANGED <<tids, capture>>
    /\ UNCHANGED <<threadVars, sigintVars, sig, depth, global_signal_depth,
                   count, frozen, global_stopped_count, dumpVars, ended,
                   signals, raced>>

\* A thread takes kCaptureSignal and sleeps on global_futex_flag for good.
CapturedThreadHandler(t) ==
    /\ ~ended /\ t \in capture \ frozen
    /\ capture' = capture \ {t}
    /\ frozen' = frozen \cup {t}
    /\ global_stopped_count' = global_stopped_count + 1
    /\ UNCHANGED <<threadVars, sigintVars, handler, sig, depth,
                   global_signal_depth, tids, count, dumpVars, ended,
                   signals, raced>>

AwaitCapturedThreads(t) ==
    /\ Handles(t, "await")
    /\ IF global_stopped_count < count[t].threads /\ count[t].attempts > 0
       THEN count' = [count EXCEPT ![t].attempts = @ - 1] /\ UNCHANGED handler
       ELSE /\ handler' = [handler EXCEPT ![t] = "dump"]
            /\ count' = [count EXCEPT ![t] = [threads |-> 0, attempts |-> 0]]
    /\ UNCHANGED <<threadVars, sigintVars, sig, depth, global_signal_depth, tids,
                   capture, frozen, global_stopped_count, dumpVars, ended,
                   signals, raced>>

\* Addr2Line::Start forks the coprocess, or fails and the dump does without it.
StartAddr2Line == child' \in {"none", "up"}

\* DumpImpl, up to its loop over the threads.  If another dump is active it
\* returns and the handler exits; else it starts addr2line, if it can.
StartDump(t) ==
    /\ Handles(t, "dump")
    /\ IF g_busy THEN ended' = TRUE /\ UNCHANGED <<handler, tids, child, g_busy>>
       ELSE /\ g_busy' = TRUE /\ StartAddr2Line /\ UNCHANGED ended
            /\ tids' = [tids EXCEPT ![t] = {u \in Threads : Alive(u)}]
            /\ handler' = [handler EXCEPT ![t] = "emit"]
    /\ UNCHANGED <<threadVars, sigintVars, sig, depth, global_signal_depth,
                   count, capture, frozen, global_stopped_count, report,
                   signals, raced>>

\* ThreadRegistry::Lookup does not wait for mutex_, which a frozen thread may
\* hold: on contention the dump goes without the name.
Named(u) == g_thread_registry # 0 /\ u \in names_[g_thread_registry]

LookupSlip(u) ==
    /\ g_thread_registry # 0 => holder[g_thread_registry] = Nobody
    /\ report' = IF Named(u) THEN report \cup {u} ELSE report

Lookup(u) ==
    report' = IF Named(u) /\ holder[g_thread_registry] = Nobody
              THEN report \cup {u} ELSE report

\* Addr2Line::ReadOutput waits for an answer with a timeout, and gives up the
\* coprocess (Poison) when none comes: it hangs or has died.
ReadOutput == child' \in {"up", "poisoned"}

\* Addr2Line::Query fails fast once the coprocess is given up.
Query == IF child = "up" THEN ReadOutput ELSE UNCHANGED child

\* A thread's header and its frames.
EmitThread(t) ==
    /\ Handles(t, "emit")
    /\ \E u \in tids[t] :
          Lookup(u) /\ Query /\ tids' = [tids EXCEPT ![t] = @ \ {u}]
    /\ UNCHANGED <<threadVars, sigintVars, handler, sig, depth,
                   global_signal_depth, count, capture, frozen,
                   global_stopped_count, g_busy, ended, signals, raced>>

\* Addr2Line::Stop reaps the coprocess, killing it after 200 ms.
Stop == child' = "none"

\* The dump is done, and the handler calls _exit.
FinishDump(t) ==
    /\ Handles(t, "emit") /\ tids[t] = {}
    /\ Stop /\ g_busy' = FALSE /\ ended' = TRUE
    /\ UNCHANGED <<threadVars, sigintVars, handler, sig, depth,
                   global_signal_depth, tids, count, capture, frozen,
                   global_stopped_count, report, signals, raced>>

-----------------------------------------------------------------------------

Registration(t) ==
    GetOrCreate(t) \/ CreateLocked(t) \/ Add(t) \/ Added(t) \/ Remove(t)
        \/ Removed(t) \/ Join(t)

Handling(t) ==
    \/ DepthLoad(t) \/ DepthStore(t) \/ ReentryTest(t)
    \/ EnumerateOtherThreads(t) \/ SignalThreads(t) \/ AwaitCapturedThreads(t)
    \/ StartDump(t) \/ EmitThread(t) \/ FinishDump(t)

ProcessNext ==
    \/ \E t \in Threads :
          \/ CreateThread(t) \/ RegisterStartupHook(t) \/ FnReturns(t)
          \/ GetOrCreate(t) \/ CreateLocked(t) \/ Add(t) \/ Added(t)
          \/ Remove(t) \/ Removed(t) \/ Join(t) \/ WaitForSigInt(t)
          \/ \E s \in Signals : Signal(t, s) \/ SignalAgain(t, s)
          \/ DepthLoad(t) \/ DepthStore(t) \/ ReentryTest(t)
          \/ EnumerateOtherThreads(t) \/ SignalThreads(t)
          \/ CapturedThreadHandler(t) \/ AwaitCapturedThreads(t)
          \/ StartDump(t) \/ EmitThread(t) \/ FinishDump(t)
    \/ ValidateEnvironment \/ Initialize \/ RunStartupHooks

ProcessSpec == ProcessInit /\ [][ProcessNext]_processVars

(* RegistryTruthful: the one registry names every thread that runs its     *)
(* function, and names no thread that has ended, whose tid the kernel may  *)
(* give to another: GetOrCreate of the first threads may not make two.     *)
RegistryTruthful ==
    /\ \A t \in Threads :
          life[t] \in {"setup", "hooks", "run", "remove"} =>
              g_thread_registry # 0 /\ t \in names_[g_thread_registry]
    /\ \A r \in Registries : \A t \in names_[r] :
          life[t] \in {"setup", "hooks", "run", "remove", "removing"}

InHandler == {t \in Threads : handler[t] # "none"}

(* DeadlySignalEnds: threads that enter DeadlySignalHandler leave it or    *)
(* the process ends, although threads exit between their enumeration and   *)
(* their signal, a captured thread holds the registry's mutex, and         *)
(* addr2line hangs.  Two handlers that took the same depth are the         *)
(* exception: each may capture the other.                                  *)
DeadlySignalEnds == (InHandler # {}) ~> (ended \/ raced \/ InHandler = {})
=============================================================================
