----------------------------- MODULE Lifecycle -------------------------------
(***************************************************************************)
(* The start and the end of a traced program: the static constructors and   *)
(* destructors, the SIGTRAP thread and the ftrace thread they start and     *)
(* stop, and the snapshots taken meanwhile.                                 *)
(*                                                                         *)
(* The constructors run in the order of the globals' definitions, register  *)
(* the main thread, start the SIGTRAP thread, start the ftrace thread; the  *)
(* destructors in the opposite order.  The collector, started and stopped   *)
(* between the two threads, is TraceRegistry's subject; so is what a        *)
(* registration does under the registry's mutex, here one step.             *)
(***************************************************************************)
EXTENDS Integers

CONSTANTS
  Main,      \* the main thread
  Sig,       \* sigtrap_handler's thread
  Ftrace,    \* ftrace_handler's thread
  Dummy,     \* the thread that ~ftrace_handler starts to wake Ftrace
  User,      \* a detached thread of the program, which takes snapshots
  Nobody,    \* no holder
  MaxPipe,   \* bound: how many lines wait in trace_pipe
  Early      \* whether a SIGTRAP may arrive before main() is entered

Threads == {Main, Sig, Ftrace, Dummy, User}

ASSUME DistinctAssumption ==
  /\ Main \notin {Sig, Ftrace, Dummy, User} /\ Sig \notin {Ftrace, Dummy, User}
  /\ Ftrace \notin {Dummy, User} /\ Dummy # User /\ Nobody \notin Threads
ASSUME PipeAssumption == MaxPipe \in Nat \ {0}
ASSUME ScheduleAssumption == Early \in BOOLEAN

VARIABLES
  pc,         \* what each thread does next
  registry,   \* who holds trace_global_state::mutex
  sigmutex,   \* sigtrap_handler::mutex, whether it is locked
  sigquit,    \* sigtrap_handler::quit
  installed,  \* whether SIGTRAP has its handler
  ftmutex,    \* who holds ftrace_handler::mutex
  ftquit, done, started,   \* ftrace_handler's flags
  handler,    \* g_ftrace_handler: "raw", "live" or "destroyed"
  events,     \* ftrace_handler::events, as a bit that every store flips
  pipe,       \* how many lines wait in trace_pipe
  owed        \* history: a SIGTRAP came before main() returned, and its thread
              \* began no snapshot since

sigVars  == <<sigmutex, sigquit, installed>>
ftVars   == <<ftquit, done, started, handler, events>>
vars     == <<pc, registry, sigVars, ftmutex, ftVars, pipe, owed>>

Init ==
  /\ pc = [t \in Threads |-> IF t = Main THEN "register" ELSE "unborn"]
  /\ registry = Nobody
  /\ sigmutex = FALSE /\ sigquit = FALSE /\ installed = FALSE
  /\ ftmutex = Nobody
  /\ ftquit = FALSE /\ done = FALSE /\ started = FALSE
  /\ handler = "raw" /\ events = 0
  /\ pipe = 0
  /\ owed = FALSE

Goto(t, from, to) == pc[t] = from /\ pc' = [pc EXCEPT ![t] = to]

\* Thread t goes on, and starts thread s.
GotoStarting(t, from, to, s) ==
  pc[t] = from /\ pc' = [pc EXCEPT ![t] = to, ![s] = "born"]

\* A short critical section of thread t on the registry.
InRegistry(t, from, to) == registry = Nobody /\ Goto(t, from, to)

InMain == pc[Main] = "main"

Snapshotting == {"pausing", "lock events", "read events", "write"}

------------------------------------------------------------------------------
(* Every thread starts by registering itself and ends by unregistering      *)
(* (pthread_entry_point); the library's own then ask to be ignored.         *)

Register(t) ==
  /\ InRegistry(t, "born", CASE t = Sig    -> "ignore"
                             [] t = Ftrace -> "ftrace thread"
                             [] t = Dummy  -> "unregister"
                             [] OTHER      -> "running")
  /\ UNCHANGED <<registry, sigVars, ftmutex, ftVars, pipe, owed>>

Unregister(t) ==
  /\ t # Main
  /\ InRegistry(t, "unregister", "gone")
  /\ UNCHANGED <<registry, sigVars, ftmutex, ftVars, pipe, owed>>

------------------------------------------------------------------------------
(* Snapshots, by the SIGTRAP thread and by the program's.  Only what they    *)
(* do to the two mutexes counts: the registry's is held throughout.          *)

SnapshotPause(t) ==
  /\ InRegistry(t, "snapshot", "pausing")
  /\ registry' = t
  /\ owed' = (owed /\ t # Sig)
  /\ UNCHANGED <<sigVars, ftmutex, ftVars, pipe>>

\* The threads' traces are copied or written, tracing resumes.
SnapshotResume(t) ==
  /\ Goto(t, "pausing", "lock events")
  /\ UNCHANGED <<registry, sigVars, ftmutex, ftVars, pipe, owed>>

\* events_snapshot()
SnapshotLockEvents(t) ==
  /\ ftmutex = Nobody
  /\ Goto(t, "lock events", "read events")
  /\ ftmutex' = t
  /\ UNCHANGED <<registry, sigVars, ftVars, pipe, owed>>

SnapshotUnlockEvents(t) ==
  /\ Goto(t, "read events", "write")
  /\ ftmutex' = Nobody
  /\ UNCHANGED <<registry, sigVars, ftVars, pipe, owed>>

SnapshotDone(t) ==
  /\ Goto(t, "write", IF t = Sig THEN "wait" ELSE "running")
  /\ registry' = Nobody
  /\ UNCHANGED <<sigVars, ftmutex, ftVars, pipe, owed>>

\* Where the handler has been destroyed the events read are freed memory, if
\* there were any: there were once its thread had been started.  The process
\* may crash, or go on as above.
ReadDestroyed(t) ==
  /\ pc[t] = "read events" /\ handler = "destroyed" /\ pc[Ftrace] # "unborn"
  /\ pc' = [pc EXCEPT ![Main] = "crashed"]
  /\ UNCHANGED <<registry, sigVars, ftmutex, ftVars, pipe, owed>>

Snapshot(t) ==
  \/ SnapshotPause(t) \/ SnapshotResume(t) \/ SnapshotLockEvents(t)
  \/ SnapshotUnlockEvents(t) \/ ReadDestroyed(t) \/ SnapshotDone(t)

\* The program takes a snapshot whenever it likes, from a thread that goes on
\* when main() returns.
UserSnapshot ==
  /\ Goto(User, "running", "snapshot")
  /\ UNCHANGED <<registry, sigVars, ftmutex, ftVars, pipe, owed>>

------------------------------------------------------------------------------
(* SIGTRAP.                                                                 *)

Constructing == pc[Main] \in {"make ftrace", "lock", "start ftrace", "wait started"}
Destroying == pc[Main] \in {"quit ftrace", "wake ftrace", "join dummy", "join ftrace",
                            "quit sigtrap", "unlock sigtrap", "join sigtrap", "unregister"}

\* When the environment sends it.
SignalTime == InMain \/ (Early /\ Constructing) \/ Destroying

\* A mutant of Signal: who is not waiting is not told.
SignalNotify ==
  /\ installed /\ SignalTime
  /\ sigmutex' = (sigmutex /\ pc[Sig] # "wait")
  /\ owed' = (owed \/ ~Destroying)
  /\ UNCHANGED <<pc, registry, sigquit, installed, ftmutex, ftVars, pipe>>

\* signal_handler(), in any thread: the mutex serves as a semaphore.
Signal ==
  /\ installed /\ SignalTime
  /\ sigmutex' = FALSE
  /\ owed' = (owed \/ ~Destroying)
  /\ UNCHANGED <<pc, registry, sigquit, installed, ftmutex, ftVars, pipe>>

SigIgnore ==
  /\ InRegistry(Sig, "ignore", "wait")
  /\ UNCHANGED <<registry, sigVars, ftmutex, ftVars, pipe, owed>>

\* The thread's mutex.lock()
SigLock ==
  /\ ~sigmutex
  /\ Goto(Sig, "wait", "awake")
  /\ sigmutex' = TRUE
  /\ UNCHANGED <<registry, sigquit, installed, ftmutex, ftVars, pipe, owed>>

SigAwake ==
  /\ Goto(Sig, "awake", IF sigquit THEN "unregister" ELSE "snapshot")
  /\ UNCHANGED <<registry, sigVars, ftmutex, ftVars, pipe, owed>>

SigThread == SigIgnore \/ SigLock \/ SigAwake \/ Snapshot(Sig)

------------------------------------------------------------------------------
(* The thread that reads trace_pipe.                                        *)

\* The thread notes that it has started ...
FtraceStarted ==
  /\ Goto(Ftrace, "ftrace thread", "ignore")
  /\ started' = TRUE
  /\ UNCHANGED <<registry, sigVars, ftmutex, ftquit, done, handler, events, pipe, owed>>

\* ... and asks to be ignored.
FtraceIgnore ==
  /\ InRegistry(Ftrace, "ignore", "set up")
  /\ UNCHANGED <<registry, sigVars, ftmutex, ftVars, pipe, owed>>

\* A mutant of FtraceSetUp: the thread ends early when it fails.
FtraceSetUpSilent ==
  /\ Goto(Ftrace, "set up", "check quit")
  /\ ftquit' \in {ftquit, TRUE}
  /\ ftmutex' = IF ftquit' THEN ftmutex ELSE Nobody
  /\ UNCHANGED <<registry, sigVars, done, started, handler, events, pipe, owed>>

\* It sets its filters and opens the pipe, which may fail, and lets the
\* constructor go on by unlocking the mutex that the constructor locked.
FtraceSetUp ==
  /\ Goto(Ftrace, "set up", "check quit")
  /\ ftquit' \in {ftquit, TRUE}
  /\ ftmutex' = Nobody
  /\ UNCHANGED <<registry, sigVars, done, started, handler, events, pipe, owed>>

FtraceCheckQuit ==
  /\ Goto(Ftrace, "check quit", IF ftquit THEN "done" ELSE "getline")
  /\ UNCHANGED <<registry, sigVars, ftmutex, ftVars, pipe, owed>>

\* getline() blocks while the pipe is empty.
FtraceGetLine ==
  /\ pipe > 0
  /\ Goto(Ftrace, "getline", "lock")
  /\ pipe' = pipe - 1
  /\ UNCHANGED <<registry, sigVars, ftmutex, ftVars, owed>>

\* A mutant of FtraceLock: the store is not locked out.
FtraceLockNothing ==
  /\ Goto(Ftrace, "lock", "store")
  /\ UNCHANGED <<registry, sigVars, ftmutex, ftVars, pipe, owed>>

FtraceLock ==
  /\ ftmutex = Nobody
  /\ Goto(Ftrace, "lock", "store")
  /\ ftmutex' = Ftrace
  /\ UNCHANGED <<registry, sigVars, ftVars, pipe, owed>>

FtraceStore ==
  /\ Goto(Ftrace, "store", "check quit")
  /\ events' \in {events, 1 - events}
  /\ ftmutex' = Nobody
  /\ UNCHANGED <<registry, sigVars, ftquit, done, started, handler, pipe, owed>>

FtraceDone ==
  /\ Goto(Ftrace, "done", "unregister")
  /\ done' = TRUE
  /\ UNCHANGED <<registry, sigVars, ftmutex, ftquit, started, handler, events, pipe, owed>>

FtraceThread ==
  \/ FtraceStarted \/ FtraceIgnore \/ FtraceSetUp \/ FtraceCheckQuit
  \/ FtraceGetLine \/ FtraceLock \/ FtraceStore \/ FtraceDone

\* The kernel reports what the program's threads do.
Scheduled ==
  /\ started /\ pipe < MaxPipe
  /\ pipe' = pipe + 1
  /\ UNCHANGED <<pc, registry, sigVars, ftmutex, ftVars, owed>>

------------------------------------------------------------------------------
(* The main thread: the constructors.                                       *)

RegisterMain ==
  /\ InRegistry(Main, "register", "make sigtrap")
  /\ UNCHANGED <<registry, sigVars, ftmutex, ftVars, pipe, owed>>

MakeSigtrap ==
  /\ GotoStarting(Main, "make sigtrap", "install", Sig)
  /\ sigmutex' = TRUE
  /\ sigquit' = FALSE
  /\ UNCHANGED <<registry, installed, ftmutex, ftVars, pipe, owed>>

InstallHandler ==
  /\ Goto(Main, "install", "make ftrace")
  /\ installed' = TRUE
  /\ UNCHANGED <<registry, sigmutex, sigquit, ftmutex, ftVars, pipe, owed>>

\* The members are initialised, the mutex among them.  Without a buffer, or
\* without access to ftrace, no thread is started.
MakeFtrace ==
  /\ \E to \in {"lock", "main"} : Goto(Main, "make ftrace", to)
  /\ ftmutex' = Nobody
  /\ ftquit' = FALSE /\ done' = FALSE /\ started' = FALSE
  /\ handler' = "live" /\ events' = 0
  /\ UNCHANGED <<registry, sigVars, pipe, owed>>

MainLock ==
  /\ ftmutex = Nobody
  /\ Goto(Main, "lock", "start ftrace")
  /\ ftmutex' = Main
  /\ UNCHANGED <<registry, sigVars, ftVars, pipe, owed>>

StartFtrace ==
  /\ GotoStarting(Main, "start ftrace", "wait started", Ftrace)
  /\ UNCHANGED <<registry, sigVars, ftmutex, ftVars, pipe, owed>>

\* A mutant of WaitStarted: the constructor does not wait.
WaitNothing ==
  /\ Goto(Main, "wait started", "main")
  /\ UNCHANGED <<registry, sigVars, ftmutex, ftVars, pipe, owed>>

\* The constructor locks the mutex again, and unlocks it.
WaitStarted ==
  /\ ftmutex = Nobody
  /\ Goto(Main, "wait started", "main")
  /\ UNCHANGED <<registry, sigVars, ftmutex, ftVars, pipe, owed>>

Construct ==
  \/ RegisterMain \/ MakeSigtrap \/ InstallHandler
  \/ MakeFtrace \/ MainLock \/ StartFtrace \/ WaitStarted

------------------------------------------------------------------------------
(* The main thread: main() and the destructors.                             *)

StartUser ==
  /\ pc[User] = "unborn"
  /\ GotoStarting(Main, "main", "main", User)
  /\ UNCHANGED <<registry, sigVars, ftmutex, ftVars, pipe, owed>>

\* main() returns whatever the other threads are doing.
ReturnFromMain ==
  /\ Goto(Main, "main", "quit ftrace")
  /\ UNCHANGED <<registry, sigVars, ftmutex, ftVars, pipe, owed>>

\* ~ftrace_handler, of a handler whose thread has said that it started ...
QuitFtrace ==
  /\ started
  /\ Goto(Main, "quit ftrace", "wake ftrace")
  /\ ftquit' = TRUE
  /\ UNCHANGED <<registry, sigVars, ftmutex, done, started, handler, events, pipe, owed>>

\* ... and of one whose thread has not; where there is one, destroying the
\* object that stands for it calls std::terminate().
QuitNoFtrace ==
  /\ ~started
  /\ Goto(Main, "quit ftrace", IF pc[Ftrace] = "unborn" THEN "quit sigtrap" ELSE "terminated")
  /\ handler' = "destroyed"
  /\ UNCHANGED <<registry, sigVars, ftmutex, ftquit, done, started, events, pipe, owed>>

\* A mutant of WakeFtrace: the ftrace thread is left to wake up by itself.
WakeFtraceNot ==
  /\ ~done
  /\ Goto(Main, "wake ftrace", "join ftrace")
  /\ UNCHANGED <<registry, sigVars, ftmutex, ftVars, pipe, owed>>

\* Until the ftrace thread is done, threads are started for the kernel to
\* report.
WakeFtrace ==
  /\ ~done
  /\ GotoStarting(Main, "wake ftrace", "join dummy", Dummy)
  /\ pipe' \in {pipe, pipe + 1} /\ pipe' <= MaxPipe /\ pipe' > 0
  /\ UNCHANGED <<registry, sigVars, ftmutex, ftVars, owed>>

FtraceWoken ==
  /\ done
  /\ Goto(Main, "wake ftrace", "join ftrace")
  /\ UNCHANGED <<registry, sigVars, ftmutex, ftVars, pipe, owed>>

JoinDummy ==
  /\ pc[Dummy] = "gone"
  /\ Goto(Main, "join dummy", "wake ftrace")
  /\ UNCHANGED <<registry, sigVars, ftmutex, ftVars, pipe, owed>>

\* A mutant of JoinFtrace: the thread is not waited for.
JoinFtraceNot ==
  /\ Goto(Main, "join ftrace", "quit sigtrap")
  /\ handler' = "destroyed"
  /\ UNCHANGED <<registry, sigVars, ftmutex, ftquit, done, started, events, pipe, owed>>

\* The members are destroyed after the thread has been joined.
JoinFtrace ==
  /\ pc[Ftrace] = "gone"
  /\ Goto(Main, "join ftrace", "quit sigtrap")
  /\ handler' = "destroyed"
  /\ UNCHANGED <<registry, sigVars, ftmutex, ftquit, done, started, events, pipe, owed>>

QuitSigtrap ==
  /\ Goto(Main, "quit sigtrap", "unlock sigtrap")
  /\ sigquit' = TRUE
  /\ UNCHANGED <<registry, sigmutex, installed, ftmutex, ftVars, pipe, owed>>

UnlockSigtrap ==
  /\ Goto(Main, "unlock sigtrap", "join sigtrap")
  /\ sigmutex' = FALSE
  /\ UNCHANGED <<registry, sigquit, installed, ftmutex, ftVars, pipe, owed>>

JoinSigtrap ==
  /\ pc[Sig] = "gone"
  /\ Goto(Main, "join sigtrap", "unregister")
  /\ UNCHANGED <<registry, sigVars, ftmutex, ftVars, pipe, owed>>

UnregisterMain ==
  /\ InRegistry(Main, "unregister", "ended")
  /\ UNCHANGED <<registry, sigVars, ftmutex, ftVars, pipe, owed>>

Destroy ==
  \/ QuitFtrace \/ QuitNoFtrace \/ WakeFtrace \/ FtraceWoken \/ JoinDummy \/ JoinFtrace
  \/ QuitSigtrap \/ UnlockSigtrap \/ JoinSigtrap \/ UnregisterMain

------------------------------------------------------------------------------
\* When the main thread has ended, so has the process; or it has crashed.
Running == pc[Main] \notin {"ended", "terminated", "crashed"}

\* What thread t does by itself, not asked by the environment.
Runs(t) ==
  /\ Running
  /\ \/ Register(t) \/ Unregister(t)
     \/ t = Main /\ (Construct \/ Destroy)
     \/ t = Sig /\ SigThread
     \/ t = Ftrace /\ FtraceThread
     \/ t = User /\ Snapshot(User)

Environment == Running /\ (Signal \/ Scheduled \/ StartUser \/ UserSnapshot \/ ReturnFromMain)

Next == (\E t \in Threads : Runs(t)) \/ Environment

Spec == Init /\ [][Next]_vars

FairSpec == Spec /\ \A t \in Threads : SF_vars(Runs(t))

------------------------------------------------------------------------------
(* What the code promises.                                                  *)

Pcs ==
  {"unborn", "born", "unregister", "gone"}
  \cup {"register", "make sigtrap", "install", "make ftrace", "lock", "start ftrace",
        "wait started", "main", "quit ftrace", "wake ftrace", "join dummy", "join ftrace",
        "quit sigtrap", "unlock sigtrap", "join sigtrap", "ended", "terminated",
        "crashed"}
  \cup {"ignore", "wait", "awake", "running", "snapshot"} \cup Snapshotting
  \cup {"ftrace thread", "set up", "check quit", "getline", "store", "done"}

TypeOK ==
  /\ pc \in [Threads -> Pcs]
  /\ registry \in Threads \cup {Nobody} /\ ftmutex \in Threads \cup {Nobody}
  /\ sigmutex \in BOOLEAN /\ sigquit \in BOOLEAN /\ installed \in BOOLEAN
  /\ ftquit \in BOOLEAN /\ done \in BOOLEAN /\ started \in BOOLEAN
  /\ owed \in BOOLEAN
  /\ handler \in {"raw", "live", "destroyed"}
  /\ events \in {0, 1}
  /\ pipe \in 0 .. MaxPipe

\* While a snapshot reads the ftrace events nobody stores one: "we're holding a
\* mutex protecting the cyclic buffer" (lines 1315-1317 of funtrace.cpp), of a
\* handler that is still there.
EventsFrozen ==
  [][\A t \in {Sig, User} :
       pc[t] = "read events" /\ pc'[t] = "read events" => UNCHANGED events]_vars

\* The library's threads never outlive the objects they work on: the ftrace
\* thread is gone when its handler is destroyed (lines 1074-1092), the SIGTRAP
\* thread when its own is (lines 941-945).
ThreadsUseLive ==
  /\ pc[Ftrace] \notin {"unborn", "gone"} => handler = "live"
  /\ pc[Sig] \notin {"unborn", "gone"} => pc[Main] \notin {"unregister", "ended"}

\* No snapshot reads the events of a handler that has been destroyed, which
\* holds only for a program whose snapshots are over when main() returns.
ReadsLive == \A t \in {Sig, User} : pc[t] = "read events" => handler # "destroyed"

\* main() is entered with the ftrace thread, if any, past its set-up: "wait for
\* the thread to unlock the mutex to make sure it started" (line 1070).
StartedInMain ==
  pc[Main] \in {"main", "quit ftrace", "wake ftrace"} =>
    pc[Ftrace] \notin {"born", "ftrace thread", "ignore", "set up"}

\* The constructors end and main() is entered.
StartsUp == <>InMain

\* Every SIGTRAP that arrives before main() returns is followed by a snapshot
\* that begins after it, unless the SIGTRAP thread is told to quit first, or a
\* snapshot meets the destroyed handler.
SignalServed == owed ~> ~owed \/ sigquit \/ pc[Main] = "crashed"

\* Every SIGTRAP that arrives before main() returns, the last one too.
EverySignalServed == owed ~> ~owed

\* Once main() has returned the process ends, whatever snapshots are taken
\* meanwhile, and not by std::terminate(); a snapshot that reads the destroyed
\* handler may crash it.
Ends == pc[Main] = "quit ftrace" ~> pc[Main] \in {"ended", "crashed"}
==============================================================================
