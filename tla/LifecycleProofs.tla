-------------------------- MODULE LifecycleProofs ----------------------------
(***************************************************************************)
(* Proofs about Lifecycle, for a program that is sent no SIGTRAP before     *)
(* main(): that the registry's mutex and the ftrace handler's are held by   *)
(* the thread that is in the section, so that the events a snapshot reads   *)
(* stay what they are; that main() finds the ftrace thread set up; and that *)
(* the library's threads are gone when what they work on is destroyed.      *)
(***************************************************************************)
EXTENDS Lifecycle, TLAPS

Starting == {"born", "ftrace thread", "ignore", "set up"}
BeforeFtrace == {"register", "make sigtrap", "install", "make ftrace", "lock", "start ftrace"}
BeforeMain == BeforeFtrace \cup {"wait started"}
Left == {"quit ftrace", "wake ftrace", "join dummy", "join ftrace", "quit sigtrap"}
SigtrapLeft == {"unlock sigtrap", "join sigtrap", "unregister", "ended"}
Busy == Snapshotting \cup {"snapshot"}

\* Who holds the registry's mutex is in the middle of a snapshot.
RegistryHolder == \A t \in Threads : registry = t <=> pc[t] \in Snapshotting

\* Who holds the ftrace handler's mutex reads the events, stores one, or is
\* the constructor that waits for the thread to release it.
EventsHolder ==
  /\ \A t \in {Sig, User} : ftmutex = t <=> pc[t] = "read events"
  /\ ftmutex = Ftrace <=> pc[Ftrace] = "store"
  /\ ftmutex = Main <=>
       pc[Main] = "start ftrace" \/ (pc[Main] = "wait started" /\ pc[Ftrace] \in Starting)
  /\ ftmutex # Dummy

\* Where the threads can be at all.
Places ==
  /\ pc[Main] \in BeforeMain \cup {"main"} \cup Left \cup SigtrapLeft
                   \cup {"terminated", "crashed"}
  /\ pc[Sig] \in {"unborn", "born", "ignore", "wait", "awake", "unregister", "gone"} \cup Busy
  /\ pc[Ftrace] \in {"unborn", "unregister", "gone", "check quit", "getline", "lock", "store",
                     "done"} \cup Starting
  /\ pc[Dummy] \in {"unborn", "born", "unregister", "gone"}
  /\ pc[User] \in {"unborn", "born", "running"} \cup Busy

\* The constructor keeps the main thread until the ftrace thread is set up.
FtraceAfter ==
  /\ pc[Main] \in BeforeFtrace => pc[Ftrace] = "unborn"
  /\ pc[Ftrace] \in Starting => pc[Main] = "wait started"

\* Nobody takes a snapshot before main().
QuietBefore ==
  /\ pc[Main] \in BeforeMain => pc[User] = "unborn" /\ ~sigquit
  /\ pc[Main] \in BeforeMain => pc[Sig] \in {"unborn", "born", "ignore", "wait"}
  /\ pc[Main] \in BeforeMain /\ pc[Sig] # "unborn" => sigmutex

\* The SIGTRAP thread has been joined.
SigGone == pc[Main] \in {"unregister", "ended"} => pc[Sig] = "gone"

\* The handler is there from its construction to its destruction, after which
\* its thread is not.
HandlerAfter ==
  /\ handler = "raw" => pc[Main] \in {"register", "make sigtrap", "install", "make ftrace"}
  /\ handler = "destroyed" => pc[Main] \in {"quit sigtrap", "crashed"} \cup SigtrapLeft
  /\ handler = "destroyed" => pc[Ftrace] \in {"unborn", "gone"}

\* The program never gets to std::terminate().
NeverTerminated == pc[Main] # "terminated"

\* A thread that has been set up has said so.
StartedSaid == pc[Ftrace] \notin {"unborn", "born", "ftrace thread"} => started

IInv ==
  /\ StartedSaid
  /\ Places /\ RegistryHolder /\ EventsHolder /\ FtraceAfter
  /\ QuietBefore /\ SigGone /\ HandlerAfter /\ NeverTerminated

------------------------------------------------------------------------------
USE DistinctAssumption, PipeAssumption
    DEF DistinctAssumption, PipeAssumption, Threads, vars, sigVars, ftVars

(* Types.                                                                   *)

LEMMA InitType == Init => TypeOK
<1> SUFFICES ASSUME Init PROVE TypeOK
  OBVIOUS
<1>1. pc \in [Threads -> Pcs]
  BY DEF Init, Pcs
<1>2. /\ sigmutex \in BOOLEAN /\ sigquit \in BOOLEAN /\ installed \in BOOLEAN
      /\ ftquit \in BOOLEAN /\ done \in BOOLEAN /\ started \in BOOLEAN
      /\ owed \in BOOLEAN
  BY Zenon DEF Init
<1>3. /\ registry \in Threads \cup {Nobody} /\ ftmutex \in Threads \cup {Nobody}
      /\ handler \in {"raw", "live", "destroyed"} /\ events \in {0, 1}
      /\ pipe \in 0 .. MaxPipe
  BY DEF Init
<1> QED BY <1>1, <1>2, <1>3 DEF TypeOK

LEMMA StepType == TypeOK /\ [Next]_vars => TypeOK'
<1> SUFFICES ASSUME TypeOK, [Next]_vars PROVE TypeOK'
  OBVIOUS
<1> DEFINE Flags ==
      /\ sigmutex \in BOOLEAN /\ sigquit \in BOOLEAN /\ installed \in BOOLEAN
      /\ ftquit \in BOOLEAN /\ done \in BOOLEAN /\ started \in BOOLEAN
      /\ owed \in BOOLEAN
<1> DEFINE Others ==
      /\ registry \in Threads \cup {Nobody} /\ ftmutex \in Threads \cup {Nobody}
      /\ handler \in {"raw", "live", "destroyed"} /\ events \in {0, 1}
      /\ pipe \in 0 .. MaxPipe
<1>0. /\ pc \in [Threads -> Pcs] /\ Flags /\ Others
      /\ pc' \in [Threads -> Pcs] /\ Flags' /\ Others' => TypeOK'
  BY DEF TypeOK
<1>1. ASSUME NEW t \in Threads, Register(t) PROVE TypeOK'
  <2>1. Flags'
    BY <1>0, <1>1, Zenon DEF Register, InRegistry, Goto
  <2>2. pc' \in [Threads -> Pcs] /\ Others'
    BY <1>0, <1>1, ZenonT(40) DEF Register, InRegistry, Goto, Pcs, Snapshotting
  <2> QED BY <1>0, <2>1, <2>2
<1>2. ASSUME NEW t \in Threads, Unregister(t) PROVE TypeOK'
  <2>1. Flags'
    BY <1>0, <1>2, Zenon DEF Unregister, InRegistry, Goto
  <2>2. pc' \in [Threads -> Pcs] /\ Others'
    BY <1>0, <1>2, ZenonT(40) DEF Unregister, InRegistry, Goto, Pcs, Snapshotting
  <2> QED BY <1>0, <2>1, <2>2
<1>3. ASSUME NEW t \in {Sig, User}, SnapshotPause(t) PROVE TypeOK'
  <2>1. Flags'
    BY <1>0, <1>3, Zenon DEF SnapshotPause, InRegistry, Goto
  <2>2. pc' \in [Threads -> Pcs] /\ Others'
    BY <1>0, <1>3 DEF SnapshotPause, InRegistry, Goto, Pcs, Snapshotting
  <2> QED BY <1>0, <2>1, <2>2
<1>4. ASSUME NEW t \in {Sig, User}, SnapshotResume(t) PROVE TypeOK'
  <2>1. Flags'
    BY <1>0, <1>4, Zenon DEF SnapshotResume, Goto
  <2>2. pc' \in [Threads -> Pcs] /\ Others'
    BY <1>0, <1>4 DEF SnapshotResume, Goto, Pcs, Snapshotting
  <2> QED BY <1>0, <2>1, <2>2
<1>5. ASSUME NEW t \in {Sig, User}, SnapshotLockEvents(t) PROVE TypeOK'
  <2>1. Flags'
    BY <1>0, <1>5, Zenon DEF SnapshotLockEvents, Goto
  <2>2. pc' \in [Threads -> Pcs] /\ Others'
    BY <1>0, <1>5 DEF SnapshotLockEvents, Goto, Pcs, Snapshotting
  <2> QED BY <1>0, <2>1, <2>2
<1>6. ASSUME NEW t \in {Sig, User}, SnapshotUnlockEvents(t) PROVE TypeOK'
  <2>1. Flags'
    BY <1>0, <1>6, Zenon DEF SnapshotUnlockEvents, Goto
  <2>2. pc' \in [Threads -> Pcs] /\ Others'
    BY <1>0, <1>6 DEF SnapshotUnlockEvents, Goto, Pcs, Snapshotting
  <2> QED BY <1>0, <2>1, <2>2
<1>7. ASSUME NEW t \in {Sig, User}, ReadDestroyed(t) PROVE TypeOK'
  <2>1. Flags'
    BY <1>0, <1>7, Zenon DEF ReadDestroyed
  <2>2. pc' \in [Threads -> Pcs] /\ Others'
    BY <1>0, <1>7 DEF ReadDestroyed, Pcs, Snapshotting
  <2> QED BY <1>0, <2>1, <2>2
<1>8. ASSUME NEW t \in {Sig, User}, SnapshotDone(t) PROVE TypeOK'
  <2>1. Flags'
    BY <1>0, <1>8, Zenon DEF SnapshotDone, Goto
  <2>2. pc' \in [Threads -> Pcs] /\ Others'
    BY <1>0, <1>8 DEF SnapshotDone, Goto, Pcs, Snapshotting
  <2> QED BY <1>0, <2>1, <2>2
<1>9. ASSUME UserSnapshot PROVE TypeOK'
  <2>1. Flags'
    BY <1>0, <1>9, Zenon DEF UserSnapshot, Goto
  <2>2. pc' \in [Threads -> Pcs] /\ Others'
    BY <1>0, <1>9 DEF UserSnapshot, Goto, Pcs, Snapshotting
  <2> QED BY <1>0, <2>1, <2>2
<1>10. ASSUME Signal PROVE TypeOK'
  <2>1. Flags'
    BY <1>0, <1>10, Zenon DEF Signal, SignalTime, InMain
  <2>2. pc' \in [Threads -> Pcs] /\ Others'
    BY <1>0, <1>10 DEF Signal, SignalTime, InMain, Pcs, Snapshotting
  <2> QED BY <1>0, <2>1, <2>2
<1>11. ASSUME SigIgnore PROVE TypeOK'
  <2>1. Flags'
    BY <1>0, <1>11, Zenon DEF SigIgnore, InRegistry, Goto
  <2>2. pc' \in [Threads -> Pcs] /\ Others'
    BY <1>0, <1>11 DEF SigIgnore, InRegistry, Goto, Pcs, Snapshotting
  <2> QED BY <1>0, <2>1, <2>2
<1>12. ASSUME SigLock PROVE TypeOK'
  <2>1. Flags'
    BY <1>0, <1>12, Zenon DEF SigLock, Goto
  <2>2. pc' \in [Threads -> Pcs] /\ Others'
    BY <1>0, <1>12 DEF SigLock, Goto, Pcs, Snapshotting
  <2> QED BY <1>0, <2>1, <2>2
<1>13. ASSUME SigAwake PROVE TypeOK'
  <2>1. Flags'
    BY <1>0, <1>13, Zenon DEF SigAwake, Goto
  <2>2. pc' \in [Threads -> Pcs] /\ Others'
    BY <1>0, <1>13 DEF SigAwake, Goto, Pcs, Snapshotting
  <2> QED BY <1>0, <2>1, <2>2
<1>14. ASSUME FtraceStarted PROVE TypeOK'
  <2>1. Flags'
    BY <1>0, <1>14, Zenon DEF FtraceStarted, Goto
  <2>2. pc' \in [Threads -> Pcs] /\ Others'
    BY <1>0, <1>14 DEF FtraceStarted, Goto, Pcs, Snapshotting
  <2> QED BY <1>0, <2>1, <2>2
<1>15. ASSUME FtraceIgnore PROVE TypeOK'
  <2>1. Flags'
    BY <1>0, <1>15, Zenon DEF FtraceIgnore, InRegistry, Goto
  <2>2. pc' \in [Threads -> Pcs] /\ Others'
    BY <1>0, <1>15 DEF FtraceIgnore, InRegistry, Goto, Pcs, Snapshotting
  <2> QED BY <1>0, <2>1, <2>2
<1>16. ASSUME FtraceSetUp PROVE TypeOK'
  <2>1. Flags'
    BY <1>0, <1>16, Zenon DEF FtraceSetUp, Goto
  <2>2. pc' \in [Threads -> Pcs] /\ Others'
    BY <1>0, <1>16 DEF FtraceSetUp, Goto, Pcs, Snapshotting
  <2> QED BY <1>0, <2>1, <2>2
<1>17. ASSUME FtraceCheckQuit PROVE TypeOK'
  <2>1. Flags'
    BY <1>0, <1>17, Zenon DEF FtraceCheckQuit, Goto
  <2>2. pc' \in [Threads -> Pcs] /\ Others'
    BY <1>0, <1>17 DEF FtraceCheckQuit, Goto, Pcs, Snapshotting
  <2> QED BY <1>0, <2>1, <2>2
<1>18. ASSUME FtraceGetLine PROVE TypeOK'
  <2>1. pc' \in [Threads -> Pcs]
    BY <1>0, <1>18 DEF FtraceGetLine, Goto, Pcs, Snapshotting
  <2>2. Flags'
    BY <1>0, <1>18, Zenon DEF FtraceGetLine, Goto
  <2>3. Others'
    BY <1>0, <1>18 DEF FtraceGetLine, Goto
  <2> QED BY <1>0, <2>1, <2>2, <2>3
<1>19. ASSUME FtraceLock PROVE TypeOK'
  <2>1. Flags'
    BY <1>0, <1>19, Zenon DEF FtraceLock, Goto
  <2>2. pc' \in [Threads -> Pcs] /\ Others'
    BY <1>0, <1>19 DEF FtraceLock, Goto, Pcs, Snapshotting
  <2> QED BY <1>0, <2>1, <2>2
<1>20. ASSUME FtraceStore PROVE TypeOK'
  <2>1. pc' \in [Threads -> Pcs]
    BY <1>0, <1>20 DEF FtraceStore, Goto, Pcs, Snapshotting
  <2>2. Flags'
    BY <1>0, <1>20, Zenon DEF FtraceStore, Goto
  <2>3. Others'
    <3>1. 1 - events \in {0, 1}
      BY <1>0
    <3> QED BY <1>0, <1>20, <3>1 DEF FtraceStore, Goto
  <2> QED BY <1>0, <2>1, <2>2, <2>3
<1>21. ASSUME FtraceDone PROVE TypeOK'
  <2>1. Flags'
    BY <1>0, <1>21, Zenon DEF FtraceDone, Goto
  <2>2. pc' \in [Threads -> Pcs] /\ Others'
    BY <1>0, <1>21 DEF FtraceDone, Goto, Pcs, Snapshotting
  <2> QED BY <1>0, <2>1, <2>2
<1>22. ASSUME Scheduled PROVE TypeOK'
  <2>1. pc' \in [Threads -> Pcs]
    BY <1>0, <1>22 DEF Scheduled, Pcs, Snapshotting
  <2>2. Flags'
    BY <1>0, <1>22, Zenon DEF Scheduled
  <2>3. Others'
    BY <1>0, <1>22 DEF Scheduled
  <2> QED BY <1>0, <2>1, <2>2, <2>3
<1>23. ASSUME RegisterMain PROVE TypeOK'
  <2>1. Flags'
    BY <1>0, <1>23, Zenon DEF RegisterMain, InRegistry, Goto
  <2>2. pc' \in [Threads -> Pcs] /\ Others'
    BY <1>0, <1>23 DEF RegisterMain, InRegistry, Goto, Pcs, Snapshotting
  <2> QED BY <1>0, <2>1, <2>2
<1>24. ASSUME MakeSigtrap PROVE TypeOK'
  <2>1. Flags'
    BY <1>0, <1>24, Zenon DEF MakeSigtrap, GotoStarting
  <2>2. pc' \in [Threads -> Pcs] /\ Others'
    BY <1>0, <1>24 DEF MakeSigtrap, GotoStarting, Pcs, Snapshotting
  <2> QED BY <1>0, <2>1, <2>2
<1>25. ASSUME InstallHandler PROVE TypeOK'
  <2>1. Flags'
    BY <1>0, <1>25, Zenon DEF InstallHandler, Goto
  <2>2. pc' \in [Threads -> Pcs] /\ Others'
    BY <1>0, <1>25 DEF InstallHandler, Goto, Pcs, Snapshotting
  <2> QED BY <1>0, <2>1, <2>2
<1>26. ASSUME MakeFtrace PROVE TypeOK'
  <2>1. pc' \in [Threads -> Pcs]
    <3>1. \E to \in {"lock", "main"} : pc' = [pc EXCEPT ![Main] = to]
      BY <1>26, Zenon DEF MakeFtrace, Goto
    <3>2. "lock" \in Pcs /\ "main" \in Pcs /\ pc \in [Threads -> Pcs]
      BY <1>0 DEF Pcs
    <3> QED BY ONLY <3>1, <3>2
  <2>2. Flags'
    BY <1>0, <1>26, Zenon DEF MakeFtrace, Goto
  <2>3. Others'
    BY <1>0, <1>26 DEF MakeFtrace, Goto
  <2> QED BY <1>0, <2>1, <2>2, <2>3
<1>27. ASSUME MainLock PROVE TypeOK'
  <2>1. Flags'
    BY <1>0, <1>27, Zenon DEF MainLock, Goto
  <2>2. pc' \in [Threads -> Pcs] /\ Others'
    BY <1>0, <1>27 DEF MainLock, Goto, Pcs, Snapshotting
  <2> QED BY <1>0, <2>1, <2>2
<1>28. ASSUME StartFtrace PROVE TypeOK'
  <2>1. Flags'
    BY <1>0, <1>28, Zenon DEF StartFtrace, GotoStarting
  <2>2. pc' \in [Threads -> Pcs] /\ Others'
    BY <1>0, <1>28 DEF StartFtrace, GotoStarting, Pcs, Snapshotting
  <2> QED BY <1>0, <2>1, <2>2
<1>29. ASSUME WaitStarted PROVE TypeOK'
  <2>1. Flags'
    BY <1>0, <1>29, Zenon DEF WaitStarted, Goto
  <2>2. pc' \in [Threads -> Pcs] /\ Others'
    BY <1>0, <1>29 DEF WaitStarted, Goto, Pcs, Snapshotting
  <2> QED BY <1>0, <2>1, <2>2
<1>30. ASSUME StartUser PROVE TypeOK'
  <2>1. Flags'
    BY <1>0, <1>30, Zenon DEF StartUser, GotoStarting
  <2>2. pc' \in [Threads -> Pcs] /\ Others'
    BY <1>0, <1>30 DEF StartUser, GotoStarting, Pcs, Snapshotting
  <2> QED BY <1>0, <2>1, <2>2
<1>31. ASSUME ReturnFromMain PROVE TypeOK'
  <2>1. Flags'
    BY <1>0, <1>31, Zenon DEF ReturnFromMain, Goto
  <2>2. pc' \in [Threads -> Pcs] /\ Others'
    BY <1>0, <1>31 DEF ReturnFromMain, Goto, Pcs, Snapshotting
  <2> QED BY <1>0, <2>1, <2>2
<1>32. ASSUME QuitFtrace PROVE TypeOK'
  <2>1. pc' \in [Threads -> Pcs]
    BY <1>0, <1>32 DEF QuitFtrace, Goto, Pcs, Snapshotting
  <2>2. Flags'
    BY <1>0, <1>32, Zenon DEF QuitFtrace, Goto
  <2>3. Others'
    BY <1>0, <1>32 DEF QuitFtrace, Goto
  <2> QED BY <1>0, <2>1, <2>2, <2>3
<1>33. ASSUME QuitNoFtrace PROVE TypeOK'
  <2>1. pc' \in [Threads -> Pcs]
    BY <1>0, <1>33 DEF QuitNoFtrace, Goto, Pcs, Snapshotting
  <2>2. Flags'
    BY <1>0, <1>33, Zenon DEF QuitNoFtrace, Goto
  <2>3. Others'
    BY <1>0, <1>33 DEF QuitNoFtrace, Goto
  <2> QED BY <1>0, <2>1, <2>2, <2>3
<1>34. ASSUME WakeFtrace PROVE TypeOK'
  <2>1. pc' \in [Threads -> Pcs]
    BY <1>0, <1>34 DEF WakeFtrace, GotoStarting, Pcs, Snapshotting
  <2>2. Flags'
    BY <1>0, <1>34, Zenon DEF WakeFtrace, GotoStarting
  <2>3. Others'
    <3>0. pipe \in 0 .. MaxPipe
      BY <1>0
    <3>1. pipe' \in {pipe, pipe + 1} /\ pipe' <= MaxPipe
      BY <1>34 DEF WakeFtrace
    <3>2. pipe' \in 0 .. MaxPipe
      BY ONLY <3>0, <3>1, PipeAssumption DEF PipeAssumption
    <3> QED BY <1>0, <1>34, <3>2 DEF WakeFtrace, GotoStarting
  <2> QED BY <1>0, <2>1, <2>2, <2>3
<1>35. ASSUME FtraceWoken PROVE TypeOK'
  <2>1. pc' \in [Threads -> Pcs]
    BY <1>0, <1>35 DEF FtraceWoken, Goto, Pcs, Snapshotting
  <2>2. Flags'
    BY <1>0, <1>35, Zenon DEF FtraceWoken, Goto
  <2>3. Others'
    BY <1>0, <1>35 DEF FtraceWoken, Goto
  <2> QED BY <1>0, <2>1, <2>2, <2>3
<1>36. ASSUME JoinDummy PROVE TypeOK'
  <2>1. Flags'
    BY <1>0, <1>36, Zenon DEF JoinDummy, Goto
  <2>2. pc' \in [Threads -> Pcs] /\ Others'
    BY <1>0, <1>36 DEF JoinDummy, Goto, Pcs, Snapshotting
  <2> QED BY <1>0, <2>1, <2>2
<1>37. ASSUME JoinFtrace PROVE TypeOK'
  <2>1. Flags'
    BY <1>0, <1>37, Zenon DEF JoinFtrace, Goto
  <2>2. pc' \in [Threads -> Pcs] /\ Others'
    BY <1>0, <1>37 DEF JoinFtrace, Goto, Pcs, Snapshotting
  <2> QED BY <1>0, <2>1, <2>2
<1>38. ASSUME QuitSigtrap PROVE TypeOK'
  <2>1. Flags'
    BY <1>0, <1>38, Zenon DEF QuitSigtrap, Goto
  <2>2. pc' \in [Threads -> Pcs] /\ Others'
    BY <1>0, <1>38 DEF QuitSigtrap, Goto, Pcs, Snapshotting
  <2> QED BY <1>0, <2>1, <2>2
<1>39. ASSUME UnlockSigtrap PROVE TypeOK'
  <2>1. Flags'
    BY <1>0, <1>39, Zenon DEF UnlockSigtrap, Goto
  <2>2. pc' \in [Threads -> Pcs] /\ Others'
    BY <1>0, <1>39 DEF UnlockSigtrap, Goto, Pcs, Snapshotting
  <2> QED BY <1>0, <2>1, <2>2
<1>40. ASSUME JoinSigtrap PROVE TypeOK'
  <2>1. Flags'
    BY <1>0, <1>40, Zenon DEF JoinSigtrap, Goto
  <2>2. pc' \in [Threads -> Pcs] /\ Others'
    BY <1>0, <1>40 DEF JoinSigtrap, Goto, Pcs, Snapshotting
  <2> QED BY <1>0, <2>1, <2>2
<1>41. ASSUME UnregisterMain PROVE TypeOK'
  <2>1. Flags'
    BY <1>0, <1>41, Zenon DEF UnregisterMain, InRegistry, Goto
  <2>2. pc' \in [Threads -> Pcs] /\ Others'
    BY <1>0, <1>41 DEF UnregisterMain, InRegistry, Goto, Pcs, Snapshotting
  <2> QED BY <1>0, <2>1, <2>2
<1>42. CASE UNCHANGED vars
  BY <1>42 DEF TypeOK
<1> QED
  BY <1>1, <1>2, <1>3, <1>4, <1>5, <1>6, <1>7, <1>8, <1>9, <1>10,
     <1>11, <1>12, <1>13, <1>14, <1>15, <1>16, <1>17, <1>18, <1>19, <1>20,
     <1>21, <1>22, <1>23, <1>24, <1>25, <1>26, <1>27, <1>28, <1>29, <1>30,
     <1>31, <1>32, <1>33, <1>34, <1>35, <1>36, <1>37, <1>38, <1>39, <1>40,
     <1>41, <1>42
  DEF Next, Runs, Environment, Construct, Destroy, SigThread, FtraceThread, Snapshot

\* The type invariant, for any schedule of signals and of main()'s return.
THEOREM TypeCorrect == Spec => []TypeOK
<1>1. Init => TypeOK
  BY InitType
<1>2. TypeOK /\ [Next]_vars => TypeOK'
  BY StepType
<1> QED BY <1>1, <1>2, PTL DEF Spec

------------------------------------------------------------------------------
(* The inductive invariant.                                                 *)

LEMMA InitInv == Init => IInv
<1> SUFFICES ASSUME Init PROVE IInv
  OBVIOUS
<1> USE DEF Init, Snapshotting, Busy, Starting, BeforeFtrace, BeforeMain, Left, SigtrapLeft
<1>1. Places
  BY DEF Places
<1>2. RegistryHolder /\ EventsHolder
  BY DEF RegistryHolder, EventsHolder
<1>3. QuietBefore /\ SigGone
  BY DEF QuietBefore, SigGone
<1>4. StartedSaid /\ FtraceAfter /\ HandlerAfter /\ NeverTerminated
  BY DEF StartedSaid, FtraceAfter, HandlerAfter, NeverTerminated
<1> QED BY <1>1, <1>2, <1>3, <1>4 DEF IInv

\* A step keeps what it leaves alone.
LEMMA PlacesKept ==
  ASSUME IInv, UNCHANGED <<pc, registry, ftmutex>>
  PROVE  Places' /\ RegistryHolder' /\ EventsHolder'
<1>1. Places'
  <2>1. /\ \A t : pc'[t] = pc[t]
        /\ Places
    BY DEF IInv
  <2>2. \A t, S : pc[t] \in S => pc'[t] \in S
    BY ONLY <2>1
  <2> QED BY ONLY <2>1, <2>2, ZenonT(40) DEF Places
<1>2. RegistryHolder' /\ EventsHolder'
  BY DEF IInv, RegistryHolder, EventsHolder
<1> QED BY <1>1, <1>2

LEMMA Kept ==
  ASSUME IInv, UNCHANGED <<pc, registry, ftmutex, started, handler, sigmutex, sigquit>>
  PROVE  IInv'
<1>1. Places' /\ RegistryHolder' /\ EventsHolder'
  BY PlacesKept
<1>3. QuietBefore' /\ SigGone'
  BY DEF IInv, QuietBefore, SigGone
<1>4. StartedSaid' /\ FtraceAfter' /\ HandlerAfter' /\ NeverTerminated'
  BY DEF IInv, StartedSaid, FtraceAfter, HandlerAfter, NeverTerminated
<1> QED BY <1>1, <1>3, <1>4 DEF IInv

\* A short critical section takes no thread into the middle of a snapshot: it
\* needs the registry's mutex, so nobody was there, and nobody is after it.
LEMMA ShortSection ==
  ASSUME RegistryHolder, pc \in [Threads -> Pcs], NEW t \in Threads,
         registry' = registry, registry = Nobody,
         \E to : to \notin Snapshotting /\ pc' = [pc EXCEPT ![t] = to]
  PROVE  RegistryHolder'
<1>1. Nobody \notin Threads
  BY DEF Threads
<1>2. \A s \in Threads : registry # s /\ pc[s] \notin Snapshotting
  BY <1>1 DEF RegistryHolder
<1>3. \A s \in Threads : pc'[s] \notin Snapshotting
  BY <1>2
<1> QED BY <1>2, <1>3 DEF RegistryHolder

LEMMA StepInv ==
  ASSUME ~Early, TypeOK, IInv, [Next]_vars
  PROVE  IInv'
<1>0. pc \in [Threads -> Pcs]
  BY DEF TypeOK
<1> USE DEF IInv, StartedSaid, Places, RegistryHolder, EventsHolder, FtraceAfter, QuietBefore,
    SigGone, HandlerAfter, NeverTerminated, Snapshotting, Busy, Starting, BeforeFtrace,
    BeforeMain, Left, SigtrapLeft
<1>1. ASSUME NEW t \in Threads, Register(t) PROVE IInv'
  <2>1. Places'
    BY <1>0, <1>1, ZenonT(40) DEF Register, InRegistry, Goto
  <2>2. RegistryHolder'
    <3>1. /\ registry' = registry /\ registry = Nobody
          /\ \E to : to \notin Snapshotting /\ pc' = [pc EXCEPT ![t] = to]
      BY <1>1, Zenon DEF Register, InRegistry, Goto
    <3> QED BY <1>0, <3>1, ShortSection
  <2>3. EventsHolder'
    BY <1>0, <1>1, ZenonT(40) DEF Register, InRegistry, Goto
  <2>4. QuietBefore' /\ SigGone'
    BY <1>0, <1>1, ZenonT(40) DEF Register, InRegistry, Goto
  <2>5. StartedSaid' /\ FtraceAfter'
    BY <1>0, <1>1, ZenonT(40) DEF Register, InRegistry, Goto
  <2>6. HandlerAfter' /\ NeverTerminated'
    BY <1>0, <1>1, ZenonT(40) DEF Register, InRegistry, Goto
  <2> QED BY <2>1, <2>2, <2>3, <2>4, <2>5, <2>6
<1>2. ASSUME NEW t \in Threads, Unregister(t) PROVE IInv'
  <2>1. Places'
    BY <1>0, <1>2, ZenonT(40) DEF Unregister, InRegistry, Goto
  <2>2. RegistryHolder'
    <3>1. /\ registry' = registry /\ registry = Nobody
          /\ \E to : to \notin Snapshotting /\ pc' = [pc EXCEPT ![t] = to]
      BY <1>2, Zenon DEF Unregister, InRegistry, Goto
    <3> QED BY <1>0, <3>1, ShortSection
  <2>3. EventsHolder'
    BY <1>0, <1>2, ZenonT(40) DEF Unregister, InRegistry, Goto
  <2>4. QuietBefore' /\ SigGone'
    BY <1>0, <1>2, ZenonT(40) DEF Unregister, InRegistry, Goto
  <2>5. StartedSaid' /\ FtraceAfter'
    BY <1>0, <1>2, ZenonT(40) DEF Unregister, InRegistry, Goto
  <2>6. HandlerAfter' /\ NeverTerminated'
    BY <1>0, <1>2, ZenonT(40) DEF Unregister, InRegistry, Goto
  <2> QED BY <2>1, <2>2, <2>3, <2>4, <2>5, <2>6
<1>3. ASSUME NEW t \in {Sig, User}, SnapshotPause(t) PROVE IInv'
  <2>1. Places'
    BY <1>0, <1>3 DEF SnapshotPause, InRegistry, Goto
  <2>2. RegistryHolder'
    BY <1>0, <1>3 DEF SnapshotPause, InRegistry, Goto
  <2>3. EventsHolder'
    BY <1>0, <1>3 DEF SnapshotPause, InRegistry, Goto
  <2>4. QuietBefore' /\ SigGone'
    BY <1>0, <1>3 DEF SnapshotPause, InRegistry, Goto
  <2>5. StartedSaid' /\ FtraceAfter' /\ HandlerAfter' /\ NeverTerminated'
    BY <1>0, <1>3 DEF SnapshotPause, InRegistry, Goto
  <2> QED BY <2>1, <2>2, <2>3, <2>4, <2>5
<1>4. ASSUME NEW t \in {Sig, User}, SnapshotResume(t) PROVE IInv'
  <2>1. Places'
    BY <1>0, <1>4 DEF SnapshotResume, Goto
  <2>2. RegistryHolder'
    BY <1>0, <1>4, ZenonT(40) DEF SnapshotResume, Goto
  <2>3. EventsHolder'
    BY <1>0, <1>4 DEF SnapshotResume, Goto
  <2>4. QuietBefore' /\ SigGone'
    BY <1>0, <1>4 DEF SnapshotResume, Goto
  <2>5. StartedSaid' /\ FtraceAfter' /\ HandlerAfter' /\ NeverTerminated'
    BY <1>0, <1>4 DEF SnapshotResume, Goto
  <2> QED BY <2>1, <2>2, <2>3, <2>4, <2>5
<1>5. ASSUME NEW t \in {Sig, User}, SnapshotLockEvents(t) PROVE IInv'
  <2>1. Places'
    BY <1>0, <1>5 DEF SnapshotLockEvents, Goto
  <2>2. RegistryHolder'
    BY <1>0, <1>5, ZenonT(40) DEF SnapshotLockEvents, Goto
  <2>3. EventsHolder'
    BY <1>0, <1>5 DEF SnapshotLockEvents, Goto
  <2>4. QuietBefore' /\ SigGone'
    BY <1>0, <1>5 DEF SnapshotLockEvents, Goto
  <2>5. StartedSaid' /\ FtraceAfter' /\ HandlerAfter' /\ NeverTerminated'
    BY <1>0, <1>5 DEF SnapshotLockEvents, Goto
  <2> QED BY <2>1, <2>2, <2>3, <2>4, <2>5
<1>6. ASSUME NEW t \in {Sig, User}, SnapshotUnlockEvents(t) PROVE IInv'
  <2>1. Places'
    BY <1>0, <1>6 DEF SnapshotUnlockEvents, Goto
  <2>2. RegistryHolder'
    BY <1>0, <1>6 DEF SnapshotUnlockEvents, Goto
  <2>3. EventsHolder'
    BY <1>0, <1>6 DEF SnapshotUnlockEvents, Goto
  <2>4. QuietBefore' /\ SigGone'
    BY <1>0, <1>6 DEF SnapshotUnlockEvents, Goto
  <2>5. StartedSaid' /\ FtraceAfter' /\ HandlerAfter' /\ NeverTerminated'
    BY <1>0, <1>6 DEF SnapshotUnlockEvents, Goto
  <2> QED BY <2>1, <2>2, <2>3, <2>4, <2>5
<1>7. ASSUME NEW t \in {Sig, User}, ReadDestroyed(t) PROVE IInv'
  <2>1. Places'
    BY <1>0, <1>7 DEF ReadDestroyed
  <2>2. RegistryHolder'
    BY <1>0, <1>7 DEF ReadDestroyed
  <2>3. EventsHolder'
    BY <1>0, <1>7 DEF ReadDestroyed
  <2>4. QuietBefore' /\ SigGone'
    BY <1>0, <1>7 DEF ReadDestroyed
  <2>5. StartedSaid' /\ FtraceAfter' /\ HandlerAfter' /\ NeverTerminated'
    BY <1>0, <1>7 DEF ReadDestroyed
  <2> QED BY <2>1, <2>2, <2>3, <2>4, <2>5
<1>8. ASSUME NEW t \in {Sig, User}, SnapshotDone(t) PROVE IInv'
  <2>1. Places'
    BY <1>0, <1>8 DEF SnapshotDone, Goto
  <2>2. RegistryHolder'
    BY <1>0, <1>8 DEF SnapshotDone, Goto
  <2>3. EventsHolder'
    BY <1>0, <1>8 DEF SnapshotDone, Goto
  <2>4. QuietBefore' /\ SigGone'
    BY <1>0, <1>8 DEF SnapshotDone, Goto
  <2>5. StartedSaid' /\ FtraceAfter' /\ HandlerAfter' /\ NeverTerminated'
    BY <1>0, <1>8 DEF SnapshotDone, Goto
  <2> QED BY <2>1, <2>2, <2>3, <2>4, <2>5
<1>9. ASSUME UserSnapshot PROVE IInv'
  <2>1. Places'
    BY <1>0, <1>9 DEF UserSnapshot, Goto
  <2>2. RegistryHolder'
    BY <1>0, <1>9 DEF UserSnapshot, Goto
  <2>3. EventsHolder'
    BY <1>0, <1>9 DEF UserSnapshot, Goto
  <2>4. QuietBefore' /\ SigGone'
    BY <1>0, <1>9 DEF UserSnapshot, Goto
  <2>5. StartedSaid' /\ FtraceAfter' /\ HandlerAfter' /\ NeverTerminated'
    BY <1>0, <1>9 DEF UserSnapshot, Goto
  <2> QED BY <2>1, <2>2, <2>3, <2>4, <2>5
<1>10. ASSUME Signal PROVE IInv'
  <2>1. /\ pc[Main] \notin BeforeMain
        /\ UNCHANGED <<pc, registry, ftmutex, started, handler, sigquit>>
    BY <1>10 DEF Signal, SignalTime, InMain, Destroying
  <2>2. Places' /\ RegistryHolder' /\ EventsHolder'
    BY <2>1, PlacesKept
  <2>3. QuietBefore' /\ SigGone'
    BY <2>1
  <2>4. StartedSaid' /\ FtraceAfter' /\ HandlerAfter' /\ NeverTerminated'
    BY <2>1
  <2> QED BY <2>1, <2>2, <2>3, <2>4
<1>11. ASSUME SigIgnore PROVE IInv'
  <2>1. Places'
    BY <1>0, <1>11 DEF SigIgnore, InRegistry, Goto
  <2>2. RegistryHolder'
    BY <1>0, <1>11 DEF SigIgnore, InRegistry, Goto
  <2>3. EventsHolder'
    BY <1>0, <1>11 DEF SigIgnore, InRegistry, Goto
  <2>4. QuietBefore' /\ SigGone'
    BY <1>0, <1>11 DEF SigIgnore, InRegistry, Goto
  <2>5. StartedSaid' /\ FtraceAfter' /\ HandlerAfter' /\ NeverTerminated'
    BY <1>0, <1>11 DEF SigIgnore, InRegistry, Goto
  <2> QED BY <2>1, <2>2, <2>3, <2>4, <2>5
<1>12. ASSUME SigLock PROVE IInv'
  <2>1. Places'
    BY <1>0, <1>12 DEF SigLock, Goto
  <2>2. RegistryHolder'
    BY <1>0, <1>12 DEF SigLock, Goto
  <2>3. EventsHolder'
    BY <1>0, <1>12 DEF SigLock, Goto
  <2>4. QuietBefore' /\ SigGone'
    BY <1>0, <1>12 DEF SigLock, Goto
  <2>5. StartedSaid' /\ FtraceAfter' /\ HandlerAfter' /\ NeverTerminated'
    BY <1>0, <1>12 DEF SigLock, Goto
  <2> QED BY <2>1, <2>2, <2>3, <2>4, <2>5
<1>13. ASSUME SigAwake PROVE IInv'
  <2>1. Places'
    BY <1>0, <1>13 DEF SigAwake, Goto
  <2>2. RegistryHolder'
    BY <1>0, <1>13 DEF SigAwake, Goto
  <2>3. EventsHolder'
    BY <1>0, <1>13 DEF SigAwake, Goto
  <2>4. QuietBefore' /\ SigGone'
    BY <1>0, <1>13 DEF SigAwake, Goto
  <2>5. StartedSaid' /\ FtraceAfter' /\ HandlerAfter' /\ NeverTerminated'
    BY <1>0, <1>13 DEF SigAwake, Goto
  <2> QED BY <2>1, <2>2, <2>3, <2>4, <2>5
<1>14. ASSUME FtraceStarted PROVE IInv'
  <2>1. Places'
    BY <1>0, <1>14 DEF FtraceStarted, Goto
  <2>2. RegistryHolder'
    BY <1>0, <1>14 DEF FtraceStarted, Goto
  <2>3. EventsHolder'
    BY <1>0, <1>14 DEF FtraceStarted, Goto
  <2>4. QuietBefore' /\ SigGone'
    BY <1>0, <1>14 DEF FtraceStarted, Goto
  <2>5. StartedSaid' /\ FtraceAfter' /\ HandlerAfter' /\ NeverTerminated'
    BY <1>0, <1>14 DEF FtraceStarted, Goto
  <2> QED BY <2>1, <2>2, <2>3, <2>4, <2>5
<1>15. ASSUME FtraceIgnore PROVE IInv'
  <2>1. Places'
    BY <1>0, <1>15 DEF FtraceIgnore, InRegistry, Goto
  <2>2. RegistryHolder'
    BY <1>0, <1>15 DEF FtraceIgnore, InRegistry, Goto
  <2>3. EventsHolder'
    BY <1>0, <1>15 DEF FtraceIgnore, InRegistry, Goto
  <2>4. QuietBefore' /\ SigGone'
    BY <1>0, <1>15 DEF FtraceIgnore, InRegistry, Goto
  <2>5. StartedSaid' /\ FtraceAfter' /\ HandlerAfter' /\ NeverTerminated'
    BY <1>0, <1>15 DEF FtraceIgnore, InRegistry, Goto
  <2> QED BY <2>1, <2>2, <2>3, <2>4, <2>5
<1>16. ASSUME FtraceSetUp PROVE IInv'
  <2>1. Places'
    BY <1>0, <1>16 DEF FtraceSetUp, Goto
  <2>2. RegistryHolder'
    BY <1>0, <1>16 DEF FtraceSetUp, Goto
  <2>3. EventsHolder'
    BY <1>0, <1>16 DEF FtraceSetUp, Goto
  <2>4. QuietBefore' /\ SigGone'
    BY <1>0, <1>16 DEF FtraceSetUp, Goto
  <2>5. StartedSaid' /\ FtraceAfter' /\ HandlerAfter' /\ NeverTerminated'
    BY <1>0, <1>16 DEF FtraceSetUp, Goto
  <2> QED BY <2>1, <2>2, <2>3, <2>4, <2>5
<1>17. ASSUME FtraceCheckQuit PROVE IInv'
  <2>1. Places'
    BY <1>0, <1>17 DEF FtraceCheckQuit, Goto
  <2>2. RegistryHolder'
    BY <1>0, <1>17 DEF FtraceCheckQuit, Goto
  <2>3. EventsHolder'
    BY <1>0, <1>17, ZenonT(40) DEF FtraceCheckQuit, Goto
  <2>4. QuietBefore' /\ SigGone'
    BY <1>0, <1>17 DEF FtraceCheckQuit, Goto
  <2>5. StartedSaid' /\ FtraceAfter' /\ HandlerAfter' /\ NeverTerminated'
    BY <1>0, <1>17 DEF FtraceCheckQuit, Goto
  <2> QED BY <2>1, <2>2, <2>3, <2>4, <2>5
<1>18. ASSUME FtraceGetLine PROVE IInv'
  <2>1. Places'
    BY <1>0, <1>18 DEF FtraceGetLine, Goto
  <2>2. RegistryHolder'
    BY <1>0, <1>18 DEF FtraceGetLine, Goto
  <2>3. EventsHolder'
    BY <1>0, <1>18 DEF FtraceGetLine, Goto
  <2>4. QuietBefore' /\ SigGone'
    BY <1>0, <1>18 DEF FtraceGetLine, Goto
  <2>5. StartedSaid' /\ FtraceAfter' /\ HandlerAfter' /\ NeverTerminated'
    BY <1>0, <1>18 DEF FtraceGetLine, Goto
  <2> QED BY <2>1, <2>2, <2>3, <2>4, <2>5
<1>19. ASSUME FtraceLock PROVE IInv'
  <2>1. Places'
    BY <1>0, <1>19 DEF FtraceLock, Goto
  <2>2. RegistryHolder'
    BY <1>0, <1>19 DEF FtraceLock, Goto
  <2>3. EventsHolder'
    BY <1>0, <1>19 DEF FtraceLock, Goto
  <2>4. QuietBefore' /\ SigGone'
    BY <1>0, <1>19 DEF FtraceLock, Goto
  <2>5. StartedSaid' /\ FtraceAfter' /\ HandlerAfter' /\ NeverTerminated'
    BY <1>0, <1>19 DEF FtraceLock, Goto
  <2> QED BY <2>1, <2>2, <2>3, <2>4, <2>5
<1>20. ASSUME FtraceStore PROVE IInv'
  <2>1. Places'
    BY <1>0, <1>20 DEF FtraceStore, Goto
  <2>2. RegistryHolder'
    BY <1>0, <1>20 DEF FtraceStore, Goto
  <2>3. EventsHolder'
    BY <1>0, <1>20 DEF FtraceStore, Goto
  <2>4. QuietBefore' /\ SigGone'
    BY <1>0, <1>20 DEF FtraceStore, Goto
  <2>5. StartedSaid' /\ FtraceAfter' /\ HandlerAfter' /\ NeverTerminated'
    BY <1>0, <1>20 DEF FtraceStore, Goto
  <2> QED BY <2>1, <2>2, <2>3, <2>4, <2>5
<1>21. ASSUME FtraceDone PROVE IInv'
  <2>1. Places'
    BY <1>0, <1>21 DEF FtraceDone, Goto
  <2>2. RegistryHolder'
    BY <1>0, <1>21 DEF FtraceDone, Goto
  <2>3. EventsHolder'
    BY <1>0, <1>21 DEF FtraceDone, Goto
  <2>4. QuietBefore' /\ SigGone'
    BY <1>0, <1>21 DEF FtraceDone, Goto
  <2>5. StartedSaid' /\ FtraceAfter' /\ HandlerAfter' /\ NeverTerminated'
    BY <1>0, <1>21 DEF FtraceDone, Goto
  <2> QED BY <2>1, <2>2, <2>3, <2>4, <2>5
<1>22. ASSUME Scheduled PROVE IInv'
  <2>1. Places'
    BY <1>22, Kept DEF Scheduled
  <2>2. RegistryHolder'
    BY <1>22, Kept DEF Scheduled
  <2>3. EventsHolder'
    BY <1>22, Kept DEF Scheduled
  <2>4. QuietBefore' /\ SigGone'
    BY <1>22, Kept DEF Scheduled
  <2>5. StartedSaid' /\ FtraceAfter' /\ HandlerAfter' /\ NeverTerminated'
    BY <1>22, Kept DEF Scheduled
  <2> QED BY <2>1, <2>2, <2>3, <2>4, <2>5
<1>23. ASSUME RegisterMain PROVE IInv'
  <2>1. Places'
    BY <1>0, <1>23 DEF RegisterMain, InRegistry, Goto
  <2>2. RegistryHolder'
    BY <1>0, <1>23 DEF RegisterMain, InRegistry, Goto
  <2>3. EventsHolder'
    BY <1>0, <1>23 DEF RegisterMain, InRegistry, Goto
  <2>4. QuietBefore' /\ SigGone'
    BY <1>0, <1>23 DEF RegisterMain, InRegistry, Goto
  <2>5. StartedSaid' /\ FtraceAfter' /\ HandlerAfter' /\ NeverTerminated'
    BY <1>0, <1>23 DEF RegisterMain, InRegistry, Goto
  <2> QED BY <2>1, <2>2, <2>3, <2>4, <2>5
<1>24. ASSUME MakeSigtrap PROVE IInv'
  <2>1. Places'
    BY <1>0, <1>24 DEF MakeSigtrap, GotoStarting
  <2>2. RegistryHolder'
    BY <1>0, <1>24 DEF MakeSigtrap, GotoStarting
  <2>3. EventsHolder'
    BY <1>0, <1>24 DEF MakeSigtrap, GotoStarting
  <2>4. QuietBefore' /\ SigGone'
    BY <1>0, <1>24 DEF MakeSigtrap, GotoStarting
  <2>5. StartedSaid' /\ FtraceAfter' /\ HandlerAfter' /\ NeverTerminated'
    BY <1>0, <1>24 DEF MakeSigtrap, GotoStarting
  <2> QED BY <2>1, <2>2, <2>3, <2>4, <2>5
<1>25. ASSUME InstallHandler PROVE IInv'
  <2>1. Places'
    BY <1>0, <1>25 DEF InstallHandler, Goto
  <2>2. RegistryHolder'
    BY <1>0, <1>25 DEF InstallHandler, Goto
  <2>3. EventsHolder'
    BY <1>0, <1>25 DEF InstallHandler, Goto
  <2>4. QuietBefore' /\ SigGone'
    BY <1>0, <1>25 DEF InstallHandler, Goto
  <2>5. StartedSaid' /\ FtraceAfter' /\ HandlerAfter' /\ NeverTerminated'
    BY <1>0, <1>25 DEF InstallHandler, Goto
  <2> QED BY <2>1, <2>2, <2>3, <2>4, <2>5
<1>26. ASSUME MakeFtrace PROVE IInv'
  <2>1. Places'
    BY <1>0, <1>26 DEF MakeFtrace, Goto
  <2>2. RegistryHolder'
    BY <1>0, <1>26 DEF MakeFtrace, Goto
  <2>3. EventsHolder'
    BY <1>0, <1>26 DEF MakeFtrace, Goto
  <2>4. QuietBefore' /\ SigGone'
    BY <1>0, <1>26 DEF MakeFtrace, Goto
  <2>5. StartedSaid' /\ FtraceAfter' /\ HandlerAfter' /\ NeverTerminated'
    BY <1>0, <1>26 DEF MakeFtrace, Goto
  <2> QED BY <2>1, <2>2, <2>3, <2>4, <2>5
<1>27. ASSUME MainLock PROVE IInv'
  <2>1. Places'
    BY <1>0, <1>27 DEF MainLock, Goto
  <2>2. RegistryHolder'
    BY <1>0, <1>27 DEF MainLock, Goto
  <2>3. EventsHolder'
    BY <1>0, <1>27 DEF MainLock, Goto
  <2>4. QuietBefore' /\ SigGone'
    BY <1>0, <1>27 DEF MainLock, Goto
  <2>5. StartedSaid' /\ FtraceAfter' /\ HandlerAfter' /\ NeverTerminated'
    BY <1>0, <1>27 DEF MainLock, Goto
  <2> QED BY <2>1, <2>2, <2>3, <2>4, <2>5
<1>28. ASSUME StartFtrace PROVE IInv'
  <2>1. Places'
    BY <1>0, <1>28 DEF StartFtrace, GotoStarting
  <2>2. RegistryHolder'
    BY <1>0, <1>28 DEF StartFtrace, GotoStarting
  <2>3. EventsHolder'
    BY <1>0, <1>28 DEF StartFtrace, GotoStarting
  <2>4. QuietBefore' /\ SigGone'
    BY <1>0, <1>28 DEF StartFtrace, GotoStarting
  <2>5. StartedSaid' /\ FtraceAfter' /\ HandlerAfter' /\ NeverTerminated'
    BY <1>0, <1>28 DEF StartFtrace, GotoStarting
  <2> QED BY <2>1, <2>2, <2>3, <2>4, <2>5
<1>29. ASSUME WaitStarted PROVE IInv'
  <2>1. Places'
    BY <1>0, <1>29 DEF WaitStarted, Goto
  <2>2. RegistryHolder'
    BY <1>0, <1>29 DEF WaitStarted, Goto
  <2>3. EventsHolder'
    BY <1>0, <1>29 DEF WaitStarted, Goto
  <2>4. QuietBefore' /\ SigGone'
    BY <1>0, <1>29 DEF WaitStarted, Goto
  <2>5. StartedSaid' /\ FtraceAfter' /\ HandlerAfter' /\ NeverTerminated'
    BY <1>0, <1>29 DEF WaitStarted, Goto
  <2> QED BY <2>1, <2>2, <2>3, <2>4, <2>5
<1>30. ASSUME StartUser PROVE IInv'
  <2>1. Places'
    BY <1>0, <1>30 DEF StartUser, GotoStarting
  <2>2. RegistryHolder'
    BY <1>0, <1>30, ZenonT(40) DEF StartUser, GotoStarting
  <2>3. EventsHolder'
    BY <1>0, <1>30, ZenonT(40) DEF StartUser, GotoStarting
  <2>4. QuietBefore' /\ SigGone'
    BY <1>0, <1>30 DEF StartUser, GotoStarting
  <2>5. StartedSaid' /\ FtraceAfter' /\ HandlerAfter' /\ NeverTerminated'
    BY <1>0, <1>30 DEF StartUser, GotoStarting
  <2> QED BY <2>1, <2>2, <2>3, <2>4, <2>5
<1>31. ASSUME ReturnFromMain PROVE IInv'
  <2>1. Places'
    BY <1>0, <1>31 DEF ReturnFromMain, Goto
  <2>2. RegistryHolder'
    BY <1>0, <1>31 DEF ReturnFromMain, Goto
  <2>3. EventsHolder'
    BY <1>0, <1>31 DEF ReturnFromMain, Goto
  <2>4. QuietBefore' /\ SigGone'
    BY <1>0, <1>31 DEF ReturnFromMain, Goto
  <2>5. StartedSaid' /\ FtraceAfter' /\ HandlerAfter' /\ NeverTerminated'
    BY <1>0, <1>31 DEF ReturnFromMain, Goto
  <2> QED BY <2>1, <2>2, <2>3, <2>4, <2>5
<1>32. ASSUME QuitFtrace PROVE IInv'
  <2>1. Places'
    BY <1>0, <1>32 DEF QuitFtrace, Goto
  <2>2. RegistryHolder'
    BY <1>0, <1>32 DEF QuitFtrace, Goto
  <2>3. EventsHolder'
    BY <1>0, <1>32 DEF QuitFtrace, Goto
  <2>4. QuietBefore' /\ SigGone'
    BY <1>0, <1>32 DEF QuitFtrace, Goto
  <2>5. StartedSaid' /\ FtraceAfter' /\ HandlerAfter' /\ NeverTerminated'
    BY <1>0, <1>32 DEF QuitFtrace, Goto
  <2> QED BY <2>1, <2>2, <2>3, <2>4, <2>5
<1>33. ASSUME QuitNoFtrace PROVE IInv'
  <2>1. Places'
    BY <1>0, <1>33 DEF QuitNoFtrace, Goto
  <2>2. RegistryHolder'
    BY <1>0, <1>33 DEF QuitNoFtrace, Goto
  <2>3. EventsHolder'
    BY <1>0, <1>33 DEF QuitNoFtrace, Goto
  <2>4. QuietBefore' /\ SigGone'
    BY <1>0, <1>33 DEF QuitNoFtrace, Goto
  <2>5. StartedSaid' /\ FtraceAfter' /\ HandlerAfter' /\ NeverTerminated'
    BY <1>0, <1>33 DEF QuitNoFtrace, Goto
  <2> QED BY <2>1, <2>2, <2>3, <2>4, <2>5
<1>34. ASSUME WakeFtrace PROVE IInv'
  <2>1. Places'
    BY <1>0, <1>34 DEF WakeFtrace, GotoStarting
  <2>2. RegistryHolder'
    BY <1>0, <1>34 DEF WakeFtrace, GotoStarting
  <2>3. EventsHolder'
    <3>1. /\ ftmutex' = ftmutex /\ \A t \in {Sig, User, Ftrace} : pc'[t] = pc[t]
          /\ pc[Main] = "wake ftrace" /\ pc'[Main] = "join dummy"
      BY <1>0, <1>34 DEF WakeFtrace, GotoStarting
    <3>2. EventsHolder
      BY DEF IInv
    <3> QED BY ONLY <3>1, <3>2 DEF EventsHolder, Starting
  <2>4. QuietBefore' /\ SigGone'
    BY <1>0, <1>34 DEF WakeFtrace, GotoStarting
  <2>5. StartedSaid' /\ FtraceAfter' /\ HandlerAfter' /\ NeverTerminated'
    BY <1>0, <1>34 DEF WakeFtrace, GotoStarting
  <2> QED BY <2>1, <2>2, <2>3, <2>4, <2>5
<1>35. ASSUME FtraceWoken PROVE IInv'
  <2>1. Places'
    BY <1>0, <1>35 DEF FtraceWoken, Goto
  <2>2. RegistryHolder'
    BY <1>0, <1>35 DEF FtraceWoken, Goto
  <2>3. EventsHolder'
    BY <1>0, <1>35 DEF FtraceWoken, Goto
  <2>4. QuietBefore' /\ SigGone'
    BY <1>0, <1>35 DEF FtraceWoken, Goto
  <2>5. StartedSaid' /\ FtraceAfter' /\ HandlerAfter' /\ NeverTerminated'
    BY <1>0, <1>35 DEF FtraceWoken, Goto
  <2> QED BY <2>1, <2>2, <2>3, <2>4, <2>5
<1>36. ASSUME JoinDummy PROVE IInv'
  <2>1. Places'
    BY <1>0, <1>36 DEF JoinDummy, Goto
  <2>2. RegistryHolder'
    BY <1>0, <1>36 DEF JoinDummy, Goto
  <2>3. EventsHolder'
    BY <1>0, <1>36 DEF JoinDummy, Goto
  <2>4. QuietBefore' /\ SigGone'
    BY <1>0, <1>36 DEF JoinDummy, Goto
  <2>5. StartedSaid' /\ FtraceAfter' /\ HandlerAfter' /\ NeverTerminated'
    BY <1>0, <1>36 DEF JoinDummy, Goto
  <2> QED BY <2>1, <2>2, <2>3, <2>4, <2>5
<1>37. ASSUME JoinFtrace PROVE IInv'
  <2>1. Places'
    BY <1>0, <1>37 DEF JoinFtrace, Goto
  <2>2. RegistryHolder'
    BY <1>0, <1>37 DEF JoinFtrace, Goto
  <2>3. EventsHolder'
    BY <1>0, <1>37 DEF JoinFtrace, Goto
  <2>4. QuietBefore' /\ SigGone'
    BY <1>0, <1>37 DEF JoinFtrace, Goto
  <2>5. StartedSaid' /\ FtraceAfter' /\ HandlerAfter' /\ NeverTerminated'
    BY <1>0, <1>37 DEF JoinFtrace, Goto
  <2> QED BY <2>1, <2>2, <2>3, <2>4, <2>5
<1>38. ASSUME QuitSigtrap PROVE IInv'
  <2>1. Places'
    BY <1>0, <1>38 DEF QuitSigtrap, Goto
  <2>2. RegistryHolder'
    BY <1>0, <1>38 DEF QuitSigtrap, Goto
  <2>3. EventsHolder'
    BY <1>0, <1>38 DEF QuitSigtrap, Goto
  <2>4. QuietBefore' /\ SigGone'
    BY <1>0, <1>38 DEF QuitSigtrap, Goto
  <2>5. StartedSaid' /\ FtraceAfter' /\ HandlerAfter' /\ NeverTerminated'
    BY <1>0, <1>38 DEF QuitSigtrap, Goto
  <2> QED BY <2>1, <2>2, <2>3, <2>4, <2>5
<1>39. ASSUME UnlockSigtrap PROVE IInv'
  <2>1. Places'
    BY <1>0, <1>39 DEF UnlockSigtrap, Goto
  <2>2. RegistryHolder'
    BY <1>0, <1>39 DEF UnlockSigtrap, Goto
  <2>3. EventsHolder'
    BY <1>0, <1>39 DEF UnlockSigtrap, Goto
  <2>4. QuietBefore' /\ SigGone'
    BY <1>0, <1>39 DEF UnlockSigtrap, Goto
  <2>5. StartedSaid' /\ FtraceAfter' /\ HandlerAfter' /\ NeverTerminated'
    BY <1>0, <1>39 DEF UnlockSigtrap, Goto
  <2> QED BY <2>1, <2>2, <2>3, <2>4, <2>5
<1>40. ASSUME JoinSigtrap PROVE IInv'
  <2>1. Places'
    BY <1>0, <1>40 DEF JoinSigtrap, Goto
  <2>2. RegistryHolder'
    BY <1>0, <1>40 DEF JoinSigtrap, Goto
  <2>3. EventsHolder'
    BY <1>0, <1>40 DEF JoinSigtrap, Goto
  <2>4. QuietBefore' /\ SigGone'
    BY <1>0, <1>40 DEF JoinSigtrap, Goto
  <2>5. StartedSaid' /\ FtraceAfter' /\ HandlerAfter' /\ NeverTerminated'
    BY <1>0, <1>40 DEF JoinSigtrap, Goto
  <2> QED BY <2>1, <2>2, <2>3, <2>4, <2>5
<1>41. ASSUME UnregisterMain PROVE IInv'
  <2>1. Places'
    BY <1>0, <1>41 DEF UnregisterMain, InRegistry, Goto
  <2>2. RegistryHolder'
    BY <1>0, <1>41 DEF UnregisterMain, InRegistry, Goto
  <2>3. EventsHolder'
    BY <1>0, <1>41 DEF UnregisterMain, InRegistry, Goto
  <2>4. QuietBefore' /\ SigGone'
    BY <1>0, <1>41 DEF UnregisterMain, InRegistry, Goto
  <2>5. StartedSaid' /\ FtraceAfter' /\ HandlerAfter' /\ NeverTerminated'
    BY <1>0, <1>41 DEF UnregisterMain, InRegistry, Goto
  <2> QED BY <2>1, <2>2, <2>3, <2>4, <2>5
<1> HIDE DEF IInv, StartedSaid, Places, RegistryHolder, EventsHolder, FtraceAfter, QuietBefore,
    SigGone, HandlerAfter, NeverTerminated, Snapshotting, Busy, Starting, BeforeFtrace,
    BeforeMain, Left, SigtrapLeft
<1>42. CASE UNCHANGED vars
  BY <1>42, Kept
<1> QED
  BY <1>1, <1>2, <1>3, <1>4, <1>5, <1>6, <1>7, <1>8, <1>9, <1>10,
     <1>11, <1>12, <1>13, <1>14, <1>15, <1>16, <1>17, <1>18, <1>19, <1>20,
     <1>21, <1>22, <1>23, <1>24, <1>25, <1>26, <1>27, <1>28, <1>29, <1>30,
     <1>31, <1>32, <1>33, <1>34, <1>35, <1>36, <1>37, <1>38, <1>39, <1>40,
     <1>41, <1>42
  DEF Next, Runs, Environment, Construct, Destroy, SigThread, FtraceThread, Snapshot

------------------------------------------------------------------------------
(* What follows, for a program that is sent no SIGTRAP before main().       *)

LEMMA Invariance ==
  ASSUME ~Early
  PROVE  Spec => [](TypeOK /\ IInv)
<1>1. Init => TypeOK /\ IInv
  BY InitType, InitInv
<1>2. TypeOK /\ IInv /\ [Next]_vars => TypeOK' /\ IInv'
  BY StepType, StepInv
<1> QED BY <1>1, <1>2, PTL DEF Spec

\* The ftrace thread is gone when its handler is destroyed, and the SIGTRAP
\* thread when its own is, whenever main() returns.
THEOREM LibraryThreadsUseLive ==
  ASSUME ~Early
  PROVE  Spec => []ThreadsUseLive
<1>1. TypeOK /\ IInv => ThreadsUseLive
  BY DEF TypeOK, IInv, FtraceAfter, SigGone, HandlerAfter, ThreadsUseLive, Starting, BeforeFtrace
<1> QED BY <1>1, Invariance, PTL

\* main() is entered with the ftrace thread past its set-up.
THEOREM FtraceThreadStarted ==
  ASSUME ~Early
  PROVE  Spec => []StartedInMain
<1>1. IInv => StartedInMain
  BY DEF IInv, FtraceAfter, StartedInMain, Starting
<1> QED BY <1>1, Invariance, PTL

\* Nobody stores an event while a snapshot reads them, the handler's
\* destruction and the program's end included.
THEOREM EventsStayFrozen ==
  ASSUME ~Early
  PROVE  Spec => EventsFrozen
<1>1. TypeOK /\ IInv /\ [Next]_vars =>
        [\A t \in {Sig, User} : pc[t] = "read events" /\ pc'[t] = "read events"
                                => UNCHANGED events]_vars
  <2> SUFFICES ASSUME TypeOK, IInv, [Next]_vars, NEW t \in {Sig, User}, pc[t] = "read events"
               PROVE  UNCHANGED events
    OBVIOUS
  <2>1. ftmutex = t /\ pc[Ftrace] # "store"
    BY DEF IInv, EventsHolder
  <2>2. pc[Main] \notin BeforeMain
    BY DEF IInv, QuietBefore
  <2>3. ~FtraceStore /\ ~MakeFtrace
    BY <2>1, <2>2 DEF FtraceStore, MakeFtrace, Goto, BeforeMain, BeforeFtrace
  <2> QED
    BY <2>3 DEF Next, Runs, Environment, Construct, Destroy, SigThread, FtraceThread, Snapshot,
       Register, Unregister, SnapshotPause, SnapshotResume, SnapshotLockEvents,
       SnapshotUnlockEvents, ReadDestroyed, SnapshotDone, UserSnapshot, Signal, SigIgnore,
       SigLock, SigAwake, FtraceStarted, FtraceIgnore, FtraceSetUp, FtraceCheckQuit,
       FtraceGetLine, FtraceLock, FtraceDone, Scheduled, RegisterMain, MakeSigtrap,
       InstallHandler, MainLock, StartFtrace, WaitStarted, StartUser, ReturnFromMain,
       QuitFtrace, QuitNoFtrace, WakeFtrace, FtraceWoken, JoinDummy, JoinFtrace,
       QuitSigtrap, UnlockSigtrap, JoinSigtrap, UnregisterMain
<1> QED BY <1>1, Invariance, PTL DEF Spec, EventsFrozen
==============================================================================
