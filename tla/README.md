# funtrace in TLA+

A verification development kept beside funtrace, a function call tracer for C and C++ programs. It models the
runtime that lives in the traced process (`funtrace.cpp`, `funtrace_pg.S`), the way of a sample from there to the
decoder (`funtrace2viz`, `procaddr2sym`, `funtrace_gdb.py`), and the call counter `funcount.cpp`.
Line numbers are those of `funtrace.cpp` unless another file is named.

Contents: [the system](#the-system), [the modules](#the-modules), [the runs](#the-runs),
[what is proved](#what-is-proved), [what the code does otherwise than it says](#what-the-code-does-otherwise-than-it-says),
[what is left out](#what-is-left-out), [what could come next](#what-could-come-next).

## The system

Every instrumented function calls a hook on entry and on exit. The hook appends an event (an address with flag bits,
and the time stamp counter) to a cyclic buffer that belongs to the calling thread. A *snapshot* pauses tracing, copies
all threads' buffers (all of them, or the part since a given time), and resumes; a decoder turns a file of snapshots
into a timeline of function calls.

| Component | State it keeps | Operations | Meets the others through |
|---|---|---|---|
| per-thread trace buffer (98-200, `funtrace_pg.S`) | `pos`, `wraparound_mask`, `buf`, `buf_size` of the thread_local `g_thread_trace` | `allocate`, `trace` / `__fentry__` / `__return__`, `pause_tracing`, `resume_tracing`, `free` | memory only: the traced thread takes no lock |
| thread registry (262-383) | `thread_traces`, `mutex`, `tracing_paused`, `exiting`, `gc_max_age_ms` | `register_this_thread`, `unregister_this_thread`, `collect_garbage`, `pause_tracing`, `resume_tracing` | the mutex |
| snapshots (579-746) | none | `funtrace_pause_and_*` | hold the registry's mutex throughout, read the buffers of running threads |
| trace garbage collector (974-1025) | a thread, a mutex and condition variable, `quit` | timed wait, collection, exit handshake | the registry's mutex; joined by a static destructor |
| SIGTRAP handler (924-966) | a mutex that starts locked, `quit`, a thread | the signal handler unlocks, the thread locks and takes a snapshot | snapshots; a static destructor |
| ftrace handler (1040-1339) | a mutex, `events`, `pos`, `quit`, `done`, `started`, a thread | start-up handshake, reading trace_pipe, `events_snapshot`, shutdown | snapshots call it with the registry's mutex held |
| snapshot file (483-552, 654-663) | the file | chunks in order | read by the decoder |
| decoder (`funtrace2viz`) | symbol cache, a call stack per thread | chunk parser, call stack reconstruction | the file; procaddr2sym |
| procaddr2sym | memory map, caches of files and symbols | set the map, look an address up | ELF and DWARF libraries |
| funcount (`funcount.cpp`, `funcount_pg.S`) | a three-level page table of counters | allocate pages, count, print at exit | static constructors, all threads |
| assembly filter (`compiler-wrappers/funtrace++`) | the current function of an assembly file | keep or drop its hook calls | command line lists |

### What is hard

* The traced thread is never stopped. It notices a pause when the store to its mask reaches its core and when it next
  loads the mask; a snapshot searches and copies a buffer that may still be written, two words per event and the
  position separately.
* A trace moves: from a thread_local to a heap copy that the collector deletes later. Pointers in the registry, the
  memory they lead to and the masks that stop recording all have to stay in step while threads start, end, resize and
  ignore themselves, snapshots run and the collector frees.
* Static constructors and destructors, a signal handler and three internal threads start and stop each other.
* A sample is buffers and a memory map that are taken one after the other, while other threads load and unload shared
  objects, and possibly at the same address as before. A crash cuts the file anywhere.
* The decoder is given a window of a history in which exceptions, longjmps, untraced functions, pauses and the
  instrumentation itself (XRay does not say which function returned) hide what happened, and has to guess the rest.
* funcount fills its tables under a lock that the calls it counts do not take, and prints them in destructors.
* Cyclic arrays are searched as two sorted halves, whose boundary cases (nothing written yet, exactly full, one entry
  being written) decide what is returned.

`PROJECT.json` lists these hazards at their lines, each with the property that would catch it or the
reason why none does.

### What makes each component correct

* Buffer: the last N events, in order; a pause costs at most one more event; a snapshot of a thread that has noticed
  the pause is exact, and otherwise loses or adds only a bounded number of events; nothing unwritten is returned.
* Registry: each live trace and each copy registered exactly once; a snapshot reads the traces' own live buffers; no
  buffer leaks; a thread records into its own memory only; paused means nobody records, resumed means everybody does; nothing moves under a
  snapshot.
* Collector: frees old traces only, all of them in the end, and does not block or outlive the program's end.
* SIGTRAP handler: every signal is followed by a snapshot that begins after it, unless the program ends first.
* ftrace handler: a snapshot has exactly those of the last N events that are recent enough, in order; a core dump loses
  at most the oldest event to a store in progress.
* Start and end of the program: both come to an end, whatever snapshots are under way; the library's own threads do not
  outlive what they work on; no event is stored while a snapshot reads them.
* Snapshot file and decoder: a sample is decoded as it was taken, as if it were alone in the file, and what a crash
  could not take away is not lost.
* Call stacks: what is under way is on the decoder's stack, and nothing else, as far as the trace tells; each call is
  shown, once; no return is shown as another function's, as long as the trace had no gap, no longjmp and no catch.
* procaddr2sym: an address is looked up in the file and at the offset that the memory map of its own sample says.
* funcount: no call is lost, and no function of an object that the program was given is unknown.
* Assembly filter: no function loses one of its two hooks only (not modelled).

## The modules

### `TraceBuffer`: one traced thread and its snapshots

Two processes: the traced thread (`LoadEntry`, `RecordEvent`) and a thread that takes snapshots of it (`Pause`,
`TakePauseTime`, `ReadPos`, `CheckWraparound`, `Probe`, `SearchedRight`, `SearchedLeft`, `CopyEntry`, `Resume`,
`Return`), in the order of lines 705-741; for a full snapshot `Pause` goes straight to copying (622-637). Each look at
the other thread's memory is an action: the position, the last entry's cycle, the cycle of each probe, and each entry
copied. `CopyEntry` takes an entry's two words in one step, where the code loads one after the other and could pair
the func of one event with the cycle of the one that is replacing it. No property turns on that pair: `TooOld` asks for the cycle
alone; the events that must be in a copy are those still whole in memory when the copy is complete, so nothing was
storing to their entries; and an entry without a func is the last one, being written for the first time, in either reading.

* x86 store order (TSO) is modelled by two queues. `sb` holds the traced thread's stores that other cores do not see:
  `buf` and `pos` are its own view, `mem` and `mpos` the others'. `maskq` holds the stores to `wraparound_mask`.
  `DrainStore` and `DrainMask` make the oldest visible. `EventStores` gives the three stores of one event in the two
  orders found in the code: func, cycle, pos (`__fentry__`, and `trace()` as written) and cycle, func, pos
  (`__return__`). A queue also covers preemption between two instructions.
* `LoadEntry` is one action because line 169's rule (load the mask once) makes it one decision; `RecordEvent` is one
  action because only its stores are visible to others, and they leave `sb` one at a time.
* The address arithmetic `pos & wraparound_mask` is `Wrap` on slot numbers: N, one past the end, has the bit that the
  mask clears. `allocate()` aligns the buffer to twice its size to make this true; that argument is not modelled yet.
* `Probe` is one iteration of `std::lower_bound`, so that the buffer can change between probes. `Before` is the
  comparator of lines 674-701, applied to what memory holds at that moment.
* Events are numbered and the clock advances by one per event; event k has func k and cycle k. An entry that was never
  written has func 0 and a cycle from `GarbageCycles`, except the last one, whose cycle `allocate()` zeroes.
* `NoUninitialised` has one exemption, `HalfStored`: where cycle is stored before func, the last entry may be seen with its
  cycle and without its func while it is written for the first time. `NothingUnwritten` is the claim without it, which
  the code violates (see the findings).
* History variables: `late` counts events recorded after the thread could see the mask off; `seen` and `quiet` remember
  what had been published when the snapshot looked.

### `TraceRegistry`: threads, snapshots, the collector, the end of the program

Each thread has a `phase` (unborn, starting, allocated, running, dying, gone); `tls` is its `g_thread_trace` (buffer and
whether its mask is on), `copy` and `age` its heap copy after a deferred unregistration. `thread_traces` is the vector
of pointers; a pointer is `Tls(t)` or `Copy(t)`. `owner` is the heap: which thread each address is allocated for.
A critical section that touches the registry only is one action guarded by the mutex being free (`holder = Null`);
those that loop with other threads able to run beside them (snapshots, the collector) take the mutex, go round by round
and release it.

| Code | Actions |
|---|---|
| `pthread_create` 808, `register_this_thread` 302, `allocate` 111 | `Create`, `Allocate` (outside the lock, may fail), `Register` |
| `unregister_this_thread` 318 | `Unregister`, with `FreeTrace` or `CopyTrace` |
| `funtrace_ignore_this_thread`, `funtrace_set_thread_log_buf_size` 748-759 | `Ignore` |
| `pthread_entry_point` 795 | `Exit`, then `Vanish` when the thread's storage goes; `AbruptExit` for ends that skip it |
| `funtrace_disable_tracing`, `funtrace_enable_tracing` 761-772 | `Disable`, `Enable` |
| `funtrace_pause_and_*` 579-741 | `SnapshotBegin`, which picks the kind (all, or since a time), `SnapshotCopy` once per trace, `SnapshotEnd` |
| `funtrace_gc::thread_func` 1011, `collect_garbage` 341 | `GcWait`, `GcWake`, `GcRelock`, `GcBegin`, `GcKeep`, `GcFree`, `GcEnd`, `GcNothing` |
| `~funtrace_gc` 995, `~register_main_thread` 834 | `ExitQuit`, `ExitNotify`, `ExitJoin`, `ExitUnregister` |

A snapshot reads through `trace->buf`, wherever it leads. `ReadsOwnBuffer` says when that is right: the buffer is
allocated, and for this trace's thread. A trace may have none, because its size is 0 or its allocation failed; then a full
snapshot copies nothing, but one since a time reads `end[-1].cycle` (718), 16 bytes before null. Where a read is not
right `SnapshotCopy` sets `crashed` and the program stops. `SnapshotsReadLive` says that the program stops for no other
reason than that one; `NeverCrashes`, that it does not stop at all, is among the findings.

The registry's masks are taken as seen at once by their threads; how late they are really seen is `TraceBuffer`'s
subject, and the two modules meet in that assumption: `PausedMeansPaused` says the mask is off, `AtMostOneLateEvent`
what that is worth. Ages are counted in ticks up to `MaxAge`, since only "old enough" is ever asked.

Three constants stand for what the environment may do: `TlsDestructors` (instrumented thread_local destructors run
after the thread has unregistered), `AbruptExits` (pthread_exit and cancellation), `SpuriousWakeups`.

### `FtraceEvents`, which implements `EventWindow`: the buffer of scheduling events

The reader thread takes a line from the pipe, skips it if it has no timestamp, or stores line, timestamp and `pos` in
three steps (`GetLine`, `SkipLine`, `StoreLine`, `StoreTimestamp`, `StorePos`; 1232-1250). Snapshots are kept out of
the middle of a store by the mutex (`Unlocked`) and are therefore one step; their search is `std::lower_bound` as a
recursive function on the slots (`LowerBound`), twice, then two copies (`EventsSince`, 1311-1334), for the three kinds
of snapshot: the default threshold of 1, a time, an age (`TimeOfAge`, modulo 2^w). `CoreDump` is what `write_ftrace` of
`funtrace_gdb.py` extracts; no mutex protects it, so it is evaluated in every state.

A line is the number it has in the pipe. Lines arrive with timestamps that do not decrease, which is how the kernel
merges its per-CPU buffers, and that may be equal. The time that an age asks for is kept as the integer the caller
means (`snapshot.since`, negative for an age beyond the clock), so that the wrap of line 745 shows.

`EventWindow` states the promise without slots, halves or searches: a window of the last N events, and answers that are
its events since a time. `KeepsWindow` says that `FtraceEvents` implements it, with `window` mapped to the newest N of
the history of published events. `Zero` and `LongAges` tell whether callers ask for time 0 and for ages beyond the
clock; with either the promise fails (see the findings).

### `Lifecycle`: start and end

Five threads: the main thread, which runs the constructors, `main()` and the destructors; the SIGTRAP thread; the ftrace
thread; the dummy thread that `~ftrace_handler` starts in a loop; one of the program's own. `pc` says what each does
next. The state they share is the registry's mutex, the two handlers' mutexes and flags, whether `g_ftrace_handler` is
raw, live or destroyed, and how many lines wait in trace_pipe.

| Code | Actions |
|---|---|
| `pthread_entry_point` 795 | `Register`, `Unregister`, of every thread but the main one |
| a snapshot 579-611 | `SnapshotPause` takes the registry's mutex, `SnapshotResume`, `SnapshotLockEvents`, `SnapshotUnlockEvents` or `ReadDestroyed`, `SnapshotDone` releases it |
| `sigtrap_handler` 924-966 | `MakeSigtrap`, `InstallHandler`; `Signal`; `SigIgnore`, `SigLock`, `SigAwake`; `QuitSigtrap`, `UnlockSigtrap`, `JoinSigtrap` |
| `ftrace_handler::thread_func` 1197-1254 | `FtraceStarted`, `FtraceIgnore`, `FtraceSetUp`, `FtraceCheckQuit`, `FtraceGetLine`, `FtraceLock`, `FtraceStore`, `FtraceDone` |
| `ftrace_handler()` 1052-1073 | `MakeFtrace`, `MainLock`, `StartFtrace`, `WaitStarted` |
| `~ftrace_handler()` 1074-1096 | `QuitFtrace`, `QuitNoFtrace`, `WakeFtrace`, `JoinDummy`, `FtraceWoken`, `JoinFtrace` |
| `register_main_thread` 831-836 | `RegisterMain`, `UnregisterMain` |

The mutexes are modelled as the code uses them: `sigmutex` has no holder, because any thread unlocks it; `ftmutex` is
unlocked by the ftrace thread after the constructor locked it. Unlocking a mutex one does not hold is undefined in C++;
the model takes the outcome of the pthread mutex that the build uses. `MakeFtrace` may go straight to `main()`, when the
buffer is configured away or the kernel's tracing directory cannot be used.

`main()` returns whenever it likes, with a SIGTRAP not yet served or a snapshot under way, and the program's own thread,
which is not joined, goes on taking snapshots while the destructors run. So a snapshot can meet `g_ftrace_handler` after its destruction.
Its flags and mutex are then what they were, for they are plain bytes of a static object; its array of events has been freed.
`ReadDestroyed` is a snapshot's read of that array going wrong: the process crashes. It need not, and
the snapshot may also go on (`SnapshotUnlockEvents`). Where no ftrace thread was started the array has nothing that is read.
`SignalServed` and `Ends` name the crash as an outcome; `ReadsLive`, which forbids the read, is among the findings.

### `Snapshots`: from the buffers to the JSON

The program loads and unloads objects and records events (`Open`, `Close`, `Record`); a snapshot is taken in the steps
between which other threads run; the file grows by chunks; a crash or the end of the program leaves a file; the decoder
reads it chunk by chunk. A shared object has a base address, a *slot*; an address is a slot and a function of whatever
object is loaded there, so that two objects may be called at one address at different times. An event remembers, beside
its address, which load it was a call of (`by`): the program does not know, the properties compare.

| Code | Actions |
|---|---|
| `funtrace_pause_and_write_current_snapshot` 579-611, a SIGTRAP's: maps before the buffers, appended to `funtrace.raw` | `WritePause`, `WriteMaps`, `WriteTraces`, `WriteEnd` |
| `funtrace_pause_and_get_snapshot` 622-641: maps after the buffers and after tracing is resumed | `GetPause`, `GetTraces`, `GetMaps` |
| `funtrace_write_snapshot` 654-663, `funtrace_free_snapshot` 643 | `WriteSnapshot`, `FlushSnapshot`, `FreeSnapshot` |
| the process ends, or crashes: what was not flushed is cut between chunks, in a magic string or in a chunk | `Exit`, `Crash` |
| `write_funtrace` of `funtrace_gdb.py` 69-120 | `CoreDump` |
| `parse_chunks` of `main.rs` 550-652 | `StartDecoder`, `SetMaps`, `SetThread`, `AddTrace`, `SetText`, `EndSample`, `EndOfFile`, `Fail` |
| `write_sample_to_json` 330-352, `proc_addr2sym` of `lib.rs` 245-300 | `WriteJson`, with `Lookup` and `Offset` |

The decoder's `syms`, `offsets`, `maps`, `thread`, `text` and `entries` outlive chunks and samples as the code's do. The
offset that `procaddr2sym` computes from a segment and caches is modelled as the object it was computed for: a cached
offset is right for that one. A thunk is a function whose name the decoder does not show; its address goes to
`ignored`, which only a miss of the symbol cache fills. The traces' races with a snapshot are `TraceBuffer`'s, so an
event is recorded in one step here and `paused` stops it at once. One program uses either SIGTRAP or the API (`way`):
the two meet in the mutex only. The thread names, the frequency and the command line chunks carry nothing that another
step reads. `samples` is the history the properties compare the JSON with; the process's variables are cleared when
the decoder starts, as its memory is.

### `CallStacks`: the decoder's reconstruction

One thread calls, returns, throws, catches and jumps (`Call`, `Return`, `Longjmp`, `Throw`, `Thrown`, `Unwind`, `Catch`,
`BeginCatch`, `EndCatch`, `HookReturns`); in the same step its event, if it is logged, is applied to the decoder's stack,
since the decoder handles events one by one in the order of the trace (`LogCall`, `LogReturn`, `LogCatch`).
`mode` is the instrumentation: gcc's logs the returns of functions an exception leaves and marks its calls accordingly
(`CALL_RETURNING_UPON_THROW`), `-pg` and clang's do not, XRay logs the function returned into. `Start` begins the window
that the buffer still has; `Pause` and `Resume` make gaps. Functions may be untraced.

| Code | Definitions |
|---|---|
| call events, `main.rs` 397-399 | `LogCall` |
| returns 403-448, returns into a caller 451-471 | `LogReturn`: `WriteOrphan`, `PopReturned`, `PopReturnedInto` |
| catches 354-396 | `LogCatch`: `PopCaught` |
| `__cxa_throw`, `__cxa_begin_catch`, `__cxa_end_catch`, `funtrace.cpp` 842-908 | `Throw`, `Thrown`, `Catch`, `BeginCatch`, `EndCatch`, `HookReturns` |

A stack entry is a call by its number in the trace, which stands for its time; the stack is a set, its top the latest
call. `odd` is a history of what the trace does not tell (a gap, a longjmp, a catch, an untraced or recursive catcher):
each property says which of these void it, and no others do.

### `FunCount`: counting calls in page tables

Threads count calls (`Enter`, `GetHigh`, `GetMid`, `Count`) while objects are opened and closed (`DlOpen`, `DlIterate`,
`DlReturn`, `DlClose`) and the tables are filled for them (`NextObject`, `AllocateHigh`, `AllocatePage`, `NextTable`); `InitTables` and
`InitDone` are `funcount_init`, `MainReturns` to `EndTable` the end of the program, when each table's destructor hands its
counts to the first and the first prints. The counters of a page are one counter, and an
address is the number of its page; `Mids` is the number of pages below one first-level table. `call[t].table` is the table of the core the thread was on.

| Code, `funcount.cpp` | Actions |
|---|---|
| `__cyg_profile_func_enter` 131, `get_count` 101 | `Enter`, `GetHigh`, `GetMid`, `Count` |
| `allocate_page_tables` 225, `phdr_callback` 211, `allocate_range` 82 | `NextObject`, `AllocateHigh` (a first-level table), `AllocatePage` (a page below it), `NextTable` |
| `funcount_init` 230, `dlopen` 239 | `InitTables`, `InitDone`, `DlOpen`, `DlIterate`, `DlReturn` |
| `~CountsPagesL2` 152-209 | `NoMaps`, `EndPage`, `EndHigh`, `EndTable` |

glibc holds its lock of the list of objects while it iterates (`lock`); a call takes none. The increment is atomic in the
code, the two lookups before it are steps of their own.

The three modules of the runtime meet as follows. `Lifecycle` takes from `TraceRegistry` only who holds the mutex, and
from `FtraceEvents` only whether the events change; `TraceRegistry` takes a snapshot's critical section from
`Lifecycle` as its three actions; `FtraceEvents` takes the mutual exclusion that `EventsFrozen` shows. `Snapshots` takes a buffer whose
snapshot is exact from `TraceBuffer` and a registry that does not change under a snapshot from `TraceRegistry`;
`CallStacks` takes the events of one thread of one JSON from `Snapshots`.

## The runs

| Run | Shows | Bounds |
|---|---|---|
| `buffer_since` | all invariants of a snapshot since a time | N = 4 entries, 7 events: almost two rounds, so that the buffer is searched empty, partly full, exactly full and wrapped; 6 pending stores, two whole events; both store orders; repeated snapshots, all thresholds from 0 to one past the clock |
| `buffer_full` | `FullKeepsPublished`, and that snapshots end | N = 3, 4 events, 4 pending stores, both store orders, both kinds of snapshot |
| `registry` | the registry's invariants and action properties; snapshots of both kinds read live buffers | 2 threads besides the main thread and the collector, 3 addresses for 4 traces, ages 0 (young) and 1 (old): addresses are reused and allocation can fail |
| `registry_live` | `CollectedEventually`, `ExitEnds` | 1 thread, 2 addresses, spurious wakeups on, no symmetry |
| `registry_nogc` | no store into freed memory without GC | 2 threads, TLS destructors and abrupt exits on |
| `ftrace_events` | snapshots implement `EventWindow`; `OnlyReceived`, `CoreDumpKeepsNewest` | N = 3, 6 lines: two rounds of the buffer; times 0 to 5, all thresholds from 1 and all ages below the clock |
| `lifecycle` | the library's threads do not outlive their objects, no event is stored under a snapshot, start and end come to an end, every SIGTRAP is served that the SIGTRAP thread is not told to quit before | all five threads, 2 lines in the pipe; no SIGTRAP before `main()`; `main()` returns at any time, and signals and snapshots go on while the destructors run |
| `lifecycle_early` | expected to violate `StartsUp` | the same, and a SIGTRAP during the constructors |
| `funcount` | `OpenedIsKnown`, `NoCallLost` | 2 threads, 2 tables, the executable and two libraries that can be opened, closed and opened again at the same page, 2 calls |
| `callstacks` | `ActiveKept`, `NothingElse`, `OrphanNamed`, `CallsListed` | 2 traced functions and an untraced one, 4 frames, 5 calls in the trace, one handler per function, all three kinds of instrumentation; every window |
| `callstacks_once` | expected to violate `ListedOnce` | 3 frames, 3 calls |
| `snapshots` | `TypeOK`, `SamplesAsTaken`, `DecodedAlone`, `NamedRight` | 2 threads, 2 objects, one slot, 2 loads, 2 events per buffer, 3 events, 2 samples per file, a cut at every place |

N = 4 gives `std::lower_bound` ranges of every length from 0 to 4, so three levels of halving; the race between a
snapshot and one traced thread involves at most the events in flight and those of one round. In the registry, swap
removal needs three registered pointers to go wrong (removed, moved, and one to stay); there are up to four.
In `callstacks`, 4 frames hold a function, a recursive call of it, one more and a hook; 5 calls are needed for an
exception that is thrown in a handler of another. States in which the trace has already a gap or an untraced catcher are
not continued (`MCBounded`), because the properties promise nothing after them. In `snapshots` one slot is the worst
case: every second load reuses the address of the first; with two samples each cache is filled by one sample and used
by the next, and 3 events overwrite the oldest of a buffer of 2. In `funcount`, two libraries on one page exercise
re-opening, a page in another upper entry than the executable's exercises both levels, and two calls are what can race.

The type invariants of all modules are proved; those of `FtraceEvents` and `Snapshots`, which say that no chunk and no
slot out of range is touched, are checked in their runs too.
Deadlock is not checked: the bound on events, and a program that has ended, stop these models legitimately. Symmetry is
used where no constant but the sets themselves names their elements, and in no run with a liveness property.

Fairness. `TraceBuffer`: the snapshotting thread goes on once it has begun (it holds a mutex nobody preempts it from for
good, and runs straight-line code and a shrinking search), and stores become visible. `TraceRegistry`: the collector's
thread and the main thread's exit sequence are strongly fair, because each of their steps may be disabled for a while by
a mutex that others take for short sections; a snapshot in progress and the clock are weakly fair. Nothing is assumed of
the program's own threads, or of spurious wakeups. `Lifecycle`: each thread is strongly fair in what it does by itself,
for the same reason as the collector: a mutex that others take again and again is free again and again, and glibc's
mutexes and the scheduler let nobody starve for ever. What the environment does (a signal, a line in the pipe, a
snapshot wanted by the program, the return from `main()`) is not fair: it may never happen. One thing the destructor's
loop does need of the kernel: while it goes on starting threads, some of that is reported in trace_pipe. It is a
guard of `WakeFtrace` (the pipe is not empty afterwards), and the code's own comment at 1079-1083 doubts whether less
than a loop would do.

`FunCount`, `CallStacks` and `Snapshots` state safety only: what they model is driven by the program and by the file.

Each property of a passing run has a *mutant*: an operator, placed before the definition it would replace, that
changes it like a plausible mistake would (a dropped lock, a mask not looked at, an index off by one). With the mutant
in place the run's property is violated.

## What is proved

With TLAPS, for every value of the constants that satisfies the ASSUMEs of the modules.

`TraceBufferProofs` (any N >= 2, any bounds, both store orders, all kinds of snapshot): `TypeCorrect`,
`KeepsLastEvents`, `PauseIsNoticed`. The inductive invariant `IInv` joins the three with `EntryPicked` (the slot trace()
carries is the one the position wraps to), `NothingPickedOnceLate` (once an event was recorded late, no other slot is
carried while the mask is off) and `SearchInBounds` (the search's range stays inside the buffer whatever is compared).
What other cores see is a second invariant, `MemInv`: the stores in flight are the last ones issued, in order
(`StoresInOrder`), so their number alone says which events memory holds and which word is being written (`PosFollows`,
`WrittenSoFar`, `LastArrived`), and an entry never goes back to an earlier event (`NeverBack`). On it rest
* `FullSnapshotKeepsPublished`, for both store orders: `FullInv` adds that the copy has, slot by slot, an event at least
  as late as the one that was there when the snapshot began;
* `SnapshotReadsWritten`, for both store orders, with the exemption `HalfStored` where cycle is stored first: `InitInv` says
  that slots left of `pos` were written, and all slots once the cycle of the last one, which `allocate()` zeroed, is not 0 (`WrittenByPos`), and that a snapshot reads no others (`ReadsWritten`);
* `SnapshotExact`: of a thread at rest a snapshot since a time returns exactly the events since then. `QuietInv` says that
  the thread stays at rest until it can see the mask on (`Handshake`, `AtRest`), that each binary search keeps what is
  before the threshold left of its range and what is not right of it (`SearchExact`), and what is copied (`CopyExact`);
* `FewLost` (`LossBounded`) and `FewTooOld` (`StaleBounded`), for both store orders: how far a binary search goes wrong
  whose range is written under it. Such a search has no sorted range to rely on, so `SinceInv` does not say that it is
  right, only where it can be wrong. `CyclesForward`: each slot's cycle is that of an event of this slot, and only grows,
  so a slot is its old event or one a whole round later. `Skipped`: what was skipped wrongly lies left of a slot that held
  a late event when it was compared, and no further from it than the range's end is, because a probe halves the range;
  all slots from that one to the end held late events, hence no more losses than late
  events. `Behind` is the mirror image for what is kept: too old entries lie just after a slot that had been written over
  when it was compared, no more of them than slots before it, all of which had been written over too. `SearchedSoFar`
  states both for the two halves of the buffer at every point of the search, and `CopiedSince` carries them to the copy,
  whose entries may have been written over again since the search.

`TraceRegistryProofs` (any number of threads, addresses and ages): `TypeCorrect`, `RegistryIsSound`,
`SnapshotsReadOwnBuffers`, `BuffersStayReachable`, `ResumeCoversAll`, `AllCollectedAtExit` under the assumption
`~AbruptExits`; `NoStoreAfterFree` and `PauseCoversAll` also under `~TlsDestructors` (the findings show why both are
needed); `SnapshotFreezesRegistry` without either. `SnapshotsReadOwnBuffers` follows from `RegisteredBuffersLive`, that
what a registered trace calls its buffer is allocated for its thread. The invariants are not inductive one by one: freeing is safe only
because no other pointer leads to the same buffer, which needs `NoBufferLeaked` and `BuffersHeld` (the buffer a thread
holds in each phase), `MainStays`, and `MasksSet` (masks agree with `tracing_paused`). Lemmas `AppendElems`,
`ReplaceElems` and `SwapRemoveElems` say what the three updates of the vector do to the set of its pointers. The proof
of `AllCollectedAtExit` adds `CollectedSoFar`: the collector's last round leaves no copy behind it. `YoungOnesKept`, that
nothing is freed before its age until the program exits, needs `~SpuriousWakeups` too (`MC_TraceRegistry_spurious`):
its invariant is `QuitKnown` (a wait that ended otherwise than by its time means the end) and `StillOld` (the traces that
the collector found old enough are not made younger while it holds the lock).

`LifecycleProofs` (any length of the pipe): `TypeCorrect` without assumptions on the environment; for a program that is sent
no SIGTRAP before `main()` (`~Early`; `MC_Lifecycle_raw` shows why), whenever `main()` returns and whatever snapshots are
under way then, `LibraryThreadsUseLive`, `FtraceThreadStarted` and `EventsStayFrozen`. The inductive invariant says who
holds each mutex by where the threads are (`RegistryHolder`, `EventsHolder`: the constructor's lock counts as held until
the ftrace thread is past its set-up, which is what makes `WaitStarted` wait), where each thread can be at all (`Places`),
that nobody takes a snapshot before `main()` (`QuietBefore`), that the handler is destroyed only when its thread is gone
(`FtraceAfter`, `HandlerAfter`), and the SIGTRAP thread gone when it has been joined (`SigGone`). `StartedSaid`, a thread past its
start has set `started`, is needed so that the destructor does join it: without it `NeverTerminated` does not follow.
That the destructor frees what a snapshot may be reading is outside of `EventsFrozen`, and is a finding.

`FunCountProofs` (any threads, objects, addresses and numbers of tables, for a program that joins its threads):
`Types`, and `Known`, that a function of an opened object is never counted as unknown. The invariant follows the
iteration over the objects: what has been passed is complete in the tables (`RangeSound`, `IterationSound`), what has
been opened is complete (`OpenedComplete`), so a call that has found its table also finds its page (`CallsComplete`);
`Holder` says whose the iteration is. `AllCallsCounted` (nothing counted before the tables are built: `~Early`;
`MC_FunCount_early` and `MC_FunCount_exit` violate it otherwise) is about a sum over tables: `Accounted` says that, for each
slot, the report and the tables not yet added up make the calls made. It holds through the destructors because
the first table has every page another has (`Nested`, which `FirstFilled` carries through an iteration) and has printed
nothing before its own turn (`Unprinted`), and because what is deleted holds no count (`Zeroed`).

`CallStacksProofs` (any functions, nesting and length): `Types`, and `StillOnStack`, that calls under way stay on the
decoder's stack. Besides the claim (`Kept`) it needs that call numbers rise with the frames (`Rising`), so that popping
down to a caller does not pass one; that what is called from a call in the trace is in the trace too (`Contiguous`),
so that the latest call of a name is the returning one; and where hooks can be (`HooksOnTop`). The lemmas about
`PopReturned`, `PopReturnedInto` and `PopCaught` say which entries each leaves. A second invariant, `CInv`, gives the
other three: `StackExact` (`Leaving`: what is on the stack and not under way is what an exception has left, above
everything it has not), `CallsShown` (`Once`: each call of the trace is on the stack or was written, and while only
exceptions end calls unlogged not both) and `OrphansNamed` (`Expected`: with only callers from before the trace left,
XRay's function last returned into is the innermost traced one, or none that is traced).

`SnapshotsProofs` (any threads, slots, objects and sizes, both ways and core dumps): `MapsOfSamples`, that the memory
map of a sample tells the object of each event whose object is not unloaded before the snapshot is complete - the
program's half of `NamedRight`; `CachesAgree`, that the decoder's caches agree with the map it has - the reason for
`DecodedAlone`. The invariant has an argument per way. SIGTRAP's maps are taken first and stay right because
paused threads record nothing (`WriteSound`); the API's copies are taken first and stay right because an object that is
not closed keeps its address (`GetSound`); both start from `InPlace`, that an event's object is where the event says.

The decoder's half is the invariant `DInv`, for a file cut at any place. The file is the concatenation of the chunks of
the samples, sample i after place `at[i]` (`Parts`), still being extended while the program runs (`Growing`) and cut at
any chunk afterwards (`Finished`). While decoding, `Place` says which sample and which of its chunks comes
next, what was gathered of it, and that the JSONs are those of the samples before, in order (`JsonsSound`); outside of
decoding nothing was read (`Unread`, `Fresh`). `EachSampleShown`, `EachDecodedAlone` and `EachNamedRight` follow, the last
one with `MapsOfSamples`, and `TypeCorrect` with them. TLC agrees on `DInv` with the bounds of the run.

`FtraceEventsProofs` (any buffer size, width of the clock and number of lines): `TypeCorrect`; `CoreDumpKeeps`, wherever the
program stops; and, for callers that ask neither for time 0 nor for an age beyond the clock (`~Zero`, `~LongAges`; the
findings show why), `ReceivesOnly` and the refinement `BufferKeepsWindow`. The invariant relates the slots to the history
of lines: slot i holds the event numbered `NumberAt(i)`, or is empty where that is below 1 (`SlotsHold`), except the slot being
stored (`InStore`); timestamps do not decrease (`LogInOrder`, `CurrentNext`). Each half of the buffer is therefore sorted,
and a lemma about `LowerBound`, by induction on the length of the range, gives the first slot that is not before the
threshold; the two copies are then the suffix of the history that `EventWindow` promises.

`InductionLemmas` has what takes the place of the library's induction theorems, whose operator parameters the provers
cannot instantiate: they are about a *set* of numbers or a *function* of steps (`InductionUpTo`, `LoopExists`,
`StepsExist`), and their users define the set of arguments for which a claim holds, or the function that one round of a
fold computes. `Total` of `FunCount`, the chunks of a sample and the binary search are treated so.

Every invariant and every action property of the runs is thus stated by a theorem, under the assumptions named above.
Model-checked only: liveness under fairness, which the prover cannot treat, and the configurations that show a
disagreement.

## What the code does otherwise than it says

Two of these are runs that are expected to find a violation:

* `lifecycle_early`: a SIGTRAP during the constructors can leave three threads waiting for each other, and `main()` is
  never entered (`StartsUp`).
* `callstacks_once`: when a function returns whose call is not on the stack while others are, all of them are popped and
  the last one popped is written twice (`ListedOnce`; `main.rs` 436-448).

The others can be seen in the same way, with a configuration kept for each:

| Configuration | Violates | What happens |
|---|---|---|
| `MC_TraceBuffer_late` | `LateEventsFirst` | events recorded between `pause_time` and the read of `pos` (712-714) are at the end of the searched range; the comment at 675-683 expects late events only at its beginning. The search can then miss events; `LossBounded` shows that it misses no more than there were late ones |
| `MC_TraceBuffer_pg` | `NothingUnwritten` | `__return__` stores cycle before func (`funtrace_pg.S:115`), so the check of `end[-1].cycle` (717) can let a half-written last entry through, with a func nobody wrote |
| `MC_TraceBuffer_uninit` | `NoUninitialisedInFull` | full snapshots (631, 598) copy entries that were never written; the decoder drops only all-zero entries (`funtrace2viz/src/main.rs:633`) |
| `MC_TraceRegistry_nobuf` | `NeverCrashes` | a snapshot since a time of a thread without a buffer reads `end[-1].cycle` (718) at null minus 16; lines 93 and 125 have "0 disables tracing" and "allocation failed - disable tracing" |
| `MC_TraceRegistry_spurious` | `OnlyOldFreed` | any return of `wait_for` but a timeout is taken for the end of the program (1018): a spurious wakeup ends garbage collection and frees young buffers, although README.md:321 says only old ones are freed |
| `MC_TraceRegistry_disable` | `DisabledMeansDisabled` | a snapshot's `resume_tracing` (603) enables tracing that was disabled; README.md:310 says that disabling disables it globally |
| `MC_FtraceEvents_zero` | `OnlyReceived` | the check against empty slots is only in the default threshold (535); a snapshot starting at time 0 (738) holds an empty line for each slot never written |
| `MC_FtraceEvents_age` | `NothingMissed` | a snapshot up to an age beyond the clock wraps to a time in the future (745) and gets no scheduling events |
| `MC_FtraceEvents_core` | `CoreDumpInOrder` | a core dump in the middle of a store (1245-1247) lists the newest line first; `CoreDumpKeepsNewest` shows that only the oldest slot is affected |
| `MC_TraceRegistry_dtor` | `PausedMeansPaused` | thread_local destructors of a finished thread keep recording while tracing is paused |
| `MC_TraceRegistry_abrupt` | `RemovedWhenDestroyed` | threads ending by pthread_exit or cancellation stay registered after their storage is gone |
| `MC_Lifecycle_exit` | `ReadsLive` | a snapshot in progress at exit, or begun then, reads the events of a destroyed `ftrace_handler` |
| `MC_Lifecycle_raw` | `EventsFrozen` | a SIGTRAP before `g_ftrace_handler` is constructed starts a snapshot that locks its mutex; the constructor initialises the mutex again and locks it, and the snapshot's unlock releases the constructor's lock; the snapshot of a second SIGTRAP then takes the mutex, the ftrace thread's unlock after its set-up releases it under that snapshot, and an event is stored while it is read; 1315-1317 have "we're holding a mutex protecting the cyclic buffer" |
| `MC_FunCount_early` | `NoCallLost` | calls counted before the tables' constructor runs are zeroed by it (`funcount.cpp:79`; 56-59 let them count); README.md:332 tells that calls of constructors are missed |
| `MC_FunCount_exit` | `NoStaleCount` | threads that outlive `main()` count into pages being deleted (`funcount.cpp:191`); README.md:232 calls funcount thread-safe |
| `MC_CallStacks_orphan` | `OrphanNamedOnceCaught` | under XRay, after an exception, an orphan return is named after the function that an earlier event had returned into (`main.rs` 405-406) |
| `MC_Snapshots_chosen` | `OnlyChosen` | a sample that the file breaks off in is decoded although `--samples` does not list it (`main.rs` 647-650; 54-55 say it is ignored) |
| `MC_Snapshots_core` | `SamplesStay` | gdb's `funtrace` command truncates `funtrace.raw` with the samples of earlier SIGTRAPs (`open(..., 'wb')`), where a SIGTRAP appends; README.md:161 compares the two |
| `MC_Lifecycle_lost` | `EverySignalServed` | a SIGTRAP before the return from `main()` may give no snapshot, when the thread looks at `quit` (961) only after that; `tests/sigtrap.cpp:30` raises one as the last thing in `main()` and `tests.py:549-552` asks for its trace |

## What is left out

* The address trick behind `wraparound_mask` (alignment, the case of very small or huge sizes): arithmetic on addresses,
  taken as `Wrap`.
* Instrumented signal handlers that interrupt `trace()` between its instructions: `trace()` promises nothing to them.
* A collection period of 0 with a non-zero age: nothing runs that could be checked.
* Setting up, filtering and removing the kernel's tracing instance (1107-1178, 1203-1221, 1266-1288): input and output,
  of which the models keep that it may fail. The text of a line: only whether it has a timestamp, and which, matters.
* The TSC frequency, the command line, names and ids of threads: queries of the system that are carried along.
* The decoder's conversion of cycles to decimal microseconds, its age limits, its cache of source files and the JSON's
  layout: arithmetic and text. Chunks of unknown kinds or impossible lengths, which no writer makes.
* ELF and DWARF, and the search for a symbol within one file: libraries, and a search of immutable data. Executables that
  cannot be opened.
* The XRay trampolines' and assembly hooks' saving of registers: below what the models see. Their events are modelled.
* The assembly filter and the compiler wrappers: pattern matching on lines of text. `funcount2sym`: a loop over lines.
* dlclose() between an event and the end of its snapshot: the event's object is not in the map; README.md:336 documents it.
  `NamedRight` excepts exactly these events.

## What could come next

1. `BufferAddress`: the alignment argument behind `Wrap`, with the sizes at both ends of `log_buf_size`.
2. Liveness of `FunCount`'s `dlopen`, once glibc's lock is modelled with its waiters.
