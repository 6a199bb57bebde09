---------------------------- MODULE TraceRegistry ----------------------------
(***************************************************************************)
(* The registry of the threads' traces (trace_global_state): the threads    *)
(* that enter and leave it, the snapshots that pause them, and the garbage  *)
(* collector that frees the buffers of finished threads.                   *)
(*                                                                         *)
(* A trace is its owner's thread-local trace_data until the owner's         *)
(* deferred unregistration replaces it in the registry by a heap copy.      *)
(* What the threads write into their buffers is TraceBuffer's subject; here *)
(* a buffer is an address that the heap hands out and takes back.           *)
(***************************************************************************)
EXTENDS Integers, Sequences, FiniteSets, Functions

CONSTANTS
  Threads,          \* the threads created with pthread_create
  Main, Gc,         \* the main thread and the collector's thread
  Bufs,             \* the addresses a buffer may be allocated at
  Null,             \* the null pointer: no buffer, no owner, no lock holder
  NoCopy,           \* marks a thread without a heap copy of its trace
  MaxAge,           \* gc_max_age_ms, in ticks of the clock; 0 turns GC off
  TlsDestructors,   \* whether thread_local destructors are traced
  AbruptExits,      \* whether threads end by pthread_exit or cancellation
  SpuriousWakeups   \* whether a condition variable's wait may return unasked

All == Threads \cup {Main, Gc}

ASSUME MaxAgeAssumption == MaxAge \in Nat
ASSUME ThreadsAssumption ==
  /\ IsFiniteSet(Threads)
  /\ Main \notin Threads /\ Gc \notin Threads /\ Main # Gc
ASSUME NullAssumption ==
  /\ Null \notin Bufs /\ NoCopy \notin Bufs /\ Null # NoCopy
  /\ Null \notin All
ASSUME FlagsAssumption ==
  /\ TlsDestructors \in BOOLEAN
  /\ AbruptExits \in BOOLEAN
  /\ SpuriousWakeups \in BOOLEAN

VARIABLES
  phase,          \* where each thread is between its creation and its end
  tls,            \* g_thread_trace of each thread: its buffer, its mask
  thread_traces,  \* the registry: pointers to thread-local or copied traces
  copy,           \* the buffer of the heap copy of a finished thread's trace
  age,            \* now - time_of_death_ms of that copy, up to MaxAge
  owner,          \* the heap: which thread each address was allocated for
  tracing_paused,
  exiting,
  holder,         \* who holds trace_global_state::mutex
  next,           \* the holder's position in its loop over thread_traces
  expired,        \* the copies old enough when the collection began
  kind,           \* the snapshot being taken: of all events, or since a time
  gcpc,           \* where the collector's thread is
  gcmutex,        \* who holds funtrace_gc::mutex
  reason,         \* what the wait returned: "timeout" or "woken"
  quit,
  exitpc,         \* where the main thread is in the exit sequence
  crashed,        \* a snapshot has read outside the buffer of a trace
  disabled        \* history: tracing was disabled and not enabled since

regVars  == <<phase, tls, thread_traces, copy, owner>>
lockVars == <<holder, next, expired, kind>>
gcVars   == <<gcpc, gcmutex, reason, quit, exitpc>>
markVars == <<crashed, disabled>>
vars     == <<regVars, age, tracing_paused, exiting, lockVars, gcVars, markVars>>

Ref     == [of : All, copied : BOOLEAN]
Tls(t)  == [of |-> t, copied |-> FALSE]
Copy(t) == [of |-> t, copied |-> TRUE]

\* The positions of t's own trace in the registry.
At(t) == {i \in DOMAIN thread_traces : thread_traces[i] = Tls(t)}

\* A mutant of SwapRemove that forgets to move the last entry.
PopOnly(s, i) == SubSeq(s, 1, Len(s) - 1)

\* v[i] = v.back(); v.pop_back()
SwapRemove(s, i) == [j \in 1 .. Len(s) - 1 |-> IF j = i THEN s[Len(s)] ELSE s[j]]

\* ::free(): a null pointer is fine.
Free(heap, b) == [a \in DOMAIN heap |-> IF a = b THEN Null ELSE heap[a]]

Init ==
  /\ phase = [t \in All |-> IF t = Main THEN "starting" ELSE "unborn"]
  /\ tls = [t \in All |-> [buf |-> Null, on |-> FALSE]]
  /\ thread_traces = <<>>
  /\ copy = [t \in All |-> NoCopy]
  /\ age = [t \in All |-> 0]
  /\ owner = [b \in Bufs |-> Null]
  /\ tracing_paused = FALSE
  /\ exiting = FALSE
  /\ holder = Null /\ next = 1 /\ expired = {} /\ kind = "none"
  /\ gcpc = "lock" /\ gcmutex = Null /\ reason = "timeout" /\ quit = FALSE
  /\ exitpc = "running"
  /\ crashed = FALSE /\ disabled = FALSE

------------------------------------------------------------------------------
(* Threads come and go.                                                     *)

\* pthread_create, called by a running thread; the collector's thread is
\* created by the main thread, in funtrace_gc's constructor.
Create(t) ==
  /\ phase[t] = "unborn"
  /\ \E parent \in All : phase[parent] = "running" /\ (t = Gc => parent = Main)
  /\ phase' = [phase EXCEPT ![t] = "starting"]
  /\ UNCHANGED <<tls, thread_traces, copy, owner, age, tracing_paused, exiting,
                 lockVars, gcVars, markVars>>

\* A mutant of Allocate: whether tracing is paused is looked up with the
\* allocation, before the lock.
AllocatePaused(t) ==
  /\ phase[t] = "starting"
  /\ phase' = [phase EXCEPT ![t] = "allocated"]
  /\ \E b \in Bufs :
       /\ owner[b] = Null
       /\ owner' = [owner EXCEPT ![b] = t]
       /\ tls' = [tls EXCEPT ![t] = [buf |-> b, on |-> ~tracing_paused]]
  /\ UNCHANGED <<thread_traces, copy, age, tracing_paused, exiting, lockVars, gcVars, markVars>>

\* register_this_thread() up to the lock: allocate() gets an address and
\* turns the mask on, or fails (or was asked for no buffer).
Allocate(t) ==
  /\ phase[t] = "starting"
  /\ phase' = [phase EXCEPT ![t] = "allocated"]
  /\ \/ \E b \in Bufs :
          /\ owner[b] = Null
          /\ owner' = [owner EXCEPT ![b] = t]
          /\ tls' = [tls EXCEPT ![t] = [buf |-> b, on |-> TRUE]]
     \/ /\ tls' = [tls EXCEPT ![t] = [buf |-> Null, on |-> FALSE]]
        /\ UNCHANGED owner
  /\ UNCHANGED <<thread_traces, copy, age, tracing_paused, exiting, lockVars, gcVars, markVars>>

\* Mutants of Register: it forgets that tracing may be paused, or the lock.
RegisterUnpaused(t) ==
  /\ phase[t] = "allocated"
  /\ holder = Null
  /\ thread_traces' = Append(thread_traces, Tls(t))
  /\ phase' = [phase EXCEPT ![t] = "running"]
  /\ UNCHANGED <<tls, copy, owner, age, tracing_paused, exiting, lockVars, gcVars, markVars>>

RegisterUnlocked(t) ==
  /\ phase[t] = "allocated"
  /\ tls' = [tls EXCEPT ![t].on = @ /\ ~tracing_paused]
  /\ thread_traces' = Append(thread_traces, Tls(t))
  /\ phase' = [phase EXCEPT ![t] = "running"]
  /\ UNCHANGED <<copy, owner, age, tracing_paused, exiting, lockVars, gcVars, markVars>>

\* The rest of register_this_thread(), under the lock.
Register(t) ==
  /\ phase[t] = "allocated"
  /\ holder = Null
  /\ tls' = [tls EXCEPT ![t].on = @ /\ ~tracing_paused]
  /\ thread_traces' = Append(thread_traces, Tls(t))
  /\ phase' = [phase EXCEPT ![t] = "running"]
  /\ UNCHANGED <<copy, owner, age, tracing_paused, exiting, lockVars, gcVars, markVars>>

\* Mutants of FreeTrace: the registry keeps the freed trace; the trace goes
\* but not its buffer; the thread keeps its pointer to the freed buffer.
FreeKeepsEntry(t, i) ==
  /\ owner' = Free(owner, tls[t].buf)
  /\ tls' = [tls EXCEPT ![t].on = FALSE]
  /\ UNCHANGED <<thread_traces, copy, age>>

FreeLeaks(t, i) ==
  /\ tls' = [tls EXCEPT ![t] = [buf |-> Null, on |-> FALSE]]
  /\ thread_traces' = SwapRemove(thread_traces, i)
  /\ UNCHANGED <<copy, age, owner>>

FreeKeepsTls(t, i) ==
  /\ owner' = Free(owner, tls[t].buf)
  /\ thread_traces' = SwapRemove(thread_traces, i)
  /\ UNCHANGED <<tls, copy, age>>

\* Taking t's trace out of the registry, its i-th entry, and freeing it;
FreeTrace(t, i) ==
  /\ owner' = Free(owner, tls[t].buf)
  /\ tls' = [tls EXCEPT ![t] = [buf |-> Null, on |-> FALSE]]
  /\ thread_traces' = SwapRemove(thread_traces, i)
  /\ UNCHANGED <<copy, age>>

\* or leaving a copy of it to the collector.
CopyTrace(t, i) ==
  /\ thread_traces' = [thread_traces EXCEPT ![i] = Copy(t)]
  /\ copy' = [copy EXCEPT ![t] = tls[t].buf]
  /\ age' = [age EXCEPT ![t] = 0]
  /\ UNCHANGED <<tls, owner>>

\* A mutant of Deferred: traces are left to a collector that is gone.
DeferredAtExit(defer_free) == MaxAge # 0 /\ defer_free

Deferred(defer_free) == MaxAge # 0 /\ defer_free /\ ~exiting

\* unregister_this_thread() of t, under the lock.  Without a trace of t in the
\* registry there is nothing to do.
Unregister(t, defer_free) ==
  /\ holder = Null
  /\ \/ /\ At(t) = {}
        /\ UNCHANGED <<tls, thread_traces, copy, age, owner>>
     \/ \E i \in At(t) :
          /\ \A j \in At(t) : i <= j
          /\ \/ ~Deferred(defer_free) /\ FreeTrace(t, i)
             \/ Deferred(defer_free) /\ CopyTrace(t, i)

\* funtrace_ignore_this_thread(), and funtrace_set_thread_log_buf_size(), which
\* goes on to register the thread again when the size asked for is enough.
Ignore(t, resize) ==
  /\ phase[t] = "running"
  /\ Unregister(t, FALSE)
  /\ phase' = [phase EXCEPT ![t] = IF resize THEN "starting" ELSE "running"]
  /\ UNCHANGED <<tracing_paused, exiting, lockVars, gcVars, markVars>>

\* The end of pthread_entry_point().
Exit(t) ==
  /\ phase[t] = "running"
  /\ Unregister(t, TRUE)
  /\ phase' = [phase EXCEPT ![t] = "dying"]
  /\ UNCHANGED <<tracing_paused, exiting, lockVars, gcVars, markVars>>

\* pthread_exit() or cancellation: pthread_entry_point() does not return.
AbruptExit(t) ==
  /\ AbruptExits
  /\ phase[t] = "running" /\ holder # t
  /\ phase' = [phase EXCEPT ![t] = "gone"]
  /\ UNCHANGED <<tls, thread_traces, copy, owner, age, tracing_paused, exiting,
                 lockVars, gcVars, markVars>>

\* The thread's thread_local destructors have run; its storage goes away.
Vanish(t) ==
  /\ phase[t] = "dying"
  /\ phase' = [phase EXCEPT ![t] = "gone"]
  /\ UNCHANGED <<tls, thread_traces, copy, owner, age, tracing_paused, exiting,
                 lockVars, gcVars, markVars>>

------------------------------------------------------------------------------
(* Pausing and snapshots.                                                   *)

\* Setting wraparound_mask of every registered trace.  The mask of a heap copy
\* is never read.
SetMasks(on) == tls' = [t \in All |-> IF At(t) # {} THEN [tls[t] EXCEPT !.on = on] ELSE tls[t]]

\* pause_tracing()
PauseAll == tracing_paused' = TRUE /\ SetMasks(FALSE)

\* resume_tracing()
ResumeAll == tracing_paused' = FALSE /\ SetMasks(TRUE)

\* funtrace_disable_tracing()
Disable(t) ==
  /\ phase[t] = "running"
  /\ holder = Null
  /\ PauseAll
  /\ disabled' = TRUE
  /\ UNCHANGED <<phase, thread_traces, copy, owner, age, exiting, lockVars, gcVars, crashed>>

\* funtrace_enable_tracing()
Enable(t) ==
  /\ phase[t] = "running"
  /\ holder = Null
  /\ ResumeAll
  /\ disabled' = FALSE
  /\ UNCHANGED <<phase, thread_traces, copy, owner, age, exiting, lockVars, gcVars, crashed>>

\* The funtrace_pause_and_* calls: taking the lock and pausing,
SnapshotBegin(t) ==
  /\ phase[t] = "running"
  /\ holder = Null
  /\ holder' = t /\ kind' \in {"full", "since"}
  /\ next' = 1
  /\ PauseAll
  /\ UNCHANGED <<phase, thread_traces, copy, owner, age, exiting, expired, gcVars, markVars>>

Snapshotting == holder # Null /\ holder # Gc

\* The buffer of a registered trace, null when there is none.
BufOf(r) == IF r.copied THEN copy[r.of] ELSE tls[r.of].buf

\* A snapshot of all events copies the trace's buf_size bytes, none without a
\* buffer; one since a time first reads the last entry, end[-1].cycle, which
\* without a buffer is the 16 bytes below null.
ReadsOwnBuffer(r) ==
  \/ BufOf(r) # Null /\ owner[BufOf(r)] = r.of
  \/ BufOf(r) = Null /\ kind # "since"

\* copying one trace after the other; a read of anything but the trace's own
\* buffer ends the program,
SnapshotCopy ==
  /\ Snapshotting
  /\ next <= Len(thread_traces)
  /\ \/ /\ ReadsOwnBuffer(thread_traces[next])
        /\ next' = next + 1
        /\ UNCHANGED crashed
     \/ /\ ~ReadsOwnBuffer(thread_traces[next])
        /\ crashed' = TRUE
        /\ UNCHANGED next
  /\ UNCHANGED <<regVars, age, tracing_paused, exiting, holder, expired, kind, gcVars, disabled>>

\* resuming and releasing the lock.
SnapshotEnd ==
  /\ Snapshotting
  /\ next > Len(thread_traces)
  /\ ResumeAll
  /\ holder' = Null /\ next' = 1 /\ kind' = "none"
  /\ UNCHANGED <<phase, thread_traces, copy, owner, age, exiting, expired, gcVars, markVars>>

------------------------------------------------------------------------------
(* The collector's thread: funtrace_gc::thread_func().                      *)

Tick ==
  /\ \E t \in All : copy[t] # NoCopy /\ age[t] < MaxAge
  /\ age' = [t \in All |-> IF copy[t] # NoCopy /\ age[t] < MaxAge THEN age[t] + 1 ELSE age[t]]
  /\ UNCHANGED <<regVars, tracing_paused, exiting, lockVars, gcVars, markVars>>

\* Once funtrace_ignore_this_thread() has run, the loop: lock the mutex and
\* wait, which releases it.
GcWait ==
  /\ phase[Gc] = "running" /\ At(Gc) = {}
  /\ gcpc = "lock" /\ gcmutex = Null
  /\ gcpc' = "wait"
  /\ UNCHANGED <<regVars, age, tracing_paused, exiting, lockVars, gcmutex, reason, quit,
                 exitpc, markVars>>

\* A mutant of GcWake: wait() for wait_for().
GcWakeUntimed(r) ==
  /\ gcpc = "wait"
  /\ r = "woken" /\ SpuriousWakeups
  /\ gcpc' = "relock" /\ reason' = r
  /\ UNCHANGED <<regVars, age, tracing_paused, exiting, lockVars, gcmutex, quit, exitpc, markVars>>

\* gc_period_ms passed, or the wait returned for no reason.
GcWake(r) ==
  /\ gcpc = "wait"
  /\ r = "woken" => SpuriousWakeups
  /\ gcpc' = "relock" /\ reason' = r
  /\ UNCHANGED <<regVars, age, tracing_paused, exiting, lockVars, gcmutex, quit, exitpc, markVars>>

\* wait_for() returns with the mutex locked.
GcRelock ==
  /\ gcpc = "relock" /\ gcmutex = Null
  /\ gcmutex' = Gc
  /\ gcpc' = "collect"
  /\ UNCHANGED <<regVars, age, tracing_paused, exiting, lockVars, reason, quit, exitpc, markVars>>

\* A mutant of Leaving that relies on the notification alone.
LeavingUnlessTimeout == reason # "timeout"

\* The collector's exiting, computed after the wait.
Leaving == reason # "timeout" \/ quit

\* collect_garbage() takes the registry's lock and looks at the clock.
GcBegin ==
  /\ gcpc = "collect" /\ MaxAge # 0
  /\ holder = Null
  /\ holder' = Gc /\ next' = 1
  /\ exiting' = (exiting \/ Leaving)
  /\ expired' = {t \in All : age[t] >= MaxAge}
  /\ gcpc' = IF Leaving THEN "lastcollect" ELSE "collecting"
  /\ UNCHANGED <<regVars, age, tracing_paused, kind, gcmutex, reason, quit, exitpc, markVars>>

Collecting == holder = Gc

\* A mutant of Collectable: any finished thread's trace.
CollectableAnyAge(r) == r.copied

\* One round of its loop: a trace whose thread has finished, and is old enough
\* or is not to be kept any longer, is freed and replaced by the last one.
Collectable(r) == r.copied /\ (exiting \/ r.of \in expired)

GcKeep ==
  /\ Collecting
  /\ next <= Len(thread_traces)
  /\ ~Collectable(thread_traces[next])
  /\ next' = next + 1
  /\ UNCHANGED <<regVars, age, tracing_paused, exiting, holder, expired, kind, gcVars, markVars>>

GcFree ==
  /\ Collecting
  /\ next <= Len(thread_traces)
  /\ Collectable(thread_traces[next])
  /\ LET t == thread_traces[next].of IN
       /\ owner' = Free(owner, copy[t])
       /\ copy' = [copy EXCEPT ![t] = NoCopy]
       /\ age' = [age EXCEPT ![t] = 0]
  /\ thread_traces' = SwapRemove(thread_traces, next)
  /\ UNCHANGED <<phase, tls, tracing_paused, exiting, lockVars, gcVars, markVars>>

\* The end of the loop, and of collect_garbage().
GcEnd ==
  /\ Collecting
  /\ next > Len(thread_traces)
  /\ holder' = Null /\ next' = 1 /\ expired' = {}
  /\ gcpc' = IF gcpc = "lastcollect" THEN "left" ELSE "lock"
  /\ gcmutex' = Null
  /\ UNCHANGED <<regVars, age, tracing_paused, exiting, kind, reason, quit, exitpc, markVars>>

\* collect_garbage() with no age to wait for.
GcNothing ==
  /\ gcpc = "collect" /\ MaxAge = 0
  /\ gcpc' = IF Leaving THEN "left" ELSE "lock"
  /\ gcmutex' = Null
  /\ UNCHANGED <<regVars, age, tracing_paused, exiting, lockVars, reason, quit, exitpc, markVars>>

------------------------------------------------------------------------------
(* The end of the program: ~funtrace_gc(), then ~register_main_thread().    *)

ExitQuit ==
  /\ exitpc = "running" /\ phase[Main] = "running" /\ holder # Main
  /\ phase[Gc] # "unborn"
  /\ quit' = TRUE
  /\ exitpc' = "notify"
  /\ UNCHANGED <<regVars, age, tracing_paused, exiting, lockVars, gcpc, gcmutex, reason, markVars>>

\* notify_one() under the mutex: without a waiter it is lost.
ExitNotify ==
  /\ exitpc = "notify"
  /\ gcmutex = Null
  /\ exitpc' = "join"
  /\ IF gcpc = "wait" THEN gcpc' = "relock" /\ reason' = "woken"
                      ELSE UNCHANGED <<gcpc, reason>>
  /\ UNCHANGED <<regVars, age, tracing_paused, exiting, lockVars, gcmutex, quit, markVars>>

\* thread.join()
ExitJoin ==
  /\ exitpc = "join"
  /\ phase[Gc] = "gone"
  /\ exitpc' = "unregister"
  /\ UNCHANGED <<regVars, age, tracing_paused, exiting, lockVars, gcpc, gcmutex, reason, quit,
                 markVars>>

ExitUnregister ==
  /\ exitpc = "unregister"
  /\ Unregister(Main, FALSE)
  /\ phase' = [phase EXCEPT ![Main] = "gone"]
  /\ exitpc' = "done"
  /\ UNCHANGED <<tracing_paused, exiting, lockVars, gcpc, gcmutex, reason, quit, markVars>>

------------------------------------------------------------------------------
\* A thread is free to call the library when it is running and not in the
\* middle of a snapshot; the main thread, between the constructors that end
\* with funtrace_gc's and the destructors that begin with it; the collector's
\* thread never.
Caller(t) ==
  /\ holder # t
  /\ t = Main => exitpc = "running" /\ phase[Gc] # "unborn"
  /\ t # Gc

Lifecycle ==
  \/ \E t \in Threads \cup {Gc} : Create(t) \/ Vanish(t)
  \/ \E t \in All : Allocate(t) \/ Register(t)
  \/ \E t \in Threads : Exit(t) \/ AbruptExit(t)
  \/ gcpc = "left" /\ Exit(Gc)

Calls ==
  \/ \E t \in All : Caller(t) /\ (Disable(t) \/ Enable(t) \/ SnapshotBegin(t))
  \/ \E t \in All, resize \in BOOLEAN : Caller(t) /\ Ignore(t, resize)
  \/ gcpc = "lock" /\ At(Gc) # {} /\ Ignore(Gc, FALSE)
  \/ SnapshotCopy \/ SnapshotEnd

Collector ==
  \/ GcWait \/ (\E r \in {"timeout", "woken"} : GcWake(r)) \/ GcRelock
  \/ GcBegin \/ GcKeep \/ GcFree \/ GcEnd \/ GcNothing

Ending == ExitQuit \/ ExitNotify \/ ExitJoin \/ ExitUnregister

Next == ~crashed /\ (Lifecycle \/ Calls \/ Tick \/ Collector \/ Ending)
Spec == Init /\ [][Next]_vars

\* What the runtime's own threads do of themselves goes on.  A std::mutex is
\* not fair, but those who take these two hold them for one loop and then
\* sleep or return to the program, so a thread waiting for one gets it in the
\* end.  What the program's own threads choose to call, they need not call.
GcThread ==
  \/ Allocate(Gc) \/ Register(Gc) \/ Vanish(Gc)
  \/ gcpc = "lock" /\ At(Gc) # {} /\ Ignore(Gc, FALSE)
  \/ gcpc = "left" /\ Exit(Gc)
  \/ GcWait \/ GcWake("timeout") \/ GcRelock
  \/ GcBegin \/ GcKeep \/ GcFree \/ GcEnd \/ GcNothing

MainThread ==
  \/ Allocate(Main) \/ Register(Main) \/ Create(Gc)
  \/ ExitNotify \/ ExitJoin \/ ExitUnregister

Fairness ==
  /\ SF_vars(~crashed /\ GcThread)
  /\ SF_vars(~crashed /\ MainThread)
  /\ WF_vars(~crashed /\ (SnapshotCopy \/ SnapshotEnd))
  /\ WF_vars(~crashed /\ Tick)

FairSpec == Spec /\ Fairness

------------------------------------------------------------------------------
(* What is promised.                                                        *)

Phases == {"unborn", "starting", "allocated", "running", "dying", "gone"}

\* Every variable stays in the set of values the code can give it.
TypeOK ==
  /\ phase \in [All -> Phases]
  /\ tls \in [All -> [buf : Bufs \cup {Null}, on : BOOLEAN]]
  /\ thread_traces \in Seq(Ref)
  /\ copy \in [All -> Bufs \cup {Null, NoCopy}]
  /\ age \in [All -> 0 .. MaxAge]
  /\ owner \in [Bufs -> All \cup {Null}]
  /\ tracing_paused \in BOOLEAN /\ exiting \in BOOLEAN
  /\ holder \in All \cup {Null}
  /\ next \in Nat \ {0}
  /\ expired \subseteq All
  /\ kind \in {"none", "full", "since"}
  /\ gcpc \in {"lock", "wait", "relock", "collect", "collecting", "lastcollect", "left"}
  /\ gcmutex \in {Gc, Null}
  /\ reason \in {"timeout", "woken"}
  /\ quit \in BOOLEAN
  /\ exitpc \in {"running", "notify", "join", "unregister", "done"}
  /\ crashed \in BOOLEAN /\ disabled \in BOOLEAN

\* The registry points to traces that exist, each once: the thread_local ones
\* of threads that have not ended, and the heap copies not yet deleted, all of
\* them.  Loops that remove by swapping with the last entry keep it so.
Registered == Range(thread_traces)

RegistrySound ==
  /\ IsInjective(thread_traces)
  /\ \A t \in All : Tls(t) \in Registered => phase[t] = "running"
  /\ \A t \in All : Copy(t) \in Registered <=> copy[t] # NoCopy

\* What a registered trace calls its buffer has not been freed, and does not
\* belong to another thread by now.
RegisteredBuffersLive ==
  \A r \in Registered : BufOf(r) # Null => owner[BufOf(r)] = r.of

\* A snapshot, of threads that come, go and resize their buffers around it and
\* of traces that outlive their threads, reads no buffer that was freed or was
\* given to another thread.  It goes wrong only where find_earliest_event_after()
\* is used on a trace that never had a buffer.
SnapshotsReadLive ==
  crashed => kind = "since" /\ BufOf(thread_traces[next]) = Null

\* A size of 0 "disables tracing", and so does an allocation that failed (lines
\* 93 and 125 of funtrace.cpp): a snapshot of such a thread should be empty.
NeverCrashes == ~crashed

\* A buffer that is not freed is still reachable, so that it can be freed: by
\* a trace of the registry or by a thread about to register.
NoBufferLeaked ==
  \A b \in Bufs : owner[b] # Null =>
    \/ phase[owner[b]] = "allocated" /\ tls[owner[b]].buf = b
    \/ \E r \in Registered : r.of = owner[b] /\ BufOf(r) = b

\* The buffer of a thread between its allocation and its unregistration is its
\* own; a thread without a trace has none; a copy is of a finished thread.
\* With the three properties above this is inductive.
BuffersHeld ==
  \A t \in All :
    /\ phase[t] \in {"unborn", "starting"} => tls[t].buf = Null
    /\ phase[t] = "running" /\ Tls(t) \notin Registered => tls[t].buf = Null
    /\ phase[t] = "allocated" /\ tls[t].buf # Null =>
         owner[tls[t].buf] = t /\ tls[t].on
    /\ copy[t] # NoCopy => phase[t] \in {"dying", "gone"}

\* The main thread stays as it is while it runs the destructors.
MainStays == exitpc \notin {"running", "done"} => phase[Main] = "running"

\* A thread whose instrumented functions would store into its buffer.
CanRecord(t) ==
  /\ phase[t] = "running" \/ (TlsDestructors /\ phase[t] = "dying")
  /\ tls[t].on /\ tls[t].buf # Null

\* No thread records into memory that was freed or handed to another thread.
StoresIntoOwnBuffer == \A t \in All : CanRecord(t) => owner[tls[t].buf] = t

\* All of the snapshot functions "pause tracing until they're done": while
\* tracing is paused no thread records, those started meanwhile included...
PausedMeansPaused == tracing_paused => \A t \in All : ~CanRecord(t)

\* ...and once it is resumed every registered thread records again.
ResumedMeansResumed ==
  ~tracing_paused => \A t \in All : Tls(t) \in Registered /\ tls[t].buf # Null => tls[t].on

\* "Threads can't be created and can't terminate until the trace data is
\* copied": the registry does not change under a snapshot's loop.
FrozenUnderSnapshot == [][Snapshotting => thread_traces' = thread_traces]_vars

\* "Only buffers with age exceeding FUNTRACE_GC_MAX_AGE_MS are freed", unless
\* the program is exiting.
OnlyOldFreed ==
  [][\A t \in All : copy[t] # NoCopy /\ copy'[t] = NoCopy => age[t] >= MaxAge \/ quit]_vars

\* Once the collector has seen the program exit, no finished thread's trace is
\* left or comes back.
NothingLeftAtExit ==
  exiting /\ holder # Gc => \A r \in Registered : ~r.copied

\* "We need it to be removed from this set when it is destroyed": a registered
\* thread_local trace belongs to a thread that still exists.
RemovedWhenDestroyed ==
  \A t \in All : Tls(t) \in Registered => phase[t] # "gone"

\* funtrace_disable_tracing() disables tracing globally until it is enabled.
DisabledMeansDisabled == disabled => \A t \in All : ~CanRecord(t)

\* The buffer of a finished thread is collected in the end.
CollectedEventually == \A t \in Threads : copy[t] # NoCopy ~> copy[t] = NoCopy \/ crashed

\* The destructors come to an end: a lost notification costs a period, not
\* the join.
ExitEnds == exitpc = "notify" ~> exitpc = "done" \/ crashed

==============================================================================
