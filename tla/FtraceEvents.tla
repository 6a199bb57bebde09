---------------------------- MODULE FtraceEvents -----------------------------
(***************************************************************************)
(* The buffer of scheduling events (ftrace_handler): a thread reads lines   *)
(* from the kernel's trace_pipe into a cyclic buffer, snapshots search it   *)
(* as two sorted arrays, and a debugger reads it from a core dump.         *)
(*                                                                         *)
(* A line is the number it has in the pipe.  Times are integers of w bits;  *)
(* Range is 2^w.                                                           *)
(***************************************************************************)
EXTENDS Integers, Sequences, SequencesExt

CONSTANTS
  N,           \* events.size()
  Range2w,     \* 2^w: times are counted modulo this
  MaxLines,    \* bound: how many lines the pipe delivers
  NoLine,      \* the empty string, and timestamp 0's companion
  Zero,        \* whether callers ask for a snapshot starting at time 0
  LongAges     \* whether callers ask for an age greater than the time is

ASSUME SizeAssumption == N \in Nat \ {0}
ASSUME TimeAssumption == Range2w \in Nat \ {0, 1} /\ MaxLines \in Nat
ASSUME NoLineAssumption == NoLine \notin Nat
ASSUME CallersAssumption == Zero \in BOOLEAN /\ LongAges \in BOOLEAN

VARIABLES
  events,    \* the cyclic buffer
  pos,       \* the slot the next event goes to
  reader,    \* where the thread is between two lines
  current,   \* the line it has read, with the timestamp parsed from it
  lines,     \* how many lines the pipe has delivered
  now,       \* the time stamp counter
  snapshot,  \* the last snapshot: the earliest time asked for, the events
  log        \* history: every event published so far

vars == <<events, pos, reader, current, lines, now, snapshot, log>>

Time == 0 .. Range2w - 1
Slots == 0 .. N - 1

Event(line, timestamp) == [line |-> line, timestamp |-> timestamp]

Init ==
  /\ events = [i \in Slots |-> Event(NoLine, 0)]
  /\ pos = 0
  /\ reader = "reading"
  /\ current = Event(NoLine, 0)
  /\ lines = 0
  /\ now = 1
  /\ snapshot = [since |-> 0, events |-> <<>>]
  /\ log = <<>>

Tick ==
  /\ now < Range2w - 1
  /\ now' = now + 1
  /\ UNCHANGED <<events, pos, reader, current, lines, snapshot, log>>

------------------------------------------------------------------------------
(* The reader thread.                                                       *)

\* A line arrives, in the order of time, and not before its time; one that is
\* no event, such as a report of lost events, has no timestamp: 0.
GetLine ==
  /\ reader = "reading" /\ lines < MaxLines
  /\ lines' = lines + 1
  /\ \E t \in 0 .. now :
       /\ t > 0 => \A i \in DOMAIN log : log[i].timestamp <= t
       /\ current' = Event(lines', t)
  /\ reader' = "parsed"
  /\ UNCHANGED <<events, pos, now, snapshot, log>>

IsEvent(e) == e.timestamp # 0

\* Under the mutex, from StoreLine to StorePos.
SkipLine ==
  /\ reader = "parsed" /\ ~IsEvent(current)
  /\ reader' = "reading"
  /\ UNCHANGED <<events, pos, current, lines, now, snapshot, log>>

StoreLine ==
  /\ reader = "parsed" /\ IsEvent(current)
  /\ events' = [events EXCEPT ![pos].line = current.line]
  /\ reader' = "line_stored"
  /\ UNCHANGED <<pos, current, lines, now, snapshot, log>>

StoreTimestamp ==
  /\ reader = "line_stored"
  /\ events' = [events EXCEPT ![pos].timestamp = current.timestamp]
  /\ reader' = "event_stored"
  /\ UNCHANGED <<pos, current, lines, now, snapshot, log>>

\* Mutants of Advance: it does not wrap, or does a slot too early.
AdvanceOff(p) == p + 1
AdvanceShort(p) == (p + 1) % (N - 1)

Advance(p) == (p + 1) % N

StorePos ==
  /\ reader = "event_stored"
  /\ pos' = Advance(pos)
  /\ reader' = "reading"
  /\ log' = Append(log, current)
  /\ UNCHANGED <<events, current, lines, now, snapshot>>

------------------------------------------------------------------------------
(* Snapshots.                                                               *)

\* std::lower_bound on the slots from first, count of them: it halves them
\* comparing timestamps, and returns the slot after the range if none is late
\* enough.
LowerBound(first, count, earliest) ==
  LET Ranges == {r \in [first : 0 .. N, count : 0 .. N] : r.first + r.count <= N}
      search[r \in Ranges] ==
        LET half == r.count \div 2 IN
        IF r.count = 0 THEN r.first
        ELSE IF events[r.first + half].timestamp < earliest
             THEN search[[first |-> r.first + half + 1, count |-> r.count - half - 1]]
             ELSE search[[first |-> r.first, count |-> half]]
  IN search[[first |-> first, count |-> count]]

\* The events from slot b up to slot e.
Copied(b, e) == [i \in 1 .. e - b |-> events[b + i - 1]]

\* A mutant of EventsSince: the newer half first.
EventsSinceLeftFirst(earliest) ==
  Copied(LowerBound(0, pos, earliest), pos) \o
  Copied(LowerBound(pos, N - pos, earliest), N)

\* events_snapshot(): the slots from pos on are the older ones.
EventsSince(earliest) ==
  Copied(LowerBound(pos, N - pos, earliest), N) \o
  Copied(LowerBound(0, pos, earliest), pos)

\* The mutex keeps a snapshot out of the middle of a store.
Unlocked == reader \in {"reading", "parsed"}

\* A mutant of Default: the time every event is later than.
DefaultZero == 0

\* The time that snapshots without one ask for.
Default == 1

SnapshotAll ==
  /\ Unlocked
  /\ snapshot' = [since |-> Default, events |-> EventsSince(Default)]
  /\ UNCHANGED <<events, pos, reader, current, lines, now, log>>

SnapshotStartingAtTime(time) ==
  /\ Unlocked
  /\ snapshot' = [since |-> time, events |-> EventsSince(time)]
  /\ UNCHANGED <<events, pos, reader, current, lines, now, log>>

\* funtrace_time() - max_event_age, in w bits.
TimeOfAge(age) == (now - age) % Range2w

\* What the caller asks for is now - age, even where that is negative.
SnapshotUpToAge(age) ==
  /\ Unlocked
  /\ snapshot' = [since |-> now - age, events |-> EventsSince(TimeOfAge(age))]
  /\ UNCHANGED <<events, pos, reader, current, lines, now, log>>

------------------------------------------------------------------------------
Read == GetLine \/ SkipLine \/ StoreLine \/ StoreTimestamp \/ StorePos

TakeSnapshot ==
  \/ SnapshotAll
  \/ \E time \in Time : (time = 0 => Zero) /\ SnapshotStartingAtTime(time)
  \/ \E age \in Time : (age >= now => LongAges) /\ SnapshotUpToAge(age)

Next == Tick \/ Read \/ TakeSnapshot

Spec == Init /\ [][Next]_vars

------------------------------------------------------------------------------
(* What the code promises.                                                  *)

TypeOK ==
  /\ events \in [Slots -> [line : Nat \cup {NoLine}, timestamp : Time]]
  /\ pos \in Slots
  /\ reader \in {"reading", "parsed", "line_stored", "event_stored"}
  /\ current \in [line : Nat \cup {NoLine}, timestamp : Time]
  /\ lines \in 0 .. MaxLines
  /\ now \in Time
  /\ snapshot.since \in Int
  /\ snapshot.events \in Seq([line : Nat \cup {NoLine}, timestamp : Time])
  /\ log \in Seq([line : Nat, timestamp : Time])

\* The newest n of the events published.
Newest(n) == LET len == Len(log) IN SubSeq(log, (IF len > n THEN len - n ELSE 0) + 1, len)

Window == INSTANCE EventWindow WITH window <- Newest(N), answer <- snapshot

\* The buffer and its binary searches keep the promise of EventWindow: every
\* snapshot holds exactly those of the last N events that are as recent as
\* asked for, sorted, however full the buffer is and wherever pos stands.
KeepsWindow == Window!Spec

\* A snapshot holds events the pipe delivered, never a slot that is still
\* empty: "the default timestamp threshold of 1 cuts off uninitialized events"
\* (line 535 of funtrace.cpp).
OnlyReceived == \A i \in DOMAIN snapshot.events : snapshot.events[i].line # NoLine

\* A snapshot misses none of the last N events that are recent enough,
\* whatever is asked for: an age is "up to" which events are wanted
\* (funtrace.h:55).
NothingMissed ==
  [][snapshot' # snapshot =>
       \A e \in ToSet(Newest(N)) :
         e.timestamp >= snapshot'.since => e \in ToSet(snapshot'.events)]_vars

\* The slots that are not empty: those of s with a timestamp.
Stored(s) ==
  LET stored[n \in 0 .. Len(s)] ==
        IF n = 0 THEN <<>>
        ELSE IF IsEvent(s[n]) THEN Append(stored[n - 1], s[n]) ELSE stored[n - 1]
  IN stored[Len(s)]

\* The events a debugger finds in a core dump: the slots in the order of age,
\* but for the empty ones.  There is no lock, the program may have died in the
\* middle of a store.
CoreDump == Stored(Copied(pos, N)) \o Stored(Copied(0, pos))

\* Wherever the program dies, the core dump (write_ftrace of funtrace_gdb.py)
\* ends with the newest N - 1 events published before, in order: a store in
\* progress can only have damaged the oldest.
CoreDumpKeepsNewest == IsSuffix(Newest(N - 1), CoreDump)

\* A core dump holds "what SIGTRAP would save [...] had it been called right
\* when the core was dumped" (README.md:161): its events are in order.
CoreDumpInOrder ==
  \A i, j \in DOMAIN CoreDump : i < j => CoreDump[i].line < CoreDump[j].line
==============================================================================
