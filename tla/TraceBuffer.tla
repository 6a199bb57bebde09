----------------------------- MODULE TraceBuffer -----------------------------
(***************************************************************************)
(* The cyclic event buffer of one traced thread (struct trace_data) and    *)
(* one thread taking a snapshot of it: funtrace.cpp's trace(), its          *)
(* assembly twins in funtrace_pg.S, and the funtrace_pause_and_* calls.     *)
(*                                                                         *)
(* The traced thread never takes the mutex the snapshots hold, so the two   *)
(* threads meet only in memory.  On x86 each thread's stores reach the      *)
(* other in program order but at a time of the processor's choosing: sb and *)
(* maskq are the stores issued by each side and not seen yet by the other.  *)
(* A thread preempted between two store instructions looks the same.        *)
(*                                                                         *)
(* Events are numbered from 1.  clock is the time stamp counter, which      *)
(* advances once per event, so event k carries func = k and cycle = k.      *)
(***************************************************************************)
EXTENDS Integers, Sequences, FiniteSets

CONSTANTS
  N,             \* entries in the buffer: buf_size / sizeof(trace_entry)
  MaxEvents,     \* bound: events the traced thread records
  MaxPending,    \* bound: stores of the traced thread in flight at a time
  StoreOrders,   \* orders in which an entry's two words are written
  GarbageCycles, \* what an allocated, not yet written cycle word may hold
  Ops,           \* the kinds of snapshot that are taken
  None           \* a null pointer

ASSUME NAssumption == N \in Nat /\ N >= 2
ASSUME MaxEventsAssumption == MaxEvents \in Nat
ASSUME StoreOrdersAssumption == StoreOrders \subseteq {"func_first", "cycle_first"}
ASSUME GarbageAssumption == GarbageCycles \subseteq Nat
ASSUME OpsAssumption == Ops \subseteq {"since", "full"}
ASSUME NoneAssumption == None \notin Int

VARIABLES
  buf,        \* the entries as the traced thread itself would read them
  pos,        \* trace_data::pos, as an index: N is one past the last entry
  entry,      \* the slot trace() picked and has not stored to yet, or None
  clock,      \* the time stamp counter: the number of events recorded
  sb,         \* stores of the traced thread the other cores do not see yet
  mem,        \* the entries as the other cores see them
  mpos,       \* pos as the other cores see it
  mask,       \* trace_data::wraparound_mask, "on" (~buf_size) or "off" (0)
  maskq,      \* stores to wraparound_mask the traced thread does not see yet
  late,       \* history: events recorded after the thread could see "off"
  spc,        \* where the snapshotting thread is
  req,        \* the call being served: its kind and its threshold
  pauseTime,  \* pause_time
  spos,       \* the snapshotting thread's copy of pos
  search,     \* std::lower_bound's range
  earliest,   \* earliest_right and earliest_left
  todo,       \* the slots still to be copied, in order
  snap,       \* the copy made so far
  seen,       \* history: the events published when the snapshot last looked
  quiet       \* history: nothing was in flight when pause_time was taken

bufVars  == <<buf, pos, entry, clock, sb, late>>
memVars  == <<mem, mpos>>
maskVars == <<mask, maskq>>
snapVars == <<spc, req, pauseTime, spos, search, earliest, todo, snap, seen, quiet>>
vars     == <<bufVars, memVars, maskVars, snapVars>>

Slots    == 0 .. N - 1
Entry    == [func : Nat, cycle : Nat]
Event(k) == [func |-> k, cycle |-> k]

\* A mutant of Wrap: the bit is cleared early.
WrapEarly(p) == IF p >= N - 1 THEN 0 ELSE p

\* The slot pos & wraparound_mask points to: the AND clears the bit the
\* increment past the last entry has set (module comment of allocate()).
Wrap(p) == IF p = N THEN 0 ELSE p

------------------------------------------------------------------------------
(* allocate(): nothing is cleared except the last entry's cycle.            *)

Init ==
  /\ \E g \in GarbageCycles :
        buf = [i \in Slots |-> [func |-> 0, cycle |-> IF i = N - 1 THEN 0 ELSE g]]
  /\ mem = buf
  /\ pos = 0 /\ mpos = 0
  /\ entry = None
  /\ clock = 0
  /\ sb = <<>>
  /\ mask = "on" /\ maskq = <<>>
  /\ late = 0
  /\ spc = "idle"
  /\ req = [op |-> "none", time |-> 0]
  /\ pauseTime = 0
  /\ spos = 0
  /\ search = [first |-> 0, len |-> 0, last |-> 0]
  /\ earliest = [right |-> None, left |-> None]
  /\ todo = <<>>
  /\ snap = <<>>
  /\ seen = 0
  /\ quiet = FALSE

------------------------------------------------------------------------------
(* The traced thread: trace().                                              *)

\* A mutant of LoadEntry that does not look at the mask.
LoadEntryUnmasked ==
  /\ entry = None
  /\ clock < MaxEvents
  /\ entry' = Wrap(pos)
  /\ UNCHANGED <<buf, pos, clock, sb, late, memVars, maskVars, snapVars>>

\* entry = pos & wraparound_mask; the mask is loaded exactly once.  With the
\* mask off the result is null and trace() returns: nothing changes.
LoadEntry ==
  /\ entry = None
  /\ clock < MaxEvents
  /\ mask = "on"
  /\ entry' = Wrap(pos)
  /\ UNCHANGED <<buf, pos, clock, sb, late, memVars, maskVars, snapVars>>

\* A mutant of EventStores: pos moves before the entry is written.
EventStoresAfterPos(k, slot, order) ==
  <<[loc |-> "pos", at |-> slot + 1, val |-> k], [loc |-> "func", at |-> slot, val |-> k],
    [loc |-> "cycle", at |-> slot, val |-> k]>>

\* The three stores of one event in the order the code issues them: func and
\* cycle in either order, then pos.
EventStores(k, slot, order) ==
  LET func  == [loc |-> "func",  at |-> slot,     val |-> k]
      cycle == [loc |-> "cycle", at |-> slot,     val |-> k]
      npos  == [loc |-> "pos",   at |-> slot + 1, val |-> k]
  IN  (IF order = "func_first" THEN <<func, cycle>> ELSE <<cycle, func>>) \o <<npos>>

\* cycle = __rdtsc(); entry->func = ...; entry->cycle = ...; pos = entry+1.
RecordEvent(order) ==
  /\ entry # None
  /\ Len(sb) + 3 <= MaxPending
  /\ clock' = clock + 1
  /\ buf' = [buf EXCEPT ![entry] = Event(clock + 1)]
  /\ pos' = entry + 1
  /\ sb' = sb \o EventStores(clock + 1, entry, order)
  /\ late' = IF mask = "off" THEN late + 1 ELSE late
  /\ entry' = None
  /\ UNCHANGED <<memVars, maskVars, snapVars>>

\* The oldest store in flight becomes visible to the other cores.
DrainStore ==
  /\ sb # <<>>
  /\ sb' = Tail(sb)
  /\ LET s == Head(sb) IN
        \/ /\ s.loc = "func"
           /\ mem' = [mem EXCEPT ![s.at].func = s.val]
           /\ UNCHANGED mpos
        \/ /\ s.loc = "cycle"
           /\ mem' = [mem EXCEPT ![s.at].cycle = s.val]
           /\ UNCHANGED mpos
        \/ /\ s.loc = "pos"
           /\ mpos' = s.at
           /\ UNCHANGED mem
  /\ UNCHANGED <<buf, pos, entry, clock, late, maskVars, snapVars>>

\* The oldest store to wraparound_mask becomes visible to the traced thread.
DrainMask ==
  /\ maskq # <<>>
  /\ mask' = Head(maskq)
  /\ maskq' = Tail(maskq)
  /\ late' = IF Head(maskq) = "off" THEN 0 ELSE late
  /\ UNCHANGED <<buf, pos, entry, clock, sb, memVars, snapVars>>

------------------------------------------------------------------------------
(* The snapshotting thread.  It holds trace_state().mutex from Pause to     *)
(* Return, so there is one at a time.                                       *)

\* The events published so far: those whose store to pos has drained.
Published == clock - Cardinality({i \in DOMAIN sb : sb[i].loc = "pos"})

\* memcpy(copy, trace->buf, trace->buf_size)
AllSlots == [i \in 1 .. N |-> i - 1]

\* trace->pause_tracing().  The time asked for may lie in the future.
Pause(op, time) ==
  /\ spc = "idle"
  /\ op = "full" => time = 0
  /\ req' = [op |-> op, time |-> time]
  /\ maskq' = Append(maskq, "off")
  /\ spc' = IF op = "full" THEN "copy" ELSE "paused"
  /\ todo' = IF op = "full" THEN AllSlots ELSE <<>>
  /\ snap' = <<>>
  /\ seen' = Published
  /\ UNCHANGED <<mask, pauseTime, spos, search, earliest, quiet, bufVars, memVars>>

\* pause_time = funtrace_time()
TakePauseTime ==
  /\ spc = "paused"
  /\ pauseTime' = clock
  /\ quiet' = (entry = None /\ sb = <<>> /\ mask = "off")
  /\ spc' = "timed"
  /\ UNCHANGED <<req, spos, search, earliest, todo, snap, seen, bufVars, memVars, maskVars>>

\* pos = trace->pos
ReadPos ==
  /\ spc = "timed"
  /\ spos' = mpos
  /\ seen' = Published
  /\ spc' = "posread"
  /\ UNCHANGED <<req, pauseTime, search, earliest, todo, snap, quiet, bufVars, memVars, maskVars>>

SearchIn(first, last) == [first |-> first, len |-> last - first, last |-> last]

\* A mutant of Wraparound that takes every buffer for a full one.
WraparoundAlways == TRUE

\* end[-1].cycle: the last entry has been written.
Wraparound == mem[N - 1].cycle # 0

\* end[-1].cycle tells whether there was a wraparound; without one only the
\* entries to the left of pos are searched.
CheckWraparound ==
  /\ spc = "posread"
  /\ earliest' = [right |-> None, left |-> None]
  /\ \/ /\ Wraparound
        /\ spc' = "right"
        /\ search' = SearchIn(spos, N)
     \/ /\ ~Wraparound
        /\ spc' = "left"
        /\ search' = SearchIn(0, spos)
  /\ UNCHANGED <<req, pauseTime, spos, todo, snap, seen, quiet, bufVars, memVars, maskVars>>

\* A mutant of Before: the event recorded at the threshold comes before it.
BeforeOrAt(c) ==
  \/ c > pauseTime /\ req.time <= pauseTime
  \/ (c > pauseTime <=> req.time > pauseTime) /\ c <= req.time

\* The comparator of find_earliest_event_after(): is an event recorded at
\* cycle c ordered before the threshold?  Events later than pause_time come
\* before all others.
Before(c) ==
  \/ c > pauseTime /\ req.time <= pauseTime
  \/ (c > pauseTime <=> req.time > pauseTime) /\ c < req.time

\* A mutant of Probe that does not step over the entry it has compared.
ProbeStuck ==
  /\ spc \in {"right", "left"}
  /\ search.len > 0
  /\ LET half   == search.len \div 2
         middle == search.first + half
     IN  search' = IF Before(mem[middle].cycle)
                   THEN [search EXCEPT !.first = middle, !.len = @ - half]
                   ELSE [search EXCEPT !.len = half]
  /\ UNCHANGED <<spc, req, pauseTime, spos, earliest, todo, snap, seen, quiet,
                 bufVars, memVars, maskVars>>

\* One iteration of std::lower_bound.
Probe ==
  /\ spc \in {"right", "left"}
  /\ search.len > 0
  /\ LET half   == search.len \div 2
         middle == search.first + half
     IN  search' = IF Before(mem[middle].cycle)
                   THEN [search EXCEPT !.first = middle + 1, !.len = @ - half - 1]
                   ELSE [search EXCEPT !.len = half]
  /\ UNCHANGED <<spc, req, pauseTime, spos, earliest, todo, snap, seen, quiet,
                 bufVars, memVars, maskVars>>

\* p==end ? nullptr : p
SearchResult == IF search.first = search.last THEN None ELSE search.first

SearchedRight ==
  /\ spc = "right"
  /\ search.len = 0
  /\ earliest' = [earliest EXCEPT !.right = SearchResult]
  /\ search' = SearchIn(0, spos)
  /\ spc' = "left"
  /\ UNCHANGED <<req, pauseTime, spos, todo, snap, seen, quiet, bufVars, memVars, maskVars>>

\* A mutant of SlotsFrom that always copies from the start of the buffer.
SlotsFromStart(p, last) == IF p = None THEN <<>> ELSE [i \in 1 .. last |-> i - 1]

\* The slots from p up to, not including, last.
SlotsFrom(p, last) == IF p = None THEN <<>> ELSE [i \in 1 .. last - p |-> p + i - 1]

\* A mutant of SearchedLeft that copies the newer events first.
SearchedLeftFirst ==
  /\ spc = "left"
  /\ search.len = 0
  /\ earliest' = [earliest EXCEPT !.left = SearchResult]
  /\ todo' = SlotsFrom(SearchResult, spos) \o SlotsFrom(earliest.right, N)
  /\ spc' = "copy"
  /\ UNCHANGED <<req, pauseTime, spos, search, snap, seen, quiet, bufVars, memVars, maskVars>>

\* Copying the entries right of pos first, then those left of it.
SearchedLeft ==
  /\ spc = "left"
  /\ search.len = 0
  /\ earliest' = [earliest EXCEPT !.left = SearchResult]
  /\ todo' = SlotsFrom(earliest.right, N) \o SlotsFrom(SearchResult, spos)
  /\ spc' = "copy"
  /\ UNCHANGED <<req, pauseTime, spos, search, snap, seen, quiet, bufVars, memVars, maskVars>>

CopyEntry ==
  /\ spc = "copy"
  /\ todo # <<>>
  /\ snap' = Append(snap, mem[Head(todo)])
  /\ todo' = Tail(todo)
  /\ UNCHANGED <<spc, req, pauseTime, spos, search, earliest, seen, quiet,
                 bufVars, memVars, maskVars>>

\* trace->resume_tracing()
Resume ==
  /\ spc = "copy"
  /\ todo = <<>>
  /\ maskq' = Append(maskq, "on")
  /\ spc' = "resumed"
  /\ UNCHANGED <<mask, req, pauseTime, spos, search, earliest, todo, snap, seen, quiet,
                 bufVars, memVars>>

\* Releasing the mutex is a locked instruction: it waits for maskq to drain.
Return ==
  /\ spc = "resumed"
  /\ maskq = <<>>
  /\ spc' = "idle"
  /\ snap' = <<>>
  /\ UNCHANGED <<req, pauseTime, spos, search, earliest, todo, seen, quiet,
                 bufVars, memVars, maskVars>>

Tracer  == LoadEntry \/ (\E o \in StoreOrders : RecordEvent(o))
Memory  == DrainStore \/ DrainMask
Snapper ==
  \/ \E op \in Ops, t \in 0 .. clock + 1 : Pause(op, t)
  \/ TakePauseTime \/ ReadPos \/ CheckWraparound
  \/ Probe \/ SearchedRight \/ SearchedLeft
  \/ CopyEntry \/ Resume \/ Return

Next == Tracer \/ Memory \/ Snapper
Spec == Init /\ [][Next]_vars

------------------------------------------------------------------------------
(* What is promised.                                                        *)

\* The stores the traced thread issues.
Stores == [loc : {"func", "cycle"}, at : Slots, val : Nat]
          \cup [loc : {"pos"}, at : 0 .. N, val : Nat]

TracerTypeOK ==
  /\ buf \in [Slots -> Entry] /\ mem \in [Slots -> Entry]
  /\ pos \in 0 .. N /\ mpos \in 0 .. N
  /\ entry \in Slots \cup {None}
  /\ clock \in 0 .. MaxEvents
  /\ sb \in Seq(Stores)
  /\ mask \in {"on", "off"}
  /\ late \in Nat

SnapperTypeOK ==
  /\ maskq \in Seq({"on", "off"})
  /\ spc \in {"idle", "paused", "timed", "posread", "right", "left", "copy", "resumed"}
  /\ req \in [op : {"none", "since", "full"}, time : Nat]
  /\ pauseTime \in Nat
  /\ spos \in 0 .. N
  /\ search \in [first : 0 .. N, len : 0 .. N, last : 0 .. N]
  /\ earliest \in [right : Slots \cup {None}, left : Slots \cup {None}]
  /\ todo \in Seq(Slots) /\ snap \in Seq(Entry)
  /\ seen \in Int
  /\ quiet \in BOOLEAN

\* Every variable stays in the set of values the code can give it; the store
\* of an event and the reads of a snapshot always fall inside the buffer.
TypeOK == TracerTypeOK /\ SnapperTypeOK

\* Wraparound without a gap: going round from pos the traced thread finds in
\* its buffer exactly its last N events, oldest first, and entries it never
\* wrote only while fewer than N events were recorded.
NumberAt(i) == IF i < pos THEN clock - pos + 1 + i ELSE clock - pos + 1 + i - N

LastEventsInOrder ==
  \A i \in Slots :
    IF NumberAt(i) >= 1 THEN buf[i] = Event(NumberAt(i)) ELSE buf[i].func = 0

\* What the traced thread carries from picking an entry to storing to it.
\* With TypeOK, SearchInBounds and the two invariants it is inductive.
EntryPicked == entry # None => entry = Wrap(pos) /\ clock < MaxEvents

NothingPickedOnceLate == mask = "off" /\ entry # None => late = 0

\* std::lower_bound never leaves its range, so that no probe reads outside the
\* buffer, although the entries it compares change under it.
SearchInBounds ==
  /\ search.first + search.len <= search.last
  /\ spc = "left" => search.last = spos
  /\ spc = "right" => search.last = N

\* A pause is noticed: once the traced thread can see wraparound_mask zeroed,
\* it records at most the one event whose entry it had already picked.
AtMostOneLateEvent == late <= 1

\* The finished copy of a snapshot, before the caller gets it.
Copied == spc \in {"copy", "resumed"} /\ todo = <<>>

Oldest(k) == IF k > N THEN k - N + 1 ELSE 1

\* A snapshot taken since a time, of a thread that has noticed the pause and
\* whose stores have all arrived, is exact: the events of the buffer from
\* that time on, all of them, in order.  For a time later than the pause, of
\* which the documentation says nothing, the property records what the code
\* does: find_earliest_event_after() then takes every event for one later than
\* the threshold, and the whole buffer is returned.
ExactWhenQuiet ==
  Copied /\ req.op = "since" /\ quiet =>
    LET first == IF req.time > pauseTime \/ req.time < Oldest(seen)
                 THEN Oldest(seen) ELSE req.time
    IN  snap = [i \in 1 .. seen - first + 1 |-> Event(first + i - 1)]

\* The events recorded too late for the pause.
LateAt(k) == k > pauseTime

\* The entries of memory that hold event k whole.
Holds(k) == k >= 1 /\ mem[(k - 1) % N] = Event(k)

InSnap(k) == \E i \in DOMAIN snap : snap[i] = Event(k)

\* The events a snapshot was asked for, that its buffer held when it was
\* copied, and that it nevertheless lacks.
Lost == {k \in 1 .. seen : req.time <= k /\ k <= pauseTime /\ Holds(k) /\ ~InSnap(k)}

\* find_earliest_event_after() loses "very few events" to stale data: no more
\* than the thread published after the pause.
LossBounded ==
  Copied /\ req.op = "since" /\ req.time <= pauseTime =>
    Cardinality(Lost) <= Cardinality({k \in 1 .. seen : LateAt(k)})

\* A snapshot since a time has nothing older than that time, except what the
\* search found in place of events not yet published when pos was read.
TooOld == {i \in DOMAIN snap : snap[i].cycle < req.time}
Unpublished == {k \in 1 .. clock : k > seen /\ k <= pauseTime}

StaleBounded ==
  Copied /\ req.op = "since" /\ req.time <= pauseTime =>
    Cardinality(TooOld) <= Cardinality(Unpublished)

\* The place in the copy of the buffer's last entry.
LastAt == IF earliest.right = None THEN 0 ELSE N - earliest.right

\* What it may be where cycle is stored before func: without a func, when the
\* Nth event's cycle has arrived and pos did not show that event yet.
HalfStored(e) ==
  "cycle_first" \in StoreOrders /\ e.func = 0 /\ e.cycle = N /\ seen < N

\* end[-1].cycle guards the entries right of pos: with func stored first a
\* snapshot since a time holds written entries only, and with cycle stored
\* first (__return__) only the buffer's last entry may lack its func.
NoUninitialised ==
  Copied /\ req.op = "since" =>
    \A i \in DOMAIN snap : snap[i].func # 0 \/ (i = LastAt /\ HalfStored(snap[i]))

\* What the check of end[-1].cycle is there for: "to avoid accessing
\* uninitialized memory" (lines 129-131 of funtrace.cpp).
NothingUnwritten ==
  Copied /\ req.op = "since" => \A i \in DOMAIN snap : snap[i].func # 0

\* find_earliest_event_after()'s account of the ranges it searches: once the
\* thread's stores have arrived, an event recorded after the pause sits only
\* before the events recorded until then, never after one of them.
SearchStart == IF spc = "right" THEN spos ELSE 0

LateEventsFirst ==
  spc \in {"right", "left"} /\ sb = <<>> =>
    \A i, j \in SearchStart .. search.last - 1 :
      i < j /\ LateAt(mem[j].cycle) => LateAt(mem[i].cycle)

\* A full snapshot (funtrace_pause_and_get_snapshot(), and the dump of the
\* buffers straight into the file) has every event that was published when it
\* began and is still whole in the buffer when it ends.
FullKeepsPublished ==
  Copied /\ req.op = "full" => \A k \in 1 .. seen : Holds(k) => InSnap(k)

\* The last entry's cycle is zeroed "to avoid accessing uninitialized
\* memory"; a full snapshot copies the buffer whatever it holds.
NoUninitialisedInFull ==
  Copied /\ req.op = "full" => \A i \in DOMAIN snap : snap[i].func # 0

\* A snapshot ends, whatever the traced thread writes under the search.
FairSpec == Spec /\ WF_vars(spc # "idle" /\ Snapper) /\ WF_vars(DrainMask)

SnapshotReturns == spc # "idle" ~> spc = "idle"

==============================================================================
