-------------------------- MODULE TraceBufferProofs --------------------------
(***************************************************************************)
(* What holds of a thread's event buffer for every size of the buffer,     *)
(* every number of events and every interleaving of the traced thread with  *)
(* the snapshots.                                                          *)
(***************************************************************************)
EXTENDS TraceBuffer, FiniteSetTheorems, SequenceTheorems, TLAPS

\* The inductive invariant: the two invariants to be shown, and what the
\* traced thread and the binary search carry from one step to the next.
IInv ==
  /\ TypeOK
  /\ SearchInBounds
  /\ EntryPicked
  /\ LastEventsInOrder
  /\ AtMostOneLateEvent
  /\ NothingPickedOnceLate

USE NAssumption, NoneAssumption, MaxEventsAssumption, StoreOrdersAssumption, GarbageAssumption

\* allocate() establishes the invariant whatever the memory it got holds.
LEMMA InitIInv == Init => IInv
<1>. SUFFICES ASSUME Init PROVE IInv
  OBVIOUS
<1>. PICK g \in GarbageCycles :
        buf = [i \in Slots |-> [func |-> 0, cycle |-> IF i = N - 1 THEN 0 ELSE g]]
  BY DEF Init
<1>1. buf \in [Slots -> Entry]
  BY DEF Slots, Entry
<1>2. TypeOK
  <2>1. /\ mem \in [Slots -> Entry]
        /\ pos \in 0 .. N /\ mpos \in 0 .. N /\ spos \in 0 .. N
        /\ clock \in 0 .. MaxEvents
    BY <1>1 DEF Init
  <2>2. /\ search \in [first : 0 .. N, len : 0 .. N, last : 0 .. N]
        /\ earliest \in [right : Slots \cup {None}, left : Slots \cup {None}]
        /\ req \in [op : {"none", "since", "full"}, time : Nat]
    BY DEF Init
  <2>3. /\ sb \in Seq(Stores) /\ maskq \in Seq({"on", "off"})
        /\ todo \in Seq(Slots) /\ snap \in Seq(Entry)
    BY DEF Init
  <2>4. /\ entry \in Slots \cup {None}
        /\ mask \in {"on", "off"} /\ late \in Nat
        /\ spc \in {"idle", "paused", "timed", "posread", "right", "left", "copy", "resumed"}
        /\ pauseTime \in Nat /\ seen \in Nat /\ quiet \in BOOLEAN
    BY DEF Init
  <2>. QED
    BY <1>1, <2>1, <2>2, <2>3, <2>4 DEF Init, TypeOK, TracerTypeOK, SnapperTypeOK
<1>3. LastEventsInOrder
  BY DEF Init, LastEventsInOrder, NumberAt, Slots
<1>. QED
  BY <1>2, <1>3 DEF Init, IInv, SearchInBounds, EntryPicked, AtMostOneLateEvent, NothingPickedOnceLate

\* trace() up to the AND of pos and wraparound_mask.
LEMMA LoadEntryStep == IInv /\ LoadEntry => IInv'
<1>. SUFFICES ASSUME IInv, LoadEntry PROVE IInv'
  OBVIOUS
<1>. USE DEF IInv, TypeOK, TracerTypeOK, SnapperTypeOK
<1>1. TypeOK'
  BY DEF TypeOK, TracerTypeOK, LoadEntry, Wrap, Slots, memVars, maskVars, snapVars
<1>2. SearchInBounds' /\ AtMostOneLateEvent' /\ NothingPickedOnceLate'
  BY DEF SearchInBounds, AtMostOneLateEvent, NothingPickedOnceLate, LoadEntry,
         memVars, maskVars, snapVars
<1>3. EntryPicked'
  BY DEF EntryPicked, LoadEntry, Wrap
<1>4. LastEventsInOrder'
  BY DEF LastEventsInOrder, NumberAt, LoadEntry
<1>. QED
  BY <1>1, <1>2, <1>3, <1>4

\* The numbering of the slots after an event: the slot written gets the new
\* event's number and no other slot's number changes.
LEMMA Renumbering ==
  ASSUME pos \in 0 .. N, clock \in Nat, entry = Wrap(pos),
         pos' = entry + 1, clock' = clock + 1, NEW i \in Slots
  PROVE  NumberAt(i)' = IF i = entry THEN clock + 1 ELSE NumberAt(i)
<1>1. CASE pos = N
  BY <1>1 DEF NumberAt, Wrap, Slots
<1>2. CASE pos # N
  BY <1>2 DEF NumberAt, Wrap, Slots
<1>. QED
  BY <1>1, <1>2

\* The rest of trace(): the stores of one event.
LEMMA RecordEventStep ==
  ASSUME NEW o \in StoreOrders, IInv, RecordEvent(o) PROVE IInv'
<1>. USE DEF IInv, TypeOK, TracerTypeOK, SnapperTypeOK
<1>0. /\ entry \in Slots /\ entry # None
      /\ pos' = entry + 1 /\ clock' = clock + 1 /\ entry' = None
      /\ buf' = [buf EXCEPT ![entry] = Event(clock + 1)]
      /\ late' = IF mask = "off" THEN late + 1 ELSE late
      /\ UNCHANGED <<memVars, maskVars, snapVars>>
  BY DEF RecordEvent, TypeOK
<1>1. TypeOK'
  <2>1. sb' \in Seq(Stores)
    <3>. DEFINE func  == [loc |-> "func",  at |-> entry,     val |-> clock + 1]
                cycle == [loc |-> "cycle", at |-> entry,     val |-> clock + 1]
                npos  == [loc |-> "pos",   at |-> entry + 1, val |-> clock + 1]
                first == IF o = "func_first" THEN <<func, cycle>> ELSE <<cycle, func>>
    <3>1. func \in Stores /\ cycle \in Stores /\ npos \in Stores
      BY <1>0 DEF TypeOK, TracerTypeOK, Slots, Stores
    <3>2. EventStores(clock + 1, entry, o) = first \o <<npos>>
      BY DEF EventStores
    <3>. HIDE DEF func, cycle, npos
    <3>3. first \in Seq(Stores) /\ <<npos>> \in Seq(Stores)
      BY <3>1
    <3>. HIDE DEF first
    <3>4. first \o <<npos>> \in Seq(Stores)
      BY <3>3
    <3>5. sb \in Seq(Stores) /\ sb' = sb \o (first \o <<npos>>)
      BY <3>2 DEF TypeOK, TracerTypeOK, RecordEvent
    <3>. QED
      BY <3>4, <3>5
  <2>2. buf' \in [Slots -> Entry]
    BY <1>0 DEF Event, Entry
  <2>3. clock' \in 0 .. MaxEvents
    BY <1>0 DEF TypeOK, TracerTypeOK, EntryPicked
  <2>. QED
    BY <1>0, <2>1, <2>2, <2>3 DEF TypeOK, TracerTypeOK, Slots, memVars, maskVars, snapVars
<1>2. SearchInBounds' /\ EntryPicked'
  BY <1>0 DEF SearchInBounds, EntryPicked, snapVars
<1>3. AtMostOneLateEvent' /\ NothingPickedOnceLate'
  BY <1>0 DEF AtMostOneLateEvent, NothingPickedOnceLate, TypeOK, TracerTypeOK, maskVars
<1>4. LastEventsInOrder'
  <2>. SUFFICES ASSUME NEW i \in Slots
                PROVE  (IF NumberAt(i) >= 1 THEN buf[i] = Event(NumberAt(i))
                                            ELSE buf[i].func = 0)'
    BY DEF LastEventsInOrder
  <2>1. NumberAt(i)' = IF i = entry THEN clock + 1 ELSE NumberAt(i)
    <3>1. pos \in 0 .. N /\ clock \in Nat /\ entry = Wrap(pos)
      BY <1>0 DEF TypeOK, TracerTypeOK, EntryPicked, RecordEvent
    <3>. QED
      BY <1>0, <3>1, Renumbering
  <2>2. CASE i = entry
    BY <1>0, <2>1, <2>2 DEF Event
  <2>3. CASE i # entry
    BY <1>0, <2>1, <2>3 DEF LastEventsInOrder, TypeOK, TracerTypeOK, Event
  <2>. QED
    BY <2>2, <2>3
<1>. QED
  BY <1>1, <1>2, <1>3, <1>4

\* A store of the traced thread reaching memory.
LEMMA DrainStoreStep == IInv /\ DrainStore => IInv'
<1>. SUFFICES ASSUME IInv, DrainStore PROVE IInv'
  OBVIOUS
<1>. USE DEF IInv, TypeOK, TracerTypeOK, SnapperTypeOK
<1>0. UNCHANGED <<buf, pos, entry, clock, late, maskVars, snapVars>>
  BY DEF DrainStore
<1>1. TypeOK'
  <2>. DEFINE s == Head(sb)
  <2>1. s \in Stores /\ sb' \in Seq(Stores)
    <3>1. sb \in Seq(Stores) /\ sb # <<>> /\ sb' = Tail(sb)
      BY DEF DrainStore
    <3>. QED
      BY ONLY <3>1, HeadTailProperties
  <2>2. mem' \in [Slots -> Entry] /\ mpos' \in 0 .. N
    <3>1. CASE s.loc = "func" /\ mem' = [mem EXCEPT ![s.at].func = s.val] /\ UNCHANGED mpos
      BY <2>1, <3>1 DEF TypeOK, TracerTypeOK, Entry, Stores
    <3>2. CASE s.loc = "cycle" /\ mem' = [mem EXCEPT ![s.at].cycle = s.val] /\ UNCHANGED mpos
      BY <2>1, <3>2 DEF TypeOK, TracerTypeOK, Entry, Stores
    <3>3. CASE s.loc = "pos" /\ mpos' = s.at /\ UNCHANGED mem
      BY <2>1, <3>3 DEF TypeOK, TracerTypeOK, Stores
    <3>. QED
      BY <3>1, <3>2, <3>3 DEF DrainStore
  <2>. QED
    BY <1>0, <2>1, <2>2 DEF TypeOK, TracerTypeOK, maskVars, snapVars
<1>2. SearchInBounds' /\ EntryPicked' /\ AtMostOneLateEvent' /\ NothingPickedOnceLate'
  BY <1>0 DEF SearchInBounds, EntryPicked, AtMostOneLateEvent, NothingPickedOnceLate,
              Wrap, maskVars, snapVars
<1>3. LastEventsInOrder'
  BY <1>0 DEF LastEventsInOrder, NumberAt
<1>. QED
  BY <1>1, <1>2, <1>3

\* The traced thread seeing a store to wraparound_mask.
LEMMA DrainMaskStep == IInv /\ DrainMask => IInv'
<1>. SUFFICES ASSUME IInv, DrainMask PROVE IInv'
  OBVIOUS
<1>. USE DEF IInv, TypeOK, TracerTypeOK, SnapperTypeOK
<1>1. TypeOK'
  BY DEF TypeOK, TracerTypeOK, DrainMask, memVars, snapVars
<1>2. SearchInBounds' /\ EntryPicked'
  BY DEF DrainMask, SearchInBounds, EntryPicked, Wrap, snapVars
<1>3. AtMostOneLateEvent' /\ NothingPickedOnceLate'
  BY DEF DrainMask, AtMostOneLateEvent, NothingPickedOnceLate, TypeOK
<1>4. LastEventsInOrder'
  BY DEF DrainMask, LastEventsInOrder, NumberAt
<1>. QED
  BY <1>1, <1>2, <1>3, <1>4

\* A step of the snapshotting thread touches nothing of the traced thread's
\* but the stores to wraparound_mask on their way to it.
LEMMA SnapperFrame == ASSUME Snapper PROVE UNCHANGED <<bufVars, memVars, mask>>
BY DEF Snapper, Pause, TakePauseTime, ReadPos, CheckWraparound, Probe, SearchedRight,
       SearchedLeft, CopyEntry, Resume, Return, maskVars

\* A step of the snapshotting thread keeps the invariant when it keeps its own
\* variables in their types and its search in bounds.
LEMMA SnapperKeeps ==
  ASSUME IInv, UNCHANGED <<bufVars, memVars, mask>>, SnapperTypeOK', SearchInBounds'
  PROVE  IInv'
BY DEF IInv, TypeOK, TracerTypeOK, EntryPicked, Wrap, LastEventsInOrder, NumberAt,
       AtMostOneLateEvent, NothingPickedOnceLate, bufVars, memVars

\* The number of events published is an integer.
LEMMA PublishedType == ASSUME TypeOK PROVE Published \in Int
<1>. DEFINE P == {i \in DOMAIN sb : sb[i].loc = "pos"}
<1>1. DOMAIN sb = 1 .. Len(sb) /\ Len(sb) \in Nat
  BY DEF TypeOK, TracerTypeOK
<1>2. IsFiniteSet(P)
  <2>1. P \subseteq 1 .. Len(sb)
    BY <1>1
  <2>2. IsFiniteSet(1 .. Len(sb))
    BY <1>1, FS_Interval
  <2>. QED
    BY <2>1, <2>2, FS_Subset
<1>3. Cardinality(P) \in Nat
  BY <1>2, FS_CardinalityType
<1>. QED
  BY <1>3 DEF Published, TypeOK, TracerTypeOK

\* pause_tracing(), the read of the clock and the read of pos.
LEMMA BeginStep ==
  ASSUME IInv,
         \/ \E op \in Ops, t \in 0 .. clock + 1 : Pause(op, t)
         \/ TakePauseTime \/ ReadPos
  PROVE  SnapperTypeOK' /\ SearchInBounds'
<1>. USE DEF IInv, TypeOK, SnapperTypeOK
<1>1. ASSUME NEW op \in Ops, NEW t \in 0 .. clock + 1, Pause(op, t)
      PROVE  SnapperTypeOK' /\ SearchInBounds'
  <2>1. t \in Nat
    BY DEF TracerTypeOK
  <2>2. req' \in [op : {"none", "since", "full"}, time : Nat]
    BY <1>1, <2>1, OpsAssumption DEF Pause
  <2>3. [i \in 1 .. N |-> i - 1] \in Seq(Slots)
    BY DEF Slots
  <2>4. todo' \in Seq(Slots) /\ maskq' \in Seq({"on", "off"}) /\ snap' \in Seq(Entry)
    BY <1>1, <2>3 DEF Pause, AllSlots
  <2>5. seen' \in Int
    BY <1>1, PublishedType DEF Pause
  <2>6. SearchInBounds'
    BY <1>1 DEF Pause, SearchInBounds
  <2>. QED
    BY <1>1, <2>2, <2>4, <2>5, <2>6 DEF Pause
<1>2. CASE TakePauseTime
  BY <1>2 DEF TakePauseTime, SearchInBounds, TracerTypeOK, maskVars
<1>3. CASE ReadPos
  BY <1>3, PublishedType DEF ReadPos, SearchInBounds, TracerTypeOK, maskVars
<1>. QED
  BY <1>1, <1>2, <1>3

\* SlotsFrom() lists slots of the buffer.
LEMMA SlotsFromType ==
  ASSUME NEW p \in Slots \cup {None}, NEW last \in 0 .. N
  PROVE  SlotsFrom(p, last) \in Seq(Slots)
<1>1. CASE p = None
  BY <1>1 DEF SlotsFrom
<1>2. CASE p # None
  <2>1. p \in 0 .. N - 1
    BY <1>2 DEF Slots
  <2>2. SlotsFrom(p, last) = [i \in 1 .. last - p |-> p + i - 1]
    BY <1>2 DEF SlotsFrom
  <2>3. CASE last <= p
    BY <2>1, <2>2, <2>3
  <2>4. CASE last > p
    BY <2>1, <2>2, <2>4 DEF Slots
  <2>. QED
    BY <2>1, <2>3, <2>4
<1>. QED
  BY <1>1, <1>2

\* The result of std::lower_bound is an entry of its range, or its end.
LEMMA SearchResultType ==
  ASSUME SnapperTypeOK, SearchInBounds, search.len = 0
  PROVE  SearchResult \in Slots \cup {None}
BY DEF SnapperTypeOK, SearchInBounds, SearchResult, Slots

\* Halving the range makes progress.
LEMMA Halving == ASSUME NEW n \in Nat, n > 0 PROVE n \div 2 \in Nat /\ n \div 2 < n
OBVIOUS

\* The binary search: every probe is of an entry of the range, and the range
\* only shrinks.
LEMMA SearchStep ==
  ASSUME IInv, CheckWraparound \/ Probe \/ SearchedRight \/ SearchedLeft
  PROVE  SnapperTypeOK' /\ SearchInBounds'
<1>. USE DEF IInv, TypeOK, SnapperTypeOK
<1>1. CASE CheckWraparound
  BY <1>1 DEF CheckWraparound, SearchIn, SearchInBounds, TracerTypeOK, maskVars
<1>2. CASE Probe
  <2>. DEFINE half   == search.len \div 2
              middle == search.first + half
  <2>0. /\ search.first \in Nat /\ search.len \in Nat /\ search.last \in 0 .. N
        /\ search.len > 0 /\ search.first + search.len <= search.last
        /\ search = [first |-> search.first, len |-> search.len, last |-> search.last]
    BY <1>2 DEF Probe, SearchInBounds
  <2>1. half \in Nat /\ half < search.len
    BY <2>0, Halving
  <2>2. \/ search' = [search EXCEPT !.first = middle + 1, !.len = @ - half - 1]
        \/ search' = [search EXCEPT !.len = half]
    BY <1>2 DEF Probe
  <2>. HIDE DEF half
  <2>3. /\ search' \in [first : 0 .. N, len : 0 .. N, last : 0 .. N]
        /\ search'.first + search'.len <= search'.last
        /\ search'.last = search.last
    <3>1. CASE search' = [search EXCEPT !.first = middle + 1, !.len = @ - half - 1]
      <4>1. search' = [first |-> middle + 1, len |-> search.len - half - 1,
                       last |-> search.last]
        BY <2>0, <3>1
      <4>. QED
        BY <2>0, <2>1, <4>1
    <3>2. CASE search' = [search EXCEPT !.len = half]
      <4>1. search' = [first |-> search.first, len |-> half, last |-> search.last]
        BY <2>0, <3>2
      <4>. QED
        BY <2>0, <2>1, <4>1
    <3>. QED
      BY <2>2, <3>1, <3>2
  <2>. QED
    BY <1>2, <2>3 DEF Probe, SearchInBounds, maskVars
<1>3. CASE SearchedRight
  <2>1. earliest' \in [right : Slots \cup {None}, left : Slots \cup {None}]
    BY <1>3, SearchResultType DEF SearchedRight
  <2>2. search' \in [first : 0 .. N, len : 0 .. N, last : 0 .. N]
    BY <1>3 DEF SearchedRight, SearchIn
  <2>. QED
    BY <1>3, <2>1, <2>2 DEF SearchedRight, SearchIn, SearchInBounds, maskVars
<1>4. CASE SearchedLeft
  <2>1. SearchResult \in Slots \cup {None}
    BY <1>4, SearchResultType DEF SearchedLeft
  <2>2. earliest' \in [right : Slots \cup {None}, left : Slots \cup {None}]
    BY <1>4, <2>1 DEF SearchedLeft
  <2>3. SlotsFrom(earliest.right, N) \in Seq(Slots) /\ SlotsFrom(SearchResult, spos) \in Seq(Slots)
    <3>1. earliest.right \in Slots \cup {None} /\ spos \in 0 .. N /\ N \in 0 .. N
      OBVIOUS
    <3>. QED
      BY <2>1, <3>1, SlotsFromType
  <2>4. todo' \in Seq(Slots)
    BY <1>4, <2>3 DEF SearchedLeft
  <2>. QED
    BY <1>4, <2>2, <2>4 DEF SearchedLeft, SearchInBounds, maskVars
<1>. QED
  BY <1>1, <1>2, <1>3, <1>4

\* Copying the entries found, resume_tracing() and the end of the call.
LEMMA EndStep ==
  ASSUME IInv, CopyEntry \/ Resume \/ Return
  PROVE  SnapperTypeOK' /\ SearchInBounds'
<1>. USE DEF IInv, TypeOK, SnapperTypeOK
<1>1. CASE CopyEntry
  <2>1. Head(todo) \in Slots /\ todo' \in Seq(Slots)
    BY <1>1 DEF CopyEntry
  <2>2. mem[Head(todo)] \in Entry
    BY <2>1 DEF TracerTypeOK
  <2>3. snap' \in Seq(Entry)
    BY <1>1, <2>2 DEF CopyEntry
  <2>. QED
    BY <1>1, <2>1, <2>3 DEF CopyEntry, SearchInBounds, maskVars
<1>2. CASE Resume
  BY <1>2 DEF Resume, SearchInBounds
<1>3. CASE Return
  BY <1>3 DEF Return, SearchInBounds, maskVars
<1>. QED
  BY <1>1, <1>2, <1>3

\* Every step of the program keeps the invariant.
LEMMA NextIInv == IInv /\ [Next]_vars => IInv'
<1>. SUFFICES ASSUME IInv, [Next]_vars PROVE IInv'
  OBVIOUS
<1>1. CASE Tracer
  BY <1>1, LoadEntryStep, RecordEventStep DEF Tracer
<1>2. CASE Memory
  BY <1>2, DrainStoreStep, DrainMaskStep DEF Memory
<1>3. CASE Snapper
  <2>1. UNCHANGED <<bufVars, memVars, mask>>
    BY <1>3, SnapperFrame
  <2>2. SnapperTypeOK' /\ SearchInBounds'
    BY <1>3, BeginStep, SearchStep, EndStep DEF Snapper
  <2>. QED
    BY <2>1, <2>2, SnapperKeeps
<1>4. CASE UNCHANGED vars
  <2>1. SnapperTypeOK' /\ SearchInBounds'
    BY <1>4 DEF vars, snapVars, maskVars, IInv, TypeOK, SnapperTypeOK, SearchInBounds
  <2>. QED
    BY <1>4, <2>1, SnapperKeeps DEF vars, maskVars
<1>. QED
  BY <1>1, <1>2, <1>3, <1>4 DEF Next

\* The invariant holds in every state of every execution.
THEOREM Invariance == Spec => []IInv
<1>1. Init => IInv
  BY InitIInv
<1>2. IInv /\ [Next]_vars => IInv'
  BY NextIInv
<1>. QED
  BY <1>1, <1>2, PTL DEF Spec

\* Type correctness; in particular no event is stored, and nothing is read by
\* a snapshot, outside the buffer.
THEOREM TypeCorrect == Spec => []TypeOK
<1>1. IInv => TypeOK
  BY DEF IInv
<1>. QED
  BY <1>1, Invariance, PTL

\* The bit trick of allocate() and trace() keeps the last N events, in order,
\* and nothing else, for every size of the buffer.
THEOREM KeepsLastEvents == Spec => []LastEventsInOrder
<1>1. IInv => LastEventsInOrder
  BY DEF IInv
<1>. QED
  BY <1>1, Invariance, PTL

\* Once it can see the pause the traced thread records at most one event:
\* wraparound_mask is loaded once per event.
THEOREM PauseIsNoticed == Spec => []AtMostOneLateEvent
<1>1. IInv => AtMostOneLateEvent
  BY DEF IInv
<1>. QED
  BY <1>1, Invariance, PTL

------------------------------------------------------------------------------
(* What the other cores see.  The stores of the traced thread reach memory  *)
(* in the order they were issued, three per event, so their number alone     *)
(* says which events memory holds and which one is being written.            *)

\* The slot of event k, and the value of pos once it is recorded.
Slot(k)  == (k - 1) % N
After(k) == IF k = 0 THEN 0 ELSE Slot(k) + 1

\* The place in sb of the r-th store of event k; below 1 when it has arrived.
InFlight(k, r) == Len(sb) - 3 * (clock - k) - 3 + r

\* The stores that have arrived, and the events all of whose stores have.
Drained == 3 * clock - Len(sb)
Arrived == Drained \div 3

\* The stores in flight are the last of those issued, in order.
StoresInOrder ==
  /\ Len(sb) <= 3 * clock
  /\ \A k \in 1 .. clock : \E o \in StoreOrders : \A r \in 1 .. 3 :
        InFlight(k, r) >= 1 => sb[InFlight(k, r)] = EventStores(k, Slot(k), o)[r]

\* pos as its owner and as the other cores see it.
PosFollows == pos = After(clock) /\ mpos = After(Arrived)

\* The event being written: the word that has not arrived is the one the next
\* store in flight is to.
WrittenSoFar ==
  LET k == Arrived + 1  e == mem[Slot(k)] IN
  /\ Drained = 3 * Arrived + 1 =>
        IF sb[1].loc = "cycle" THEN e.func = k ELSE e.cycle = k
  /\ Drained = 3 * Arrived + 2 => e = Event(k)

\* An entry written once never goes back to an earlier event.
NeverBack ==
  \A k \in 1 .. Arrived :
    /\ mem[Slot(k)].func \in k .. Arrived + 1
    /\ mem[Slot(k)].cycle \in k .. Arrived + 1

\* Going round from mpos memory holds the last N events to arrive, oldest
\* first, but for the entry being written; what was not written is as
\* allocate() left it.
ArrivedAt(i) == IF i < mpos THEN Arrived - mpos + 1 + i ELSE Arrived - mpos + 1 + i - N

LastArrived ==
  \A i \in Slots :
    \/ i = Wrap(mpos) /\ Drained # 3 * Arrived
    \/ IF ArrivedAt(i) >= 1 THEN mem[i] = Event(ArrivedAt(i))
                            ELSE i = N - 1 => mem[i].cycle = 0

MemInv == StoresInOrder /\ PosFollows /\ WrittenSoFar /\ NeverBack /\ LastArrived

\* Division leaves one quotient and one remainder.
LEMMA OneRemainder ==
  ASSUME NEW n \in Nat, n > 0, NEW q \in Nat, NEW r \in 0 .. n - 1,
         NEW p \in Nat, NEW s \in 0 .. n - 1, n * q + r = n * p + s
  PROVE  q = p /\ r = s
<1>1. ASSUME NEW x \in Nat, NEW y \in Nat, x < y PROVE n * y >= n * x + n
  <2>1. y - x - 1 \in Nat
    BY <1>1
  <2>2. n * (y - x - 1) >= 0
    BY <2>1
  <2>3. n * (y - x - 1) = n * y - n * x - n
    BY <2>1
  <2>. QED
    BY <2>2, <2>3
<1>2. n * q \in Int /\ n * p \in Int
  OBVIOUS
<1>3. q = p
  <2>1. CASE q < p
    BY <1>1, <1>2, <2>1
  <2>2. CASE p < q
    BY <1>1, <1>2, <2>2
  <2>. QED
    BY <2>1, <2>2
<1>. QED
  BY <1>2, <1>3

\* Division with a remainder, and the remainder of the next number.
LEMMA Divided ==
  ASSUME NEW a \in Nat, NEW n \in Nat, n > 0
  PROVE  a \div n \in Nat /\ (a % n) \in 0 .. n - 1 /\ a = n * (a \div n) + (a % n)
OBVIOUS

\* The remainder of the next number.
LEMMA NextRemainder ==
  ASSUME NEW a \in Nat, NEW n \in Nat, n > 0
  PROVE  (a + 1) % n = IF (a % n) + 1 = n THEN 0 ELSE (a % n) + 1
<1>. DEFINE q  == a \div n
            r  == a % n
            q1 == (a + 1) \div n
            r1 == (a + 1) % n
<1>1. q \in Nat /\ r \in 0 .. n - 1 /\ a = n * q + r
  BY Divided
<1>2. q1 \in Nat /\ r1 \in 0 .. n - 1 /\ a + 1 = n * q1 + r1
  BY Divided
<1>. HIDE DEF q, r, q1, r1
<1>3. CASE r + 1 = n
  <2>1. n * q1 + r1 = n * (q + 1) + 0 /\ q + 1 \in Nat /\ 0 \in 0 .. n - 1
    BY <1>1, <1>2, <1>3
  <2>2. r1 = 0
    BY <2>1, <1>2, OneRemainder
  <2>. QED
    BY <1>3, <2>2 DEF r, r1
<1>4. CASE r + 1 < n
  <2>1. n * q1 + r1 = n * q + (r + 1) /\ r + 1 \in 0 .. n - 1
    BY <1>1, <1>2, <1>4
  <2>2. r1 = r + 1
    BY <2>1, <1>1, <1>2, OneRemainder
  <2>3. r + 1 # n
    BY <1>1, <1>4
  <2>. QED
    BY <2>2, <2>3 DEF r, r1
<1>. QED
  BY <1>1, <1>3, <1>4 DEF r, r1

\* The bit trick: the slot after that of event k is that of event k + 1.
LEMMA NextSlot ==
  ASSUME NEW k \in Nat
  PROVE  /\ Slot(k + 1) \in Slots
         /\ After(k) \in 0 .. N /\ (After(k) = 0 <=> k = 0)
         /\ Wrap(After(k)) = Slot(k + 1)
         /\ After(k + 1) = Slot(k + 1) + 1
<1>1. Slot(k + 1) \in Slots /\ After(k + 1) = Slot(k + 1) + 1
  <2>1. (k + 1) - 1 = k /\ (k % N) \in 0 .. N - 1
    BY Divided
  <2>. QED
    BY <2>1 DEF Slot, Slots, After
<1>2. CASE k = 0
  <2>1. 0 % N = 0
    OBVIOUS
  <2>. QED
    BY <1>1, <1>2, <2>1 DEF After, Wrap, Slot
<1>3. CASE k # 0
  <2>1. k - 1 \in Nat /\ (k - 1) + 1 = k /\ (k + 1) - 1 = k
    BY <1>3
  <2>2. ((k - 1) % N) \in 0 .. N - 1
        /\ k % N = IF ((k - 1) % N) + 1 = N THEN 0 ELSE ((k - 1) % N) + 1
    <3>. DEFINE a == k - 1
    <3>1. a \in Nat /\ k = a + 1 /\ N \in Nat /\ N > 0
      BY <2>1
    <3>. HIDE DEF a
    <3>2. (a + 1) % N = IF (a % N) + 1 = N THEN 0 ELSE (a % N) + 1
      BY <3>1, NextRemainder
    <3>3. (a % N) \in 0 .. N - 1
      BY <3>1, Divided
    <3>. QED
      BY <3>1, <3>2, <3>3 DEF a
  <2>. QED
    BY <1>1, <1>3, <2>1, <2>2 DEF After, Wrap, Slot
<1>. QED
  BY <1>2, <1>3

\* The three stores of an event, one by one.
LEMMA StoresOfEvent ==
  ASSUME NEW k, NEW s, NEW o \in StoreOrders
  PROVE  /\ Len(EventStores(k, s, o)) = 3
         /\ EventStores(k, s, o)[1] =
              [loc |-> IF o = "func_first" THEN "func" ELSE "cycle", at |-> s, val |-> k]
         /\ EventStores(k, s, o)[2] =
              [loc |-> IF o = "func_first" THEN "cycle" ELSE "func", at |-> s, val |-> k]
         /\ EventStores(k, s, o)[3] = [loc |-> "pos", at |-> s + 1, val |-> k]
<1>1. CASE o = "func_first"
  BY <1>1 DEF EventStores
<1>2. CASE o # "func_first"
  BY <1>2 DEF EventStores
<1>. QED
  BY <1>1, <1>2

\* How many stores and events have arrived.
LEMMA Counts ==
  ASSUME TypeOK, StoresInOrder
  PROVE  /\ clock \in Nat /\ Len(sb) \in Nat /\ Drained \in Nat /\ Arrived \in 0 .. clock
         /\ Drained - 3 * Arrived \in 0 .. 2
         /\ sb = <<>> => Drained = 3 * clock /\ Arrived = clock
         /\ sb # <<>> => Len(sb) >= 1 /\ Arrived < clock /\ Arrived + 1 \in 1 .. clock
         /\ Len(sb) = 3 * (clock - Arrived) - (Drained - 3 * Arrived)
<1>1. clock \in Nat /\ Len(sb) \in Nat /\ Len(sb) <= 3 * clock /\ (sb = <<>> <=> Len(sb) = 0)
  BY DEF TypeOK, TracerTypeOK, StoresInOrder
<1>2. \A d \in Nat : d \div 3 \in Nat /\ d - 3 * (d \div 3) \in 0 .. 2
  OBVIOUS
<1>3. Drained \in Nat /\ Arrived \in Nat /\ Drained - 3 * Arrived \in 0 .. 2
  BY <1>1, <1>2 DEF Drained, Arrived
<1>. QED
  BY <1>1, <1>3 DEF Drained

\* The store that arrives next, and the one after it for the same event.
LEMMA OldestStore ==
  ASSUME TypeOK, StoresInOrder, sb # <<>>
  PROVE  \E o \in StoreOrders :
           LET r == Drained - 3 * Arrived + 1
               e == EventStores(Arrived + 1, Slot(Arrived + 1), o)
           IN  sb[1] = e[r] /\ (r < 3 => sb[2] = e[r + 1])
<1>. DEFINE k == Arrived + 1
            q == Drained - 3 * Arrived + 1
<1>1. /\ k \in 1 .. clock /\ q \in 1 .. 3 /\ clock \in Nat
      /\ Len(sb) = 3 * (clock - k) + 4 - q
  <2>1. /\ clock \in Nat /\ Arrived \in 0 .. clock /\ Drained \in Nat
        /\ Drained - 3 * Arrived \in 0 .. 2 /\ Arrived < clock
        /\ Len(sb) = 3 * (clock - Arrived) - (Drained - 3 * Arrived)
    BY Counts
  <2>. QED
    BY <2>1
<1>. HIDE DEF k, q
<1>2. PICK o \in StoreOrders : \A r \in 1 .. 3 :
        InFlight(k, r) >= 1 => sb[InFlight(k, r)] = EventStores(k, Slot(k), o)[r]
  BY <1>1 DEF StoresInOrder
<1>3. InFlight(k, q) = 1
  BY <1>1 DEF InFlight
<1>4. q < 3 => q + 1 \in 1 .. 3 /\ InFlight(k, q + 1) = 2
  BY <1>1 DEF InFlight
<1>5. sb[1] = EventStores(k, Slot(k), o)[q]
  BY <1>1, <1>2, <1>3
<1>6. q < 3 => sb[2] = EventStores(k, Slot(k), o)[q + 1]
  BY <1>2, <1>4
<1>. QED
  BY <1>5, <1>6 DEF k, q

\* The stores issued by trace() go to the end of those in flight.
LEMMA StoresIssued ==
  ASSUME TypeOK, PosFollows, EntryPicked, StoresInOrder, NEW p \in StoreOrders, RecordEvent(p)
  PROVE  /\ StoresInOrder'
         /\ Drained' = Drained /\ Arrived' = Arrived
         /\ sb # <<>> => sb'[1] = sb[1]
         /\ clock' = clock + 1 /\ entry = Slot(clock + 1) /\ pos' = After(clock + 1)
<1>. DEFINE e == EventStores(clock + 1, entry, p)
<1>0. /\ clock' = clock + 1 /\ pos' = entry + 1 /\ sb' = sb \o e
      /\ clock \in Nat /\ sb \in Seq(Stores) /\ Len(sb) \in Nat
  BY DEF RecordEvent, TypeOK, TracerTypeOK
<1>1. entry = Slot(clock + 1) /\ pos' = After(clock + 1)
  BY <1>0, NextSlot DEF PosFollows, EntryPicked, RecordEvent
<1>2. /\ Len(sb') = Len(sb) + 3
      /\ \A i \in 1 .. Len(sb) : sb'[i] = sb[i]
      /\ \A r \in 1 .. 3 : sb'[Len(sb) + r] = e[r]
  <2>1. e \in Seq({e[1], e[2], e[3]}) /\ Len(e) = 3
    <3>1. CASE p = "func_first"
      BY <3>1 DEF EventStores
    <3>2. CASE p # "func_first"
      BY <3>2 DEF EventStores
    <3>. QED
      BY <3>1, <3>2
  <2>. HIDE DEF e
  <2>2. sb \in Seq(Stores \cup {e[1], e[2], e[3]}) /\ e \in Seq(Stores \cup {e[1], e[2], e[3]})
    BY <1>0, <2>1
  <2>3. /\ Len(sb \o e) = Len(sb) + Len(e)
        /\ \A i \in 1 .. Len(sb) + Len(e) :
             (sb \o e)[i] = IF i <= Len(sb) THEN sb[i] ELSE e[i - Len(sb)]
    BY <2>2, ConcatProperties
  <2>. QED
    BY <1>0, <2>1, <2>3
<1>. HIDE DEF e
<1>3. Drained' = Drained /\ Arrived' = Arrived
  BY <1>0, <1>2 DEF Drained, Arrived
<1>4. StoresInOrder'
  <2>1. Len(sb') <= 3 * clock'
    BY <1>0, <1>2 DEF StoresInOrder
  <2>2. ASSUME NEW k \in 1 .. clock'
        PROVE  \E o \in StoreOrders : \A r \in 1 .. 3 :
                 InFlight(k, r)' >= 1 => sb'[InFlight(k, r)'] = EventStores(k, Slot(k), o)[r]
    <3>1. CASE k = clock + 1
      <4>1. \A r \in 1 .. 3 : InFlight(k, r)' = Len(sb) + r
        BY <1>0, <1>2, <3>1 DEF InFlight
      <4>. QED
        BY <1>1, <1>2, <3>1, <4>1 DEF e
    <3>2. CASE k # clock + 1
      <4>1. k \in 1 .. clock /\ \A r \in 1 .. 3 : /\ InFlight(k, r)' = InFlight(k, r)
                                                   /\ InFlight(k, r) \in Int
                                                   /\ InFlight(k, r) <= Len(sb)
        BY <1>0, <1>2, <3>2 DEF InFlight
      <4>2. PICK o \in StoreOrders : \A r \in 1 .. 3 :
              InFlight(k, r) >= 1 => sb[InFlight(k, r)] = EventStores(k, Slot(k), o)[r]
        BY <4>1 DEF StoresInOrder
      <4>3. ASSUME NEW r \in 1 .. 3, InFlight(k, r)' >= 1
            PROVE  sb'[InFlight(k, r)'] = EventStores(k, Slot(k), o)[r]
        <5>1. InFlight(k, r) \in 1 .. Len(sb) /\ InFlight(k, r)' = InFlight(k, r)
          BY <1>0, <4>1, <4>3
        <5>. QED
          BY <1>2, <4>2, <5>1
      <4>. QED
        BY <4>3
    <3>. QED
      BY <3>1, <3>2
  <2>. QED
    BY <2>1, <2>2 DEF StoresInOrder, Slot, EventStores
<1>5. sb # <<>> => sb'[1] = sb[1]
  BY <1>0, <1>2
<1>. QED
  BY <1>0, <1>1, <1>3, <1>4, <1>5

\* The stores left behind by the one that arrives.
LEMMA StoresLeft ==
  ASSUME TypeOK, StoresInOrder, DrainStore
  PROVE  /\ StoresInOrder'
         /\ Drained' = Drained + 1
         /\ Arrived' = IF Drained - 3 * Arrived = 2 THEN Arrived + 1 ELSE Arrived
         /\ Len(sb) >= 2 => sb'[1] = sb[2]
<1>0. /\ sb # <<>> /\ clock' = clock /\ clock \in Nat /\ Len(sb) \in Nat
      /\ Len(sb') = Len(sb) - 1
      /\ \A i \in 1 .. Len(sb) - 1 : sb'[i] = sb[i + 1]
  <2>1. sb \in Seq(Stores) /\ clock \in Nat
    BY DEF TypeOK, TracerTypeOK
  <2>2. sb # <<>> /\ sb' = Tail(sb) /\ clock' = clock
    BY DEF DrainStore
  <2>. QED
    BY <2>1, <2>2, HeadTailProperties
<1>1. Drained' = Drained + 1
  BY <1>0 DEF Drained
<1>2. Arrived' = IF Drained - 3 * Arrived = 2 THEN Arrived + 1 ELSE Arrived
  <2>1. Drained \in Nat
    BY Counts
  <2>2. \A d \in Nat : (d + 1) \div 3 = IF d - 3 * (d \div 3) = 2 THEN d \div 3 + 1 ELSE d \div 3
    OBVIOUS
  <2>. QED
    BY <1>1, <2>1, <2>2 DEF Arrived
<1>3. StoresInOrder'
  <2>1. Len(sb') <= 3 * clock'
    BY <1>0 DEF StoresInOrder
  <2>2. ASSUME NEW k \in 1 .. clock'
        PROVE  \E o \in StoreOrders : \A r \in 1 .. 3 :
                 InFlight(k, r)' >= 1 => sb'[InFlight(k, r)'] = EventStores(k, Slot(k), o)[r]
    <3>1. PICK o \in StoreOrders : \A r \in 1 .. 3 :
            InFlight(k, r) >= 1 => sb[InFlight(k, r)] = EventStores(k, Slot(k), o)[r]
      BY <1>0 DEF StoresInOrder
    <3>2. ASSUME NEW r \in 1 .. 3, InFlight(k, r)' >= 1
          PROVE  sb'[InFlight(k, r)'] = EventStores(k, Slot(k), o)[r]
      <4>1. /\ InFlight(k, r)' = InFlight(k, r) - 1 /\ InFlight(k, r) \in Int
            /\ InFlight(k, r) - 1 \in 1 .. Len(sb) - 1
        BY <1>0, <3>2 DEF InFlight
      <4>2. sb'[InFlight(k, r) - 1] = sb[(InFlight(k, r) - 1) + 1]
        BY <1>0, <4>1
      <4>3. (InFlight(k, r) - 1) + 1 = InFlight(k, r)
        BY <4>1
      <4>. QED
        BY <3>1, <4>1, <4>2, <4>3
    <3>. QED
      BY <3>2
  <2>. QED
    BY <2>1, <2>2 DEF StoresInOrder, Slot, EventStores
<1>4. Len(sb) >= 2 => sb'[1] = sb[2]
  BY <1>0
<1>. QED
  BY <1>1, <1>2, <1>3, <1>4

\* What the store that arrives does to memory: the first half of an entry,
\* the second half, or pos.
FirstWord(k, s) ==
  /\ Drained = 3 * Arrived /\ Drained' = Drained + 1 /\ Arrived' = Arrived /\ mpos' = mpos
  /\ \E o \in StoreOrders :
        IF o = "func_first"
        THEN mem' = [mem EXCEPT ![s].func = k]  /\ sb'[1].loc = "cycle"
        ELSE mem' = [mem EXCEPT ![s].cycle = k] /\ sb'[1].loc = "func"

SecondWord(k, s) ==
  /\ Drained = 3 * Arrived + 1 /\ Drained' = Drained + 1 /\ Arrived' = Arrived /\ mpos' = mpos
  /\ mem' = [mem EXCEPT ![s] = Event(k)]

NewPos(k, s) ==
  /\ Drained = 3 * Arrived + 2 /\ Drained' = Drained + 1 /\ Arrived' = k /\ mpos' = s + 1
  /\ mem' = mem

\* An entry one word of which is replaced.
LEMMA WordArrives ==
  ASSUME mem \in [Slots -> Entry], NEW s \in Slots, NEW k \in Nat
  PROVE  /\ [mem EXCEPT ![s].func = k]  = [mem EXCEPT ![s] = [func |-> k, cycle |-> mem[s].cycle]]
         /\ [mem EXCEPT ![s].cycle = k] = [mem EXCEPT ![s] = [func |-> mem[s].func, cycle |-> k]]
<1>1. mem[s] = [func |-> mem[s].func, cycle |-> mem[s].cycle]
  BY DEF Entry
<1>2. /\ [mem[s] EXCEPT !.func = k]  = [func |-> k, cycle |-> mem[s].cycle]
      /\ [mem[s] EXCEPT !.cycle = k] = [func |-> mem[s].func, cycle |-> k]
  BY <1>1
<1>. QED
  BY <1>2

\* The oldest store in flight is one of the three of the event being written.
LEMMA StoreArrives ==
  ASSUME TypeOK, StoresInOrder, WrittenSoFar, DrainStore,
         NEW k, k = Arrived + 1, NEW s, s = Slot(k)
  PROVE  /\ k \in 1 .. clock /\ s \in Slots
         /\ FirstWord(k, s) \/ SecondWord(k, s) \/ NewPos(k, s)
<1>. DEFINE d == Drained - 3 * Arrived
<1>0. /\ sb # <<>> /\ sb \in Seq(Stores) /\ mem \in [Slots -> Entry]
      /\ Head(sb) = sb[1]
  BY DEF DrainStore, TypeOK, TracerTypeOK
<1>1. /\ Arrived \in Nat /\ Drained \in Nat /\ d \in 0 .. 2 /\ k \in 1 .. clock
      /\ clock \in Nat /\ (d < 2 => Len(sb) >= 2)
  <2>1. /\ clock \in Nat /\ Arrived \in 0 .. clock /\ Drained \in Nat
        /\ Drained - 3 * Arrived \in 0 .. 2 /\ Arrived < clock
        /\ Len(sb) = 3 * (clock - Arrived) - (Drained - 3 * Arrived)
    BY <1>0, Counts
  <2>. QED
    BY <2>1
<1>2. s \in Slots /\ k \in Nat
  <2>1. Slot(Arrived + 1) \in Slots
    BY <1>1, NextSlot
  <2>. QED
    BY <1>1, <2>1
<1>3. PICK o \in StoreOrders :
        /\ sb[1] = EventStores(k, s, o)[d + 1]
        /\ d + 1 < 3 => sb[2] = EventStores(k, s, o)[d + 1 + 1]
  BY <1>0, OldestStore
<1>9. /\ EventStores(k, s, o)[1] =
           [loc |-> IF o = "func_first" THEN "func" ELSE "cycle", at |-> s, val |-> k]
      /\ EventStores(k, s, o)[2] =
           [loc |-> IF o = "func_first" THEN "cycle" ELSE "func", at |-> s, val |-> k]
      /\ EventStores(k, s, o)[3] = [loc |-> "pos", at |-> s + 1, val |-> k]
  BY StoresOfEvent
<1>4. /\ Drained' = Drained + 1
      /\ Arrived' = IF d = 2 THEN Arrived + 1 ELSE Arrived
      /\ d < 2 => sb'[1] = sb[2]
  <2>1. /\ Drained' = Drained + 1
        /\ Arrived' = IF d = 2 THEN Arrived + 1 ELSE Arrived
        /\ Len(sb) >= 2 => sb'[1] = sb[2]
    BY StoresLeft
  <2>. QED
    BY <1>1, <2>1
<1>5. \/ sb[1].loc = "func" /\ mem' = [mem EXCEPT ![sb[1].at].func = sb[1].val] /\ mpos' = mpos
      \/ sb[1].loc = "cycle" /\ mem' = [mem EXCEPT ![sb[1].at].cycle = sb[1].val] /\ mpos' = mpos
      \/ sb[1].loc = "pos" /\ mpos' = sb[1].at /\ mem' = mem
  BY <1>0 DEF DrainStore
<1>. HIDE DEF d
<1>6. CASE d = 0
  <2>0. d + 1 = 1 /\ d + 1 + 1 = 2 /\ d < 2 /\ d + 1 < 3
    BY <1>6
  <2>1. /\ sb[1] = [loc |-> IF o = "func_first" THEN "func" ELSE "cycle", at |-> s, val |-> k]
        /\ sb'[1] = [loc |-> IF o = "func_first" THEN "cycle" ELSE "func", at |-> s, val |-> k]
    BY <1>3, <1>4, <2>0, <1>9
  <2>2. IF o = "func_first"
        THEN mem' = [mem EXCEPT ![s].func = k]  /\ sb'[1].loc = "cycle"
        ELSE mem' = [mem EXCEPT ![s].cycle = k] /\ sb'[1].loc = "func"
    BY <1>5, <2>1
  <2>3. mpos' = mpos
    BY <1>5, <2>1
  <2>. QED
    BY <1>1, <1>2, <1>4, <1>6, <2>2, <2>3 DEF FirstWord, d
<1>7. CASE d = 1
  <2>0. d + 1 = 2
    BY <1>7
  <2>1. sb[1] = [loc |-> IF o = "func_first" THEN "cycle" ELSE "func", at |-> s, val |-> k]
    BY <1>3, <2>0, <1>9
  <2>2. Drained = 3 * Arrived + 1
    BY <1>1, <1>7 DEF d
  <2>3. IF sb[1].loc = "cycle" THEN mem[s].func = k ELSE mem[s].cycle = k
    BY <2>2 DEF WrittenSoFar
  <2>4. mem' = [mem EXCEPT ![s] = Event(k)] /\ mpos' = mpos
    <3>0. /\ [mem EXCEPT ![s].func = k]  = [mem EXCEPT ![s] = [func |-> k, cycle |-> mem[s].cycle]]
          /\ [mem EXCEPT ![s].cycle = k] = [mem EXCEPT ![s] = [func |-> mem[s].func, cycle |-> k]]
      BY <1>0, <1>2, WordArrives
    <3>1. CASE o = "func_first"
      <4>1. mem' = [mem EXCEPT ![s].cycle = k] /\ mpos' = mpos /\ mem[s].func = k
        BY <1>5, <2>1, <2>3, <3>1
      <4>. QED
        BY <3>0, <4>1 DEF Event
    <3>2. CASE o # "func_first"
      <4>1. mem' = [mem EXCEPT ![s].func = k] /\ mpos' = mpos /\ mem[s].cycle = k
        BY <1>5, <2>1, <2>3, <3>2
      <4>. QED
        BY <3>0, <4>1 DEF Event
    <3>. QED
      BY <3>1, <3>2
  <2>. QED
    BY <1>1, <1>2, <1>4, <1>7, <2>2, <2>4 DEF SecondWord
<1>8. CASE d = 2
  <2>0. d + 1 = 3
    BY <1>8
  <2>1. sb[1] = [loc |-> "pos", at |-> s + 1, val |-> k]
    BY <1>3, <2>0, <1>9
  <2>2. mpos' = s + 1 /\ mem' = mem
    BY <1>5, <2>1
  <2>3. Drained = 3 * Arrived + 2
    BY <1>1, <1>8 DEF d
  <2>. QED
    BY <1>1, <1>2, <1>4, <1>8, <2>2, <2>3 DEF NewPos
<1>. QED
  BY <1>1, <1>6, <1>7, <1>8

\* Nothing is in flight and nothing has arrived.
LEMMA InitMemInv == Init => MemInv
<1>. SUFFICES ASSUME Init PROVE MemInv
  OBVIOUS
<1>1. IInv
  BY InitIInv
<1>2. /\ sb = <<>> /\ Len(sb) = 0 /\ clock = 0 /\ pos = 0 /\ mpos = 0 /\ mem = buf
      /\ \A i \in Slots : i = N - 1 => buf[i].cycle = 0
  BY DEF Init
<1>3. Drained = 0 /\ Arrived = 0
  <2>1. 3 * 0 - 0 = 0 /\ 0 \div 3 = 0
    OBVIOUS
  <2>. QED
    BY <1>2, <2>1, Zenon DEF Drained, Arrived
<1>4. StoresInOrder /\ PosFollows
  BY <1>2, <1>3 DEF StoresInOrder, PosFollows, After
<1>5. WrittenSoFar /\ NeverBack
  BY <1>3 DEF WrittenSoFar, NeverBack
<1>6. LastArrived
  BY <1>2, <1>3 DEF LastArrived, ArrivedAt, Slots
<1>. QED
  BY <1>4, <1>5, <1>6 DEF MemInv

\* The entry being written is the one mpos points to.
LEMMA NextToArrive ==
  ASSUME TypeOK, MemInv
  PROVE  /\ Arrived \in Nat
         /\ Slot(Arrived + 1) = Wrap(mpos) /\ Slot(Arrived + 1) \in Slots
         /\ After(Arrived + 1) = Slot(Arrived + 1) + 1
         /\ \A k \in 1 .. Arrived : Slot(k) \in Slots
<1>1. Arrived \in Nat
  BY Counts DEF MemInv
<1>2. ASSUME NEW k \in 1 .. Arrived PROVE Slot(k) \in Slots
  <2>1. k - 1 \in Nat /\ (k - 1) + 1 = k
    BY <1>1
  <2>2. Slot((k - 1) + 1) \in Slots
    BY <2>1, NextSlot
  <2>. QED
    BY <2>1, <2>2
<1>. QED
  BY <1>1, <1>2, NextSlot DEF MemInv, PosFollows

\* The numbering of memory's entries when pos arrives.
LEMMA ArrivalRenumbers ==
  ASSUME mpos \in 0 .. N, Arrived \in Nat, mpos' = Wrap(mpos) + 1, Arrived' = Arrived + 1,
         NEW i \in Slots
  PROVE  ArrivedAt(i)' = IF i = Wrap(mpos) THEN Arrived + 1 ELSE ArrivedAt(i)
<1>1. CASE mpos = N
  BY <1>1 DEF ArrivedAt, Wrap, Slots
<1>2. CASE mpos # N
  BY <1>2 DEF ArrivedAt, Wrap, Slots
<1>. QED
  BY <1>1, <1>2

\* A store that reaches memory.
LEMMA ArrivalKeeps == ASSUME IInv, MemInv, DrainStore PROVE MemInv'
<1>. DEFINE k == Arrived + 1
            s == Slot(k)
<1>0. /\ TypeOK /\ mem \in [Slots -> Entry] /\ mpos \in 0 .. N
      /\ StoresInOrder /\ WrittenSoFar /\ PosFollows /\ NeverBack /\ LastArrived
      /\ pos' = pos /\ clock' = clock
  BY DEF IInv, TypeOK, TracerTypeOK, MemInv, DrainStore
<1>1. /\ Arrived \in Nat /\ s = Wrap(mpos) /\ s \in Slots /\ After(k) = s + 1
      /\ \A j \in 1 .. Arrived : Slot(j) \in Slots
  BY <1>0, NextToArrive
<1>2. FirstWord(k, s) \/ SecondWord(k, s) \/ NewPos(k, s)
  BY <1>0, StoreArrives
<1>3. StoresInOrder'
  BY <1>0, StoresLeft
<1>. HIDE DEF k, s
<1>4. k = Arrived + 1 /\ s = Slot(k) /\ k \in Nat
  BY <1>1 DEF k, s
<1>5. CASE FirstWord(k, s) \/ SecondWord(k, s)
  <2>1. /\ Arrived' = Arrived /\ mpos' = mpos /\ Drained' # 3 * Arrived' /\ Drained' = Drained + 1
        /\ (Drained = 3 * Arrived \/ Drained = 3 * Arrived + 1)
    BY <1>1, <1>5 DEF FirstWord, SecondWord
  <2>2. \/ mem' = [mem EXCEPT ![s] = [func |-> k, cycle |-> mem[s].cycle]]
        \/ mem' = [mem EXCEPT ![s] = [func |-> mem[s].func, cycle |-> k]]
        \/ mem' = [mem EXCEPT ![s] = [func |-> k, cycle |-> k]]
    <3>1. /\ [mem EXCEPT ![s].func = k]  = [mem EXCEPT ![s] = [func |-> k, cycle |-> mem[s].cycle]]
          /\ [mem EXCEPT ![s].cycle = k] = [mem EXCEPT ![s] = [func |-> mem[s].func, cycle |-> k]]
      BY <1>0, <1>1, <1>4, WordArrives
    <3>2. \/ mem' = [mem EXCEPT ![s].func = k]
          \/ mem' = [mem EXCEPT ![s].cycle = k]
          \/ mem' = [mem EXCEPT ![s] = Event(k)]
      BY <1>5 DEF FirstWord, SecondWord
    <3>. QED
      BY <3>1, <3>2 DEF Event
  <2>3. \A i \in Slots : i # s => mem'[i] = mem[i]
    BY <1>0, <2>2
  <2>4. /\ mem'[s].func = k \/ mem'[s].func = mem[s].func
        /\ mem'[s].cycle = k \/ mem'[s].cycle = mem[s].cycle
    BY <1>0, <1>1, <2>2
  <2>5. PosFollows'
    BY <1>0, <2>1 DEF PosFollows, After, Slot
  <2>6. NeverBack'
    <3>. SUFFICES ASSUME NEW j \in 1 .. Arrived
                  PROVE  /\ mem'[Slot(j)].func \in j .. Arrived + 1
                         /\ mem'[Slot(j)].cycle \in j .. Arrived + 1
      BY <2>1 DEF NeverBack, Slot
    <3>1. /\ mem[Slot(j)].func \in j .. Arrived + 1
          /\ mem[Slot(j)].cycle \in j .. Arrived + 1
          /\ Slot(j) \in Slots
      BY <1>0, <1>1 DEF NeverBack
    <3>2. k \in j .. Arrived + 1
      BY <1>1, <1>4
    <3>. QED
      BY <2>3, <2>4, <3>1, <3>2
  <2>7. LastArrived'
    <3>. SUFFICES ASSUME NEW i \in Slots
                  PROVE  \/ i = s
                         \/ IF ArrivedAt(i) >= 1 THEN mem'[i] = Event(ArrivedAt(i))
                                                 ELSE i = N - 1 => mem'[i].cycle = 0
      BY <1>1, <2>1 DEF LastArrived, ArrivedAt, Wrap
    <3>. QED
      BY <1>0, <1>1, <2>3 DEF LastArrived
  <2>8. WrittenSoFar'
    <3>1. CASE FirstWord(k, s)
      <4>1. IF sb'[1].loc = "cycle" THEN mem'[s].func = k ELSE mem'[s].cycle = k
        <5>1. \/ sb'[1].loc = "cycle" /\ mem' = [mem EXCEPT ![s] = [func |-> k, cycle |-> mem[s].cycle]]
              \/ sb'[1].loc = "func" /\ mem' = [mem EXCEPT ![s] = [func |-> mem[s].func, cycle |-> k]]
          <6>1. /\ [mem EXCEPT ![s].func = k]  = [mem EXCEPT ![s] = [func |-> k, cycle |-> mem[s].cycle]]
                /\ [mem EXCEPT ![s].cycle = k] = [mem EXCEPT ![s] = [func |-> mem[s].func, cycle |-> k]]
            BY <1>0, <1>1, <1>4, WordArrives
          <6>. QED
            BY <3>1, <6>1 DEF FirstWord
        <5>. QED
          BY <1>0, <1>1, <5>1
      <4>2. Drained' = 3 * Arrived' + 1
        BY <1>1, <3>1 DEF FirstWord
      <4>. QED
        BY <1>1, <1>4, <2>1, <4>1, <4>2 DEF WrittenSoFar, Slot
    <3>2. CASE SecondWord(k, s)
      <4>1. mem'[s] = Event(k) /\ Drained' = 3 * Arrived' + 2
        BY <1>0, <1>1, <3>2 DEF SecondWord
      <4>. QED
        BY <1>1, <1>4, <2>1, <4>1 DEF WrittenSoFar, Slot
    <3>. QED
      BY <1>5, <3>1, <3>2
  <2>. QED
    BY <1>3, <2>5, <2>6, <2>7, <2>8 DEF MemInv
<1>6. CASE NewPos(k, s)
  <2>1. /\ Arrived' = k /\ mpos' = s + 1 /\ mem' = mem /\ Drained' = 3 * Arrived'
        /\ mem[s] = Event(k)
    BY <1>0, <1>1, <1>4, <1>6 DEF NewPos, WrittenSoFar
  <2>2. PosFollows'
    BY <1>0, <1>1, <2>1 DEF PosFollows, After, Slot
  <2>3. WrittenSoFar'
    BY <1>4, <2>1 DEF WrittenSoFar
  <2>4. NeverBack'
    <3>. SUFFICES ASSUME NEW j \in 1 .. k
                  PROVE  /\ mem[Slot(j)].func \in j .. k + 1
                         /\ mem[Slot(j)].cycle \in j .. k + 1
      BY <2>1 DEF NeverBack, Slot
    <3>1. CASE j = k
      BY <1>4, <2>1, <3>1 DEF Event
    <3>2. CASE j # k
      BY <1>0, <1>1, <1>4, <3>2 DEF NeverBack
    <3>. QED
      BY <3>1, <3>2
  <2>5. LastArrived'
    <3>. SUFFICES ASSUME NEW i \in Slots
                  PROVE  IF ArrivedAt(i)' >= 1 THEN mem[i] = Event(ArrivedAt(i)')
                                               ELSE i = N - 1 => mem[i].cycle = 0
      BY <2>1 DEF LastArrived, Event
    <3>1. ArrivedAt(i)' = IF i = s THEN k ELSE ArrivedAt(i)
      BY <1>0, <1>1, <1>4, <2>1, ArrivalRenumbers
    <3>2. CASE i = s
      BY <1>4, <1>1, <2>1, <3>1, <3>2
    <3>3. CASE i # s
      BY <1>0, <1>1, <3>1, <3>3 DEF LastArrived
    <3>. QED
      BY <3>2, <3>3
  <2>. QED
    BY <1>3, <2>2, <2>3, <2>4, <2>5 DEF MemInv
<1>. QED
  BY <1>2, <1>5, <1>6

\* trace() issuing the stores of an event.
LEMMA IssueKeeps ==
  ASSUME IInv, MemInv, NEW p \in StoreOrders, RecordEvent(p) PROVE MemInv'
<1>0. TypeOK /\ EntryPicked /\ StoresInOrder /\ PosFollows /\ WrittenSoFar /\ NeverBack /\ LastArrived
  BY DEF IInv, MemInv
<1>1. /\ StoresInOrder'
      /\ Drained' = Drained /\ Arrived' = Arrived
      /\ sb # <<>> => sb'[1] = sb[1]
      /\ clock' = clock + 1 /\ entry = Slot(clock + 1) /\ pos' = After(clock + 1)
  BY <1>0, StoresIssued
<1>2. mem' = mem /\ mpos' = mpos
  BY DEF RecordEvent, memVars
<1>3. PosFollows'
  BY <1>0, <1>1, <1>2 DEF PosFollows, After, Slot
<1>4. WrittenSoFar'
  <2>1. CASE sb = <<>>
    <3>1. Drained = 3 * Arrived /\ Arrived \in Nat
      BY <1>0, <2>1, Counts
    <3>. QED
      BY <1>1, <3>1 DEF WrittenSoFar
  <2>2. CASE sb # <<>>
    BY <1>0, <1>1, <1>2, <2>2 DEF WrittenSoFar, Slot, Event
  <2>. QED
    BY <2>1, <2>2
<1>5. NeverBack' /\ LastArrived'
  BY <1>0, <1>1, <1>2 DEF NeverBack, LastArrived, ArrivedAt, Wrap, Slot
<1>. QED
  BY <1>1, <1>3, <1>4, <1>5 DEF MemInv

\* A step that neither issues a store nor lets one arrive.
LEMMA MemFrame ==
  ASSUME MemInv, UNCHANGED <<pos, clock, sb, memVars>> PROVE MemInv'
BY DEF MemInv, StoresInOrder, InFlight, PosFollows, After, WrittenSoFar, NeverBack, LastArrived,
       ArrivedAt, Arrived, Drained, Slot, Wrap, memVars, EventStores

\* What memory holds follows the traced thread, whatever the snapshots do.
LEMMA NextMemInv == IInv /\ MemInv /\ [Next]_vars => MemInv'
<1>. SUFFICES ASSUME IInv, MemInv, [Next]_vars PROVE MemInv'
  OBVIOUS
<1>1. CASE LoadEntry
  BY <1>1, MemFrame DEF LoadEntry
<1>2. ASSUME NEW o \in StoreOrders, RecordEvent(o) PROVE MemInv'
  BY <1>2, IssueKeeps
<1>3. CASE DrainStore
  BY <1>3, ArrivalKeeps
<1>4. CASE DrainMask
  BY <1>4, MemFrame DEF DrainMask
<1>5. CASE Snapper
  BY <1>5, SnapperFrame, MemFrame DEF bufVars
<1>6. CASE UNCHANGED vars
  BY <1>6, MemFrame DEF vars, bufVars
<1>. QED
  BY <1>1, <1>2, <1>3, <1>4, <1>5, <1>6 DEF Next, Tracer, Memory

\* Memory follows the traced thread at every step of every execution.
LEMMA MemoryFollows == Spec => [](IInv /\ MemInv)
<1>1. Init => MemInv
  BY InitMemInv
<1>2. IInv /\ MemInv /\ [Next]_vars => MemInv'
  BY NextMemInv
<1>. QED
  BY <1>1, <1>2, Invariance, PTL DEF Spec

\* The events published, counted by what is in flight, are those that arrived.
LEMMA PublishedIs == ASSUME TypeOK, StoresInOrder PROVE Published = Arrived
<1>. DEFINE n == clock - Arrived
            P == {i \in DOMAIN sb : sb[i].loc = "pos"}
            f == [j \in 1 .. n |-> Len(sb) - 3 * (j - 1)]
<1>0. /\ n \in Nat /\ clock \in Nat /\ Arrived \in 0 .. clock /\ Len(sb) \in Nat
      /\ DOMAIN sb = 1 .. Len(sb)
      /\ Drained - 3 * Arrived \in 0 .. 2 /\ Len(sb) = 3 * n - (Drained - 3 * Arrived)
  BY Counts DEF TypeOK, TracerTypeOK
<1>. HIDE DEF n
<1>1. ASSUME NEW k \in 1 .. clock, NEW r \in 1 .. 3, InFlight(k, r) >= 1
      PROVE  sb[InFlight(k, r)].loc = "pos" <=> r = 3
  <2>1. PICK o \in StoreOrders : \A q \in 1 .. 3 :
          InFlight(k, q) >= 1 => sb[InFlight(k, q)] = EventStores(k, Slot(k), o)[q]
    BY DEF StoresInOrder
  <2>2. sb[InFlight(k, r)] = EventStores(k, Slot(k), o)[r]
    BY <1>1, <2>1
  <2>3. /\ EventStores(k, Slot(k), o)[1].loc # "pos"
        /\ EventStores(k, Slot(k), o)[2].loc # "pos"
        /\ EventStores(k, Slot(k), o)[3].loc = "pos"
    <3>1. /\ EventStores(k, Slot(k), o)[1] =
               [loc |-> IF o = "func_first" THEN "func" ELSE "cycle", at |-> Slot(k), val |-> k]
          /\ EventStores(k, Slot(k), o)[2] =
               [loc |-> IF o = "func_first" THEN "cycle" ELSE "func", at |-> Slot(k), val |-> k]
          /\ EventStores(k, Slot(k), o)[3] = [loc |-> "pos", at |-> Slot(k) + 1, val |-> k]
      BY StoresOfEvent
    <3>. QED
      BY <3>1
  <2>. QED
    BY <2>2, <2>3
<1>2. \A i \in 1 .. Len(sb) : sb[i].loc = "pos" <=> \E j \in 1 .. n : i = Len(sb) - 3 * (j - 1)
  <2>. SUFFICES ASSUME NEW i \in 1 .. Len(sb)
                PROVE  sb[i].loc = "pos" <=> \E j \in 1 .. n : i = Len(sb) - 3 * (j - 1)
    OBVIOUS
  <2>. DEFINE c == (Len(sb) - i) \div 3
              q == Len(sb) - i - 3 * c
  <2>1. c \in Nat /\ q \in 0 .. 2 /\ i = Len(sb) - 3 * c - q
    <3>1. \A m \in Nat : m \div 3 \in Nat /\ m - 3 * (m \div 3) \in 0 .. 2
      OBVIOUS
    <3>2. Len(sb) - i \in Nat
      BY <1>0
    <3>3. c \in Nat /\ q \in 0 .. 2
      BY <3>1, <3>2
    <3>. QED
      BY <1>0, <3>3
  <2>. HIDE DEF c, q
  <2>2. /\ clock - c \in 1 .. clock /\ 3 - q \in 1 .. 3 /\ InFlight(clock - c, 3 - q) = i
        /\ (q = 0 => c + 1 \in 1 .. n /\ i = Len(sb) - 3 * ((c + 1) - 1))
    <3>1. n <= clock
      BY <1>0 DEF n
    <3>2. InFlight(clock - c, 3 - q) = i
      BY <1>0, <2>1 DEF InFlight
    <3>3. 3 * c + q < Len(sb) /\ Len(sb) <= 3 * n
      BY <1>0, <2>1
    <3>. QED
      BY <1>0, <2>1, <3>1, <3>2, <3>3
  <2>3. sb[i].loc = "pos" <=> q = 0
    <3>. DEFINE k == clock - c
                r == 3 - q
    <3>1. k \in 1 .. clock /\ r \in 1 .. 3 /\ InFlight(k, r) = i /\ (r = 3 <=> q = 0) /\ i >= 1
      BY <2>1, <2>2
    <3>. HIDE DEF k, r
    <3>2. sb[InFlight(k, r)].loc = "pos" <=> r = 3
      BY <1>1, <3>1
    <3>. QED
      BY <3>1, <3>2
  <2>4. (\E j \in 1 .. n : i = Len(sb) - 3 * (j - 1)) => q = 0
    <3>1. ASSUME NEW j \in 1 .. n, i = Len(sb) - 3 * (j - 1) PROVE q = 0
      BY <1>0, <2>1, <3>1
    <3>. QED
      BY <3>1
  <2>. QED
    BY <2>2, <2>3, <2>4
<1>3. f \in Bijection(1 .. n, P)
  <2>1. f \in [1 .. n -> P]
    <3>1. ASSUME NEW j \in 1 .. n PROVE Len(sb) - 3 * (j - 1) \in P
      <4>1. Len(sb) - 3 * (j - 1) \in 1 .. Len(sb)
        BY <1>0
      <4>. QED
        BY <1>0, <1>2, <4>1
    <3>. QED
      BY <3>1
  <2>2. \A i, j \in 1 .. n : f[i] = f[j] => i = j
    BY <1>0
  <2>3. \A i \in P : \E j \in 1 .. n : f[j] = i
    BY <1>0, <1>2
  <2>. QED
    BY <2>1, <2>2, <2>3 DEF Bijection, Injection, Surjection, IsInjective
<1>4. Cardinality(P) = n
  BY <1>0, <1>3, FS_CountingElements DEF ExistsBijection
<1>. QED
  BY <1>0, <1>4 DEF Published, n

------------------------------------------------------------------------------
(* A full copy of the buffer.                                               *)

\* What is seen was published, a full snapshot is not searched for, and the
\* slots it has copied held each event seen, or a later one in its place, and
\* do so still.
CopiedAsWritten ==
  \A k \in 1 .. seen : Slot(k) < Len(snap) =>
    /\ snap[Slot(k) + 1].func \in k .. mem[Slot(k)].func
    /\ snap[Slot(k) + 1].cycle \in k .. mem[Slot(k)].cycle

FullInv ==
  /\ seen <= Arrived
  /\ spc \notin {"idle", "copy", "resumed"} => req.op # "full"
  /\ spc \in {"copy", "resumed"} /\ req.op = "full" =>
       /\ Len(snap) + Len(todo) = N
       /\ \A j \in 1 .. Len(todo) : todo[j] = Len(snap) + j - 1
       /\ CopiedAsWritten

\* The entries of events that have arrived only move on to later events.
LEMMA OnlyForward ==
  ASSUME IInv, MemInv, DrainStore
  PROVE  /\ Arrived <= Arrived'
         /\ \A k \in 1 .. Arrived : /\ mem[Slot(k)].func <= mem'[Slot(k)].func
                                    /\ mem[Slot(k)].cycle <= mem'[Slot(k)].cycle
                                    /\ mem'[Slot(k)].func \in Nat /\ mem'[Slot(k)].cycle \in Nat
<1>. DEFINE n == Arrived + 1
            s == Slot(n)
<1>0. TypeOK /\ mem \in [Slots -> Entry] /\ StoresInOrder /\ WrittenSoFar /\ NeverBack
  BY DEF IInv, TypeOK, TracerTypeOK, MemInv
<1>1. /\ Arrived \in Nat /\ s \in Slots /\ \A j \in 1 .. Arrived : Slot(j) \in Slots
  BY <1>0, NextToArrive
<1>2. FirstWord(n, s) \/ SecondWord(n, s) \/ NewPos(n, s)
  BY <1>0, StoreArrives
<1>. HIDE DEF n, s
<1>3. n = Arrived + 1 /\ n \in Nat
  BY <1>1 DEF n
<1>4. Arrived <= Arrived'
  BY <1>1, <1>2, <1>3 DEF FirstWord, SecondWord, NewPos
<1>5. \/ mem' = mem
      \/ mem' = [mem EXCEPT ![s] = [func |-> n, cycle |-> mem[s].cycle]]
      \/ mem' = [mem EXCEPT ![s] = [func |-> mem[s].func, cycle |-> n]]
      \/ mem' = [mem EXCEPT ![s] = [func |-> n, cycle |-> n]]
  <2>1. /\ [mem EXCEPT ![s].func = n]  = [mem EXCEPT ![s] = [func |-> n, cycle |-> mem[s].cycle]]
        /\ [mem EXCEPT ![s].cycle = n] = [mem EXCEPT ![s] = [func |-> mem[s].func, cycle |-> n]]
    BY <1>0, <1>1, <1>3, WordArrives
  <2>2. \/ mem' = mem
        \/ mem' = [mem EXCEPT ![s].func = n]
        \/ mem' = [mem EXCEPT ![s].cycle = n]
        \/ mem' = [mem EXCEPT ![s] = Event(n)]
    BY <1>2 DEF FirstWord, SecondWord, NewPos
  <2>. QED
    BY <2>1, <2>2 DEF Event
<1>6. ASSUME NEW k \in 1 .. Arrived
      PROVE  /\ mem[Slot(k)].func <= mem'[Slot(k)].func
             /\ mem[Slot(k)].cycle <= mem'[Slot(k)].cycle
             /\ mem'[Slot(k)].func \in Nat /\ mem'[Slot(k)].cycle \in Nat
  <2>1. /\ Slot(k) \in Slots
        /\ mem[Slot(k)].func \in k .. Arrived + 1 /\ mem[Slot(k)].cycle \in k .. Arrived + 1
    BY <1>0, <1>1 DEF NeverBack
  <2>2. /\ mem'[Slot(k)].func = mem[Slot(k)].func \/ mem'[Slot(k)].func = n
        /\ mem'[Slot(k)].cycle = mem[Slot(k)].cycle \/ mem'[Slot(k)].cycle = n
    <3>1. CASE Slot(k) = s
      BY <1>0, <1>1, <1>5, <3>1
    <3>2. CASE Slot(k) # s
      BY <1>0, <1>5, <2>1, <3>2
    <3>. QED
      BY <3>1, <3>2
  <2>. QED
    BY <1>1, <1>3, <2>1, <2>2
<1>. QED
  BY <1>4, <1>6

\* Under any step of the traced thread memory only moves forward.
LEMMA MemoryForward ==
  ASSUME IInv, MemInv, Tracer \/ DrainStore \/ DrainMask
  PROVE  /\ Arrived <= Arrived' /\ Arrived' \in Int
         /\ \A k \in 1 .. Arrived : /\ mem[Slot(k)].func <= mem'[Slot(k)].func
                                    /\ mem[Slot(k)].cycle <= mem'[Slot(k)].cycle
                                    /\ mem'[Slot(k)].func \in Nat /\ mem'[Slot(k)].cycle \in Nat
<1>1. Arrived \in Nat /\ TypeOK
  BY NextToArrive DEF IInv
<1>2. CASE DrainStore
  <2>1. Arrived' \in Int
    <3>1. Arrived' = IF Drained - 3 * Arrived = 2 THEN Arrived + 1 ELSE Arrived
      BY <1>1, <1>2, StoresLeft DEF MemInv
    <3>. QED
      BY <1>1, <3>1
  <2>. QED
    BY <1>2, <2>1, OnlyForward
<1>3. CASE Tracer \/ DrainMask
  <2>1. mem' = mem /\ Arrived' = Arrived
    <3>1. CASE LoadEntry \/ DrainMask
      BY <3>1 DEF LoadEntry, DrainMask, memVars, Arrived, Drained
    <3>2. ASSUME NEW o \in StoreOrders, RecordEvent(o) PROVE mem' = mem /\ Arrived' = Arrived
      <4>1. TypeOK /\ PosFollows /\ EntryPicked /\ StoresInOrder
        BY DEF IInv, MemInv
      <4>2. Arrived' = Arrived
        BY <3>2, <4>1, StoresIssued
      <4>. QED
        BY <3>2, <4>2 DEF RecordEvent, memVars
    <3>. QED
      BY <1>3, <3>1, <3>2 DEF Tracer
  <2>2. \A k \in 1 .. Arrived : mem[Slot(k)].func \in Nat /\ mem[Slot(k)].cycle \in Nat
    BY <1>1, NextToArrive DEF NeverBack, MemInv, TypeOK, TracerTypeOK, Entry
  <2>. QED
    BY <1>1, <2>1, <2>2
<1>. QED
  BY <1>2, <1>3

\* A step of the traced thread or of its memory leaves a full copy sound.
LEMMA FullUnderTracer ==
  ASSUME IInv, MemInv, FullInv, Tracer \/ DrainStore \/ DrainMask PROVE FullInv'
<1>0. UNCHANGED snapVars
  BY DEF Tracer, LoadEntry, RecordEvent, DrainStore, DrainMask
<1>1. Arrived \in Nat /\ seen \in Int /\ TypeOK
  BY NextToArrive DEF IInv, TypeOK, SnapperTypeOK
<1>2. /\ Arrived <= Arrived' /\ Arrived' \in Int
      /\ \A k \in 1 .. Arrived : /\ mem[Slot(k)].func <= mem'[Slot(k)].func
                                 /\ mem[Slot(k)].cycle <= mem'[Slot(k)].cycle
                                 /\ mem'[Slot(k)].func \in Nat /\ mem'[Slot(k)].cycle \in Nat
  BY MemoryForward
<1>3. ASSUME CopiedAsWritten, seen <= Arrived PROVE CopiedAsWritten'
  <2>. SUFFICES ASSUME NEW k \in 1 .. seen, Slot(k) < Len(snap)
                PROVE  /\ snap[Slot(k) + 1].func \in k .. mem'[Slot(k)].func
                       /\ snap[Slot(k) + 1].cycle \in k .. mem'[Slot(k)].cycle
    BY <1>0 DEF CopiedAsWritten, Slot, snapVars
  <2>1. /\ snap[Slot(k) + 1].func \in k .. mem[Slot(k)].func
        /\ snap[Slot(k) + 1].cycle \in k .. mem[Slot(k)].cycle
    BY <1>3 DEF CopiedAsWritten
  <2>2. k \in 1 .. Arrived
    BY <1>1, <1>3
  <2>3. mem[Slot(k)].func \in Nat /\ mem[Slot(k)].cycle \in Nat
    BY <1>1, <2>2, NextToArrive DEF NeverBack, MemInv, TypeOK, TracerTypeOK, Entry
  <2>. QED
    BY <1>2, <2>1, <2>2, <2>3
<1>4. seen' <= Arrived'
  BY <1>0, <1>1, <1>2 DEF FullInv, snapVars
<1>. QED
  BY <1>0, <1>3, <1>4 DEF FullInv, snapVars

\* The snapshotting thread's own steps: only copying an entry extends the copy.
LEMMA FullUnderSnapper ==
  ASSUME IInv, MemInv, FullInv, Snapper PROVE FullInv'
<1>0. /\ TypeOK /\ StoresInOrder /\ mem \in [Slots -> Entry] /\ seen \in Int
      /\ todo \in Seq(Slots) /\ snap \in Seq(Entry) /\ Arrived \in Nat
      /\ mem' = mem /\ Arrived' = Arrived
  <2>1. TypeOK /\ StoresInOrder /\ UNCHANGED <<bufVars, memVars>>
    BY SnapperFrame DEF IInv, MemInv
  <2>2. Arrived' = Arrived
    BY <2>1 DEF Arrived, Drained, bufVars
  <2>3. Arrived \in Nat
    BY <2>1, Counts
  <2>. QED
    BY <2>1, <2>2, <2>3 DEF TypeOK, TracerTypeOK, SnapperTypeOK, memVars
<1>1. ASSUME NEW op \in Ops, NEW t \in 0 .. clock + 1, Pause(op, t) PROVE FullInv'
  <2>1. seen' = Arrived /\ req' = [op |-> op, time |-> t] /\ snap' = <<>>
    BY <1>0, <1>1, PublishedIs DEF Pause
  <2>2. CASE op = "full"
    <3>1. spc' = "copy" /\ todo' = [i \in 1 .. N |-> i - 1]
      BY <1>1, <2>2 DEF Pause, AllSlots
    <3>2. CopiedAsWritten'
      <4>. SUFFICES ASSUME NEW k \in 1 .. Arrived PROVE ~(Slot(k) < 0)
        BY <2>1 DEF CopiedAsWritten, Slot
      <4>. QED
        BY NextToArrive DEF IInv, Slots
    <3>. QED
      BY <1>0, <2>1, <3>1, <3>2 DEF FullInv
  <2>3. CASE op # "full"
    BY <1>0, <1>1, <2>1, <2>3 DEF Pause, FullInv
  <2>. QED
    BY <2>2, <2>3
<1>2. CASE ReadPos
  BY <1>0, <1>2, PublishedIs DEF ReadPos, FullInv
<1>3. CASE TakePauseTime \/ CheckWraparound \/ Probe \/ SearchedRight \/ SearchedLeft
  BY <1>0, <1>3 DEF TakePauseTime, CheckWraparound, Probe, SearchedRight, SearchedLeft, FullInv
<1>4. CASE CopyEntry
  <2>1. /\ spc = "copy" /\ spc' = "copy" /\ req' = req /\ seen' = seen /\ todo # <<>>
        /\ snap' = Append(snap, mem[Head(todo)]) /\ todo' = Tail(todo)
    BY <1>4 DEF CopyEntry
  <2>2. CASE req.op # "full"
    BY <1>0, <2>1, <2>2 DEF FullInv
  <2>3. CASE req.op = "full"
    <3>1. /\ Len(snap) \in Nat /\ Len(todo) \in Nat /\ Len(todo) >= 1
          /\ Head(todo) = todo[1] /\ todo[1] \in Slots
          /\ Len(todo') = Len(todo) - 1 /\ \A j \in 1 .. Len(todo) - 1 : todo'[j] = todo[j + 1]
      BY <1>0, <2>1, HeadTailProperties
    <3>2. /\ Len(snap) + Len(todo) = N
          /\ \A j \in 1 .. Len(todo) : todo[j] = Len(snap) + j - 1
          /\ CopiedAsWritten /\ seen <= Arrived
      BY <2>1, <2>3 DEF FullInv
    <3>3. todo[1] = Len(snap)
      BY <3>1, <3>2
    <3>4. /\ Len(snap') = Len(snap) + 1
          /\ \A i \in 1 .. Len(snap) : snap'[i] = snap[i]
          /\ snap'[Len(snap) + 1] = mem[Len(snap)]
      BY <1>0, <2>1, <3>1, <3>3, AppendProperties
    <3>5. CopiedAsWritten'
      <4>. SUFFICES ASSUME NEW k \in 1 .. seen, Slot(k) < Len(snap) + 1
                    PROVE  /\ snap'[Slot(k) + 1].func \in k .. mem[Slot(k)].func
                           /\ snap'[Slot(k) + 1].cycle \in k .. mem[Slot(k)].cycle
        BY <1>0, <2>1, <3>4 DEF CopiedAsWritten, Slot
      <4>1. k \in 1 .. Arrived /\ Slot(k) \in Slots
        BY <1>0, <3>2, NextToArrive DEF IInv
      <4>2. CASE Slot(k) < Len(snap)
        <5>1. /\ snap[Slot(k) + 1].func \in k .. mem[Slot(k)].func
              /\ snap[Slot(k) + 1].cycle \in k .. mem[Slot(k)].cycle
          BY <3>2, <4>2 DEF CopiedAsWritten
        <5>2. Slot(k) + 1 \in 1 .. Len(snap)
          BY <3>1, <4>1, <4>2 DEF Slots
        <5>. QED
          BY <3>4, <5>1, <5>2
      <4>3. CASE Slot(k) = Len(snap)
        <5>1. /\ mem[Slot(k)].func \in k .. Arrived + 1 /\ mem[Slot(k)].cycle \in k .. Arrived + 1
          BY <4>1 DEF MemInv, NeverBack
        <5>. QED
          BY <1>0, <3>4, <4>1, <4>3, <5>1
      <4>. QED
        BY <3>1, <4>1, <4>2, <4>3 DEF Slots
    <3>6. Len(snap') + Len(todo') = N
      BY <3>1, <3>2, <3>4
    <3>7. \A j \in 1 .. Len(todo') : todo'[j] = Len(snap') + j - 1
      <4>. SUFFICES ASSUME NEW j \in 1 .. Len(todo) - 1 PROVE todo'[j] = Len(snap') + j - 1
        BY <3>1
      <4>1. j + 1 \in 1 .. Len(todo) /\ j \in 1 .. Len(todo) - 1
        BY <3>1
      <4>2. todo'[j] = todo[j + 1] /\ todo[j + 1] = Len(snap) + (j + 1) - 1
        BY <3>1, <3>2, <4>1
      <4>. QED
        BY <3>1, <3>4, <4>2
    <3>. QED
      BY <1>0, <2>1, <2>3, <3>2, <3>5, <3>6, <3>7 DEF FullInv
  <2>. QED
    BY <2>2, <2>3
<1>5. CASE Resume
  BY <1>0, <1>5 DEF Resume, FullInv, CopiedAsWritten, Slot
<1>6. CASE Return
  BY <1>0, <1>6 DEF Return, FullInv
<1>. QED
  BY <1>1, <1>2, <1>3, <1>4, <1>5, <1>6 DEF Snapper

\* What a full snapshot has copied, at every step of every execution.
LEMMA FullFollows == Spec => [](IInv /\ MemInv /\ FullInv)
<1>1. Init => FullInv
  <2>. SUFFICES ASSUME Init PROVE FullInv
    OBVIOUS
  <2>1. Arrived \in Nat
    BY InitIInv, InitMemInv, NextToArrive DEF IInv
  <2>. QED
    BY <2>1 DEF Init, FullInv
<1>2. IInv /\ MemInv /\ FullInv /\ [Next]_vars => FullInv'
  <2>1. IInv /\ MemInv /\ FullInv /\ UNCHANGED vars => FullInv'
    BY DEF vars, bufVars, memVars, snapVars, FullInv, CopiedAsWritten, Slot, Arrived, Drained
  <2>. QED
    BY <2>1, FullUnderTracer, FullUnderSnapper DEF Next, Tracer, Memory
<1>. QED
  BY <1>1, <1>2, MemoryFollows, PTL DEF Spec

\* A full snapshot has every event that was published when it began and that
\* the buffer still holds when it ends, although the traced thread may write
\* over any of them while it is copied.
THEOREM FullSnapshotKeepsPublished == Spec => []FullKeepsPublished
<1>1. IInv /\ MemInv /\ FullInv => FullKeepsPublished
  <2>. SUFFICES ASSUME IInv, MemInv, FullInv, Copied, req.op = "full",
                       NEW k \in 1 .. seen, Holds(k)
                PROVE  InSnap(k)
    BY DEF FullKeepsPublished
  <2>1. Len(snap) = N /\ CopiedAsWritten /\ seen <= Arrived
    BY DEF Copied, FullInv, IInv, TypeOK, SnapperTypeOK
  <2>2. Arrived \in Nat /\ Slot(k) \in Slots
    <3>1. Arrived \in Nat /\ seen \in Int
      BY NextToArrive DEF IInv, TypeOK, SnapperTypeOK
    <3>2. k \in 1 .. Arrived
      BY <2>1, <3>1
    <3>. QED
      BY <3>1, <3>2, NextToArrive DEF IInv
  <2>3. mem[Slot(k)] = [func |-> k, cycle |-> k]
    BY DEF Holds, Slot, Event
  <2>4. /\ snap[Slot(k) + 1].func \in k .. k /\ snap[Slot(k) + 1].cycle \in k .. k
        /\ Slot(k) + 1 \in 1 .. Len(snap)
    BY <2>1, <2>2, <2>3 DEF CopiedAsWritten, Slots
  <2>5. snap \in Seq(Entry) /\ snap[Slot(k) + 1] \in Entry /\ DOMAIN snap = 1 .. Len(snap)
    BY <2>4 DEF IInv, TypeOK, SnapperTypeOK
  <2>6. snap[Slot(k) + 1].func = k /\ snap[Slot(k) + 1].cycle = k
    BY <2>4
  <2>7. snap[Slot(k) + 1] = Event(k)
    BY <2>5, <2>6 DEF Entry, Event
  <2>. QED
    BY <2>4, <2>5, <2>7 DEF InSnap
<1>. QED
  BY <1>1, FullFollows, PTL

------------------------------------------------------------------------------
(* Entries that were not written, in either order of an entry's two words.  *)

FuncWritten(i) == mem[i].func # 0

\* The entries left of pos were written, and all of them once N events have
\* arrived.  The last entry's cycle, which allocate() zeroed, tells whether the
\* entries before it were; it was too, or was given the cycle of its first
\* event, the Nth.
WrittenByPos ==
  /\ \A i \in 0 .. mpos - 1 : FuncWritten(i)
  /\ Arrived >= N => \A i \in Slots : FuncWritten(i)
  /\ Wraparound => \A i \in Slots : i # N - 1 => FuncWritten(i)
  /\ Wraparound /\ ~FuncWritten(N - 1) =>
       mem[N - 1].cycle = N /\ "cycle_first" \in StoreOrders

\* The last entry as it may be read.
HalfLast == HalfStored(mem[N - 1])
Readable(i) == FuncWritten(i) \/ (i = N - 1 /\ HalfLast)

\* What a snapshot since a time goes on to read was written, but for the func of
\* the last entry.
ReadsWritten ==
  /\ spc \notin {"copy", "resumed"} => snap = <<>>
  /\ req.op = "since" =>
       /\ spc \in {"posread", "right", "left", "copy"} => \A i \in 0 .. spos - 1 : FuncWritten(i)
       /\ spc = "posread" /\ seen >= N => \A i \in Slots : FuncWritten(i)
       /\ spc = "right" => \A i \in Slots : Readable(i)
       /\ spc \in {"left", "copy"} /\ earliest.right # None => \A i \in Slots : Readable(i)
       /\ spc = "copy" =>
            \A j \in 1 .. Len(todo) :
              FuncWritten(todo[j]) \/ (HalfLast /\ todo[j] = N - 1 /\ Len(snap) + j = LastAt)
       /\ spc \in {"copy", "resumed"} =>
            \A i \in 1 .. Len(snap) : snap[i].func # 0 \/ (i = LastAt /\ HalfStored(snap[i]))

InitInv == WrittenByPos /\ ReadsWritten

\* The last entry's first event is the Nth.
LEMMA FirstInLast == ASSUME NEW k \in 1 .. N, Slot(k) = N - 1 PROVE k = N
<1>. DEFINE r == k - 1
<1>1. r \in 0 .. N - 1
  OBVIOUS
<1>. HIDE DEF r
<1>2. r % N = r
  BY <1>1
<1>3. r = N - 1
  BY <1>2 DEF Slot, r
<1>. QED
  BY <1>3 DEF r

\* A store that arrives writes an entry; it never clears one, and the
\* last entry keeps its first event's cycle until it has a func.
LEMMA ArrivalWrites ==
  ASSUME IInv, MemInv, WrittenByPos, DrainStore
  PROVE  /\ WrittenByPos'
         /\ \A i \in Slots : FuncWritten(i) => FuncWritten(i)'
         /\ mem[N - 1].cycle = N => FuncWritten(N - 1)' \/ mem'[N - 1].cycle = N
<1>. DEFINE k == Arrived + 1
            s == Slot(k)
<1>0. TypeOK /\ mem \in [Slots -> Entry] /\ StoresInOrder /\ WrittenSoFar /\ mpos \in 0 .. N
  BY DEF IInv, TypeOK, TracerTypeOK, MemInv
<1>1. /\ Arrived \in Nat /\ s \in Slots /\ s = Wrap(mpos) /\ N - 1 \in Slots
  BY <1>0, NextToArrive DEF Slots
<1>2. FirstWord(k, s) \/ SecondWord(k, s) \/ NewPos(k, s)
  BY <1>0, StoreArrives
<1>. HIDE DEF k, s
<1>3. k \in Nat /\ k # 0 /\ k = Arrived + 1 /\ s = Slot(k)
  BY <1>1 DEF k, s
<1>7. s = N - 1 => mpos = N - 1
  BY <1>0, <1>1 DEF Wrap
<1>8. s = N - 1 /\ ~FuncWritten(N - 1) => k = N
  <2>1. SUFFICES ASSUME s = N - 1, ~FuncWritten(N - 1) PROVE k = N
    OBVIOUS
  <2>2. ~(Arrived >= N)
    BY <1>1, <2>1 DEF WrittenByPos
  <2>3. k \in 1 .. N
    BY <1>1, <1>3, <2>2
  <2>. QED
    BY <1>3, <2>1, <2>3, FirstInLast
<1>4. CASE FirstWord(k, s)
  <2>1. PICK o \in StoreOrders :
          /\ mpos' = mpos /\ Arrived' = Arrived
          /\ IF o = "func_first" THEN mem' = [mem EXCEPT ![s].func = k]
                                 ELSE mem' = [mem EXCEPT ![s].cycle = k]
    BY <1>4 DEF FirstWord
  <2>2. /\ [mem EXCEPT ![s].func = k]  = [mem EXCEPT ![s] = [func |-> k, cycle |-> mem[s].cycle]]
        /\ [mem EXCEPT ![s].cycle = k] = [mem EXCEPT ![s] = [func |-> mem[s].func, cycle |-> k]]
    BY <1>0, <1>1, <1>3, WordArrives
  <2>3. CASE o = "func_first"
    <3>1. mem' = [mem EXCEPT ![s] = [func |-> k, cycle |-> mem[s].cycle]]
      BY <2>1, <2>2, <2>3
    <3>2. \A i \in Slots : /\ mem'[i].func = k \/ mem'[i].func = mem[i].func
                           /\ mem'[i].cycle = mem[i].cycle
      BY <1>0, <1>1, <3>1
    <3>3. \A i \in Slots : FuncWritten(i) => FuncWritten(i)'
      BY <1>3, <3>2 DEF FuncWritten
    <3>4. mem'[N - 1].cycle = mem[N - 1].cycle
      BY <1>1, <3>2
    <3>5. \A i \in 0 .. mpos - 1 : i \in Slots
      BY <1>0 DEF Slots
    <3>. QED
      BY <1>1, <2>1, <3>3, <3>4, <3>5 DEF WrittenByPos, Wraparound
  <2>4. CASE o # "func_first"
    <3>0. "cycle_first" \in StoreOrders
      BY <2>1, <2>4, StoreOrdersAssumption
    <3>1. mem' = [mem EXCEPT ![s] = [func |-> mem[s].func, cycle |-> k]]
      BY <2>1, <2>2, <2>4
    <3>2. /\ \A i \in Slots : mem'[i].func = mem[i].func
          /\ s # N - 1 => mem'[N - 1].cycle = mem[N - 1].cycle
          /\ s = N - 1 => mem'[N - 1].cycle = k
      BY <1>0, <1>1, <3>1
    <3>3. \A i \in Slots : FuncWritten(i)' <=> FuncWritten(i)
      BY <3>2 DEF FuncWritten
    <3>5. \A i \in 0 .. mpos - 1 : i \in Slots
      BY <1>0 DEF Slots
    <3>6. /\ \A i \in 0 .. mpos' - 1 : FuncWritten(i)'
          /\ Arrived' >= N => \A i \in Slots : FuncWritten(i)'
      BY <2>1, <3>3, <3>5 DEF WrittenByPos
    <3>7. CASE s # N - 1
      BY <1>1, <3>2, <3>3, <3>6, <3>7 DEF WrittenByPos, Wraparound
    <3>8. CASE s = N - 1
      <4>1. \A i \in Slots : i # N - 1 => FuncWritten(i)
        BY <1>7, <3>8 DEF WrittenByPos, Slots
      <4>2. ~FuncWritten(N - 1) => mem'[N - 1].cycle = N
        BY <1>8, <3>2, <3>8
      <4>. QED
        BY <1>1, <3>0, <3>3, <3>6, <4>1, <4>2 DEF WrittenByPos
    <3>. QED
      BY <3>7, <3>8
  <2>. QED
    BY <2>3, <2>4
<1>5. CASE SecondWord(k, s)
  <2>1. mem' = [mem EXCEPT ![s] = [func |-> k, cycle |-> k]] /\ mpos' = mpos /\ Arrived' = Arrived
    BY <1>5 DEF SecondWord, Event
  <2>2. /\ \A i \in Slots : mem'[i].func = k \/ mem'[i].func = mem[i].func
        /\ mem'[s].func = k
        /\ \A i \in Slots : i # s => mem'[i] = mem[i]
    BY <1>0, <1>1, <2>1
  <2>3. \A i \in Slots : FuncWritten(i) => FuncWritten(i)'
    BY <1>3, <2>2 DEF FuncWritten
  <2>4. mem'[s].func # 0
    BY <1>3, <2>2
  <2>5. \A i \in 0 .. mpos - 1 : i \in Slots
    BY <1>0 DEF Slots
  <2>6. /\ \A i \in 0 .. mpos' - 1 : FuncWritten(i)'
        /\ Arrived' >= N => \A i \in Slots : FuncWritten(i)'
    BY <2>1, <2>3, <2>5 DEF WrittenByPos
  <2>7. CASE s = N - 1
    <3>1. \A i \in Slots : i # N - 1 => FuncWritten(i)
      BY <1>7, <2>7 DEF WrittenByPos, Slots
    <3>. QED
      BY <2>3, <2>4, <2>6, <2>7, <3>1 DEF WrittenByPos, FuncWritten
  <2>8. CASE s # N - 1
    <3>1. mem'[N - 1] = mem[N - 1]
      BY <1>1, <2>2, <2>8
    <3>. QED
      BY <1>1, <2>3, <2>6, <3>1 DEF WrittenByPos, Wraparound
  <2>. QED
    BY <2>7, <2>8
<1>6. CASE NewPos(k, s)
  <2>1. mem' = mem /\ mpos' = s + 1 /\ Arrived' = k /\ mem[s] = [func |-> k, cycle |-> k]
    BY <1>0, <1>3, <1>6 DEF NewPos, WrittenSoFar, Event
  <2>2. \A i \in 0 .. s : FuncWritten(i)
    <3>. SUFFICES ASSUME NEW i \in 0 .. s PROVE FuncWritten(i)
      OBVIOUS
    <3>1. CASE i = s
      BY <1>3, <2>1, <3>1 DEF FuncWritten
    <3>2. CASE i # s
      <4>1. i \in 0 .. mpos - 1
        BY <1>0, <1>1, <3>2 DEF Wrap, Slots
      <4>. QED
        BY <4>1 DEF WrittenByPos
    <3>. QED
      BY <3>1, <3>2
  <2>3. \A i \in Slots : FuncWritten(i)' <=> FuncWritten(i)
    BY <2>1 DEF FuncWritten
  <2>4. ASSUME k >= N, NEW i \in Slots PROVE FuncWritten(i)
    <3>1. CASE Arrived >= N
      BY <2>4, <3>1 DEF WrittenByPos
    <3>2. CASE ~(Arrived >= N)
      <4>1. k = N
        BY <1>1, <1>3, <2>4, <3>2
      <4>2. s = N - 1
        <5>. DEFINE r == N - 1
        <5>1. r \in 0 .. N - 1
          OBVIOUS
        <5>2. r % N = r
          <6>. HIDE DEF r
          <6>. QED BY <5>1
        <5>. QED
          BY <1>3, <4>1, <5>2 DEF Slot
      <4>3. i \in 0 .. s
        BY <4>2 DEF Slots
      <4>. QED
        BY <2>2, <4>3
    <3>. QED
      BY <3>1, <3>2
  <2>5. \A i \in 0 .. mpos' - 1 : i \in 0 .. s /\ i \in Slots
    BY <1>1, <2>1 DEF Slots
  <2>6. \A i \in 0 .. mpos' - 1 : FuncWritten(i)'
    BY <2>2, <2>3, <2>5
  <2>7. Arrived' >= N => \A i \in Slots : FuncWritten(i)'
    BY <2>1, <2>3, <2>4
  <2>8. Wraparound' <=> Wraparound
    BY <2>1 DEF Wraparound
  <2>. QED
    BY <1>1, <2>1, <2>3, <2>6, <2>7, <2>8 DEF WrittenByPos
<1>. QED
  BY <1>2, <1>4, <1>5, <1>6

\* While memory changes under it a snapshot still reads what it may.
LEMMA InitUnderTracer ==
  ASSUME IInv, MemInv, InitInv, Tracer \/ DrainStore \/ DrainMask
  PROVE  InitInv'
<1>0. UNCHANGED snapVars
  BY DEF Tracer, LoadEntry, RecordEvent, DrainStore, DrainMask
<1>1. /\ WrittenByPos' /\ \A i \in Slots : FuncWritten(i) => FuncWritten(i)'
      /\ mem[N - 1].cycle = N => FuncWritten(N - 1)' \/ mem'[N - 1].cycle = N
  <2>1. CASE DrainStore
    BY <2>1, ArrivalWrites DEF InitInv
  <2>2. CASE Tracer \/ DrainMask
    <3>1. mem' = mem /\ mpos' = mpos
      BY <2>2 DEF Tracer, LoadEntry, RecordEvent, DrainMask, memVars
    <3>2. Arrived' = Arrived
      <4>1. ASSUME NEW o \in StoreOrders, RecordEvent(o) PROVE Arrived' = Arrived
        BY <4>1, StoresIssued DEF IInv, MemInv
      <4>2. CASE LoadEntry \/ DrainMask
        BY <4>2 DEF LoadEntry, DrainMask, Arrived, Drained
      <4>. QED
        BY <2>2, <4>1, <4>2 DEF Tracer
    <3>. QED
      BY <3>1, <3>2 DEF InitInv, WrittenByPos, Wraparound, FuncWritten
  <2>. QED
    BY <2>1, <2>2
<1>2. /\ \A j \in 1 .. Len(todo) : todo[j] \in Slots
      /\ \A i \in 0 .. spos - 1 : i \in Slots
  BY DEF IInv, TypeOK, SnapperTypeOK, Slots
<1>3. HalfLast => HalfLast' \/ FuncWritten(N - 1)'
  <2>1. seen' = seen
    BY <1>0 DEF snapVars
  <2>. QED
    BY <1>1, <2>1 DEF HalfLast, HalfStored, FuncWritten
<1>4. N - 1 \in Slots
  BY DEF Slots
<1>5. /\ seen' = seen /\ snap' = snap /\ todo' = todo /\ LastAt' = LastAt /\ spc' = spc
      /\ req' = req /\ spos' = spos /\ earliest' = earliest
  BY <1>0 DEF snapVars, LastAt
<1>6. ASSUME req.op = "since", spc = "copy", NEW j \in 1 .. Len(todo)
      PROVE  FuncWritten(todo[j])' \/ (HalfLast' /\ todo[j] = N - 1 /\ Len(snap) + j = LastAt)
  <2>1. FuncWritten(todo[j]) \/ (HalfLast /\ todo[j] = N - 1 /\ Len(snap) + j = LastAt)
    BY <1>6 DEF InitInv, ReadsWritten
  <2>. QED
    BY <1>1, <1>2, <1>3, <1>5, <2>1 DEF FuncWritten
<1>7. \A i \in Slots : Readable(i) => Readable(i)'
  BY <1>1, <1>3 DEF Readable
<1>8. \A i \in 1 .. Len(snap) : HalfStored(snap[i])' <=> HalfStored(snap[i])
  BY <1>5 DEF HalfStored
<1>9. ReadsWritten'
  BY <1>1, <1>2, <1>5, <1>6, <1>7, <1>8 DEF InitInv, ReadsWritten
<1>. QED
  BY <1>1, <1>9 DEF InitInv

\* The slots listed from p on are slots from p on.
LEMMA SlotsListed ==
  ASSUME NEW p \in Slots \cup {None}, NEW last \in 0 .. N
  PROVE  /\ p = None => Len(SlotsFrom(p, last)) = 0
         /\ p # None => /\ Len(SlotsFrom(p, last)) = IF p <= last THEN last - p ELSE 0
                        /\ \A i \in 1 .. Len(SlotsFrom(p, last)) :
                             SlotsFrom(p, last)[i] = p + i - 1 /\ p + i - 1 \in p .. last - 1
<1>1. CASE p = None
  BY <1>1 DEF SlotsFrom
<1>2. CASE p # None
  <2>1. p \in 0 .. N - 1 /\ SlotsFrom(p, last) = [i \in 1 .. last - p |-> p + i - 1]
    BY <1>2 DEF SlotsFrom, Slots
  <2>2. CASE p <= last
    <3>1. last - p \in Nat
      BY <2>1, <2>2
    <3>. QED
      BY <1>2, <2>1, <2>2, <3>1
  <2>3. CASE p > last
    <3>1. 1 .. last - p = {}
      BY <2>1, <2>3
    <3>2. SlotsFrom(p, last) = <<>>
      BY <2>1, <3>1
    <3>3. Len(SlotsFrom(p, last)) = 0
      BY <3>2
    <3>. HIDE DEF SlotsFrom
    <3>4. ~(p <= last) /\ 1 .. 0 = {}
      BY <2>1, <2>3
    <3>. QED
      BY <1>2, <3>3, <3>4
  <2>4. p <= last \/ p > last
    BY <2>1
  <2>. QED
    BY <2>2, <2>3, <2>4
<1>. QED
  BY <1>1, <1>2

\* The end of the two searches: the slots to copy are those right of pos, if
\* any was found there, and then those left of it.
LEMMA ToCopy ==
  ASSUME IInv, SearchedLeft
  PROVE  LET R == SlotsFrom(earliest.right, N)
             L == SlotsFrom(SearchResult, spos)
         IN  /\ todo' = R \o L /\ R \in Seq(Slots) /\ L \in Seq(Slots)
             /\ Len(todo') = Len(R) + Len(L) /\ Len(R) \in Nat /\ Len(L) \in Nat
             /\ \A i \in 1 .. Len(R) + Len(L) :
                  todo'[i] = IF i <= Len(R) THEN R[i] ELSE L[i - Len(R)]
<1>. DEFINE R == SlotsFrom(earliest.right, N)
            L == SlotsFrom(SearchResult, spos)
<1>1. /\ earliest.right \in Slots \cup {None} /\ N \in 0 .. N /\ spos \in 0 .. N
      /\ SearchResult \in Slots \cup {None}
  BY SearchResultType DEF IInv, TypeOK, SnapperTypeOK, SearchedLeft
<1>2. R \in Seq(Slots) /\ L \in Seq(Slots)
  BY <1>1, SlotsFromType
<1>3. todo' = R \o L
  BY DEF SearchedLeft
<1>. HIDE DEF R, L
<1>4. /\ Len(R \o L) = Len(R) + Len(L) /\ Len(R) \in Nat /\ Len(L) \in Nat
      /\ \A i \in 1 .. Len(R) + Len(L) : (R \o L)[i] = IF i <= Len(R) THEN R[i] ELSE L[i - Len(R)]
  BY <1>2, ConcatProperties
<1>. QED
  BY <1>2, <1>3, <1>4 DEF R, L

\* The snapshotting thread chooses and copies what it may.
LEMMA InitUnderSnapper ==
  ASSUME IInv, MemInv, InitInv, Snapper PROVE InitInv'
<1>0. /\ mem' = mem /\ mpos' = mpos /\ Arrived' = Arrived
      /\ todo \in Seq(Slots) /\ snap \in Seq(Entry) /\ spos \in 0 .. N /\ seen \in Int
      /\ earliest \in [right : Slots \cup {None}, left : Slots \cup {None}]
      /\ mem \in [Slots -> Entry] /\ N - 1 \in Slots
      /\ \A i \in 0 .. spos - 1 : i \in Slots
  BY SnapperFrame DEF IInv, TypeOK, TracerTypeOK, SnapperTypeOK, memVars, bufVars, Arrived, Drained,
                      Slots
<1>w. WrittenByPos' /\ \A i \in Slots : FuncWritten(i)' <=> FuncWritten(i)
  BY <1>0 DEF InitInv, WrittenByPos, FuncWritten, Wraparound
<1>r. ReadsWritten
  BY DEF InitInv
<1>g. SUFFICES ReadsWritten'
  BY <1>w DEF InitInv
<1>1. ASSUME NEW op \in Ops, NEW t \in 0 .. clock + 1, Pause(op, t) PROVE ReadsWritten'
  <2>1. /\ spc' \in {"copy", "paused"} /\ snap' = <<>>
        /\ req'.op = "since" => spc' = "paused"
    BY <1>1 DEF Pause
  <2>. QED
    BY <2>1 DEF ReadsWritten
<1>2. CASE TakePauseTime
  <2>1. spc = "paused" /\ spc' = "timed" /\ snap' = snap
    BY <1>2 DEF TakePauseTime
  <2>. QED
    BY <1>r, <2>1 DEF ReadsWritten
<1>3. CASE ReadPos
  <2>1. spc = "timed" /\ spc' = "posread" /\ snap' = snap /\ spos' = mpos /\ seen' = Published
    BY <1>3 DEF ReadPos
  <2>2. seen' = Arrived
    BY <2>1, PublishedIs DEF IInv, MemInv
  <2>3. /\ \A i \in 0 .. spos' - 1 : FuncWritten(i)
        /\ seen' >= N => \A i \in Slots : FuncWritten(i)
    BY <2>1, <2>2 DEF InitInv, WrittenByPos
  <2>. QED
    BY <1>0, <1>r, <2>1, <2>3 DEF ReadsWritten, FuncWritten
<1>4. CASE CheckWraparound
  <2>1. /\ spc = "posread" /\ snap' = snap /\ spos' = spos /\ seen' = seen /\ req' = req
        /\ earliest'.right = None
        /\ spc' = "left" \/ (spc' = "right" /\ Wraparound)
    BY <1>4 DEF CheckWraparound
  <2>2. ASSUME req.op = "since", Wraparound, NEW i \in Slots PROVE Readable(i)
    <3>1. CASE ~FuncWritten(i)
      <4>1. i = N - 1 /\ mem[i].cycle = N /\ "cycle_first" \in StoreOrders
        BY <1>0, <2>2, <3>1 DEF InitInv, WrittenByPos
      <4>2. ~(seen >= N)
        BY <1>r, <2>1, <2>2, <3>1 DEF ReadsWritten
      <4>3. seen < N
        BY <1>0, <4>2
      <4>. QED
        BY <3>1, <4>1, <4>3 DEF Readable, HalfLast, HalfStored, FuncWritten
    <3>. QED
      BY <3>1 DEF Readable
  <2>3. \A i \in Slots : Readable(i)' <=> Readable(i)
    BY <1>0, <2>1 DEF Readable, HalfLast, HalfStored, FuncWritten
  <2>. QED
    BY <1>0, <1>r, <1>w, <2>1, <2>2, <2>3 DEF ReadsWritten
<1>5. CASE Probe \/ SearchedRight
  <2>1. /\ spc \in {"right", "left"} /\ spc' \in {"right", "left"} /\ snap' = snap
        /\ spos' = spos /\ seen' = seen /\ req' = req
        /\ spc' = "right" => spc = "right"
        /\ earliest'.right # None => spc = "right" \/ earliest.right # None
    BY <1>0, <1>5 DEF Probe, SearchedRight
  <2>3. \A i \in Slots : Readable(i)' <=> Readable(i)
    BY <1>0, <2>1 DEF Readable, HalfLast, HalfStored, FuncWritten
  <2>. QED
    BY <1>0, <1>r, <1>w, <2>1, <2>3 DEF ReadsWritten
<1>7. CASE SearchedLeft
  <2>. DEFINE R == SlotsFrom(earliest.right, N)
              L == SlotsFrom(SearchResult, spos)
  <2>1. /\ todo' = R \o L /\ R \in Seq(Slots) /\ L \in Seq(Slots)
        /\ Len(todo') = Len(R) + Len(L) /\ Len(R) \in Nat /\ Len(L) \in Nat
        /\ \A i \in 1 .. Len(R) + Len(L) :
             todo'[i] = IF i <= Len(R) THEN R[i] ELSE L[i - Len(R)]
    BY <1>7, ToCopy
  <2>2. SearchResult \in Slots \cup {None}
    BY <1>7, SearchResultType DEF IInv, TypeOK, SearchedLeft
  <2>3. ASSUME req.op = "since"
        PROVE  /\ earliest.right # None => \A i \in Slots : Readable(i)
               /\ \A i \in 0 .. spos - 1 : FuncWritten(i)
    BY <1>7, <1>r, <2>3 DEF SearchedLeft, ReadsWritten
  <2>4. ASSUME req.op = "since", NEW j \in 1 .. Len(R)
        PROVE  FuncWritten(R[j]) \/ (HalfLast /\ R[j] = N - 1 /\ j = LastAt)
    <3>0. earliest.right \in Slots \cup {None} /\ N \in 0 .. N
      BY <1>0
    <3>1. earliest.right # None
      <4>1. earliest.right = None => Len(R) = 0
        BY <3>0, SlotsListed
      <4>. QED
        BY <2>4, <4>1
    <3>2. R[j] \in Slots /\ R[j] = earliest.right + j - 1
      BY <2>1, <2>4, <3>0, <3>1, SlotsListed
    <3>3. FuncWritten(R[j]) \/ (R[j] = N - 1 /\ HalfLast)
      BY <2>3, <2>4, <3>1, <3>2 DEF Readable
    <3>4. R[j] = N - 1 => j = LastAt
      <4>1. earliest.right \in 0 .. N - 1
        BY <3>0, <3>1 DEF Slots
      <4>. HIDE DEF R
      <4>. QED
        BY <3>1, <3>2, <4>1 DEF LastAt
    <3>. QED
      BY <3>3, <3>4
  <2>5. ASSUME req.op = "since", NEW j \in 1 .. Len(L) PROVE FuncWritten(L[j])
    <3>1. SearchResult # None
      <4>1. SearchResult = None => Len(L) = 0
        BY <1>0, <2>2, SlotsListed
      <4>. QED
        BY <2>5, <4>1
    <3>2. L[j] \in SearchResult .. spos - 1
      BY <1>0, <2>2, <3>1, SlotsListed
    <3>3. L[j] \in 0 .. spos - 1
      BY <2>2, <3>1, <3>2 DEF Slots
    <3>. QED
      BY <2>3, <2>5, <3>3
  <2>. HIDE DEF R, L
  <2>6. ASSUME req.op = "since", NEW j \in 1 .. Len(todo')
        PROVE  mem[todo'[j]].func # 0 \/ (HalfLast /\ todo'[j] = N - 1 /\ j = LastAt)
    <3>1. CASE j <= Len(R)
      <4>1. j \in 1 .. Len(R) /\ todo'[j] = R[j]
        BY <2>1, <3>1
      <4>. QED
        BY <2>4, <2>6, <4>1 DEF FuncWritten
    <3>2. CASE ~(j <= Len(R))
      <4>1. j - Len(R) \in 1 .. Len(L) /\ todo'[j] = L[j - Len(R)]
        BY <2>1, <3>2
      <4>. QED
        BY <2>5, <2>6, <4>1 DEF FuncWritten
    <3>. QED
      BY <3>1, <3>2
  <2>7. /\ req' = req /\ spos' = spos /\ snap' = snap /\ spc' = "copy" /\ spc = "left"
        /\ earliest'.right = earliest.right /\ seen' = seen
    BY <1>0, <1>7 DEF SearchedLeft
  <2>8. snap' = <<>> /\ Len(snap') = 0 /\ \A j \in 1 .. Len(todo') : Len(snap') + j = j
    BY <1>r, <2>7 DEF ReadsWritten
  <2>9. /\ \A i \in Slots : Readable(i)' <=> Readable(i)
        /\ HalfLast' <=> HalfLast
        /\ LastAt' = LastAt
    BY <1>0, <2>7 DEF Readable, HalfLast, HalfStored, FuncWritten, LastAt
  <2>10. ASSUME req.op = "since", NEW j \in 1 .. Len(todo')
         PROVE  \/ FuncWritten(todo[j])'
                \/ HalfLast' /\ todo'[j] = N - 1 /\ Len(snap') + j = LastAt'
    <3>1. mem[todo'[j]].func # 0 \/ (HalfLast /\ todo'[j] = N - 1 /\ j = LastAt)
      BY <2>6, <2>10
    <3>2. Len(snap') + j = j /\ mem' = mem
      BY <1>0, <2>8, <2>10
    <3>3. CASE mem[todo'[j]].func # 0
      BY <3>2, <3>3 DEF FuncWritten
    <3>4. CASE HalfLast /\ todo'[j] = N - 1 /\ j = LastAt
      BY ONLY <2>9, <3>2, <3>4
    <3>. QED
      BY <3>1, <3>3, <3>4
  <2>. QED
    BY <1>w, <2>3, <2>7, <2>8, <2>9, <2>10, <1>0 DEF ReadsWritten
<1>8. CASE CopyEntry
  <2>1. /\ spc = "copy" /\ spc' = "copy" /\ req' = req /\ spos' = spos /\ earliest' = earliest
        /\ seen' = seen
        /\ todo # <<>> /\ snap' = Append(snap, mem[Head(todo)]) /\ todo' = Tail(todo)
    BY <1>8 DEF CopyEntry
  <2>2. /\ Len(snap) \in Nat /\ Len(todo) \in Nat /\ Len(todo) >= 1
        /\ Head(todo) = todo[1] /\ todo[1] \in Slots
        /\ Len(todo') = Len(todo) - 1 /\ \A j \in 1 .. Len(todo) - 1 : todo'[j] = todo[j + 1]
    BY <1>0, <2>1, HeadTailProperties
  <2>3. /\ Len(snap') = Len(snap) + 1
        /\ \A i \in 1 .. Len(snap) : snap'[i] = snap[i]
        /\ snap'[Len(snap) + 1] = mem[todo[1]]
    BY <1>0, <2>1, <2>2, AppendProperties
  <2>4. ASSUME req.op = "since", NEW j \in 1 .. Len(todo)
        PROVE  mem[todo[j]].func # 0 \/ (HalfLast /\ todo[j] = N - 1 /\ Len(snap) + j = LastAt)
    BY <1>r, <2>1, <2>4 DEF ReadsWritten, FuncWritten
  <2>5. /\ \A i \in Slots : Readable(i)' <=> Readable(i)
        /\ HalfLast' <=> HalfLast
        /\ LastAt' = LastAt
    BY <1>0, <2>1 DEF Readable, HalfLast, HalfStored, FuncWritten, LastAt
  <2>6. ASSUME req.op = "since", NEW j \in 1 .. Len(todo')
        PROVE  \/ FuncWritten(todo[j])'
               \/ HalfLast' /\ todo'[j] = N - 1 /\ Len(snap') + j = LastAt'
    <3>1. /\ j + 1 \in 1 .. Len(todo) /\ todo'[j] = todo[j + 1]
          /\ Len(snap') + j = Len(snap) + (j + 1)
      BY <2>2, <2>3
    <3>2. \/ mem[todo[j + 1]].func # 0
          \/ HalfLast /\ todo[j + 1] = N - 1 /\ Len(snap) + (j + 1) = LastAt
      BY <2>4, <2>6, <3>1
    <3>3. CASE mem[todo[j + 1]].func # 0
      BY <1>0, <3>1, <3>3 DEF FuncWritten
    <3>4. CASE HalfLast /\ todo[j + 1] = N - 1 /\ Len(snap) + (j + 1) = LastAt
      BY ONLY <2>5, <3>1, <3>4
    <3>. QED
      BY <3>2, <3>3, <3>4
  <2>7. ASSUME req.op = "since", NEW i \in 1 .. Len(snap')
        PROVE  snap'[i].func # 0 \/ (i = LastAt' /\ HalfStored(snap[i])')
    <3>1. CASE i = Len(snap) + 1
      <4>1. 1 \in 1 .. Len(todo)
        BY <2>2
      <4>2. mem[todo[1]].func # 0 \/ (HalfLast /\ todo[1] = N - 1 /\ i = LastAt)
        BY <2>4, <2>7, <3>1, <4>1
      <4>3. snap'[i] = mem[todo[1]]
        BY <2>3, <3>1
      <4>4. HalfLast /\ todo[1] = N - 1 => HalfStored(snap[i])'
        BY <2>1, <4>3 DEF HalfLast, HalfStored
      <4>. QED
        BY ONLY <2>5, <4>2, <4>3, <4>4
    <3>2. CASE i # Len(snap) + 1
      <4>1. i \in 1 .. Len(snap)
        BY <2>2, <2>3, <3>2
      <4>2. snap'[i] = snap[i] /\ (snap[i].func # 0 \/ (i = LastAt /\ HalfStored(snap[i])))
        BY <1>r, <2>1, <2>3, <2>7, <4>1 DEF ReadsWritten
      <4>3. HalfStored(snap[i]) => HalfStored(snap[i])'
        BY <2>1, <4>2 DEF HalfStored
      <4>. QED
        BY ONLY <2>5, <4>2, <4>3
    <3>. QED
      BY <3>1, <3>2
  <2>8. \A i \in Slots : Readable(i) => Readable(i)'
    BY <2>5
  <2>. QED
    BY <1>0, <1>r, <1>w, <2>1, <2>6, <2>7, <2>8 DEF ReadsWritten
<1>9. CASE Resume
  <2>1. /\ spc = "copy" /\ spc' = "resumed" /\ snap' = snap /\ req' = req /\ seen' = seen
        /\ LastAt' = LastAt
    BY <1>9 DEF Resume, LastAt
  <2>2. \A i \in 1 .. Len(snap) : HalfStored(snap[i])' <=> HalfStored(snap[i])
    BY <2>1 DEF HalfStored
  <2>. QED
    BY <1>r, <2>1, <2>2 DEF ReadsWritten
<1>10. CASE Return
  <2>1. spc' = "idle" /\ snap' = <<>>
    BY <1>10 DEF Return
  <2>. QED
    BY <2>1 DEF ReadsWritten
<1>. QED
  BY <1>w, <1>1, <1>2, <1>3, <1>4, <1>5, <1>7, <1>8, <1>9, <1>10 DEF Snapper, InitInv

\* Whatever the order of an entry's two stores, a snapshot since a time returns
\* no entry that was not written, although only the cycle of the last entry was
\* ever cleared: except, where cycle is stored first, the last entry without
\* its func, while the Nth event is on its way to memory.
THEOREM SnapshotReadsWritten == Spec => []NoUninitialised
<1>1. Init => InitInv
  <2>. SUFFICES ASSUME Init PROVE InitInv
    OBVIOUS
  <2>1. mem = buf /\ mpos = 0 /\ N - 1 \in Slots
    BY DEF Init, Slots
  <2>2. ~Wraparound
    BY <2>1 DEF Init, Wraparound
  <2>3. ~(Arrived >= N)
    <3>1. clock = 0 /\ Len(sb) = 0
      BY DEF Init
    <3>2. Drained = 0
      BY <3>1 DEF Drained
    <3>3. Arrived = 0
      BY <3>2 DEF Arrived
    <3>. QED
      BY <3>3
  <2>4. spc = "idle" /\ snap = <<>> /\ req.op = "none"
    BY DEF Init
  <2>. QED
    BY <2>1, <2>2, <2>3, <2>4 DEF InitInv, WrittenByPos, ReadsWritten
<1>2. IInv /\ MemInv /\ InitInv /\ [Next]_vars => InitInv'
  <2>1. InitInv /\ UNCHANGED vars => InitInv'
    BY DEF vars, bufVars, memVars, snapVars, InitInv, WrittenByPos, ReadsWritten, FuncWritten,
           Wraparound, Readable, HalfLast, HalfStored, LastAt, Arrived, Drained
  <2>. QED
    BY <2>1, InitUnderTracer, InitUnderSnapper DEF Next, Tracer, Memory
<1>3. IInv /\ InitInv => NoUninitialised
  <2>. SUFFICES ASSUME IInv, InitInv, Copied, req.op = "since", NEW i \in DOMAIN snap
                PROVE  snap[i].func # 0 \/ (i = LastAt /\ HalfStored(snap[i]))
    BY DEF NoUninitialised
  <2>1. i \in 1 .. Len(snap)
    BY DEF IInv, TypeOK, SnapperTypeOK
  <2>. QED
    BY <2>1 DEF InitInv, ReadsWritten, Copied
<1>. QED
  BY <1>1, <1>2, <1>3, MemoryFollows, PTL DEF Spec

------------------------------------------------------------------------------
(* A snapshot of a thread that has come to rest.                            *)

\* Where the stores to wraparound_mask are, from one call to the next.
Handshake ==
  /\ spc = "idle" => mask = "on" /\ maskq = <<>>
  /\ spc \notin {"idle", "resumed"} =>
       \/ mask = "on" /\ maskq = <<"off">>
       \/ mask = "off" /\ maskq = <<>>
  /\ spc = "resumed" =>
       \/ mask = "on" /\ maskq = <<"off", "on">>
       \/ mask = "off" /\ maskq = <<"on">>
       \/ mask = "on" /\ maskq = <<>>

\* A snapshot since a time whose pause found the traced thread at rest: until
\* tracing is resumed the thread stays so.
Still == quiet /\ req.op = "since" /\ spc \in {"timed", "posread", "right", "left", "copy"}

AtRest ==
  /\ Still => /\ entry = None /\ sb = <<>> /\ mask = "off" /\ maskq = <<>>
              /\ pauseTime = clock
  /\ Still /\ spc # "timed" => spos = pos /\ seen = clock

\* The threshold find_earliest_event_after() in effect compares with, and the
\* first event of the snapshot.
From  == IF req.time > pauseTime THEN 0 ELSE req.time
First == IF req.time > pauseTime \/ req.time < Oldest(seen) THEN Oldest(seen) ELSE req.time

\* The number of the event in slot i of the range searched, less i.
RightOffset == clock - spos + 1 - N
LeftOffset  == clock - spos + 1
Offset      == IF spc = "right" THEN RightOffset ELSE LeftOffset

\* r is the first slot of lo .. hi - 1 whose event is not before the threshold.
FoundFrom(r, lo, hi, off) ==
  IF r = None THEN lo = hi \/ hi - 1 + off < From
  ELSE r \in lo .. hi - 1 /\ (r > lo => r - 1 + off < From) /\ r + off >= From

SearchExact ==
  /\ spc \in {"right", "left"} =>
       /\ SearchStart <= search.first
       /\ search.first > SearchStart => search.first - 1 + Offset < From
       /\ search.first + search.len < search.last =>
            search.first + search.len + Offset >= From
  /\ spc = "right" => clock >= N
  /\ spc \in {"left", "copy"} =>
       IF clock >= N THEN FoundFrom(earliest.right, spos, N, RightOffset)
                     ELSE earliest.right = None

\* What is still to be copied, and what was copied.
CopyExact ==
  /\ Still /\ spc = "copy" =>
       /\ Len(snap) + Len(todo) = seen - First + 1
       /\ \A j \in 1 .. Len(todo) : mem[todo[j]] = Event(First + Len(snap) + j - 1)
  /\ spc \in {"copy", "resumed"} /\ req.op = "since" /\ quiet =>
       /\ \A i \in 1 .. Len(snap) : snap[i] = Event(First + i - 1)
       /\ spc = "resumed" => Len(snap) = seen - First + 1
  /\ spc \notin {"copy", "resumed"} => snap = <<>>

QuietInv == Handshake /\ AtRest /\ (Still => SearchExact) /\ CopyExact

\* pos is one past the slot of the last event; before the first wraparound it
\* is the number of events.
LEMMA AfterIs ==
  ASSUME NEW k \in Nat
  PROVE  After(k) \in 0 .. N /\ After(k) <= k /\ (k <= N => After(k) = k) /\ (k > 0 => After(k) > 0)
<1>1. CASE k = 0
  BY <1>1 DEF After
<1>2. CASE k > 0
  <2>. DEFINE a == k - 1
              q == a \div N
              r == a % N
  <2>1. a \in Nat /\ q \in Nat /\ r \in 0 .. N - 1 /\ a = N * q + r
    <3>1. a \in Nat /\ N > 0
      BY <1>2
    <3>. HIDE DEF a
    <3>. QED
      BY <3>1, Divided
  <2>2. After(k) = r + 1 /\ k = a + 1
    BY <1>2 DEF After, Slot
  <2>. HIDE DEF a, q, r
  <2>3. N * q >= 0 /\ N * q \in Int
    BY <2>1
  <2>4. ASSUME a < N PROVE r = a
    <3>1. a \in 0 .. N - 1 /\ 0 \in Nat /\ N * q + r = N * 0 + a /\ N > 0
      BY <2>1, <2>4
    <3>. QED
      BY <2>1, <3>1, OneRemainder
  <2>. QED
    BY <2>1, <2>2, <2>3, <2>4
<1>. QED
  BY <1>1, <1>2

\* Memory once every store has arrived: the events in order to the left of
\* pos and, once the buffer is full, to the right of it.
LEMMA MemoryAtRest ==
  ASSUME IInv, MemInv, sb = <<>>
  PROVE  /\ pos \in 0 .. N /\ clock \in Nat /\ pos <= clock /\ (clock <= N => pos = clock)
         /\ (clock > 0 => pos > 0) /\ mpos = pos /\ Published = clock
         /\ Wraparound <=> clock >= N
         /\ \A i \in 0 .. pos - 1 : mem[i] = Event(i + (clock - pos + 1))
         /\ clock >= N => \A i \in pos .. N - 1 : mem[i] = Event(i + (clock - pos + 1 - N))
<1>1. /\ TypeOK /\ StoresInOrder /\ clock \in Nat /\ Drained = 3 * clock /\ Arrived = clock
      /\ pos = After(clock) /\ mpos = pos
  BY Counts DEF IInv, MemInv, PosFollows
<1>2. /\ pos \in 0 .. N /\ pos <= clock /\ (clock <= N => pos = clock) /\ (clock > 0 => pos > 0)
  BY <1>1, AfterIs
<1>3. Published = clock
  BY <1>1, PublishedIs
<1>4. \A i \in Slots : IF ArrivedAt(i) >= 1 THEN mem[i] = Event(ArrivedAt(i))
                                            ELSE i = N - 1 => mem[i].cycle = 0
  BY <1>1 DEF MemInv, LastArrived
<1>5. ASSUME NEW i \in 0 .. pos - 1 PROVE mem[i] = Event(i + (clock - pos + 1))
  <2>1. i \in Slots /\ ArrivedAt(i) = i + (clock - pos + 1) /\ ArrivedAt(i) >= 1
    BY <1>1, <1>2 DEF ArrivedAt, Slots
  <2>. QED
    BY <1>4, <2>1
<1>6. ASSUME clock >= N, NEW i \in pos .. N - 1 PROVE mem[i] = Event(i + (clock - pos + 1 - N))
  <2>1. i \in Slots /\ ArrivedAt(i) = i + (clock - pos + 1 - N) /\ ArrivedAt(i) >= 1
    BY <1>1, <1>2, <1>6 DEF ArrivedAt, Slots
  <2>. QED
    BY <1>4, <2>1
<1>7. Wraparound <=> clock >= N
  <2>0. N - 1 \in Slots
    BY DEF Slots
  <2>1. CASE clock >= N
    <3>1. ArrivedAt(N - 1) >= 1
      BY <1>1, <1>2, <2>1 DEF ArrivedAt
    <3>2. mem[N - 1].cycle = ArrivedAt(N - 1)
      <4>1. mem[N - 1] = Event(ArrivedAt(N - 1))
        BY <1>4, <2>0, <3>1
      <4>. QED
        BY <4>1 DEF Event
    <3>. QED
      BY <2>1, <3>1, <3>2 DEF Wraparound
  <2>2. CASE clock < N
    <3>1. ArrivedAt(N - 1) = 0
      BY <1>1, <1>2, <2>2 DEF ArrivedAt
    <3>2. mem[N - 1].cycle = 0
      BY <1>4, <2>0, <3>1
    <3>. QED
      BY <1>1, <2>2, <3>2 DEF Wraparound
  <2>. QED
    BY <1>1, <2>1, <2>2
<1>. QED
  BY <1>1, <1>2, <1>3, <1>5, <1>6, <1>7

\* The traced thread cannot run and nothing arrives while it is at rest.
LEMMA QuietUnderTracer ==
  ASSUME IInv, QuietInv, Tracer \/ DrainStore \/ DrainMask PROVE QuietInv'
<1>0. UNCHANGED snapVars
  BY DEF Tracer, LoadEntry, RecordEvent, DrainStore, DrainMask
<1>1. Handshake'
  <2>1. CASE DrainMask
    <3>1. maskq # <<>> /\ mask' = Head(maskq) /\ maskq' = Tail(maskq) /\ spc' = spc
      BY <1>0, <2>1 DEF DrainMask, snapVars
    <3>2. CASE maskq = <<"off">>
      BY <3>1, <3>2 DEF QuietInv, Handshake
    <3>3. CASE maskq = <<"off", "on">>
      <4>1. Head(maskq) = "off" /\ Tail(maskq) = <<"on">>
        BY <3>3
      <4>. QED
        BY <3>1, <3>3, <4>1 DEF QuietInv, Handshake
    <3>4. CASE maskq = <<"on">>
      BY <3>1, <3>4 DEF QuietInv, Handshake
    <3>. QED
      BY <3>1, <3>2, <3>3, <3>4 DEF QuietInv, Handshake, IInv, TypeOK, SnapperTypeOK
  <2>2. CASE Tracer \/ DrainStore
    BY <1>0, <2>2 DEF Tracer, LoadEntry, RecordEvent, DrainStore, QuietInv, Handshake,
                      maskVars, snapVars
  <2>. QED
    BY <2>1, <2>2
<1>2. ~Still
  BY DEF QuietInv, AtRest, Tracer, LoadEntry, RecordEvent, DrainStore, DrainMask
<1>3. ~Still'
  BY <1>0, <1>2 DEF Still, snapVars
<1>4. AtRest'
  BY <1>3 DEF AtRest
<1>5. CopyExact'
  BY <1>0, <1>3 DEF QuietInv, CopyExact, First, Oldest, snapVars
<1>. QED
  BY <1>1, <1>3, <1>4, <1>5 DEF QuietInv

\* The comparator, for an event that is not later than the pause.
LEMMA BeforeIs ==
  ASSUME NEW c \in Nat, req.time \in Nat, pauseTime \in Nat, c <= pauseTime
  PROVE  Before(c) <=> c < From
<1>1. CASE req.time > pauseTime
  BY <1>1 DEF Before, From
<1>2. CASE req.time <= pauseTime
  BY <1>2 DEF Before, From
<1>. QED
  BY <1>1, <1>2

\* The result of a search that has ended.
LEMMA SearchEnds ==
  ASSUME IInv, Still => SearchExact, Still, spc \in {"right", "left"}, search.len = 0
  PROVE  FoundFrom(SearchResult, SearchStart, search.last, Offset)
<1>1. /\ SearchStart <= search.first
      /\ search.first > SearchStart => search.first - 1 + Offset < From
      /\ search.first + search.len < search.last => search.first + search.len + Offset >= From
  BY DEF SearchExact
<1>2. /\ search.first \in 0 .. N /\ search.last \in 0 .. N /\ search.first + search.len <= search.last
      /\ spos \in 0 .. N /\ clock \in Nat /\ req.time \in Nat
  BY DEF IInv, TypeOK, TracerTypeOK, SnapperTypeOK, SearchInBounds
<1>3. SearchStart \in 0 .. N /\ Offset \in Int /\ From \in Nat
  BY <1>2 DEF SearchStart, Offset, RightOffset, LeftOffset, From
<1>4. CASE search.first = search.last
  <2>1. SearchResult = None
    BY <1>4 DEF SearchResult
  <2>2. SearchStart = search.last \/ search.last - 1 + Offset < From
    BY <1>1, <1>2, <1>3, <1>4
  <2>. QED
    BY <2>1, <2>2 DEF FoundFrom
<1>5. CASE search.first # search.last
  <2>1. SearchResult = search.first /\ search.first # None
    BY <1>2, <1>5 DEF SearchResult
  <2>2. /\ search.first \in SearchStart .. search.last - 1
        /\ search.first > SearchStart => search.first - 1 + Offset < From
        /\ search.first + Offset >= From
    BY <1>1, <1>2, <1>3, <1>5
  <2>. QED
    BY <2>1, <2>2 DEF FoundFrom
<1>. QED
  BY <1>4, <1>5

\* A probe of memory at rest compares the number of the event in the slot.
LEMMA ProbeExact ==
  ASSUME IInv, MemInv, QuietInv, Still, Probe
  PROVE  SearchExact'
<1>. DEFINE half   == search.len \div 2
            middle == search.first + half
<1>0. /\ spc \in {"right", "left"} /\ search.len > 0
      /\ \/ Before(mem[middle].cycle) /\ search' = [search EXCEPT !.first = middle + 1, !.len = @ - half - 1]
         \/ ~Before(mem[middle].cycle) /\ search' = [search EXCEPT !.len = half]
      /\ UNCHANGED <<spc, req, pauseTime, spos, earliest, clock>>
  BY DEF Probe, bufVars
<1>1. /\ search \in [first : 0 .. N, len : 0 .. N, last : 0 .. N]
      /\ search.first \in 0 .. N /\ search.last \in 0 .. N /\ search.len \in 0 .. N
      /\ search.first + search.len <= search.last
      /\ (spc = "left" => search.last = spos) /\ (spc = "right" => search.last = N)
      /\ req.time \in Nat /\ pauseTime \in Nat
  BY DEF IInv, TypeOK, SnapperTypeOK, SearchInBounds
<1>2. half \in Nat /\ half < search.len
  BY <1>0, <1>1, Halving
<1>3. /\ sb = <<>> /\ pauseTime = clock /\ spos = pos /\ SearchExact
  BY <1>0 DEF QuietInv, AtRest
<1>4. /\ pos \in 0 .. N /\ clock \in Nat /\ pos <= clock
      /\ \A i \in 0 .. pos - 1 : mem[i] = Event(i + (clock - pos + 1))
      /\ clock >= N => \A i \in pos .. N - 1 : mem[i] = Event(i + (clock - pos + 1 - N))
  BY <1>3, MemoryAtRest
<1>5. SearchStart <= search.first /\ SearchStart \in 0 .. N /\ Offset \in Int /\ From \in Nat
  BY <1>0, <1>1, <1>3, <1>4 DEF SearchStart, SearchExact, Offset, RightOffset, LeftOffset, From
<1>6. /\ middle \in Int /\ SearchStart <= middle /\ middle <= search.last - 1
      /\ SearchStart \in Nat /\ search.last \in Nat
  <2>1. /\ search.first \in Nat /\ search.len \in Nat /\ search.last \in Nat /\ SearchStart \in Nat
        /\ search.first + search.len <= search.last /\ SearchStart <= search.first
    BY <1>1, <1>5
  <2>. QED
    BY ONLY <1>2, <2>1
<1>. HIDE DEF half, middle
<1>7. mem[middle].cycle = middle + Offset /\ middle + Offset \in 0 .. clock
  <2>1. CASE spc = "right"
    <3>1. /\ middle \in pos .. N - 1 /\ clock >= N
      <4>1. SearchStart = pos /\ search.last = N
        BY <1>1, <1>3, <2>1 DEF SearchStart
      <4>2. clock >= N
        BY <1>3, <2>1 DEF SearchExact
      <4>. QED
        BY ONLY <1>6, <4>1, <4>2
    <3>2. mem[middle] = Event(middle + (clock - pos + 1 - N))
      BY <1>4, <3>1
    <3>3. Offset = clock - pos + 1 - N
      BY <1>3, <2>1 DEF Offset, RightOffset
    <3>4. middle + (clock - pos + 1 - N) \in 0 .. clock
      BY <1>4, <3>1
    <3>. QED
      BY <3>2, <3>3, <3>4 DEF Event
  <2>2. CASE spc = "left"
    <3>1. middle \in 0 .. pos - 1
      <4>1. search.last = pos
        BY <1>1, <1>3, <2>2
      <4>. QED
        BY ONLY <1>6, <4>1
    <3>2. mem[middle] = Event(middle + (clock - pos + 1))
      BY <1>4, <3>1
    <3>3. Offset = clock - pos + 1
      BY <1>3, <2>2 DEF Offset, LeftOffset
    <3>4. middle + (clock - pos + 1) \in 0 .. clock
      BY <1>4, <3>1
    <3>. QED
      BY <3>2, <3>3, <3>4 DEF Event
  <2>. QED
    BY <1>0, <2>1, <2>2
<1>8. Before(mem[middle].cycle) <=> middle + Offset < From
  <2>1. middle + Offset \in Nat /\ middle + Offset <= pauseTime
    BY <1>3, <1>4, <1>7
  <2>. QED
    BY <1>1, <1>7, <2>1, BeforeIs
<1>9. /\ search.first > SearchStart => search.first - 1 + Offset < From
      /\ search.first + search.len < search.last => search.first + search.len + Offset >= From
  BY <1>0, <1>3 DEF SearchExact
<1>10. /\ SearchStart' = SearchStart /\ Offset' = Offset /\ From' = From
       /\ spc' \in {"right", "left"} /\ spc' = spc /\ spos' = spos /\ clock' = clock /\ earliest' = earliest
       /\ RightOffset' = RightOffset
  BY <1>0 DEF SearchStart, Offset, RightOffset, LeftOffset, From
<1>. USE DEF middle
<1>11. /\ SearchStart <= search'.first
       /\ search'.first > SearchStart => search'.first - 1 + Offset < From
       /\ search'.first + search'.len < search'.last => search'.first + search'.len + Offset >= From
  <2>1. CASE Before(mem[middle].cycle)
    <3>1. search' = [search EXCEPT !.first = middle + 1, !.len = @ - half - 1]
      BY <1>0, <2>1
    <3>2. search' = [first |-> middle + 1, len |-> search.len - half - 1, last |-> search.last]
      BY <1>1, <3>1
    <3>3. middle + Offset < From /\ middle + 1 + (search.len - half - 1) = search.first + search.len
      BY <1>1, <1>2, <1>8, <2>1
    <3>. QED
      BY <1>1, <1>2, <1>5, <1>9, <3>2, <3>3
  <2>2. CASE ~Before(mem[middle].cycle)
    <3>1. search' = [search EXCEPT !.len = half]
      BY <1>0, <2>2
    <3>2. search' = [first |-> search.first, len |-> half, last |-> search.last]
      BY <1>1, <3>1
    <3>3. middle + Offset >= From
      BY <1>1, <1>2, <1>5, <1>8, <2>2
    <3>. QED
      BY <1>1, <1>2, <1>5, <1>9, <3>2, <3>3
  <2>. QED
    BY <2>1, <2>2
<1>12. /\ spc = "right" => clock >= N
       /\ spc = "left" => IF clock >= N THEN FoundFrom(earliest.right, spos, N, RightOffset)
                                        ELSE earliest.right = None
  BY <1>3 DEF SearchExact
<1>. QED
  BY <1>0, <1>10, <1>11, <1>12 DEF SearchExact, FoundFrom

\* The first event of a snapshot at rest.
LEMMA FirstIs ==
  ASSUME IInv, pauseTime = clock, seen = clock
  PROVE  /\ From \in 0 .. clock /\ clock \in Nat
         /\ First = IF From < Oldest(clock) THEN Oldest(clock) ELSE From
         /\ Oldest(clock) = IF clock > N THEN clock - N + 1 ELSE 1
<1>1. req.time \in Nat /\ clock \in Nat
  BY DEF IInv, TypeOK, TracerTypeOK, SnapperTypeOK
<1>. QED
  BY <1>1 DEF From, First, Oldest

\* The events found right and left of pos are, together, all those from the
\* first one on.
LEMMA RangesMeet ==
  ASSUME IInv, MemInv, QuietInv, Still, SearchedLeft
  PROVE  LET R == SlotsFrom(earliest.right, N)
             L == SlotsFrom(SearchResult, spos)
         IN  /\ Len(R) + Len(L) = clock - First + 1
             /\ \A j \in 1 .. Len(R) : mem[R[j]] = Event(First + j - 1)
             /\ \A j \in 1 .. Len(L) : mem[L[j]] = Event(First + Len(R) + j - 1)
<1>. DEFINE R == SlotsFrom(earliest.right, N)
            L == SlotsFrom(SearchResult, spos)
            r == earliest.right
            l == SearchResult
            rOff == clock - pos + 1 - N
            lOff == clock - pos + 1
<1>0. /\ spc = "left" /\ search.len = 0 /\ search.last = spos
      /\ r \in Slots \cup {None} /\ l \in Slots \cup {None}
      /\ sb = <<>> /\ pauseTime = clock /\ spos = pos /\ seen = clock
      /\ SearchExact /\ N \in 0 .. N
  <2>1. spc = "left" /\ search.len = 0
    BY DEF SearchedLeft
  <2>2. /\ search.last = spos /\ earliest \in [right : Slots \cup {None}, left : Slots \cup {None}]
        /\ SnapperTypeOK /\ SearchInBounds
    BY <2>1 DEF IInv, TypeOK, SnapperTypeOK, SearchInBounds
  <2>. QED
    BY <2>1, <2>2, SearchResultType DEF QuietInv, AtRest
<1>1. /\ pos \in 0 .. N /\ clock \in Nat /\ pos <= clock /\ (clock <= N => pos = clock)
      /\ (clock > 0 => pos > 0)
      /\ \A i \in 0 .. pos - 1 : mem[i] = Event(i + lOff)
      /\ clock >= N => \A i \in pos .. N - 1 : mem[i] = Event(i + rOff)
  BY <1>0, MemoryAtRest
<1>2. /\ From \in 0 .. clock
      /\ First = IF From < Oldest(clock) THEN Oldest(clock) ELSE From
      /\ Oldest(clock) = IF clock > N THEN clock - N + 1 ELSE 1
  BY <1>0, FirstIs
<1>3. /\ r = None => Len(R) = 0
      /\ r # None => Len(R) = N - r /\ \A i \in 1 .. Len(R) : R[i] = r + i - 1
  <2>1. r # None => r \in 0 .. N - 1
    BY <1>0 DEF Slots
  <2>2. /\ r = None => Len(R) = 0
        /\ r # None => /\ Len(R) = IF r <= N THEN N - r ELSE 0
                       /\ \A i \in 1 .. Len(R) : R[i] = r + i - 1
    <3>1. r \in Slots \cup {None} /\ N \in 0 .. N
      BY <1>0
    <3>. QED
      BY <3>1, SlotsListed
  <2>. QED
    BY <2>1, <2>2
<1>4. /\ l = None => Len(L) = 0
      /\ l # None => /\ Len(L) = IF l <= pos THEN pos - l ELSE 0
                     /\ \A i \in 1 .. Len(L) : L[i] = l + i - 1
  <2>1. l \in Slots \cup {None} /\ pos \in 0 .. N /\ spos = pos
    BY <1>0, <1>1
  <2>. HIDE DEF l
  <2>2. /\ l = None => Len(SlotsFrom(l, pos)) = 0
        /\ l # None => /\ Len(SlotsFrom(l, pos)) = IF l <= pos THEN pos - l ELSE 0
                       /\ \A i \in 1 .. Len(SlotsFrom(l, pos)) : SlotsFrom(l, pos)[i] = l + i - 1
    BY <2>1, SlotsListed
  <2>. QED
    BY <2>1, <2>2 DEF l
<1>5. FoundFrom(l, 0, pos, lOff)
  <2>1. SearchStart = 0 /\ Offset = lOff
    BY <1>0 DEF SearchStart, Offset, LeftOffset
  <2>. QED
    BY <1>0, <2>1, SearchEnds DEF QuietInv
<1>6. IF clock >= N THEN FoundFrom(r, pos, N, rOff) ELSE r = None
  BY <1>0 DEF SearchExact, RightOffset
<1>7. IF l = None THEN 0 = pos \/ pos - 1 + lOff < From
      ELSE l \in 0 .. pos - 1 /\ (l > 0 => l - 1 + lOff < From) /\ l + lOff >= From
  BY <1>5 DEF FoundFrom
<1>8. clock >= N => IF r = None THEN pos = N \/ N - 1 + rOff < From
                    ELSE r \in pos .. N - 1 /\ (r > pos => r - 1 + rOff < From) /\ r + rOff >= From
  BY <1>6 DEF FoundFrom
<1>. HIDE DEF R, L, r, l
<1>9. CASE r # None
  <2>1. /\ clock >= N /\ r \in pos .. N - 1 /\ (r > pos => r - 1 + rOff < From) /\ r + rOff >= From
    BY <1>6, <1>8, <1>9
  <2>2. First = r + rOff
    BY <1>1, <1>2, <2>1
  <2>3. IF l = None THEN pos = 0 ELSE l = 0
    BY <1>1, <1>2, <1>7, <2>1
  <2>4. Len(R) = N - r /\ Len(L) = pos
    BY <1>1, <1>3, <1>4, <1>9, <2>3
  <2>5. Len(R) + Len(L) = clock - First + 1
    BY <1>1, <2>1, <2>2, <2>4
  <2>6. ASSUME NEW j \in 1 .. Len(R) PROVE mem[R[j]] = Event(First + j - 1)
    <3>1. R[j] = r + j - 1 /\ r + j - 1 \in pos .. N - 1 /\ r + j - 1 + rOff = First + j - 1
      BY <1>1, <1>3, <1>9, <2>1, <2>2, <2>4
    <3>. QED
      BY <1>1, <2>1, <3>1
  <2>7. ASSUME NEW j \in 1 .. Len(L) PROVE mem[L[j]] = Event(First + Len(R) + j - 1)
    <3>1. l # None
      BY <1>1, <2>3, <2>4, <2>7
    <3>2. L[j] = j - 1 /\ j - 1 \in 0 .. pos - 1 /\ j - 1 + lOff = First + Len(R) + j - 1
      BY <1>1, <1>4, <2>1, <2>2, <2>3, <2>4, <3>1
    <3>. QED
      BY <1>1, <3>2
  <2>. QED
    BY <2>5, <2>6, <2>7 DEF R, L
<1>10. CASE r = None
  <2>1. Len(R) = 0
    BY <1>3, <1>10
  <2>2. CASE l = None
    <3>1. clock = 0 /\ Len(L) = 0
      BY <1>1, <1>2, <1>4, <1>7, <2>2
    <3>2. First = 1
      BY <1>2, <3>1
    <3>. QED
      BY <2>1, <3>1, <3>2 DEF R, L
  <2>3. CASE l # None
    <3>1. l \in 0 .. pos - 1 /\ (l > 0 => l - 1 + lOff < From) /\ l + lOff >= From
      BY <1>7, <2>3
    <3>2. First = l + lOff
      <4>1. CASE clock >= N
        BY <1>1, <1>2, <1>8, <1>10, <3>1, <4>1
      <4>2. CASE clock < N
        BY <1>1, <1>2, <3>1, <4>2
      <4>. QED
        BY <1>1, <4>1, <4>2
    <3>3. Len(L) = pos - l /\ \A i \in 1 .. Len(L) : L[i] = l + i - 1
      BY <1>1, <1>4, <2>3, <3>1
    <3>4. Len(R) + Len(L) = clock - First + 1
      BY <1>1, <2>1, <3>1, <3>2, <3>3
    <3>5. ASSUME NEW j \in 1 .. Len(L) PROVE mem[L[j]] = Event(First + Len(R) + j - 1)
      <4>1. L[j] = l + j - 1 /\ l + j - 1 \in 0 .. pos - 1 /\ l + j - 1 + lOff = First + Len(R) + j - 1
        BY <1>1, <2>1, <3>1, <3>2, <3>3
      <4>. QED
        BY <1>1, <4>1
    <3>6. \A j \in 1 .. Len(R) : mem[R[j]] = Event(First + j - 1)
      BY <2>1
    <3>. QED
      BY <3>4, <3>5, <3>6 DEF R, L
  <2>. QED
    BY <2>2, <2>3
<1>. QED
  BY <1>9, <1>10 DEF R, L

\* The steps of a call up to the searches.
LEMMA QuietBegins ==
  ASSUME IInv, MemInv, QuietInv,
         \/ \E op \in Ops, t \in 0 .. clock + 1 : Pause(op, t)
         \/ TakePauseTime \/ ReadPos \/ CheckWraparound
  PROVE  QuietInv'
<1>0. /\ SnapperTypeOK /\ UNCHANGED <<bufVars, memVars, mask>>
  BY SnapperFrame DEF Snapper, IInv, TypeOK
<1>1. ASSUME NEW op \in Ops, NEW t \in 0 .. clock + 1, Pause(op, t) PROVE QuietInv'
  <2>1. /\ mask = "on" /\ maskq = <<>> /\ spc = "idle"
        /\ req' = [op |-> op, time |-> t]
        /\ maskq' = <<"off">> /\ mask' = mask /\ snap' = <<>>
        /\ spc' = IF op = "full" THEN "copy" ELSE "paused"
    BY <1>1 DEF Pause, QuietInv, Handshake
  <2>2. ~Still' /\ ~(spc' \in {"copy", "resumed"} /\ req'.op = "since")
    BY <2>1 DEF Still
  <2>3. Handshake'
    BY <2>1 DEF Handshake
  <2>. QED
    BY <2>1, <2>2, <2>3 DEF QuietInv, AtRest, CopyExact
<1>2. CASE TakePauseTime
  <2>1. /\ spc = "paused" /\ spc' = "timed" /\ pauseTime' = clock /\ snap' = snap /\ req' = req
        /\ quiet' = (entry = None /\ sb = <<>> /\ mask = "off")
        /\ mask' = mask /\ maskq' = maskq /\ entry' = entry /\ sb' = sb /\ clock' = clock
    BY <1>2 DEF TakePauseTime, bufVars, maskVars
  <2>2. Handshake'
    BY <2>1 DEF QuietInv, Handshake
  <2>3. AtRest'
    BY <2>1 DEF QuietInv, Handshake, AtRest, Still
  <2>. QED
    BY <2>1, <2>2, <2>3 DEF QuietInv, SearchExact, CopyExact
<1>3. CASE ReadPos
  <2>1. /\ spc = "timed" /\ spc' = "posread" /\ pauseTime' = pauseTime /\ snap' = snap /\ req' = req
        /\ quiet' = quiet /\ spos' = mpos /\ seen' = Published
        /\ mask' = mask /\ maskq' = maskq /\ entry' = entry /\ sb' = sb /\ clock' = clock /\ pos' = pos
    BY <1>3 DEF ReadPos, bufVars, maskVars
  <2>2. Handshake'
    BY <2>1 DEF QuietInv, Handshake
  <2>3. AtRest'
    <3>1. Still' => Still /\ sb = <<>>
      BY <2>1 DEF Still, QuietInv, AtRest
    <3>2. sb = <<>> => mpos = pos /\ Published = clock
      BY MemoryAtRest
    <3>. QED
      BY <2>1, <3>1, <3>2 DEF QuietInv, AtRest
  <2>. QED
    BY <2>1, <2>2, <2>3 DEF QuietInv, SearchExact, CopyExact
<1>4. CASE CheckWraparound
  <2>1. /\ spc = "posread" /\ earliest'.right = None
        /\ \/ Wraparound /\ spc' = "right" /\ search' = SearchIn(spos, N)
           \/ ~Wraparound /\ spc' = "left" /\ search' = SearchIn(0, spos)
        /\ pauseTime' = pauseTime /\ snap' = snap /\ req' = req /\ seen' = seen
        /\ quiet' = quiet /\ spos' = spos
        /\ mask' = mask /\ maskq' = maskq /\ entry' = entry /\ sb' = sb /\ clock' = clock /\ pos' = pos
    BY <1>4 DEF CheckWraparound, bufVars, maskVars
  <2>2. Handshake'
    BY <2>1 DEF QuietInv, Handshake
  <2>3. AtRest'
    BY <2>1 DEF QuietInv, AtRest, Still
  <2>4. Still' => SearchExact'
    <3>. SUFFICES ASSUME Still' PROVE SearchExact'
      OBVIOUS
    <3>1. sb = <<>>
      BY <2>1 DEF Still, QuietInv, AtRest
    <3>2. /\ Wraparound <=> clock >= N
          /\ clock \in Nat /\ spos \in 0 .. N
      BY <1>0, <3>1, MemoryAtRest DEF SnapperTypeOK
    <3>. QED
      BY <2>1, <3>2 DEF SearchExact, SearchIn, SearchStart
  <2>. QED
    BY <2>1, <2>2, <2>3, <2>4 DEF QuietInv, CopyExact
<1>. QED
  BY <1>1, <1>2, <1>3, <1>4

\* The searches.
LEMMA QuietSearches ==
  ASSUME IInv, MemInv, QuietInv, Probe \/ SearchedRight \/ SearchedLeft PROVE QuietInv'
<1>0. /\ mask' = mask /\ maskq' = maskq /\ entry' = entry /\ sb' = sb /\ clock' = clock /\ pos' = pos
      /\ mem' = mem /\ req' = req /\ pauseTime' = pauseTime /\ spos' = spos /\ seen' = seen
      /\ quiet' = quiet /\ snap' = snap
      /\ spc \in {"right", "left"} /\ spc' \in {"right", "left", "copy"}
  BY DEF Probe, SearchedRight, SearchedLeft, bufVars, memVars, maskVars
<1>1. Handshake' /\ AtRest' /\ (Still' => Still) /\ snap = <<>>
  BY <1>0 DEF QuietInv, Handshake, AtRest, Still, CopyExact
<1>2. CASE Probe
  <2>1. spc' = spc
    BY <1>2 DEF Probe
  <2>. QED
    BY <1>0, <1>1, <1>2, <2>1, ProbeExact DEF QuietInv, CopyExact
<1>3. CASE SearchedRight
  <2>1. /\ spc = "right" /\ spc' = "left" /\ search.len = 0
        /\ search' = SearchIn(0, spos)
        /\ earliest' = [earliest EXCEPT !.right = SearchResult]
        /\ earliest \in [right : Slots \cup {None}, left : Slots \cup {None}]
        /\ search.last = N /\ spos \in 0 .. N
    BY <1>3 DEF SearchedRight, IInv, TypeOK, SnapperTypeOK, SearchInBounds
  <2>2. earliest'.right = SearchResult
    BY <2>1
  <2>3. Still' => SearchExact'
    <3>. SUFFICES ASSUME Still' PROVE SearchExact'
      OBVIOUS
    <3>1. FoundFrom(SearchResult, spos, N, RightOffset) /\ clock >= N
      <4>1. SearchStart = spos /\ Offset = RightOffset
        BY <2>1 DEF SearchStart, Offset
      <4>2. FoundFrom(SearchResult, SearchStart, search.last, Offset)
        BY <1>1, <2>1, SearchEnds DEF QuietInv
      <4>. QED
        BY <1>1, <2>1, <4>1, <4>2 DEF QuietInv, SearchExact
    <3>2. FoundFrom(earliest.right, spos, N, RightOffset)'
      BY <1>0, <2>2, <3>1 DEF FoundFrom, From, RightOffset
    <3>. QED
      BY <1>0, <2>1, <3>1, <3>2 DEF SearchExact, SearchIn, SearchStart
  <2>. QED
    BY <1>0, <1>1, <2>1, <2>3 DEF QuietInv, CopyExact
<1>4. CASE SearchedLeft
  <2>. DEFINE R == SlotsFrom(earliest.right, N)
              L == SlotsFrom(SearchResult, spos)
  <2>1. /\ spc = "left" /\ spc' = "copy" /\ earliest'.right = earliest.right
    BY <1>4 DEF SearchedLeft, IInv, TypeOK, SnapperTypeOK
  <2>2. Still' => SearchExact'
    <3>. SUFFICES ASSUME Still' PROVE SearchExact'
      OBVIOUS
    <3>1. IF clock >= N THEN FoundFrom(earliest.right, spos, N, RightOffset)
                        ELSE earliest.right = None
      BY <1>1, <2>1 DEF QuietInv, SearchExact
    <3>. QED
      BY <1>0, <2>1, <3>1 DEF SearchExact, FoundFrom, From, RightOffset
  <2>3. Still' => /\ Len(snap') + Len(todo') = seen' - First' + 1
                  /\ \A j \in 1 .. Len(todo') : mem'[todo'[j]] = Event(First' + Len(snap') + j - 1)
    <3>. SUFFICES ASSUME Still' PROVE  /\ Len(todo') = seen - First + 1
                                       /\ \A j \in 1 .. Len(todo') :
                                            mem[todo'[j]] = Event(First + j - 1)
      <4>1. First' = First /\ Len(snap') = 0
        BY <1>0, <1>1 DEF First, Oldest
      <4>2. Len(todo') \in Nat
        BY <1>4, ToCopy
      <4>3. First \in Int
        BY FirstIs, <1>0, <1>1 DEF First, Oldest, IInv, TypeOK, SnapperTypeOK
      <4>. QED
        BY <1>0, <4>1, <4>2, <4>3
    <3>1. /\ Len(R) + Len(L) = clock - First + 1
          /\ \A j \in 1 .. Len(R) : mem[R[j]] = Event(First + j - 1)
          /\ \A j \in 1 .. Len(L) : mem[L[j]] = Event(First + Len(R) + j - 1)
      BY <1>1, <1>4, RangesMeet
    <3>2. /\ Len(todo') = Len(R) + Len(L) /\ Len(R) \in Nat /\ Len(L) \in Nat
          /\ \A i \in 1 .. Len(R) + Len(L) :
               todo'[i] = IF i <= Len(R) THEN R[i] ELSE L[i - Len(R)]
      BY <1>4, ToCopy
    <3>3. seen = clock /\ First \in Int
      BY <1>1, <2>1 DEF QuietInv, AtRest, First, Oldest, IInv, TypeOK, SnapperTypeOK
    <3>. HIDE DEF R, L
    <3>4. ASSUME NEW j \in 1 .. Len(todo') PROVE mem[todo'[j]] = Event(First + j - 1)
      <4>1. CASE j <= Len(R)
        <5>1. j \in 1 .. Len(R) /\ todo'[j] = R[j]
          BY <3>2, <4>1
        <5>. QED
          BY <3>1, <5>1
      <4>2. CASE ~(j <= Len(R))
        <5>1. j - Len(R) \in 1 .. Len(L) /\ todo'[j] = L[j - Len(R)]
              /\ First + Len(R) + (j - Len(R)) - 1 = First + j - 1
          BY <3>2, <3>3, <4>2
        <5>2. mem[L[j - Len(R)]] = Event(First + Len(R) + (j - Len(R)) - 1)
          BY <3>1, <5>1
        <5>. QED
          BY <5>1, <5>2
      <4>. QED
        BY <4>1, <4>2
    <3>. QED
      BY <3>1, <3>2, <3>3, <3>4
  <2>. QED
    BY <1>0, <1>1, <2>1, <2>2, <2>3 DEF QuietInv, CopyExact
<1>. QED
  BY <1>2, <1>3, <1>4

\* Two stores to wraparound_mask in flight.
LEMMA TwoStores == ASSUME NEW a, NEW b PROVE Append(<<a>>, b) = <<a, b>> /\ Append(<<>>, b) = <<b>>
<1>. DEFINE S == {a, b}
<1>1. Append(<<a>>, b) = <<a, b>>
  <2>. DEFINE q == Append(<<a>>, b)
  <2>1. <<a>> \in Seq(S) /\ b \in S /\ <<a, b>> \in Seq(S)
    OBVIOUS
  <2>2. q \in Seq(S) /\ Len(q) = 2 /\ q[1] = a /\ q[2] = b
    BY <2>1, AppendProperties
  <2>. HIDE DEF q
  <2>3. q = <<a, b>>
    BY <2>1, <2>2
  <2>. QED
    BY <2>3 DEF q
<1>2. Append(<<>>, b) = <<b>>
  <2>. DEFINE q == Append(<<>>, b)
  <2>1. <<>> \in Seq(S) /\ b \in S /\ <<b>> \in Seq(S)
    OBVIOUS
  <2>2. q \in Seq(S) /\ Len(q) = 1 /\ q[1] = b
    BY <2>1, AppendProperties
  <2>. HIDE DEF q
  <2>3. q = <<b>>
    BY <2>1, <2>2
  <2>. QED
    BY <2>3 DEF q
<1>. QED
  BY <1>1, <1>2

\* The copy and the end of the call.
LEMMA QuietEnds ==
  ASSUME IInv, MemInv, QuietInv, CopyEntry \/ Resume \/ Return PROVE QuietInv'
<1>0. /\ mask' = mask /\ entry' = entry /\ sb' = sb /\ clock' = clock /\ pos' = pos
      /\ mem' = mem /\ req' = req /\ pauseTime' = pauseTime /\ spos' = spos /\ seen' = seen
      /\ quiet' = quiet /\ earliest' = earliest
      /\ todo \in Seq(Slots) /\ snap \in Seq(Entry) /\ mem \in [Slots -> Entry]
      /\ First' = First /\ First \in Int /\ seen \in Int
  <2>1. /\ mask' = mask /\ entry' = entry /\ sb' = sb /\ clock' = clock /\ pos' = pos
        /\ mem' = mem /\ req' = req /\ pauseTime' = pauseTime /\ spos' = spos /\ seen' = seen
        /\ quiet' = quiet /\ earliest' = earliest
    BY DEF CopyEntry, Resume, Return, bufVars, memVars, maskVars
  <2>2. /\ todo \in Seq(Slots) /\ snap \in Seq(Entry) /\ mem \in [Slots -> Entry]
        /\ seen \in Int /\ req.time \in Nat
    BY DEF IInv, TypeOK, TracerTypeOK, SnapperTypeOK
  <2>3. First' = First /\ First \in Int
    BY <2>1, <2>2 DEF First, Oldest
  <2>. QED
    BY <2>1, <2>2, <2>3
<1>1. CASE CopyEntry
  <2>1. /\ spc = "copy" /\ spc' = "copy" /\ maskq' = maskq
        /\ todo # <<>> /\ snap' = Append(snap, mem[Head(todo)]) /\ todo' = Tail(todo)
    BY <1>1 DEF CopyEntry, maskVars
  <2>2. Handshake' /\ AtRest' /\ (Still' <=> Still)
    BY <1>0, <2>1 DEF QuietInv, Handshake, AtRest, Still
  <2>3. Still' => SearchExact'
    BY <1>0, <2>1, <2>2 DEF QuietInv, SearchExact, FoundFrom, From, RightOffset
  <2>4. /\ Len(snap) \in Nat /\ Len(todo) \in Nat /\ Len(todo) >= 1
        /\ Head(todo) = todo[1] /\ todo[1] \in Slots
        /\ Len(todo') = Len(todo) - 1 /\ \A j \in 1 .. Len(todo) - 1 : todo'[j] = todo[j + 1]
    BY <1>0, <2>1, HeadTailProperties
  <2>5. /\ Len(snap') = Len(snap) + 1
        /\ \A i \in 1 .. Len(snap) : snap'[i] = snap[i]
        /\ snap'[Len(snap) + 1] = mem[todo[1]]
    BY <1>0, <2>1, <2>4, AppendProperties
  <2>6. Still => /\ Len(snap') + Len(todo') = seen - First + 1
                 /\ \A j \in 1 .. Len(todo') : mem[todo'[j]] = Event(First + Len(snap') + j - 1)
                 /\ \A i \in 1 .. Len(snap') : snap'[i] = Event(First + i - 1)
    <3>. SUFFICES ASSUME Still
                  PROVE  /\ Len(snap') + Len(todo') = seen - First + 1
                         /\ \A j \in 1 .. Len(todo') : mem[todo'[j]] = Event(First + Len(snap') + j - 1)
                         /\ \A i \in 1 .. Len(snap') : snap'[i] = Event(First + i - 1)
      OBVIOUS
    <3>1. /\ Len(snap) + Len(todo) = seen - First + 1
          /\ \A j \in 1 .. Len(todo) : mem[todo[j]] = Event(First + Len(snap) + j - 1)
          /\ \A i \in 1 .. Len(snap) : snap[i] = Event(First + i - 1)
      BY <2>1 DEF QuietInv, CopyExact, Still
    <3>2. Len(snap') + Len(todo') = seen - First + 1
      BY <1>0, <2>4, <2>5, <3>1
    <3>3. ASSUME NEW j \in 1 .. Len(todo') PROVE mem[todo'[j]] = Event(First + Len(snap') + j - 1)
      <4>1. /\ j \in 1 .. Len(todo) - 1 /\ j + 1 \in 1 .. Len(todo)
            /\ First + Len(snap) + (j + 1) - 1 = First + Len(snap') + j - 1
        BY <1>0, <2>4, <2>5
      <4>2. todo'[j] = todo[j + 1]
        BY <2>4, <4>1
      <4>3. mem[todo[j + 1]] = Event(First + Len(snap) + (j + 1) - 1)
        BY <3>1, <4>1
      <4>. QED
        BY <4>1, <4>2, <4>3
    <3>4. ASSUME NEW i \in 1 .. Len(snap') PROVE snap'[i] = Event(First + i - 1)
      <4>1. CASE i \in 1 .. Len(snap)
        BY <2>5, <3>1, <4>1
      <4>2. CASE i = Len(snap) + 1
        <5>1. mem[todo[1]] = Event(First + Len(snap) + 1 - 1) /\ 1 \in 1 .. Len(todo)
          BY <2>4, <3>1
        <5>2. First + Len(snap) + 1 - 1 = First + i - 1
          BY <1>0, <2>4, <4>2
        <5>. QED
          BY <2>5, <4>2, <5>1, <5>2
      <4>. QED
        BY <2>4, <2>5, <4>1, <4>2
    <3>. QED
      BY <3>2, <3>3, <3>4
  <2>7. spc' \in {"copy", "resumed"} /\ req'.op = "since" /\ quiet' => Still
    BY <1>0, <2>1 DEF Still
  <2>. QED
    BY <1>0, <2>1, <2>2, <2>3, <2>6, <2>7 DEF QuietInv, CopyExact
<1>2. CASE Resume
  <2>1. /\ spc = "copy" /\ spc' = "resumed" /\ todo = <<>> /\ snap' = snap /\ todo' = todo
        /\ maskq' = Append(maskq, "on")
    BY <1>2 DEF Resume
  <2>2. Handshake'
    <3>1. \/ mask = "on" /\ maskq = <<"off">>
          \/ mask = "off" /\ maskq = <<>>
      BY <2>1 DEF QuietInv, Handshake
    <3>2. Append(<<"off">>, "on") = <<"off", "on">> /\ Append(<<>>, "on") = <<"on">>
      BY TwoStores
    <3>. QED
      BY <1>0, <2>1, <3>1, <3>2 DEF Handshake
  <2>3. ~Still'
    BY <2>1 DEF Still
  <2>4. CopyExact'
    <3>1. ASSUME req.op = "since", quiet
          PROVE  /\ \A i \in 1 .. Len(snap) : snap[i] = Event(First + i - 1)
                 /\ Len(snap) = seen - First + 1
      <4>1. Still
        BY <2>1, <3>1 DEF Still
      <4>2. Len(snap) + Len(todo) = seen - First + 1 /\ Len(todo) = 0 /\ Len(snap) \in Nat
        BY <1>0, <2>1, <4>1 DEF QuietInv, CopyExact
      <4>3. Len(snap) = seen - First + 1
        BY <4>2
      <4>. QED
        BY <2>1, <3>1, <4>3 DEF QuietInv, CopyExact
    <3>. QED
      BY <1>0, <2>1, <2>3, <3>1 DEF CopyExact
  <2>. QED
    BY <2>2, <2>3, <2>4 DEF QuietInv, AtRest
<1>3. CASE Return
  <2>1. /\ spc = "resumed" /\ spc' = "idle" /\ maskq = <<>> /\ maskq' = maskq /\ snap' = <<>>
    BY <1>3 DEF Return, maskVars
  <2>2. mask = "on"
    BY <2>1 DEF QuietInv, Handshake
  <2>3. ~Still'
    BY <2>1 DEF Still
  <2>. QED
    BY <1>0, <2>1, <2>2, <2>3 DEF QuietInv, Handshake, AtRest, CopyExact
<1>. QED
  BY <1>1, <1>2, <1>3

\* A snapshot since a time, of a thread whose pause found it at rest, is the
\* events of the buffer from that time on: all of them, in order, whatever
\* part of the buffer they are in.
THEOREM SnapshotExact == Spec => []ExactWhenQuiet
<1>1. Init => QuietInv
  BY DEF Init, QuietInv, Handshake, AtRest, Still, CopyExact
<1>2. IInv /\ MemInv /\ QuietInv /\ [Next]_vars => QuietInv'
  <2>1. ASSUME IInv, QuietInv, UNCHANGED vars PROVE QuietInv'
    <3>1. Handshake' /\ AtRest' /\ (Still' <=> Still)
      BY <2>1 DEF vars, bufVars, maskVars, snapVars, QuietInv, Handshake, AtRest, Still
    <3>2. Still' => SearchExact'
      BY <2>1, <3>1 DEF vars, bufVars, snapVars, QuietInv, SearchExact, FoundFrom, From, RightOffset,
                        LeftOffset, Offset, SearchStart
    <3>3. CopyExact'
      BY <2>1, <3>1 DEF vars, memVars, snapVars, QuietInv, CopyExact, First, Oldest, Event
    <3>. QED
      BY <3>1, <3>2, <3>3 DEF QuietInv
  <2>. QED
    BY <2>1, QuietUnderTracer, QuietBegins, QuietSearches, QuietEnds DEF Next, Tracer, Memory, Snapper
<1>3. IInv /\ QuietInv => ExactWhenQuiet
  <2>. SUFFICES ASSUME IInv, QuietInv, Copied, req.op = "since", quiet
                PROVE  snap = [i \in 1 .. seen - First + 1 |-> Event(First + i - 1)]
    BY DEF ExactWhenQuiet, First
  <2>1. /\ spc \in {"copy", "resumed"} /\ todo = <<>> /\ snap \in Seq(Entry) /\ Len(todo) = 0
        /\ Len(snap) \in Nat
    BY DEF Copied, IInv, TypeOK, SnapperTypeOK
  <2>2. /\ \A i \in 1 .. Len(snap) : snap[i] = Event(First + i - 1)
        /\ spc = "resumed" => Len(snap) = seen - First + 1
        /\ spc = "copy" => Len(snap) + Len(todo) = seen - First + 1
    BY <2>1 DEF QuietInv, CopyExact, Still
  <2>3. Len(snap) = seen - First + 1
    BY <2>1, <2>2
  <2>. HIDE DEF First
  <2>4. snap = [i \in 1 .. Len(snap) |-> snap[i]]
    BY <2>1
  <2>. QED
    BY <2>2, <2>3, <2>4
<1>. QED
  BY <1>1, <1>2, <1>3, MemoryFollows, PTL DEF Spec

------------------------------------------------------------------------------
(* How far a search goes wrong whose range is written under it.             *)

\* The latest event whose cycle has reached memory.
CyclesIn ==
  IF mem[Slot(Arrived + 1)].cycle = Arrived + 1 THEN Arrived + 1 ELSE Arrived

\* An entry's cycle is that of an event of its slot, and never goes back; the
\* last entry's says whether the buffer has been filled.
CyclesForward ==
  /\ \A k \in 1 .. CyclesIn :
       /\ mem[Slot(k)].cycle \in k .. CyclesIn
       /\ Slot(mem[Slot(k)].cycle) = Slot(k)
  /\ CyclesIn < N => mem[N - 1].cycle = 0

\* Slot i held event Left + i, left of pos, or Right + i when pos was read.
Left      == seen - spos + 1
Right     == seen - spos + 1 - N
Number(i) == IF i < spos THEN Left + i ELSE Right + i

Searched == req.op = "since" /\ spc \in {"right", "left", "copy", "resumed"}
Copying  == req.op = "since" /\ spc \in {"copy", "resumed"}

\* What has been skipped ends at First and what has been kept begins at Kept,
\* right of pos and left of it.
RightFirst ==
  IF spc = "right" THEN search.first ELSE IF earliest.right = None THEN N ELSE earliest.right
RightKept == IF spc = "right" THEN search.first + search.len ELSE RightFirst
LeftFirst ==
  IF spc = "right" THEN 0
  ELSE IF spc = "left" THEN search.first
  ELSE IF earliest.left = None THEN spos ELSE earliest.left
LeftKept ==
  IF spc = "right" THEN spos
  ELSE IF spc = "left" THEN search.first + search.len ELSE LeftFirst

\* The slot that the n-th entry of the snapshot is copied from.
SlotAt(n) ==
  IF n <= N - RightFirst THEN RightFirst + n - 1 ELSE LeftFirst + n - (N - RightFirst) - 1

\* The slots whose entries are not too old, now or when they were copied.
Recent ==
  {i \in Slots : /\ mem[i].cycle >= req.time
                 /\ \A n \in DOMAIN snap : SlotAt(n) = i => snap[n].cycle >= req.time}

\* Of the slots lo .. hi - 1, where event o + i was in slot i, those from first
\* on that are kept are recent up to slot r, which had been written over when
\* it was compared, and again beyond as many slots as r is from lo.
Behind(recent, kept, lo, hi, o, pause, written) ==
  \E r \in lo - 1 .. hi - 1 :
    /\ r >= lo => r >= kept /\ o + r + N <= pause /\ o + r + N <= written
    /\ \A i \in kept .. hi - 1 : i <= r \/ i > 2 * r - lo => i \in recent

\* Those up to first that are skipped, and had better not been, are no
\* further from slot b, which held a late event, than it is from hi.
Skipped(first, lo, hi, o, time, pause, written) ==
  \E b \in lo .. hi :
    /\ b < hi => b < first /\ o + b > pause
    /\ \A i \in lo .. first - 1 :
         1 <= o + i /\ time <= o + i /\ o + i <= pause /\ o + i + N > written => i >= 2 * b - hi

ReadAt ==
  /\ pauseTime <= clock
  /\ req.op = "since" /\ spc \in {"posread", "right", "left", "copy", "resumed"} =>
       seen \in Nat /\ spos = After(seen)

SearchedSoFar ==
  Searched =>
    /\ spc = "right" \/ earliest.right # None => CyclesIn >= N
    /\ spos <= RightFirst /\ RightFirst <= RightKept /\ RightKept <= N
    /\ LeftFirst <= LeftKept /\ LeftKept <= spos
    /\ req.time <= pauseTime =>
         /\ Skipped(RightFirst, spos, N, Right, req.time, pauseTime, CyclesIn)
         /\ Skipped(LeftFirst, 0, spos, Left, req.time, pauseTime, CyclesIn)
    /\ req.time <= pauseTime /\ pauseTime < seen + N =>
         /\ Behind(Recent, RightKept, spos, N, Right, pauseTime, CyclesIn)
         /\ Behind(Recent, LeftKept, 0, spos, Left, pauseTime, CyclesIn)

CopiedSince ==
  /\ Copying =>
       /\ Len(snap) + Len(todo) = N - RightFirst + spos - LeftFirst
       /\ \A j \in 1 .. Len(todo) : todo[j] = SlotAt(Len(snap) + j)
       /\ \A n \in 1 .. Len(snap) :
            Number(SlotAt(n)) >= 1 =>
              /\ snap[n].func \in Number(SlotAt(n)) .. mem[SlotAt(n)].func
              /\ snap[n].cycle \in Number(SlotAt(n)) .. mem[SlotAt(n)].cycle
  /\ spc \notin {"copy", "resumed"} => snap = <<>>

SinceInv == CyclesForward /\ ReadAt /\ SearchedSoFar /\ CopiedSince

\* What the provers need to know of the slots lo .. hi - 1, v being the cycle
\* of each entry: it is that of the event that was there when pos was read, or
\* of a later one of the slot.
Zone(v, lo, hi, o, written, published) ==
  \A i \in lo .. hi - 1 :
    /\ v[i] \in Nat /\ v[i] >= o + i /\ v[i] <= written
    /\ v[i] = o + i \/ v[i] = o + i + N \/ v[i] >= o + i + 2 * N
    /\ o + i + N <= written => v[i] >= o + i + N
    /\ o + i + N > published

\* More written and more slots recent is no harm.
LEMMA BehindGrows ==
  ASSUME NEW R, NEW R2, NEW kept \in Int, NEW lo \in Int, NEW hi \in Int, NEW o \in Int,
         NEW P \in Int, NEW W \in Int, NEW W2 \in Int, W <= W2,
         \A i \in kept .. hi - 1 : i \in R => i \in R2,
         Behind(R, kept, lo, hi, o, P, W)
  PROVE  Behind(R2, kept, lo, hi, o, P, W2)
<1>1. PICK r \in lo - 1 .. hi - 1 :
        /\ r >= lo => r >= kept /\ o + r + N <= P /\ o + r + N <= W
        /\ \A i \in kept .. hi - 1 : i <= r \/ i > 2 * r - lo => i \in R
  BY DEF Behind
<1>2. r >= lo => r >= kept /\ o + r + N <= P /\ o + r + N <= W2
  BY <1>1
<1>3. \A i \in kept .. hi - 1 : i <= r \/ i > 2 * r - lo => i \in R2
  BY <1>1
<1>. QED
  BY <1>2, <1>3 DEF Behind

\* Nor does what was skipped become worse when an event arrives.
LEMMA SkippedGrows ==
  ASSUME NEW first \in Int, NEW lo \in Int, NEW hi \in Int, NEW o \in Int, NEW T \in Int,
         NEW P \in Int, NEW W \in Int, NEW W2 \in Int, W <= W2,
         Skipped(first, lo, hi, o, T, P, W)
  PROVE  Skipped(first, lo, hi, o, T, P, W2)
<1>1. PICK b \in lo .. hi :
        /\ b < hi => b < first /\ o + b > P
        /\ \A i \in lo .. first - 1 :
             1 <= o + i /\ T <= o + i /\ o + i <= P /\ o + i + N > W => i >= 2 * b - hi
  BY DEF Skipped
<1>2. \A i \in lo .. first - 1 : o + i + N > W2 => o + i + N > W
  OBVIOUS
<1>. QED
  BY <1>1, <1>2 DEF Skipped

\* The probe of slot m goes on to its right: the entry is too old, and so are
\* all before it, or it is a late one.
LEMMA ProbeSkips ==
  ASSUME NEW v, NEW lo \in Int, NEW hi \in Int, NEW o \in Int, NEW T \in Nat, NEW P \in Nat,
         NEW W \in Nat, NEW S \in Nat, NEW f \in Int, NEW e \in Int, NEW m \in Int,
         Zone(v, lo, hi, o, W, S), lo <= f, f <= m, m < e, e <= hi, 2 * m <= f + e,
         v[m] > P \/ v[m] < T, Skipped(f, lo, hi, o, T, P, W)
  PROVE  Skipped(m + 1, lo, hi, o, T, P, W)
<1>. DEFINE Candidate(i) == 1 <= o + i /\ T <= o + i /\ o + i <= P /\ o + i + N > W
<1>1. PICK b \in lo .. hi :
        /\ b < hi => b < f /\ o + b > P
        /\ \A i \in lo .. f - 1 : Candidate(i) => i >= 2 * b - hi
  BY DEF Skipped
<1>2. /\ m \in lo .. hi - 1 /\ v[m] \in Nat /\ v[m] >= o + m /\ v[m] <= W
      /\ v[m] = o + m \/ v[m] >= o + m + N
  <2>1. m \in lo .. hi - 1
    OBVIOUS
  <2>. QED
    BY <2>1 DEF Zone
<1>3. CASE \E i \in f .. m : Candidate(i)
  <2>1. PICK i \in f .. m : Candidate(i)
    BY <1>3
  <2>2. v[m] = o + m
    BY <1>2, <2>1
  <2>3. o + m > P
    BY <1>2, <2>1, <2>2
  <2>4. b = hi
    BY <1>1, <2>1
  <2>5. \A j \in lo .. m : Candidate(j) => j >= 2 * m - hi
    <3>. SUFFICES ASSUME NEW j \in lo .. m, Candidate(j), j < f PROVE j >= 2 * m - hi
      OBVIOUS
    <3>1. j >= 2 * b - hi
      BY <1>1
    <3>. QED
      BY <2>4, <3>1
  <2>6. m \in lo .. hi /\ m < m + 1
    OBVIOUS
  <2>7. \A j \in lo .. (m + 1) - 1 : Candidate(j) => j >= 2 * m - hi
    <3>1. (m + 1) - 1 = m
      OBVIOUS
    <3>. QED
      BY <2>5, <3>1, Zenon
  <2>. QED
    BY <2>3, <2>6, <2>7 DEF Skipped
<1>4. CASE ~\E i \in f .. m : Candidate(i)
  <2>1. \A j \in lo .. (m + 1) - 1 : Candidate(j) => j >= 2 * b - hi
    <3>. SUFFICES ASSUME NEW j \in lo .. m, Candidate(j) PROVE j >= 2 * b - hi
      OBVIOUS
    <3>1. j < f
      BY <1>4
    <3>. QED
      BY <1>1, <3>1
  <2>2. b < hi => b < m + 1 /\ o + b > P
    BY <1>1
  <2>. QED
    BY <2>1, <2>2 DEF Skipped
<1>. QED
  BY <1>3, <1>4

\* The probe of slot m goes on to its left: the entry is recent, and all after
\* it are, or it has been written over.
LEMMA ProbeKeeps ==
  ASSUME NEW v, NEW R, NEW lo \in Int, NEW hi \in Int, NEW o \in Int, NEW T \in Nat, NEW P \in Nat,
         NEW W \in Nat, NEW S \in Nat, NEW f \in Int, NEW e \in Int, NEW m \in Int,
         Zone(v, lo, hi, o, W, S), lo <= f, f <= m, m < e, e <= hi, f + e <= 2 * m + 1,
         \A i \in lo .. hi - 1 : v[i] >= T => i \in R,
         v[m] >= T, v[m] <= P, P < S + N, Behind(R, e, lo, hi, o, P, W)
  PROVE  Behind(R, m, lo, hi, o, P, W)
<1>1. PICK r \in lo - 1 .. hi - 1 :
        /\ r >= lo => r >= e /\ o + r + N <= P /\ o + r + N <= W
        /\ \A i \in e .. hi - 1 : i <= r \/ i > 2 * r - lo => i \in R
  BY DEF Behind
<1>2. \A i \in lo .. hi - 1 :
        /\ v[i] \in Nat /\ v[i] >= o + i /\ v[i] <= W
        /\ v[i] = o + i \/ v[i] = o + i + N \/ v[i] >= o + i + 2 * N
        /\ o + i + N <= W => v[i] >= o + i + N
        /\ o + i + N > S
  BY DEF Zone
<1>3. m \in lo .. hi - 1
  OBVIOUS
<1>4. CASE v[m] = o + m
  <2>1. \A i \in m .. hi - 1 : i \in R
    <3>. TAKE i \in m .. hi - 1
    <3>1. i \in lo .. hi - 1 /\ v[i] >= o + i /\ v[i] \in Nat
      BY <1>2
    <3>2. v[i] >= T
      BY <1>4, <3>1
    <3>. QED
      BY <3>1, <3>2
  <2>2. lo - 1 \in lo - 1 .. hi - 1 /\ ~(lo - 1 >= lo)
    OBVIOUS
  <2>. QED
    BY <2>1, <2>2 DEF Behind
<1>5. CASE v[m] # o + m
  <2>1. v[m] = o + m + N /\ v[m] \in Nat /\ v[m] <= W
    BY <1>2, <1>3, <1>5
  <2>2. CASE r >= lo
    <3>1. \A i \in m .. hi - 1 : i <= r \/ i > 2 * r - lo => i \in R
      <4>. SUFFICES ASSUME NEW i \in m .. hi - 1, i <= r \/ i > 2 * r - lo PROVE i \in R
        OBVIOUS
      <4>1. CASE i >= e
        BY <1>1, <4>1
      <4>2. CASE i < e
        <5>1. i \in lo .. hi - 1 /\ v[i] \in Nat /\ (o + i + N <= W => v[i] >= o + i + N)
          BY <1>2
        <5>2. o + i + N <= W
          BY <1>1, <2>2, <4>2
        <5>3. v[i] >= T
          BY <2>1, <5>1, <5>2
        <5>. QED
          BY <5>1, <5>3
      <4>. QED
        BY <4>1, <4>2
    <3>2. r >= m
      BY <1>1, <2>2
    <3>. QED
      BY <1>1, <3>1, <3>2 DEF Behind
  <2>3. CASE r < lo
    <3>1. \A i \in m .. hi - 1 : i <= m \/ i > 2 * m - lo => i \in R
      <4>. SUFFICES ASSUME NEW i \in m .. hi - 1, i <= m \/ i > 2 * m - lo PROVE i \in R
        OBVIOUS
      <4>1. CASE i >= e
        BY <1>1, <2>3, <4>1
      <4>2. CASE i < e
        <5>1. i = m
          BY <4>2
        <5>. QED
          BY <1>3, <5>1
      <4>. QED
        BY <4>1, <4>2
    <3>2. o + m + N <= P /\ o + m + N <= W /\ m \in lo - 1 .. hi - 1
      BY <2>1
    <3>. QED
      BY <3>1, <3>2 DEF Behind
  <2>. QED
    BY <1>1, <2>2, <2>3
<1>. QED
  BY <1>4, <1>5

\* Events of one slot are rounds of the buffer apart.
LEMMA SameSlot ==
  ASSUME NEW a \in Nat, NEW b \in Nat, a >= 1, a < b, Slot(a) = Slot(b)
  PROVE  a + N <= b
<1>. DEFINE x == a - 1
            y == b - 1
            q == x \div N
            p == y \div N
<1>1. q \in Nat /\ p \in Nat /\ x = N * q + (x % N) /\ y = N * p + (y % N) /\ (x % N) \in 0 .. N - 1
  <2>1. x \in Nat /\ y \in Nat
    OBVIOUS
  <2>. QED
    BY <2>1, Divided
<1>2. x % N = y % N
  BY DEF Slot
<1>. DEFINE r == x % N
<1>3. x = N * q + r /\ y = N * p + r /\ r \in 0 .. N - 1
  BY <1>1, <1>2
<1>4. x < y /\ a = x + 1 /\ b = y + 1
  OBVIOUS
<1>. HIDE DEF x, y, q, p, r
<1>5. N * q \in Int /\ N * p \in Int
  BY <1>1
<1>6. CASE q < p
  <2>1. p - q - 1 \in Nat
    BY <1>1, <1>6
  <2>2. N * (p - q - 1) >= 0
    BY <2>1
  <2>3. N * (p - q - 1) = N * p - N * q - N
    BY <1>1
  <2>. QED
    BY <1>3, <1>4, <1>5, <2>2, <2>3
<1>7. CASE p <= q
  <2>1. q - p \in Nat
    BY <1>1, <1>7
  <2>2. N * (q - p) >= 0
    BY <2>1
  <2>3. N * (q - p) = N * q - N * p
    BY <1>1
  <2>. QED
    BY <1>3, <1>4, <1>5, <2>2, <2>3
<1>. QED
  BY <1>1, <1>6, <1>7

\* The slot of an event is that of the event a round of the buffer later.
LEMMA SlotAgain == ASSUME NEW k \in Nat, k >= 1 PROVE Slot(k + N) = Slot(k)
<1>. DEFINE x == k - 1
            q == x \div N
            r == x % N
            p == (x + N) \div N
            s == (x + N) % N
<1>1. x \in Nat /\ x + N \in Nat /\ (k + N) - 1 = x + N
  OBVIOUS
<1>2. q \in Nat /\ r \in 0 .. N - 1 /\ x = N * q + r
  BY <1>1, Divided
<1>3. p \in Nat /\ s \in 0 .. N - 1 /\ x + N = N * p + s
  BY <1>1, Divided
<1>4. r = s
  <2>. HIDE DEF x, q, r, p, s
  <2>1. N * (q + 1) + r = N * p + s
    BY <1>1, <1>2, <1>3
  <2>2. q + 1 \in Nat
    BY <1>2
  <2>. QED
    BY <1>2, <1>3, <2>1, <2>2, OneRemainder
<1>. QED
  BY <1>1, <1>4 DEF Slot

\* The slots right and left of pos, in the order of their events.
LEMMA SlotNumbers ==
  ASSUME seen \in Nat, spos = After(seen)
  PROVE  /\ spos \in 0 .. N /\ spos <= seen /\ (seen < N => spos = seen)
         /\ Left \in Nat /\ Left >= 1 /\ Left = seen - spos + 1 /\ Right = Left - N
         /\ \A i \in Slots : Slot(Left + i) = i
<1>1. spos \in 0 .. N /\ spos <= seen /\ (seen <= N => spos = seen)
  BY AfterIs
<1>2. Left \in Nat /\ Left >= 1 /\ Left = seen - spos + 1 /\ Right = Left - N
  BY <1>1 DEF Left, Right
<1>3. ASSUME NEW i \in Slots PROVE Slot(Left + i) = i
  <2>1. i \in 0 .. N - 1
    BY DEF Slots
  <2>2. \E q \in Nat : Left - 1 = N * q
    <3>1. CASE seen = 0
      <4>1. Left - 1 = N * 0
        BY <1>1, <1>2, <3>1
      <4>. QED
        BY <4>1
    <3>2. CASE seen # 0
      <4>. DEFINE x == seen - 1
                  q == x \div N
      <4>1. x \in Nat /\ seen = x + 1
        BY <3>2
      <4>2. spos = (x % N) + 1
        BY <3>2 DEF After, Slot
      <4>. HIDE DEF x
      <4>3. q \in Nat /\ x = N * q + (x % N) /\ (x % N) \in 0 .. N - 1
        BY <4>1, Divided
      <4>. HIDE DEF q
      <4>4. Left - 1 = N * q
        BY <1>2, <4>1, <4>2, <4>3
      <4>. QED
        BY <4>3, <4>4
    <3>. QED
      BY <3>1, <3>2
  <2>3. PICK q \in Nat : Left - 1 = N * q
    BY <2>2
  <2>. DEFINE y == N * q + i
              p == y \div N
              s == y % N
  <2>4. (Left + i) - 1 = y /\ y \in Nat
    <3>1. N * q \in Nat
      BY <1>2, <2>3
    <3>. QED
      BY <1>2, <2>1, <2>3, <3>1
  <2>5. p \in Nat /\ s \in 0 .. N - 1 /\ y = N * p + s
    BY <2>4, Divided
  <2>6. s = i
    <3>. HIDE DEF p, s
    <3>1. N * q + i = N * p + s
      BY <2>5
    <3>. QED
      BY <2>1, <2>5, <3>1, OneRemainder
  <2>. QED
    BY <2>4, <2>6 DEF Slot
<1>. QED
  BY <1>1, <1>2, <1>3

\* At most one event's cycle is in memory ahead of its other stores.
LEMMA CyclesInIs ==
  ASSUME IInv, MemInv
  PROVE  /\ Arrived \in Nat /\ CyclesIn \in Nat /\ Arrived <= CyclesIn /\ CyclesIn <= Arrived + 1
         /\ \A k \in 1 .. CyclesIn : Slot(k) \in Slots
<1>1. Arrived \in Nat /\ Slot(Arrived + 1) \in Slots /\ \A k \in 1 .. Arrived : Slot(k) \in Slots
  BY NextToArrive DEF IInv
<1>2. CyclesIn = Arrived \/ CyclesIn = Arrived + 1
  BY DEF CyclesIn
<1>. QED
  BY <1>1, <1>2

\* What a store that arrives does to the cycles in memory.
LEMMA CycleArrives ==
  ASSUME IInv, MemInv, DrainStore
  PROVE  \/ CyclesIn' = CyclesIn /\ \A i \in Slots : mem'[i].cycle = mem[i].cycle
         \/ /\ CyclesIn' = Arrived + 1
            /\ \A i \in Slots :
                 mem'[i].cycle = IF i = Slot(Arrived + 1) THEN Arrived + 1 ELSE mem[i].cycle
         \/ /\ CyclesIn = Arrived + 1 /\ CyclesIn' \in {Arrived + 1, Arrived + 2} /\ mem' = mem
            /\ CyclesIn' = Arrived + 2 => mem[Slot(Arrived + 2)].cycle = Arrived + 2
<1>. DEFINE n == Arrived + 1
            s == Slot(n)
<1>0. TypeOK /\ mem \in [Slots -> Entry] /\ StoresInOrder /\ WrittenSoFar
  BY DEF IInv, TypeOK, TracerTypeOK, MemInv
<1>1. Arrived \in Nat /\ s \in Slots
  BY NextToArrive DEF IInv
<1>2. FirstWord(n, s) \/ SecondWord(n, s) \/ NewPos(n, s)
  BY <1>0, StoreArrives
<1>3. CyclesIn = IF mem[s].cycle = n THEN n ELSE Arrived
  BY DEF CyclesIn
<1>4. CyclesIn' = IF mem'[Slot(Arrived' + 1)].cycle = Arrived' + 1 THEN Arrived' + 1 ELSE Arrived'
  BY DEF CyclesIn, Slot
<1>. HIDE DEF s
<1>5. CASE mem' = [mem EXCEPT ![s].func = n] /\ Arrived' = Arrived
  <2>1. \A i \in Slots : mem'[i].cycle = mem[i].cycle
    BY <1>0, <1>5 DEF Entry
  <2>. QED
    BY <1>1, <1>3, <1>4, <1>5, <2>1 DEF s
<1>6. CASE (mem' = [mem EXCEPT ![s].cycle = n] \/ mem' = [mem EXCEPT ![s] = Event(n)]) /\ Arrived' = Arrived
  <2>1. \A i \in Slots : mem'[i].cycle = IF i = s THEN n ELSE mem[i].cycle
    BY <1>0, <1>1, <1>6 DEF Entry, Event
  <2>2. CyclesIn' = n
    BY <1>1, <1>4, <1>6, <2>1 DEF s
  <2>. QED
    BY <2>1, <2>2 DEF s
<1>7. CASE NewPos(n, s)
  <2>1. mem' = mem /\ Arrived' = n /\ Drained = 3 * Arrived + 2
    BY <1>7 DEF NewPos
  <2>2. mem[s].cycle = n
    BY <1>0, <2>1 DEF WrittenSoFar, Event, s
  <2>3. Arrived' + 1 = Arrived + 2
    BY <1>1, <2>1
  <2>. QED
    BY <1>3, <1>4, <2>1, <2>2, <2>3
<1>. QED
  BY <1>2, <1>5, <1>6, <1>7 DEF FirstWord, SecondWord

\* The cycles in memory stay those of their slots, and only move forward.
LEMMA CyclesKept ==
  ASSUME IInv, MemInv, CyclesForward, Tracer \/ DrainStore \/ DrainMask
  PROVE  /\ CyclesForward' /\ CyclesIn' \in Nat /\ CyclesIn <= CyclesIn'
         /\ \A k \in 1 .. CyclesIn : mem[Slot(k)].cycle <= mem'[Slot(k)].cycle
<1>1. /\ Arrived \in Nat /\ CyclesIn \in Nat /\ Arrived <= CyclesIn /\ CyclesIn <= Arrived + 1
      /\ \A k \in 1 .. CyclesIn : Slot(k) \in Slots
  BY CyclesInIs
<1>2. \A k \in 1 .. CyclesIn :
        /\ mem[Slot(k)].cycle \in k .. CyclesIn /\ Slot(mem[Slot(k)].cycle) = Slot(k)
  BY DEF CyclesForward
<1>3. CyclesIn < N => mem[N - 1].cycle = 0
  BY DEF CyclesForward
<1>4. N - 1 \in Slots /\ Slot(Arrived + 1) \in Slots /\ Slot(Arrived + 2) \in Slots
  <2>1. \A k \in Nat : Slot(k + 1) \in Slots
    BY NextSlot
  <2>2. (Arrived + 1) + 1 = Arrived + 2 /\ Arrived + 1 \in Nat
    BY <1>1
  <2>3. Slot(Arrived + 2) \in Slots
    <3>1. Slot((Arrived + 1) + 1) \in Slots
      BY <2>1, <2>2
    <3>. QED
      BY <2>2, <3>1
  <2>4. N - 1 \in Slots
    BY DEF Slots
  <2>. QED
    BY <1>1, <2>1, <2>3, <2>4
<1>5. CASE CyclesIn' = CyclesIn /\ \A i \in Slots : mem'[i].cycle = mem[i].cycle
  <2>1. \A k \in 1 .. CyclesIn : mem'[Slot(k)].cycle = mem[Slot(k)].cycle
    BY <1>1, <1>5
  <2>2. CyclesForward'
    BY <1>2, <1>3, <1>4, <1>5, <2>1 DEF CyclesForward, Slot
  <2>. QED
    BY <1>1, <1>2, <1>5, <2>1, <2>2
<1>6. CASE /\ CyclesIn' = Arrived + 1
           /\ \A i \in Slots :
                mem'[i].cycle = IF i = Slot(Arrived + 1) THEN Arrived + 1 ELSE mem[i].cycle
  <2>1. \A k \in 1 .. CyclesIn :
          mem'[Slot(k)].cycle = IF Slot(k) = Slot(Arrived + 1) THEN Arrived + 1 ELSE mem[Slot(k)].cycle
    BY <1>1, <1>6
  <2>2. mem'[Slot(Arrived + 1)].cycle = Arrived + 1
    BY <1>4, <1>6
  <2>3. ASSUME NEW k \in 1 .. Arrived + 1
        PROVE  /\ mem'[Slot(k)].cycle \in k .. Arrived + 1
               /\ Slot(mem'[Slot(k)].cycle) = Slot(k)
    <3>1. CASE Slot(k) = Slot(Arrived + 1)
      BY <1>1, <2>2, <3>1
    <3>2. CASE Slot(k) # Slot(Arrived + 1)
      <4>1. k \in 1 .. CyclesIn
        <5>1. k # Arrived + 1
          BY <3>2
        <5>. QED
          BY <1>1, <5>1
      <4>2. mem'[Slot(k)].cycle = mem[Slot(k)].cycle
        BY <2>1, <3>2, <4>1
      <4>3. mem[Slot(k)].cycle \in k .. CyclesIn /\ Slot(mem[Slot(k)].cycle) = Slot(k)
        BY <1>2, <4>1
      <4>4. mem[Slot(k)].cycle \in k .. Arrived + 1
        BY <1>1, <4>3
      <4>. QED
        BY <4>2, <4>3, <4>4
    <3>. QED
      BY <3>1, <3>2
  <2>4. Arrived + 1 < N => mem'[N - 1].cycle = 0
    <3>. SUFFICES ASSUME Arrived + 1 < N PROVE mem'[N - 1].cycle = 0
      OBVIOUS
    <3>1. Slot(Arrived + 1) = Arrived
      <4>1. (Arrived + 1) - 1 = Arrived /\ Arrived \in 0 .. N - 1
        BY <1>1
      <4>2. Arrived % N = Arrived
        BY <4>1
      <4>. QED
        BY <4>1, <4>2 DEF Slot
    <3>2. N - 1 # Arrived
      BY <1>1
    <3>. QED
      BY <1>1, <1>3, <1>4, <1>6, <3>1, <3>2
  <2>5. CyclesForward'
    BY <1>6, <2>3, <2>4 DEF CyclesForward, Slot
  <2>6. \A k \in 1 .. CyclesIn : mem[Slot(k)].cycle <= mem'[Slot(k)].cycle
    <3>. TAKE k \in 1 .. CyclesIn
    <3>1. mem[Slot(k)].cycle \in k .. CyclesIn
      BY <1>2
    <3>2. mem'[Slot(k)].cycle = Arrived + 1 \/ mem'[Slot(k)].cycle = mem[Slot(k)].cycle
      BY <2>1
    <3>. QED
      BY <1>1, <3>1, <3>2
  <2>. QED
    BY <1>1, <1>6, <2>5, <2>6
<1>7. CASE /\ CyclesIn = Arrived + 1 /\ CyclesIn' \in {Arrived + 1, Arrived + 2} /\ mem' = mem
           /\ CyclesIn' = Arrived + 2 => mem[Slot(Arrived + 2)].cycle = Arrived + 2
  <2>1. ASSUME NEW k \in 1 .. CyclesIn'
        PROVE  mem[Slot(k)].cycle \in k .. CyclesIn' /\ Slot(mem[Slot(k)].cycle) = Slot(k)
    <3>1. CASE k <= CyclesIn
      <4>1. mem[Slot(k)].cycle \in k .. CyclesIn /\ Slot(mem[Slot(k)].cycle) = Slot(k)
        BY <1>1, <1>2, <3>1
      <4>. QED
        BY <1>1, <1>7, <4>1
    <3>2. CASE k > CyclesIn
      <4>1. k = Arrived + 2 /\ CyclesIn' = Arrived + 2
        BY <1>1, <1>7, <3>2
      <4>. QED
        BY <1>1, <1>7, <4>1
    <3>. QED
      BY <1>1, <1>7, <3>1, <3>2
  <2>2. CyclesForward'
    BY <1>1, <1>3, <1>7, <2>1 DEF CyclesForward, Slot
  <2>. QED
    BY <1>1, <1>2, <1>7, <2>2
<1>8. CASE Tracer \/ DrainMask
  <2>1. mem' = mem /\ Arrived' = Arrived
    <3>1. CASE LoadEntry \/ DrainMask
      BY <3>1 DEF LoadEntry, DrainMask, memVars, Arrived, Drained
    <3>2. ASSUME NEW o \in StoreOrders, RecordEvent(o) PROVE mem' = mem /\ Arrived' = Arrived
      <4>1. TypeOK /\ PosFollows /\ EntryPicked /\ StoresInOrder
        BY DEF IInv, MemInv
      <4>2. Arrived' = Arrived
        BY <3>2, <4>1, StoresIssued
      <4>. QED
        BY <3>2, <4>2 DEF RecordEvent, memVars
    <3>. QED
      BY <1>8, <3>1, <3>2 DEF Tracer
  <2>2. CyclesIn' = CyclesIn
    BY <2>1 DEF CyclesIn, Slot
  <2>. QED
    BY <1>5, <2>1, <2>2
<1>. QED
  BY <1>5, <1>6, <1>7, <1>8, CycleArrives

\* The cycles of all slots, as a function.
Cycles == [i \in Slots |-> mem[i].cycle]

\* A slot that had event a, was to have event a, or was to have it next.
LEMMA SlotHolds ==
  ASSUME NEW W \in Nat, NEW a \in Nat, a >= 1, NEW c \in Nat, c >= 1, c <= W, Slot(c) = Slot(a)
  PROVE  /\ c >= a => c = a \/ c >= a + N
         /\ c >= a + N => c = a + N \/ c >= a + 2 * N
         /\ c < a => c + N <= a
<1>1. Slot(a + N) = Slot(a)
  BY SlotAgain
<1>2. c > a => a + N <= c
  BY SameSlot
<1>3. c < a => c + N <= a
  BY SameSlot
<1>4. c > a + N => (a + N) + N <= c
  <2>1. a + N \in Nat /\ a + N >= 1 /\ Slot(a + N) = Slot(c)
    BY <1>1
  <2>. QED
    BY <2>1, SameSlot
<1>. QED
  BY <1>2, <1>3, <1>4

\* What is left of pos, and what is right of it once the buffer was filled.
LEMMA ZonesHeld ==
  ASSUME IInv, MemInv, CyclesForward, seen \in Nat, seen <= Arrived, spos = After(seen)
  PROVE  /\ Zone(Cycles, 0, spos, Left, CyclesIn, seen)
         /\ CyclesIn >= N => Zone(Cycles, spos, N, Right, CyclesIn, seen)
<1>1. /\ Arrived \in Nat /\ CyclesIn \in Nat /\ Arrived <= CyclesIn /\ CyclesIn <= Arrived + 1
  BY CyclesInIs
<1>2. \A k \in 1 .. CyclesIn :
        /\ mem[Slot(k)].cycle \in k .. CyclesIn /\ Slot(mem[Slot(k)].cycle) = Slot(k)
  BY DEF CyclesForward
<1>3. /\ spos \in 0 .. N /\ spos <= seen /\ (seen < N => spos = seen)
      /\ Left \in Nat /\ Left >= 1 /\ Left = seen - spos + 1 /\ Right = Left - N
      /\ \A i \in Slots : Slot(Left + i) = i
  BY SlotNumbers
<1>. DEFINE v == Cycles
            W == CyclesIn
<1>4. \A i \in Slots : v[i] = mem[i].cycle
  BY DEF Cycles
<1>. HIDE DEF v, W
<1>5. ASSUME NEW k \in Nat, k >= 1, k <= W, NEW i \in Slots, Slot(k) = i
      PROVE  v[i] \in Nat /\ v[i] >= k /\ v[i] <= W /\ Slot(v[i]) = i
  <2>1. mem[i].cycle \in k .. W /\ Slot(mem[i].cycle) = i
    BY <1>1, <1>2, <1>5 DEF W
  <2>. QED
    BY <1>1, <1>4, <2>1 DEF W
<1>6. W \in Nat /\ seen <= W
  BY <1>1 DEF W
<1>7. ASSUME NEW i \in Slots, i < spos
      PROVE  /\ v[i] \in Nat /\ v[i] >= Left + i /\ v[i] <= W
             /\ v[i] = Left + i \/ v[i] = Left + i + N \/ v[i] >= Left + i + 2 * N
             /\ Left + i + N <= W => v[i] >= Left + i + N
             /\ Left + i + N > seen
  <2>1. i \in Nat /\ Left + i \in Nat /\ Left + i >= 1 /\ Left + i <= W /\ Slot(Left + i) = i
    BY <1>3, <1>6, <1>7 DEF Slots
  <2>2. v[i] \in Nat /\ v[i] >= Left + i /\ v[i] <= W /\ Slot(v[i]) = i
    BY <1>5, <2>1
  <2>3. /\ v[i] >= Left + i => v[i] = Left + i \/ v[i] >= (Left + i) + N
        /\ v[i] >= (Left + i) + N => v[i] = (Left + i) + N \/ v[i] >= (Left + i) + 2 * N
    <3>1. v[i] >= 1 /\ Slot(v[i]) = Slot(Left + i)
      BY <2>1, <2>2
    <3>. QED
      BY <1>6, <2>1, <2>2, <3>1, SlotHolds
  <2>4. Left + i + N <= W => v[i] >= Left + i + N
    <3>. SUFFICES ASSUME (Left + i) + N <= W PROVE v[i] >= (Left + i) + N
      BY <2>1
    <3>1. Slot((Left + i) + N) = i /\ (Left + i) + N \in Nat /\ (Left + i) + N >= 1
      BY <2>1, SlotAgain
    <3>. QED
      BY <1>5, <3>1
  <2>5. Left + i + N > seen
    BY <1>3, <2>1
  <2>. QED
    BY <2>1, <2>2, <2>3, <2>4, <2>5
<1>8. ASSUME W >= N, NEW i \in Slots, i >= spos
      PROVE  /\ v[i] \in Nat /\ v[i] >= Right + i /\ v[i] <= W
             /\ v[i] = Right + i \/ v[i] = Right + i + N \/ v[i] >= Right + i + 2 * N
             /\ Right + i + N <= W => v[i] >= Right + i + N
             /\ Right + i + N > seen
  <2>. DEFINE a == Left + i
  <2>1. /\ i \in 0 .. N - 1 /\ a \in Nat /\ a >= 1 /\ Slot(a) = i /\ Right + i = a - N
        /\ a > seen /\ a - N <= seen
    BY <1>3, <1>8 DEF Slots
  <2>. HIDE DEF a
  <2>2. v[i] \in Nat /\ v[i] >= i + 1 /\ v[i] <= W /\ Slot(v[i]) = i
    <3>1. i + 1 \in Nat /\ i + 1 >= 1 /\ i + 1 <= W /\ (i + 1) - 1 = i
      BY <1>6, <1>8, <2>1
    <3>2. i % N = i
      BY <2>1
    <3>3. Slot(i + 1) = i
      BY <3>1, <3>2 DEF Slot
    <3>. QED
      BY <1>5, <3>1, <3>3
  <2>3. /\ v[i] >= a => v[i] = a \/ v[i] >= a + N
        /\ v[i] < a => v[i] + N <= a
    <3>1. v[i] >= 1 /\ Slot(v[i]) = Slot(a)
      BY <2>1, <2>2
    <3>. QED
      BY <1>6, <2>1, <2>2, <3>1, SlotHolds
  <2>4. v[i] >= a - N
    <3>1. CASE a - N >= 1
      <4>1. a - N \in Nat /\ a - N <= W
        BY <1>6, <2>1, <3>1
      <4>2. Slot((a - N) + N) = Slot(a - N) /\ (a - N) + N = a
        BY <2>1, <3>1, <4>1, SlotAgain
      <4>. QED
        BY <1>5, <2>1, <3>1, <4>1, <4>2
    <3>2. CASE a - N < 1
      BY <2>1, <2>2, <3>2
    <3>. QED
      BY <2>1, <3>1, <3>2
  <2>5. a <= W => v[i] >= a
    BY <1>5, <2>1
  <2>. QED
    BY <2>1, <2>2, <2>3, <2>4, <2>5
<1>9. Zone(Cycles, 0, spos, Left, CyclesIn, seen)
  <2>1. \A i \in 0 .. spos - 1 : i \in Slots /\ i < spos
    BY <1>3 DEF Slots
  <2>. QED
    BY <1>7, <2>1 DEF Zone, v, W
<1>10. ASSUME CyclesIn >= N PROVE Zone(Cycles, spos, N, Right, CyclesIn, seen)
  <2>1. \A i \in spos .. N - 1 : i \in Slots /\ i >= spos
    BY <1>3 DEF Slots
  <2>. QED
    BY <1>8, <1>10, <2>1 DEF Zone, v, W
<1>. QED
  BY <1>9, <1>10

\* Number(i) is the number of an event of slot i.
LEMMA NumberOfSlot ==
  ASSUME seen \in Nat, spos = After(seen), NEW i \in Slots, Number(i) >= 1
  PROVE  Number(i) \in 1 .. seen /\ Slot(Number(i)) = i
<1>1. /\ spos \in 0 .. N /\ spos <= seen /\ Left \in Nat /\ Left >= 1 /\ Left = seen - spos + 1
      /\ Right = Left - N /\ Slot(Left + i) = i
  BY SlotNumbers
<1>2. i \in 0 .. N - 1
  BY DEF Slots
<1>3. CASE i < spos
  BY <1>1, <1>2, <1>3 DEF Number
<1>4. CASE i >= spos
  <2>1. Number(i) = Left + i - N
    BY <1>1, <1>2, <1>4 DEF Number
  <2>. DEFINE k == Left + i - N
  <2>2. k \in Nat /\ k >= 1 /\ k + N = Left + i /\ k <= seen
    BY <1>1, <1>2, <1>4, <2>1
  <2>3. Slot(k + N) = Slot(k)
    BY <2>2, SlotAgain
  <2>. QED
    BY <1>1, <2>1, <2>2, <2>3
<1>. QED
  BY <1>1, <1>2, <1>3, <1>4

\* The slots that are copied are those kept.
LEMMA CopiedSlots ==
  ASSUME spos \in 0 .. N, RightFirst \in Int, LeftFirst \in Int, spos <= RightFirst, RightFirst <= N,
         0 <= LeftFirst, LeftFirst <= spos, NEW n \in 1 .. N - RightFirst + spos - LeftFirst
  PROVE  /\ SlotAt(n) \in Slots
         /\ n <= N - RightFirst =>
              SlotAt(n) \in RightFirst .. N - 1 /\ n = SlotAt(n) - RightFirst + 1
         /\ n > N - RightFirst =>
              SlotAt(n) \in LeftFirst .. spos - 1 /\ n = SlotAt(n) - LeftFirst + 1 + (N - RightFirst)
<1>1. CASE n <= N - RightFirst
  <2>1. SlotAt(n) = RightFirst + n - 1
    BY <1>1 DEF SlotAt
  <2>. QED
    BY <1>1, <2>1 DEF Slots
<1>2. CASE n > N - RightFirst
  <2>1. SlotAt(n) = LeftFirst + n - (N - RightFirst) - 1
    BY <1>2 DEF SlotAt
  <2>. QED
    BY <1>2, <2>1 DEF Slots
<1>. QED
  BY <1>1, <1>2

\* What the search's ranges are made of.
LEMMA RangeTypes ==
  ASSUME IInv
  PROVE  /\ RightFirst \in Nat /\ RightKept \in Nat /\ LeftFirst \in Nat /\ LeftKept \in Nat
         /\ spos \in 0 .. N /\ req.time \in Nat /\ pauseTime \in Nat /\ clock \in Nat /\ seen \in Int
         /\ mem \in [Slots -> Entry] /\ snap \in Seq(Entry) /\ todo \in Seq(Slots)
<1>1. /\ search.first \in Nat /\ search.len \in Nat /\ spos \in 0 .. N
      /\ earliest.right \in Slots \cup {None} /\ earliest.left \in Slots \cup {None}
      /\ req.time \in Nat /\ pauseTime \in Nat /\ clock \in Nat /\ seen \in Int
      /\ mem \in [Slots -> Entry] /\ snap \in Seq(Entry) /\ todo \in Seq(Slots)
  BY DEF IInv, TypeOK, TracerTypeOK, SnapperTypeOK
<1>2. (earliest.right # None => earliest.right \in Nat) /\ (earliest.left # None => earliest.left \in Nat)
  BY <1>1 DEF Slots
<1>. QED
  BY <1>1, <1>2 DEF RightFirst, RightKept, LeftFirst, LeftKept

\* The traced thread and its memory may only add to what was written, and only
\* makes entries more recent.
LEMMA SinceUnderTracer ==
  ASSUME IInv, MemInv, FullInv, SinceInv, Tracer \/ DrainStore \/ DrainMask PROVE SinceInv'
<1>0. UNCHANGED snapVars
  BY DEF Tracer, LoadEntry, RecordEvent, DrainStore, DrainMask
<1>1. /\ CyclesForward' /\ CyclesIn' \in Nat /\ CyclesIn <= CyclesIn'
      /\ \A k \in 1 .. CyclesIn : mem[Slot(k)].cycle <= mem'[Slot(k)].cycle
  BY CyclesKept DEF SinceInv
<1>2. /\ Arrived \in Nat /\ CyclesIn \in Nat /\ Arrived <= CyclesIn
  BY CyclesInIs
<1>3. /\ RightFirst \in Nat /\ RightKept \in Nat /\ LeftFirst \in Nat /\ LeftKept \in Nat
      /\ spos \in 0 .. N /\ req.time \in Nat /\ pauseTime \in Nat /\ clock \in Nat /\ seen \in Int
      /\ mem \in [Slots -> Entry] /\ snap \in Seq(Entry) /\ todo \in Seq(Slots)
  BY RangeTypes
<1>4. /\ RightFirst' = RightFirst /\ RightKept' = RightKept
      /\ LeftFirst' = LeftFirst /\ LeftKept' = LeftKept /\ Left' = Left /\ Right' = Right
  BY <1>0 DEF snapVars, RightFirst, RightKept, LeftFirst, LeftKept, Left, Right
<1>5. ReadAt'
  <2>1. clock' = clock \/ clock' = clock + 1
    BY DEF Tracer, LoadEntry, RecordEvent, DrainStore, DrainMask
  <2>2. pauseTime <= clock'
    BY <1>3, <2>1 DEF SinceInv, ReadAt
  <2>. QED
    BY <1>0, <2>2 DEF SinceInv, ReadAt, snapVars, After, Slot
<1>6. ASSUME Searched
      PROVE  /\ seen \in Nat /\ seen <= Arrived /\ spos = After(seen)
             /\ spos <= seen /\ Left \in Nat /\ Left >= 1 /\ Left = seen - spos + 1
             /\ \A i \in Slots : Slot(Left + i) = i
  <2>1. seen \in Nat /\ spos = After(seen) /\ seen <= Arrived
    BY <1>6 DEF SinceInv, ReadAt, FullInv, Searched
  <2>. QED
    BY <2>1, SlotNumbers
<1>7. ASSUME NEW i \in Slots, mem[i].cycle <= mem'[i].cycle, mem'[i].cycle \in Nat, i \in Recent
      PROVE  i \in Recent'
  <2>1. mem[i].cycle \in Nat
    BY <1>3 DEF Entry
  <2>2. mem'[i].cycle >= req.time
    BY <1>3, <1>7, <2>1 DEF Recent
  <2>3. \A n \in DOMAIN snap : SlotAt(n) = i => snap[n].cycle >= req.time
    BY <1>7 DEF Recent
  <2>4. \A n : SlotAt(n)' = SlotAt(n)
    BY <1>4 DEF SlotAt
  <2>. QED
    BY <1>0, <2>2, <2>3, <2>4 DEF Recent, snapVars, Slots
<1>8. ASSUME NEW k \in 1 .. CyclesIn
      PROVE  mem[Slot(k)].cycle <= mem'[Slot(k)].cycle /\ mem'[Slot(k)].cycle \in Nat
  <2>1. CyclesForward'
    BY <1>1
  <2>2. \A j \in 1 .. CyclesIn' : mem'[Slot(j)].cycle \in j .. CyclesIn'
    BY <2>1 DEF CyclesForward, Slot
  <2>3. k \in 1 .. CyclesIn'
    BY <1>1, <1>2
  <2>4. mem'[Slot(k)].cycle \in k .. CyclesIn'
    BY <2>2, <2>3
  <2>5. mem'[Slot(k)].cycle \in Nat
    BY <1>1, <2>4
  <2>. QED
    BY <1>1, <2>5
<1>9. SearchedSoFar'
  <2>. SUFFICES ASSUME Searched PROVE SearchedSoFar'
    BY <1>0 DEF SearchedSoFar, Searched, snapVars
  <2>1. /\ spc = "right" \/ earliest.right # None => CyclesIn >= N
        /\ spos <= RightFirst /\ RightFirst <= RightKept /\ RightKept <= N
        /\ LeftFirst <= LeftKept /\ LeftKept <= spos
        /\ req.time <= pauseTime =>
             /\ Skipped(RightFirst, spos, N, Right, req.time, pauseTime, CyclesIn)
             /\ Skipped(LeftFirst, 0, spos, Left, req.time, pauseTime, CyclesIn)
        /\ req.time <= pauseTime /\ pauseTime < seen + N =>
             /\ Behind(Recent, RightKept, spos, N, Right, pauseTime, CyclesIn)
             /\ Behind(Recent, LeftKept, 0, spos, Left, pauseTime, CyclesIn)
    BY DEF SinceInv, SearchedSoFar
  <2>2. Left \in Int /\ Right \in Int /\ spos \in Int /\ 0 \in Int /\ N \in Int
    BY <1>3, <1>6 DEF Left, Right
  <2>3. spc' = spc /\ earliest' = earliest /\ spos' = spos /\ req' = req /\ pauseTime' = pauseTime
        /\ seen' = seen
    BY <1>0 DEF snapVars
  <2>4. \A i \in RightKept .. N - 1 : i \in Recent => i \in Recent'
    <3>. SUFFICES ASSUME NEW i \in RightKept .. N - 1, i \in Recent PROVE i \in Recent'
      OBVIOUS
    <3>1. CyclesIn >= N
      BY <1>3, <2>1 DEF RightKept, RightFirst
    <3>2. i \in 0 .. N - 1 /\ i + 1 \in 1 .. CyclesIn /\ (i + 1) - 1 = i /\ i % N = i
      BY <1>2, <1>3, <3>1
    <3>3. Slot(i + 1) = i
      BY <3>2 DEF Slot
    <3>4. mem[i].cycle <= mem'[i].cycle /\ mem'[i].cycle \in Nat /\ i \in Slots
      BY <1>8, <3>2, <3>3 DEF Slots
    <3>. QED
      BY <1>7, <3>4
  <2>5. \A i \in LeftKept .. spos - 1 : i \in Recent => i \in Recent'
    <3>. SUFFICES ASSUME NEW i \in LeftKept .. spos - 1, i \in Recent PROVE i \in Recent'
      OBVIOUS
    <3>1. i \in 0 .. N - 1 /\ i \in Slots
      BY <1>3 DEF Slots
    <3>2. Left + i \in 1 .. CyclesIn /\ Slot(Left + i) = i
      BY <1>2, <1>3, <1>6, <3>1
    <3>3. mem[i].cycle <= mem'[i].cycle /\ mem'[i].cycle \in Nat
      BY <1>8, <3>2
    <3>. QED
      BY <1>7, <3>1, <3>3
  <2>6. req.time <= pauseTime =>
             /\ Skipped(RightFirst, spos, N, Right, req.time, pauseTime, CyclesIn')
             /\ Skipped(LeftFirst, 0, spos, Left, req.time, pauseTime, CyclesIn')
    <3>. SUFFICES ASSUME req.time <= pauseTime
                  PROVE  /\ Skipped(RightFirst, spos, N, Right, req.time, pauseTime, CyclesIn')
                         /\ Skipped(LeftFirst, 0, spos, Left, req.time, pauseTime, CyclesIn')
      OBVIOUS
    <3>1. /\ Skipped(RightFirst, spos, N, Right, req.time, pauseTime, CyclesIn)
          /\ Skipped(LeftFirst, 0, spos, Left, req.time, pauseTime, CyclesIn)
      BY <2>1
    <3>2. RightFirst \in Int /\ LeftFirst \in Int /\ req.time \in Int /\ pauseTime \in Int
          /\ CyclesIn \in Int /\ CyclesIn' \in Int /\ CyclesIn <= CyclesIn'
      BY <1>1, <1>2, <1>3
    <3>. QED
      BY <2>2, <3>1, <3>2, SkippedGrows
  <2>7. req.time <= pauseTime /\ pauseTime < seen + N =>
             /\ Behind(Recent', RightKept, spos, N, Right, pauseTime, CyclesIn')
             /\ Behind(Recent', LeftKept, 0, spos, Left, pauseTime, CyclesIn')
    <3>. SUFFICES ASSUME req.time <= pauseTime /\ pauseTime < seen + N
                  PROVE  /\ Behind(Recent', RightKept, spos, N, Right, pauseTime, CyclesIn')
                         /\ Behind(Recent', LeftKept, 0, spos, Left, pauseTime, CyclesIn')
      OBVIOUS
    <3>1. /\ Behind(Recent, RightKept, spos, N, Right, pauseTime, CyclesIn)
          /\ Behind(Recent, LeftKept, 0, spos, Left, pauseTime, CyclesIn)
      BY <2>1
    <3>2. RightKept \in Int /\ LeftKept \in Int /\ pauseTime \in Int
          /\ CyclesIn \in Int /\ CyclesIn' \in Int /\ CyclesIn <= CyclesIn'
      BY <1>1, <1>2, <1>3
    <3>. QED
      BY <2>2, <2>4, <2>5, <3>1, <3>2, BehindGrows
  <2>8. spc = "right" \/ earliest.right # None => CyclesIn' >= N
    BY <1>1, <1>2, <2>1
  <2>. QED
    BY <1>4, <2>1, <2>3, <2>6, <2>7, <2>8 DEF SearchedSoFar
<1>10. CopiedSince'
  <2>1. \A n : SlotAt(n)' = SlotAt(n) /\ Number(SlotAt(n))' = Number(SlotAt(n))
    BY <1>0, <1>4 DEF SlotAt, Number, snapVars
  <2>2. ASSUME Copying, NEW n \in 1 .. Len(snap), Number(SlotAt(n)) >= 1
        PROVE  /\ snap[n].func \in Number(SlotAt(n)) .. mem'[SlotAt(n)].func
               /\ snap[n].cycle \in Number(SlotAt(n)) .. mem'[SlotAt(n)].cycle
    <3>. DEFINE i == SlotAt(n)
                k == Number(i)
    <3>1. snap[n].func \in k .. mem[i].func /\ snap[n].cycle \in k .. mem[i].cycle
      BY <2>2 DEF SinceInv, CopiedSince
    <3>2. Searched
      BY <2>2 DEF Copying, Searched
    <3>3. n \in 1 .. N - RightFirst + spos - LeftFirst
      <4>1. Len(snap) + Len(todo) = N - RightFirst + spos - LeftFirst
        BY <2>2 DEF SinceInv, CopiedSince
      <4>2. Len(todo) \in Nat /\ Len(snap) \in Nat
        BY <1>3
      <4>. QED
        BY <1>3, <4>1, <4>2
    <3>4. i \in Slots
      <4>1. spos <= RightFirst /\ RightFirst <= N /\ LeftFirst <= spos
        BY <1>3, <3>2 DEF SinceInv, SearchedSoFar
      <4>. QED
        BY <1>3, <3>3, <4>1, CopiedSlots
    <3>5. k \in 1 .. seen /\ Slot(k) = i
      BY <1>6, <2>2, <3>2, <3>4, NumberOfSlot
    <3>6. k \in 1 .. Arrived
      BY <1>2, <1>6, <3>2, <3>5
    <3>7. /\ mem[i].func <= mem'[i].func /\ mem'[i].func \in Nat
          /\ mem[i].cycle <= mem'[i].cycle /\ mem'[i].cycle \in Nat
      BY <3>5, <3>6, MemoryForward
    <3>8. mem[i].func \in Nat /\ mem[i].cycle \in Nat /\ k \in Nat
      BY <1>3, <3>4, <3>6 DEF Entry
    <3>. HIDE DEF i, k
    <3>9. snap[n].func \in k .. mem'[i].func /\ snap[n].cycle \in k .. mem'[i].cycle
      BY <3>1, <3>7, <3>8
    <3>. QED
      BY <3>9 DEF i, k
  <2>3. CopiedSince
    BY DEF SinceInv
  <2>. QED
    BY <1>0, <1>4, <2>1, <2>2, <2>3 DEF CopiedSince, Copying, snapVars
<1>. QED
  BY <1>1, <1>5, <1>9, <1>10 DEF SinceInv

\* The snapshotting thread writes to none of the traced thread's memory.
LEMMA SinceFrame ==
  ASSUME IInv, MemInv, FullInv, SinceInv, Snapper
  PROVE  /\ mem' = mem /\ clock' = clock /\ CyclesIn' = CyclesIn /\ CyclesForward'
         /\ CyclesIn \in Nat /\ Arrived \in Nat /\ Arrived <= CyclesIn /\ CyclesIn <= Arrived + 1
<1>1. UNCHANGED <<bufVars, memVars>>
  BY SnapperFrame
<1>2. mem' = mem /\ clock' = clock /\ sb' = sb
  BY <1>1 DEF bufVars, memVars
<1>3. Arrived' = Arrived
  BY <1>2 DEF Arrived, Drained
<1>4. CyclesIn' = CyclesIn
  BY <1>2, <1>3 DEF CyclesIn, Slot
<1>5. CyclesForward'
  BY <1>2, <1>4 DEF SinceInv, CyclesForward, Slot
<1>. QED
  BY <1>2, <1>4, <1>5, CyclesInIs

\* Before the search there is nothing to bound.
LEMMA SinceBegins ==
  ASSUME IInv, MemInv, FullInv, SinceInv,
         \/ \E op \in Ops, t \in 0 .. clock + 1 : Pause(op, t)
         \/ TakePauseTime \/ ReadPos
  PROVE  SinceInv'
<1>0. /\ mem' = mem /\ clock' = clock /\ CyclesIn' = CyclesIn /\ CyclesForward'
      /\ CyclesIn \in Nat /\ Arrived \in Nat
  BY SinceFrame DEF Snapper
<1>1. ASSUME NEW op \in Ops, NEW t \in 0 .. clock + 1, Pause(op, t) PROVE SinceInv'
  <2>1. /\ req' = [op |-> op, time |-> t] /\ snap' = <<>> /\ pauseTime' = pauseTime
        /\ spc' = IF op = "full" THEN "copy" ELSE "paused"
    BY <1>1 DEF Pause
  <2>2. req'.op = op
    BY <2>1
  <2>. QED
    BY <1>0, <2>1, <2>2 DEF SinceInv, ReadAt, SearchedSoFar, CopiedSince, Searched, Copying
<1>2. CASE TakePauseTime
  <2>1. spc = "paused" /\ spc' = "timed" /\ pauseTime' = clock /\ snap' = snap
    BY <1>2 DEF TakePauseTime
  <2>2. clock \in Nat
    BY RangeTypes
  <2>. QED
    BY <1>0, <2>1, <2>2 DEF SinceInv, ReadAt, SearchedSoFar, CopiedSince, Searched, Copying
<1>3. CASE ReadPos
  <2>1. /\ spc = "timed" /\ spc' = "posread" /\ pauseTime' = pauseTime /\ snap' = snap
        /\ spos' = mpos /\ seen' = Published
    BY <1>3 DEF ReadPos
  <2>2. Published = Arrived /\ mpos = After(Arrived)
    BY PublishedIs DEF IInv, MemInv, PosFollows
  <2>3. spos' = After(seen') /\ seen' \in Nat
    BY <1>0, <2>1, <2>2
  <2>4. ReadAt'
    BY <1>0, <2>1, <2>3 DEF SinceInv, ReadAt, After, Slot
  <2>. QED
    BY <1>0, <2>1, <2>4 DEF SinceInv, SearchedSoFar, CopiedSince, Searched, Copying
<1>. QED
  BY <1>1, <1>2, <1>3

\* Before its first probe the search has skipped nothing and kept nothing; the
\* slots right of pos are left out only when there was nothing in them.
LEMMA SinceChecks ==
  ASSUME IInv, MemInv, FullInv, SinceInv, CheckWraparound PROVE SinceInv'
<1>0. /\ mem' = mem /\ clock' = clock /\ CyclesIn' = CyclesIn /\ CyclesForward'
      /\ CyclesIn \in Nat /\ Arrived \in Nat /\ Arrived <= CyclesIn
  BY SinceFrame DEF Snapper
<1>1. /\ spc = "posread" /\ earliest' = [right |-> None, left |-> None]
      /\ req' = req /\ pauseTime' = pauseTime /\ spos' = spos /\ snap' = snap /\ seen' = seen
      /\ \/ Wraparound /\ spc' = "right" /\ search' = [first |-> spos, len |-> N - spos, last |-> N]
         \/ ~Wraparound /\ spc' = "left" /\ search' = [first |-> 0, len |-> spos - 0, last |-> spos]
  BY DEF CheckWraparound, SearchIn
<1>2. ReadAt'
  BY <1>0, <1>1 DEF SinceInv, ReadAt, After, Slot
<1>3. CopiedSince'
  BY <1>1 DEF SinceInv, CopiedSince, Copying
<1>4. ASSUME req.op = "since" PROVE SearchedSoFar'
  <2>1. /\ spos \in 0 .. N /\ seen \in Nat /\ seen <= Arrived /\ (seen < N => spos = seen)
        /\ Right = seen - spos + 1 - N /\ Left = seen - spos + 1
    <3>1. seen \in Nat /\ spos = After(seen) /\ seen <= Arrived
      BY <1>1, <1>4 DEF SinceInv, ReadAt, FullInv
    <3>. QED
      BY <3>1, SlotNumbers DEF Left, Right
  <2>2. Right' = Right /\ Left' = Left
    BY <1>1 DEF Left, Right
  <2>3. \A R, o, P, W : Behind(R, N, spos, N, o, P, W) /\ Behind(R, spos, 0, spos, o, P, W)
    <3>. TAKE R, o, P, W
    <3>1. spos - 1 \in spos - 1 .. N - 1 /\ ~(spos - 1 >= spos) /\ N .. N - 1 = {}
      BY <2>1
    <3>2. 0 - 1 \in 0 - 1 .. spos - 1 /\ ~(0 - 1 >= 0) /\ spos .. spos - 1 = {}
      BY <2>1
    <3>. QED
      BY <3>1, <3>2 DEF Behind
  <2>4. \A o, T, P, W : Skipped(spos, spos, N, o, T, P, W) /\ Skipped(0, 0, spos, o, T, P, W)
    <3>. TAKE o, T, P, W
    <3>1. N \in spos .. N /\ ~(N < N) /\ spos .. spos - 1 = {}
      BY <2>1
    <3>2. spos \in 0 .. spos /\ ~(spos < spos) /\ 0 .. 0 - 1 = {}
      BY <2>1
    <3>. QED
      BY <3>1, <3>2 DEF Skipped
  <2>5. CASE Wraparound
    <3>1. spc' = "right" /\ search'.first = spos /\ search'.len = N - spos
      BY <1>1, <2>5
    <3>2. RightFirst' = spos /\ RightKept' = N /\ LeftFirst' = 0 /\ LeftKept' = spos
      BY <2>1, <1>1, <3>1 DEF RightFirst, RightKept, LeftFirst, LeftKept
    <3>3. CyclesIn >= N
      BY <1>0, <2>5 DEF SinceInv, CyclesForward, Wraparound
    <3>. QED
      BY <1>0, <1>1, <2>1, <2>3, <2>4, <3>2, <3>3 DEF SearchedSoFar
  <2>6. CASE ~Wraparound
    <3>1. spc' = "left" /\ search'.first = 0 /\ search'.len = spos /\ earliest'.right = None
      BY <1>1, <2>1, <2>6
    <3>2. RightFirst' = N /\ RightKept' = N /\ LeftFirst' = 0 /\ LeftKept' = spos
      BY <2>1, <1>1, <3>1 DEF RightFirst, RightKept, LeftFirst, LeftKept
    <3>3. CyclesIn < N
      <4>. SUFFICES ASSUME CyclesIn >= N PROVE FALSE
        BY <1>0
      <4>1. N \in 1 .. CyclesIn
        BY <1>0
      <4>2. mem[Slot(N)].cycle \in N .. CyclesIn
        BY <4>1 DEF SinceInv, CyclesForward
      <4>3. (N - 1) % N = N - 1
        OBVIOUS
      <4>. QED
        BY <2>6, <4>2, <4>3 DEF Slot, Wraparound
    <3>4. \A T, P, W : Skipped(N, spos, N, Right, T, P, W)
      <4>. TAKE T, P, W
      <4>1. N \in spos .. N /\ ~(N < N)
        BY <2>1
      <4>2. \A i \in spos .. N - 1 : ~(1 <= Right + i)
        BY <1>0, <2>1, <3>3
      <4>. QED
        BY <4>1, <4>2 DEF Skipped
    <3>. QED
      BY <1>0, <1>1, <2>1, <2>2, <2>3, <2>4, <3>1, <3>2, <3>4 DEF SearchedSoFar
  <2>. QED
    BY <2>5, <2>6
<1>5. ASSUME req.op # "since" PROVE SearchedSoFar'
  BY <1>1, <1>5 DEF SearchedSoFar, Searched
<1>. QED
  BY <1>0, <1>2, <1>3, <1>4, <1>5 DEF SinceInv

\* A probe of either half of the buffer.
LEMMA HalfProbed ==
  ASSUME IInv, seen \in Nat, snap = <<>>, CyclesIn \in Nat, NEW lo \in Nat, NEW hi \in 0 .. N,
         NEW o \in Int, Zone(Cycles, lo, hi, o, CyclesIn, seen),
         NEW f \in Nat, NEW e \in Nat, NEW m \in Nat, lo <= f, f <= m, m < e, e <= hi,
         2 * m <= f + e, f + e <= 2 * m + 1, req.time <= pauseTime
  PROVE  /\ Before(mem[m].cycle) /\ Skipped(f, lo, hi, o, req.time, pauseTime, CyclesIn) =>
              Skipped(m + 1, lo, hi, o, req.time, pauseTime, CyclesIn)
         /\ ~Before(mem[m].cycle) /\ pauseTime < seen + N
              /\ Behind(Recent, e, lo, hi, o, pauseTime, CyclesIn) =>
                   Behind(Recent, m, lo, hi, o, pauseTime, CyclesIn)
<1>1. req.time \in Nat /\ pauseTime \in Nat /\ mem \in [Slots -> Entry]
  BY RangeTypes
<1>2. m \in Slots /\ \A i \in lo .. hi - 1 : i \in Slots
  BY DEF Slots
<1>3. \A i \in Slots : Cycles[i] = mem[i].cycle /\ Cycles[i] \in Nat
  BY <1>1 DEF Cycles, Entry
<1>4. Before(mem[m].cycle) <=> Cycles[m] > pauseTime \/ Cycles[m] < req.time
  <2>1. mem[m].cycle = Cycles[m] /\ Cycles[m] \in Nat
    BY <1>2, <1>3
  <2>. QED
    BY <1>1, <2>1 DEF Before
<1>5. \A i \in lo .. hi - 1 : Cycles[i] >= req.time => i \in Recent
  BY <1>2, <1>3 DEF Recent
<1>6. lo \in Int /\ hi \in Int /\ f \in Int /\ e \in Int /\ m \in Int
  OBVIOUS
<1>7. ASSUME Before(mem[m].cycle), Skipped(f, lo, hi, o, req.time, pauseTime, CyclesIn)
      PROVE  Skipped(m + 1, lo, hi, o, req.time, pauseTime, CyclesIn)
  <2>1. Cycles[m] > pauseTime \/ Cycles[m] < req.time
    BY <1>4, <1>7
  <2>. QED
    BY <1>1, <1>6, <1>7, <2>1, ProbeSkips
<1>8. ASSUME ~Before(mem[m].cycle), pauseTime < seen + N,
             Behind(Recent, e, lo, hi, o, pauseTime, CyclesIn)
      PROVE  Behind(Recent, m, lo, hi, o, pauseTime, CyclesIn)
  <2>1. Cycles[m] >= req.time /\ Cycles[m] <= pauseTime
    BY <1>1, <1>2, <1>3, <1>4, <1>8
  <2>. QED
    BY <1>1, <1>5, <1>6, <1>8, <2>1, ProbeKeeps
<1>. QED
  BY <1>7, <1>8

\* A probe moves one end of the range and keeps what was said of both.
LEMMA SinceProbes ==
  ASSUME IInv, MemInv, FullInv, SinceInv, Probe PROVE SinceInv'
<1>0. /\ mem' = mem /\ clock' = clock /\ CyclesIn' = CyclesIn /\ CyclesForward'
      /\ CyclesIn \in Nat /\ Arrived \in Nat /\ Arrived <= CyclesIn
  BY SinceFrame DEF Snapper
<1>. DEFINE f == search.first
            e == search.first + search.len
            m == search.first + search.len \div 2
<1>1. /\ spc \in {"right", "left"} /\ search.len > 0
      /\ search' = IF Before(mem[m].cycle)
                   THEN [search EXCEPT !.first = m + 1, !.len = @ - (search.len \div 2) - 1]
                   ELSE [search EXCEPT !.len = search.len \div 2]
      /\ spc' = spc /\ req' = req /\ pauseTime' = pauseTime /\ spos' = spos /\ snap' = snap
      /\ seen' = seen /\ earliest' = earliest
  BY DEF Probe
<1>2. /\ f \in Nat /\ e \in Nat /\ m \in Nat /\ f <= m /\ m < e /\ 2 * m <= f + e /\ f + e <= 2 * m + 1
      /\ e <= search.last /\ (spc = "left" => search.last = spos) /\ (spc = "right" => search.last = N)
  <2>1. /\ search.first \in Nat /\ search.len \in Nat /\ search.last \in Nat
        /\ search.first + search.len <= search.last
        /\ (spc = "left" => search.last = spos) /\ (spc = "right" => search.last = N)
    BY DEF IInv, TypeOK, SnapperTypeOK, SearchInBounds
  <2>2. \A n \in Nat : n > 0 => /\ n \div 2 \in Nat /\ n \div 2 < n
                                /\ 2 * (n \div 2) <= n /\ n <= 2 * (n \div 2) + 1
    OBVIOUS
  <2>. QED
    BY <1>1, <2>1, <2>2
<1>3. IF Before(mem[m].cycle)
      THEN search'.first = m + 1 /\ search'.first + search'.len = e
      ELSE search'.first = f /\ search'.first + search'.len = m
  <2>1. /\ search.first \in Nat /\ search.len \in Nat /\ search.len \div 2 \in Nat
        /\ search \in [first : 0 .. N, len : 0 .. N, last : 0 .. N]
    BY <1>1, Halving DEF IInv, TypeOK, SnapperTypeOK
  <2>2. CASE Before(mem[m].cycle)
    <3>1. search'.first = m + 1 /\ search'.len = search.len - (search.len \div 2) - 1
      BY <1>1, <2>1, <2>2
    <3>. QED
      BY <2>1, <2>2, <3>1
  <2>3. CASE ~Before(mem[m].cycle)
    <3>1. search'.first = f /\ search'.len = search.len \div 2
      BY <1>1, <2>1, <2>3
    <3>. QED
      BY <2>1, <2>3, <3>1
  <2>. QED
    BY <2>2, <2>3
<1>. HIDE DEF f, e, m
<1>4. ReadAt'
  BY <1>0, <1>1 DEF SinceInv, ReadAt, After, Slot
<1>5. snap = <<>> /\ CopiedSince'
  BY <1>1 DEF SinceInv, CopiedSince, Copying
<1>6. ASSUME Searched PROVE SearchedSoFar'
  <2>1. /\ seen \in Nat /\ seen <= Arrived /\ spos = After(seen) /\ spos \in 0 .. N
        /\ Left \in Int /\ Right \in Int
    <3>1. seen \in Nat /\ spos = After(seen) /\ seen <= Arrived
      BY <1>6 DEF SinceInv, ReadAt, FullInv, Searched
    <3>2. spos \in 0 .. N /\ Left \in Nat /\ Right = Left - N
      BY <3>1, SlotNumbers
    <3>. QED
      BY <3>1, <3>2
  <2>2. /\ Zone(Cycles, 0, spos, Left, CyclesIn, seen)
        /\ CyclesIn >= N => Zone(Cycles, spos, N, Right, CyclesIn, seen)
    BY <2>1, ZonesHeld DEF SinceInv
  <2>3. Left' = Left /\ Right' = Right /\ Recent' = Recent
    BY <1>0, <1>1, <1>5 DEF Left, Right, Recent
  <2>4. /\ spc = "right" \/ earliest.right # None => CyclesIn >= N
        /\ spos <= RightFirst /\ RightFirst <= RightKept /\ RightKept <= N
        /\ LeftFirst <= LeftKept /\ LeftKept <= spos
        /\ req.time <= pauseTime =>
             /\ Skipped(RightFirst, spos, N, Right, req.time, pauseTime, CyclesIn)
             /\ Skipped(LeftFirst, 0, spos, Left, req.time, pauseTime, CyclesIn)
        /\ req.time <= pauseTime /\ pauseTime < seen + N =>
             /\ Behind(Recent, RightKept, spos, N, Right, pauseTime, CyclesIn)
             /\ Behind(Recent, LeftKept, 0, spos, Left, pauseTime, CyclesIn)
    BY <1>6 DEF SinceInv, SearchedSoFar
  <2>5. CASE spc = "right"
    <3>1. /\ RightFirst = f /\ RightKept = e /\ LeftFirst = 0 /\ LeftKept = spos
          /\ LeftFirst' = 0 /\ LeftKept' = spos
          /\ RightFirst' = search'.first /\ RightKept' = search'.first + search'.len
      BY <1>1, <2>5 DEF RightFirst, RightKept, LeftFirst, LeftKept, f, e
    <3>2. /\ spos \in Nat /\ N \in 0 .. N /\ spos <= f /\ e <= N
          /\ Zone(Cycles, spos, N, Right, CyclesIn, seen)
      BY <1>2, <2>1, <2>2, <2>4, <2>5, <3>1
    <3>3. req.time <= pauseTime =>
            /\ Before(mem[m].cycle) /\ Skipped(f, spos, N, Right, req.time, pauseTime, CyclesIn) =>
                 Skipped(m + 1, spos, N, Right, req.time, pauseTime, CyclesIn)
            /\ ~Before(mem[m].cycle) /\ pauseTime < seen + N
                 /\ Behind(Recent, e, spos, N, Right, pauseTime, CyclesIn) =>
                      Behind(Recent, m, spos, N, Right, pauseTime, CyclesIn)
      BY <1>0, <1>2, <1>5, <2>1, <3>2, HalfProbed
    <3>4. CASE Before(mem[m].cycle)
      <4>1. RightFirst' = m + 1 /\ RightKept' = e
        BY <1>3, <3>1, <3>4
      <4>2. spos <= m + 1 /\ m + 1 <= e
        BY <1>2, <2>1, <3>2
      <4>. QED
        BY <1>0, <1>1, <2>3, <2>4, <3>1, <3>2, <3>3, <3>4, <4>1, <4>2 DEF SearchedSoFar
    <3>5. CASE ~Before(mem[m].cycle)
      <4>1. RightFirst' = f /\ RightKept' = m
        BY <1>3, <3>1, <3>5
      <4>2. m <= N
        BY <1>2, <3>2
      <4>. QED
        BY <1>0, <1>1, <1>2, <2>3, <2>4, <3>1, <3>2, <3>3, <3>5, <4>1, <4>2 DEF SearchedSoFar
    <3>. QED
      BY <3>4, <3>5
  <2>6. CASE spc = "left"
    <3>1. /\ RightFirst' = RightFirst /\ RightKept' = RightKept
          /\ LeftFirst = f /\ LeftKept = e
          /\ LeftFirst' = search'.first /\ LeftKept' = search'.first + search'.len
      BY <1>1, <2>6 DEF RightFirst, RightKept, LeftFirst, LeftKept, f, e
    <3>2. 0 \in Nat /\ 0 <= f /\ e <= spos
      BY <1>2, <2>6
    <3>3. req.time <= pauseTime =>
            /\ Before(mem[m].cycle) /\ Skipped(f, 0, spos, Left, req.time, pauseTime, CyclesIn) =>
                 Skipped(m + 1, 0, spos, Left, req.time, pauseTime, CyclesIn)
            /\ ~Before(mem[m].cycle) /\ pauseTime < seen + N
                 /\ Behind(Recent, e, 0, spos, Left, pauseTime, CyclesIn) =>
                      Behind(Recent, m, 0, spos, Left, pauseTime, CyclesIn)
      BY <1>0, <1>2, <1>5, <2>1, <2>2, <3>2, HalfProbed
    <3>4. CASE Before(mem[m].cycle)
      <4>1. LeftFirst' = m + 1 /\ LeftKept' = e
        BY <1>3, <3>1, <3>4
      <4>2. m + 1 <= e
        BY <1>2
      <4>. QED
        BY <1>0, <1>1, <2>3, <2>4, <3>1, <3>2, <3>3, <3>4, <4>1, <4>2 DEF SearchedSoFar
    <3>5. CASE ~Before(mem[m].cycle)
      <4>1. LeftFirst' = f /\ LeftKept' = m
        BY <1>3, <3>1, <3>5
      <4>2. m <= spos
        BY <1>2, <2>1, <3>2
      <4>. QED
        BY <1>0, <1>1, <1>2, <2>3, <2>4, <3>1, <3>2, <3>3, <3>5, <4>1, <4>2 DEF SearchedSoFar
    <3>. QED
      BY <3>4, <3>5
  <2>. QED
    BY <1>1, <2>5, <2>6
<1>7. ASSUME ~Searched PROVE SearchedSoFar'
  BY <1>1, <1>7 DEF SearchedSoFar, Searched
<1>. QED
  BY <1>0, <1>4, <1>5, <1>6, <1>7 DEF SinceInv

\* The end of the search on the right: what is kept begins where the skipping
\* has ended, and the left half is still to be searched.
LEMMA SinceFoundRight ==
  ASSUME IInv, MemInv, FullInv, SinceInv, SearchedRight PROVE SinceInv'
<1>0. /\ mem' = mem /\ clock' = clock /\ CyclesIn' = CyclesIn /\ CyclesForward'
  BY SinceFrame DEF Snapper
<1>1. /\ spc = "right" /\ search.len = 0 /\ spc' = "left"
      /\ earliest' = [earliest EXCEPT !.right = SearchResult]
      /\ search' = [first |-> 0, len |-> spos - 0, last |-> spos]
      /\ req' = req /\ pauseTime' = pauseTime /\ spos' = spos /\ snap' = snap /\ seen' = seen
  BY DEF SearchedRight, SearchIn
<1>2. /\ search.first \in Nat /\ search.last = N /\ spos \in 0 .. N
      /\ earliest \in [right : Slots \cup {None}, left : Slots \cup {None}]
  BY <1>1 DEF IInv, TypeOK, SnapperTypeOK, SearchInBounds
<1>3. earliest'.right = IF search.first = N THEN None ELSE search.first
  BY <1>1, <1>2 DEF SearchResult
<1>4. search'.first = 0 /\ search'.len = spos
  BY <1>1, <1>2
<1>5. /\ RightFirst = search.first /\ RightKept = search.first /\ LeftFirst = 0 /\ LeftKept = spos
      /\ RightFirst' = search.first /\ RightKept' = search.first /\ LeftFirst' = 0 /\ LeftKept' = spos
  BY <1>1, <1>2, <1>3, <1>4 DEF RightFirst, RightKept, LeftFirst, LeftKept
<1>6. ReadAt'
  BY <1>0, <1>1 DEF SinceInv, ReadAt, After, Slot
<1>7. snap = <<>> /\ CopiedSince'
  BY <1>1 DEF SinceInv, CopiedSince, Copying
<1>8. Left' = Left /\ Right' = Right /\ Recent' = Recent
  BY <1>0, <1>1, <1>7 DEF Left, Right, Recent
<1>9. SearchedSoFar'
  BY <1>0, <1>1, <1>5, <1>8 DEF SinceInv, SearchedSoFar, Searched
<1>. QED
  BY <1>0, <1>6, <1>7, <1>9 DEF SinceInv

\* The end of the search left of pos fixes the slots to be copied.
LEMMA SinceFoundLeft ==
  ASSUME IInv, MemInv, FullInv, SinceInv, SearchedLeft PROVE SinceInv'
<1>0. /\ mem' = mem /\ clock' = clock /\ CyclesIn' = CyclesIn /\ CyclesForward'
  BY SinceFrame DEF Snapper
<1>1. /\ spc = "left" /\ search.len = 0 /\ spc' = "copy"
      /\ earliest' = [earliest EXCEPT !.left = SearchResult]
      /\ req' = req /\ pauseTime' = pauseTime /\ spos' = spos /\ snap' = snap /\ seen' = seen
  BY DEF SearchedLeft
<1>2. /\ search.first \in Nat /\ search.first <= spos /\ search.last = spos /\ spos \in 0 .. N
      /\ earliest \in [right : Slots \cup {None}, left : Slots \cup {None}]
      /\ SearchResult \in Slots \cup {None}
  BY <1>1, SearchResultType DEF IInv, TypeOK, SnapperTypeOK, SearchInBounds
<1>3. /\ earliest'.right = earliest.right /\ earliest'.left = SearchResult
      /\ SearchResult = IF search.first = spos THEN None ELSE search.first
  BY <1>1, <1>2 DEF SearchResult
<1>4. /\ RightKept = RightFirst /\ LeftFirst = search.first /\ LeftKept = search.first
      /\ RightFirst' = RightFirst /\ RightKept' = RightFirst
      /\ LeftFirst' = search.first /\ LeftKept' = search.first
      /\ RightFirst = IF earliest.right = None THEN N ELSE earliest.right
  BY <1>1, <1>2, <1>3 DEF RightFirst, RightKept, LeftFirst, LeftKept
<1>5. ReadAt'
  BY <1>0, <1>1 DEF SinceInv, ReadAt, After, Slot
<1>6. snap = <<>>
  BY <1>1 DEF SinceInv, CopiedSince
<1>7. Left' = Left /\ Right' = Right /\ Recent' = Recent
  BY <1>0, <1>1, <1>6 DEF Left, Right, Recent
<1>8. SearchedSoFar'
  BY <1>0, <1>1, <1>3, <1>4, <1>7 DEF SinceInv, SearchedSoFar, Searched
<1>9. CopiedSince'
  <2>. DEFINE R == SlotsFrom(earliest.right, N)
              L == SlotsFrom(SearchResult, spos)
  <2>1. /\ todo' = R \o L /\ Len(todo') = Len(R) + Len(L) /\ Len(R) \in Nat /\ Len(L) \in Nat
        /\ \A i \in 1 .. Len(R) + Len(L) :
             todo'[i] = IF i <= Len(R) THEN R[i] ELSE L[i - Len(R)]
    BY ToCopy
  <2>2. Len(R) = N - RightFirst /\ \A i \in 1 .. Len(R) : R[i] = RightFirst + i - 1
    <3>1. earliest.right \in Slots \cup {None} /\ N \in 0 .. N
      BY <1>2
    <3>2. /\ earliest.right = None => Len(R) = 0
          /\ earliest.right # None => /\ Len(R) = IF earliest.right <= N THEN N - earliest.right ELSE 0
                                      /\ \A i \in 1 .. Len(R) : R[i] = earliest.right + i - 1
      BY <3>1, SlotsListed
    <3>. HIDE DEF R
    <3>3. CASE earliest.right = None
      <4>1. Len(R) = 0 /\ RightFirst = N
        BY <1>4, <3>2, <3>3
      <4>. QED
        BY <4>1
    <3>4. CASE earliest.right # None
      <4>1. earliest.right \in 0 .. N - 1 /\ RightFirst = earliest.right
        BY <1>4, <3>1, <3>4 DEF Slots
      <4>2. Len(R) = N - earliest.right
        BY <3>2, <3>4, <4>1
      <4>. QED
        BY <3>2, <3>4, <4>1, <4>2
    <3>. QED
      BY <3>3, <3>4
  <2>3. Len(L) = spos - search.first /\ \A i \in 1 .. Len(L) : L[i] = search.first + i - 1
    <3>0. SearchResult \in Slots \cup {None} /\ spos \in 0 .. N
      BY <1>2
    <3>1. /\ SearchResult = None => Len(L) = 0
          /\ SearchResult # None => /\ Len(L) = IF SearchResult <= spos THEN spos - SearchResult ELSE 0
                                    /\ \A i \in 1 .. Len(L) : L[i] = SearchResult + i - 1
      BY <3>0, SlotsListed
    <3>. HIDE DEF L
    <3>2. CASE search.first = spos
      <4>1. SearchResult = None
        BY <1>3, <3>2
      <4>. QED
        BY <1>2, <3>1, <3>2, <4>1
    <3>3. CASE search.first # spos
      <4>1. SearchResult = search.first /\ SearchResult # None
        BY <1>2, <1>3, <3>3
      <4>. QED
        BY <1>2, <3>1, <3>3, <4>1
    <3>. QED
      BY <3>2, <3>3
  <2>. HIDE DEF R, L
  <2>4. RightFirst \in Nat /\ RightFirst <= N
    <3>1. earliest.right # None => earliest.right \in 0 .. N - 1
      BY <1>2 DEF Slots
    <3>. QED
      BY <1>4, <3>1
  <2>5. \A n : SlotAt(n)' = IF n <= N - RightFirst THEN RightFirst + n - 1
                            ELSE search.first + n - (N - RightFirst) - 1
    BY <1>4 DEF SlotAt
  <2>6. \A j \in 1 .. Len(todo') : todo'[j] = SlotAt(j)'
    <3>. TAKE j \in 1 .. Len(todo')
    <3>1. CASE j <= Len(R)
      <4>1. todo'[j] = R[j] /\ j \in 1 .. Len(R)
        BY <2>1, <3>1
      <4>. QED
        BY <2>2, <2>4, <2>5, <3>1, <4>1
    <3>2. CASE j > Len(R)
      <4>1. todo'[j] = L[j - Len(R)] /\ j - Len(R) \in 1 .. Len(L)
        BY <2>1, <3>2
      <4>2. L[j - Len(R)] = search.first + (j - Len(R)) - 1
        BY <2>3, <4>1
      <4>. QED
        BY <1>2, <2>2, <2>4, <2>5, <3>2, <4>1, <4>2
    <3>. QED
      BY <2>1, <3>1, <3>2
  <2>7. Len(snap') = 0 /\ snap' = <<>>
    BY <1>1, <1>6
  <2>8. Len(snap') + Len(todo') = N - RightFirst' + spos' - LeftFirst'
    BY <1>1, <1>2, <1>4, <2>1, <2>2, <2>3, <2>4, <2>7
  <2>9. \A j \in 1 .. Len(todo') : todo'[j] = SlotAt(Len(snap) + j)'
    <3>. TAKE j \in 1 .. Len(todo')
    <3>1. Len(snap') + j = j
      BY <2>1, <2>7
    <3>2. SlotAt(Len(snap) + j)' =
            IF Len(snap') + j <= N - RightFirst' THEN RightFirst' + (Len(snap') + j) - 1
            ELSE LeftFirst' + (Len(snap') + j) - (N - RightFirst') - 1
      BY DEF SlotAt
    <3>3. SlotAt(j)' = IF j <= N - RightFirst' THEN RightFirst' + j - 1
                       ELSE LeftFirst' + j - (N - RightFirst') - 1
      BY DEF SlotAt
    <3>. QED
      BY <2>6, <3>1, <3>2, <3>3
  <2>. QED
    BY <1>1, <2>7, <2>8, <2>9 DEF CopiedSince, Copying
<1>. QED
  BY <1>0, <1>5, <1>8, <1>9 DEF SinceInv

\* An entry that was recent when it was copied is recent in the copy.
LEMMA SinceCopies ==
  ASSUME IInv, MemInv, FullInv, SinceInv, CopyEntry PROVE SinceInv'
<1>0. /\ mem' = mem /\ clock' = clock /\ CyclesIn' = CyclesIn /\ CyclesForward'
      /\ CyclesIn \in Nat /\ Arrived \in Nat
  BY SinceFrame DEF Snapper
<1>1. /\ spc = "copy" /\ spc' = "copy" /\ todo # <<>>
      /\ snap' = Append(snap, mem[Head(todo)]) /\ todo' = Tail(todo)
      /\ req' = req /\ pauseTime' = pauseTime /\ spos' = spos /\ seen' = seen
      /\ earliest' = earliest /\ search' = search
  BY DEF CopyEntry
<1>2. /\ RightFirst \in Nat /\ RightKept \in Nat /\ LeftFirst \in Nat /\ LeftKept \in Nat
      /\ spos \in 0 .. N /\ req.time \in Nat /\ pauseTime \in Nat /\ seen \in Int
      /\ mem \in [Slots -> Entry] /\ snap \in Seq(Entry) /\ todo \in Seq(Slots)
  BY RangeTypes
<1>3. ReadAt'
  BY <1>0, <1>1 DEF SinceInv, ReadAt, After, Slot
<1>4. CASE req.op # "since"
  BY <1>0, <1>1, <1>3, <1>4 DEF SinceInv, SearchedSoFar, Searched, CopiedSince, Copying
<1>5. CASE req.op = "since"
  <2>. DEFINE p == Len(snap) + 1
              h == Head(todo)
  <2>1. /\ Len(snap) \in Nat /\ Len(todo) \in Nat /\ Len(todo) >= 1
        /\ h = todo[1] /\ h \in Slots /\ mem[h] \in Entry
        /\ Len(todo') = Len(todo) - 1 /\ \A j \in 1 .. Len(todo) - 1 : todo'[j] = todo[j + 1]
    <3>1. /\ Len(snap) \in Nat /\ Len(todo) \in Nat /\ Len(todo) >= 1
          /\ h = todo[1] /\ h \in Slots
          /\ Len(todo') = Len(todo) - 1 /\ \A j \in 1 .. Len(todo) - 1 : todo'[j] = todo[j + 1]
      BY <1>1, <1>2, HeadTailProperties
    <3>. QED
      BY <1>2, <3>1
  <2>2. /\ Len(snap') = p /\ DOMAIN snap = 1 .. Len(snap) /\ DOMAIN snap' = 1 .. p
        /\ \A i \in 1 .. Len(snap) : snap'[i] = snap[i]
        /\ snap'[p] = mem[h]
    <3>1. snap' = Append(snap, mem[h])
      BY <1>1
    <3>2. /\ snap' \in Seq(Entry) /\ Len(snap') = Len(snap) + 1
          /\ \A i \in 1 .. Len(snap) : snap'[i] = snap[i]
          /\ snap'[Len(snap) + 1] = mem[h]
      BY <1>2, <2>1, <3>1, AppendProperties
    <3>3. DOMAIN snap = 1 .. Len(snap) /\ DOMAIN snap' = 1 .. Len(snap')
      BY <1>2, <3>2
    <3>. QED
      BY <3>2, <3>3
  <2>. HIDE DEF h
  <2>3. /\ RightFirst' = RightFirst /\ RightKept' = RightKept
        /\ LeftFirst' = LeftFirst /\ LeftKept' = LeftKept /\ Left' = Left /\ Right' = Right
    BY <1>1 DEF RightFirst, RightKept, LeftFirst, LeftKept, Left, Right
  <2>4. /\ Len(snap) + Len(todo) = N - RightFirst + spos - LeftFirst
        /\ \A j \in 1 .. Len(todo) : todo[j] = SlotAt(Len(snap) + j)
        /\ \A n \in 1 .. Len(snap) :
             Number(SlotAt(n)) >= 1 =>
               /\ snap[n].func \in Number(SlotAt(n)) .. mem[SlotAt(n)].func
               /\ snap[n].cycle \in Number(SlotAt(n)) .. mem[SlotAt(n)].cycle
    BY <1>1, <1>5 DEF SinceInv, CopiedSince, Copying
  <2>5. h = SlotAt(p)
    BY <2>1, <2>4
  <2>6. \A n : SlotAt(n)' = SlotAt(n) /\ Number(SlotAt(n))' = Number(SlotAt(n))
    BY <1>1, <2>3 DEF SlotAt, Number
  <2>7. /\ seen \in Nat /\ seen <= Arrived /\ spos = After(seen) /\ Left \in Int /\ Right \in Int
    <3>1. seen \in Nat /\ seen <= Arrived /\ spos = After(seen)
      BY <1>1, <1>5 DEF SinceInv, ReadAt, FullInv
    <3>. QED
      BY <1>2, <3>1 DEF Left, Right
  <2>8. \A i \in Recent : i \in Recent'
    <3>. SUFFICES ASSUME NEW i \in Recent PROVE i \in Recent'
      OBVIOUS
    <3>1. /\ i \in Slots /\ mem[i].cycle >= req.time
          /\ \A n \in DOMAIN snap : SlotAt(n) = i => snap[n].cycle >= req.time
      BY DEF Recent
    <3>2. \A n \in 1 .. p : SlotAt(n) = i => snap'[n].cycle >= req.time
      <4>. SUFFICES ASSUME NEW n \in 1 .. p, SlotAt(n) = i PROVE snap'[n].cycle >= req.time
        OBVIOUS
      <4>1. CASE n = p
        BY <2>2, <2>5, <3>1, <4>1
      <4>2. CASE n # p
        <5>1. n \in 1 .. Len(snap)
          BY <2>1, <4>2
        <5>. QED
          BY <2>2, <3>1, <5>1
      <4>. QED
        BY <4>1, <4>2
    <3>. QED
      BY <1>0, <1>1, <2>2, <2>6, <3>1, <3>2 DEF Recent, Slots
  <2>9. SearchedSoFar'
    <3>1. /\ spc = "right" \/ earliest.right # None => CyclesIn >= N
          /\ spos <= RightFirst /\ RightFirst <= RightKept /\ RightKept <= N
          /\ LeftFirst <= LeftKept /\ LeftKept <= spos
          /\ req.time <= pauseTime =>
               /\ Skipped(RightFirst, spos, N, Right, req.time, pauseTime, CyclesIn)
               /\ Skipped(LeftFirst, 0, spos, Left, req.time, pauseTime, CyclesIn)
          /\ req.time <= pauseTime /\ pauseTime < seen + N =>
               /\ Behind(Recent, RightKept, spos, N, Right, pauseTime, CyclesIn)
               /\ Behind(Recent, LeftKept, 0, spos, Left, pauseTime, CyclesIn)
      BY <1>1, <1>5 DEF SinceInv, SearchedSoFar, Searched
    <3>2. ASSUME req.time <= pauseTime /\ pauseTime < seen + N
          PROVE  /\ Behind(Recent', RightKept, spos, N, Right, pauseTime, CyclesIn)
                 /\ Behind(Recent', LeftKept, 0, spos, Left, pauseTime, CyclesIn)
      <4>1. /\ Behind(Recent, RightKept, spos, N, Right, pauseTime, CyclesIn)
            /\ Behind(Recent, LeftKept, 0, spos, Left, pauseTime, CyclesIn)
        BY <3>1, <3>2
      <4>2. /\ RightKept \in Int /\ LeftKept \in Int /\ pauseTime \in Int /\ CyclesIn \in Int
            /\ CyclesIn <= CyclesIn /\ spos \in Int /\ 0 \in Int /\ N \in Int
        BY <1>0, <1>2
      <4>3. /\ \A i \in RightKept .. N - 1 : i \in Recent => i \in Recent'
            /\ \A i \in LeftKept .. spos - 1 : i \in Recent => i \in Recent'
        BY <2>8
      <4>4. Behind(Recent', RightKept, spos, N, Right, pauseTime, CyclesIn)
        BY <2>7, <4>1, <4>2, <4>3, BehindGrows
      <4>5. Behind(Recent', LeftKept, 0, spos, Left, pauseTime, CyclesIn)
        BY <2>7, <4>1, <4>2, <4>3, BehindGrows
      <4>. QED
        BY <4>4, <4>5
    <3>. QED
      BY <1>0, <1>1, <2>3, <3>1, <3>2 DEF SearchedSoFar
  <2>10. CopiedSince'
    <3>1. Len(snap') + Len(todo') = N - RightFirst' + spos' - LeftFirst'
      <4>1. Len(snap') + Len(todo') = Len(snap) + Len(todo)
        BY <2>1, <2>2
      <4>. QED
        BY <1>1, <2>3, <2>4, <4>1
    <3>2. \A j \in 1 .. Len(todo') : todo'[j] = SlotAt(Len(snap) + j)'
      <4>. SUFFICES ASSUME NEW j \in 1 .. Len(todo) - 1 PROVE todo'[j] = SlotAt(Len(snap) + j)'
        BY <2>1
      <4>1. j + 1 \in 1 .. Len(todo) /\ Len(snap') + j = Len(snap) + (j + 1)
        BY <2>1, <2>2
      <4>2. todo'[j] = SlotAt(Len(snap) + (j + 1))
        BY <2>1, <2>4, <4>1
      <4>3. SlotAt(Len(snap) + j)' =
              IF Len(snap') + j <= N - RightFirst' THEN RightFirst' + (Len(snap') + j) - 1
              ELSE LeftFirst' + (Len(snap') + j) - (N - RightFirst') - 1
        BY DEF SlotAt
      <4>4. SlotAt(Len(snap) + (j + 1)) =
              IF Len(snap) + (j + 1) <= N - RightFirst THEN RightFirst + (Len(snap) + (j + 1)) - 1
              ELSE LeftFirst + (Len(snap) + (j + 1)) - (N - RightFirst) - 1
        BY DEF SlotAt
      <4>. QED
        BY <2>3, <4>1, <4>2, <4>3, <4>4
    <3>3. ASSUME NEW n \in 1 .. p, Number(SlotAt(n)) >= 1
          PROVE  /\ snap'[n].func \in Number(SlotAt(n)) .. mem[SlotAt(n)].func
                 /\ snap'[n].cycle \in Number(SlotAt(n)) .. mem[SlotAt(n)].cycle
      <4>1. CASE n = p
        <5>. DEFINE k == Number(h)
        <5>1. SlotAt(n) = h /\ snap'[n] = mem[h]
          BY <2>2, <2>5, <4>1
        <5>2. k \in 1 .. seen /\ Slot(k) = h
          BY <2>1, <2>7, <3>3, <5>1, NumberOfSlot
        <5>3. k \in 1 .. Arrived
          BY <1>0, <2>7, <5>2
        <5>4. mem[h].func \in k .. Arrived + 1 /\ mem[h].cycle \in k .. Arrived + 1
          BY <5>2, <5>3 DEF MemInv, NeverBack
        <5>5. mem[h].func \in k .. mem[h].func /\ mem[h].cycle \in k .. mem[h].cycle
          BY <1>0, <5>3, <5>4
        <5>. QED
          BY <5>1, <5>5
      <4>2. CASE n # p
        <5>1. n \in 1 .. Len(snap)
          BY <2>1, <4>2
        <5>. QED
          BY <2>2, <2>4, <3>3, <5>1
      <4>. QED
        BY <4>1, <4>2
    <3>. QED
      BY <1>0, <1>1, <2>2, <2>6, <3>1, <3>2, <3>3 DEF CopiedSince, Copying
  <2>. QED
    BY <1>0, <1>3, <2>9, <2>10 DEF SinceInv
<1>. QED
  BY <1>4, <1>5

\* The end of the call changes nothing that was copied.
LEMMA SinceEnds ==
  ASSUME IInv, MemInv, FullInv, SinceInv, Resume \/ Return PROVE SinceInv'
<1>0. /\ mem' = mem /\ clock' = clock /\ CyclesIn' = CyclesIn /\ CyclesForward'
  BY SinceFrame DEF Snapper
<1>1. CASE Return
  <2>1. spc' = "idle" /\ snap' = <<>> /\ pauseTime' = pauseTime
    BY <1>1 DEF Return
  <2>. QED
    BY <1>0, <2>1 DEF SinceInv, ReadAt, SearchedSoFar, Searched, CopiedSince, Copying
<1>2. CASE Resume
  <2>1. /\ spc = "copy" /\ spc' = "resumed" /\ snap' = snap /\ todo' = todo
        /\ req' = req /\ pauseTime' = pauseTime /\ spos' = spos /\ seen' = seen
        /\ earliest' = earliest /\ search' = search
    BY <1>2 DEF Resume
  <2>2. /\ RightFirst' = RightFirst /\ RightKept' = RightKept
        /\ LeftFirst' = LeftFirst /\ LeftKept' = LeftKept /\ Left' = Left /\ Right' = Right
    BY <2>1 DEF RightFirst, RightKept, LeftFirst, LeftKept, Left, Right
  <2>3. ReadAt'
    BY <1>0, <2>1 DEF SinceInv, ReadAt, After, Slot
  <2>4. Recent' = Recent
    BY <1>0, <2>1, <2>2 DEF Recent, SlotAt
  <2>5. SearchedSoFar'
    BY <1>0, <2>1, <2>2, <2>4 DEF SinceInv, SearchedSoFar, Searched
  <2>6. CopiedSince'
    BY <1>0, <2>1, <2>2 DEF SinceInv, CopiedSince, Copying, SlotAt, Number
  <2>. QED
    BY <1>0, <2>3, <2>5, <2>6 DEF SinceInv
<1>. QED
  BY <1>1, <1>2

\* Nothing has been recorded, searched or copied.
LEMMA InitSince == Init => SinceInv
<1>. SUFFICES ASSUME Init PROVE SinceInv
  OBVIOUS
<1>1. IInv /\ MemInv
  BY InitIInv, InitMemInv
<1>2. Arrived = 0 /\ Arrived + 1 = 1
  <2>1. Len(sb) = 0 /\ clock = 0
    BY DEF Init
  <2>2. 3 * 0 - 0 = 0 /\ 0 \div 3 = 0 /\ 0 + 1 = 1
    OBVIOUS
  <2>. QED
    BY <2>1, <2>2, Zenon DEF Drained, Arrived
<1>3. CyclesIn = 0 \/ (CyclesIn = 1 /\ mem[Slot(1)].cycle = 1)
  BY <1>2 DEF CyclesIn
<1>4. N - 1 \in Slots /\ mem[N - 1].cycle = 0
  BY DEF Init, Slots
<1>5. CyclesForward
  <2>1. ASSUME NEW k \in 1 .. CyclesIn
        PROVE  mem[Slot(k)].cycle \in k .. CyclesIn /\ Slot(mem[Slot(k)].cycle) = Slot(k)
    <3>1. CyclesIn = 1 /\ k = 1 /\ mem[Slot(1)].cycle = 1
      BY <1>3, <2>1
    <3>2. mem[Slot(k)].cycle = k
      BY <3>1
    <3>3. k \in k .. CyclesIn
      BY <3>1
    <3>. QED
      BY <3>2, <3>3
  <2>. QED
    BY <1>4, <2>1 DEF CyclesForward
<1>6. ReadAt /\ ~Searched /\ ~Copying /\ snap = <<>>
  BY DEF Init, ReadAt, Searched, Copying
<1>. QED
  BY <1>5, <1>6 DEF SinceInv, SearchedSoFar, CopiedSince

\* Every step keeps what bounds the search's mistakes.
LEMMA NextSince == IInv /\ MemInv /\ FullInv /\ SinceInv /\ [Next]_vars => SinceInv'
<1>1. ASSUME IInv, MemInv, SinceInv, UNCHANGED vars PROVE SinceInv'
  <2>1. /\ mem' = mem /\ clock' = clock /\ sb' = sb /\ spc' = spc /\ req' = req
        /\ pauseTime' = pauseTime /\ spos' = spos /\ search' = search /\ earliest' = earliest
        /\ todo' = todo /\ snap' = snap /\ seen' = seen
    BY <1>1 DEF vars, bufVars, memVars, snapVars
  <2>2. CyclesIn' = CyclesIn /\ RightFirst' = RightFirst /\ RightKept' = RightKept
        /\ LeftFirst' = LeftFirst /\ LeftKept' = LeftKept /\ Left' = Left /\ Right' = Right
        /\ (Searched' <=> Searched) /\ (Copying' <=> Copying)
    BY <2>1 DEF CyclesIn, Arrived, Drained, RightFirst, RightKept, LeftFirst, LeftKept, Left, Right,
                Searched, Copying
  <2>3. Recent' = Recent
    BY <2>1, <2>2 DEF Recent, SlotAt
  <2>4. CyclesForward' /\ ReadAt'
    BY <1>1, <2>1, <2>2 DEF SinceInv, CyclesForward, ReadAt
  <2>5. SearchedSoFar'
    BY <1>1, <2>1, <2>2, <2>3 DEF SinceInv, SearchedSoFar
  <2>6. CopiedSince'
    BY <1>1, <2>1, <2>2 DEF SinceInv, CopiedSince, SlotAt, Number
  <2>. QED
    BY <2>4, <2>5, <2>6 DEF SinceInv
<1>2. ASSUME IInv, MemInv, FullInv, SinceInv, Snapper PROVE SinceInv'
  BY <1>2, SinceBegins, SinceChecks, SinceProbes, SinceFoundRight, SinceFoundLeft, SinceCopies,
     SinceEnds DEF Snapper
<1>. QED
  BY <1>1, <1>2, SinceUnderTracer DEF Next, Tracer, Memory

\* It bounds them at every step of every execution.
LEMMA SinceFollows == Spec => [](IInv /\ MemInv /\ FullInv /\ SinceInv)
<1>. QED
  BY InitSince, NextSince, FullFollows, PTL DEF Spec

\* A set that lies in an interval has no more members than the interval.
LEMMA FewInRange ==
  ASSUME NEW S, NEW a \in Int, NEW b \in Int, S \subseteq a .. b
  PROVE  /\ IsFiniteSet(S) /\ Cardinality(S) \in Nat
         /\ a <= b => Cardinality(S) <= b - a + 1
         /\ a > b => Cardinality(S) = 0
<1>1. IsFiniteSet(a .. b) /\ Cardinality(a .. b) = IF a > b THEN 0 ELSE b - a + 1
  BY FS_Interval
<1>2. IsFiniteSet(S) /\ Cardinality(S) <= Cardinality(a .. b)
  BY <1>1, FS_Subset
<1>3. Cardinality(S) \in Nat
  BY <1>2, FS_CardinalityType
<1>. QED
  BY <1>1, <1>2, <1>3

\* Where the finished copy of a snapshot since a time comes from.
LEMMA CopiedFrom ==
  ASSUME IInv, MemInv, FullInv, SinceInv, Copied, req.op = "since"
  PROVE  /\ seen \in Nat /\ seen <= Arrived /\ Arrived \in Nat /\ spos = After(seen)
         /\ spos \in 0 .. N /\ pauseTime \in Nat /\ clock \in Nat /\ pauseTime <= clock
         /\ req.time \in Nat /\ snap \in Seq(Entry) /\ Len(snap) \in Nat
         /\ RightFirst \in Nat /\ LeftFirst \in Nat /\ RightKept = RightFirst /\ LeftKept = LeftFirst
         /\ spos <= RightFirst /\ RightFirst <= N /\ LeftFirst <= spos
         /\ Len(snap) = N - RightFirst + spos - LeftFirst /\ DOMAIN snap = 1 .. Len(snap)
         /\ Searched /\ Copying
<1>1. spc \in {"copy", "resumed"} /\ todo = <<>> /\ Searched /\ Copying
  BY DEF Copied, Searched, Copying
<1>2. /\ RightFirst \in Nat /\ LeftFirst \in Nat /\ spos \in 0 .. N /\ pauseTime \in Nat
      /\ clock \in Nat /\ req.time \in Nat /\ snap \in Seq(Entry)
  BY RangeTypes
<1>3. RightKept = RightFirst /\ LeftKept = LeftFirst
  BY <1>1 DEF RightKept, LeftKept
<1>4. seen \in Nat /\ spos = After(seen) /\ pauseTime <= clock
  BY <1>1 DEF SinceInv, ReadAt, Copied
<1>5. spos <= RightFirst /\ RightKept <= N /\ LeftKept <= spos
  BY <1>1 DEF SinceInv, SearchedSoFar
<1>6. Len(snap) + Len(todo) = N - RightFirst + spos - LeftFirst /\ Len(todo) = 0
      /\ Len(snap) \in Nat /\ DOMAIN snap = 1 .. Len(snap)
  BY <1>1, <1>2 DEF SinceInv, CopiedSince
<1>7. seen <= Arrived /\ Arrived \in Nat
  BY CyclesInIs DEF FullInv
<1>. QED
  BY <1>1, <1>2, <1>3, <1>4, <1>5, <1>6, <1>7

\* A snapshot since a time has no more entries older than that time than
\* there were events on their way to memory when pos was read: whatever the
\* traced thread wrote over the range that find_earliest_event_after() was
\* searching.
THEOREM FewTooOld == Spec => []StaleBounded
<1>1. IInv /\ MemInv /\ FullInv /\ SinceInv => StaleBounded
  <2>. SUFFICES ASSUME IInv, MemInv, FullInv, SinceInv, Copied, req.op = "since",
                       req.time <= pauseTime
                PROVE  Cardinality(TooOld) <= Cardinality(Unpublished)
    BY DEF StaleBounded
  <2>. DEFINE rf == RightFirst
              lf == LeftFirst
              d  == N - rf
              P  == pauseTime
              S  == seen
  <2>1. /\ S \in Nat /\ P \in Nat /\ clock \in Nat /\ P <= clock /\ spos \in 0 .. N
        /\ rf \in Nat /\ lf \in Nat /\ spos <= rf /\ rf <= N /\ lf <= spos
        /\ Len(snap) = N - rf + spos - lf /\ Len(snap) \in Nat /\ DOMAIN snap = 1 .. Len(snap)
    BY CopiedFrom
  <2>2. Unpublished = S + 1 .. P
    BY <2>1 DEF Unpublished
  <2>3. Cardinality(Unpublished) = IF S + 1 > P THEN 0 ELSE P - (S + 1) + 1
    BY <2>1, <2>2, FS_Interval
  <2>4. TooOld \subseteq 1 .. Len(snap)
    BY <2>1 DEF TooOld
  <2>5. Cardinality(TooOld) \in Nat /\ Cardinality(TooOld) <= Len(snap)
    <3>. DEFINE e == Len(snap)
    <3>1. 1 \in Int /\ e \in Int /\ e >= 0 /\ TooOld \subseteq 1 .. e
      BY <2>1, <2>4
    <3>. HIDE DEF e
    <3>2. /\ Cardinality(TooOld) \in Nat
          /\ 1 <= e => Cardinality(TooOld) <= e - 1 + 1
          /\ 1 > e => Cardinality(TooOld) = 0
      BY <3>1, FewInRange
    <3>3. Cardinality(TooOld) <= e
      BY <3>1, <3>2
    <3>. QED
      BY <3>2, <3>3 DEF e
  <2>6. CASE P >= S + N
    <3>. HIDE DEF rf, lf, P, S
    <3>. QED
      BY <2>1, <2>3, <2>6, <2>5
  <2>7. CASE P < S + N
    <3>1. /\ Behind(Recent, rf, spos, N, Right, P, CyclesIn)
          /\ Behind(Recent, lf, 0, spos, Left, P, CyclesIn)
      BY <2>7, CopiedFrom DEF SinceInv, SearchedSoFar
    <3>2. Left = S - spos + 1 /\ Right = S - spos + 1 - N
      BY DEF Left, Right
    <3>3. PICK r \in spos - 1 .. N - 1 :
             /\ r >= spos => r >= rf /\ Right + r + N <= P
             /\ \A i \in rf .. N - 1 : i <= r \/ i > 2 * r - spos => i \in Recent
      BY <3>1 DEF Behind
    <3>4. PICK l \in 0 - 1 .. spos - 1 :
             /\ l >= 0 => l >= lf /\ Left + l + N <= P
             /\ \A i \in lf .. spos - 1 : i <= l \/ i > 2 * l - 0 => i \in Recent
      BY <3>1 DEF Behind
    <3>. DEFINE A == TooOld \cap (r - rf + 2 .. 2 * r - spos - rf + 1)
                B == TooOld \cap (l - lf + 2 + d .. 2 * l - lf + 1 + d)
    <3>5. ASSUME NEW n \in TooOld PROVE n \in A \/ n \in B
      <4>1. n \in 1 .. Len(snap) /\ snap[n].cycle < req.time
        BY <2>1, <3>5 DEF TooOld
      <4>2. /\ SlotAt(n) \in Slots
            /\ n <= d => SlotAt(n) \in rf .. N - 1 /\ n = SlotAt(n) - rf + 1
            /\ n > d => SlotAt(n) \in lf .. spos - 1 /\ n = SlotAt(n) - lf + 1 + d
        BY <2>1, <4>1, CopiedSlots
      <4>3. SlotAt(n) \notin Recent
        <5>1. snap[n].cycle \in Nat /\ req.time \in Nat
          <6>1. snap \in Seq(Entry) /\ req.time \in Nat
            BY CopiedFrom
          <6>2. snap[n] \in Entry
            BY <4>1, <6>1
          <6>. QED
            BY <6>1, <6>2 DEF Entry
        <5>2. ~(snap[n].cycle >= req.time)
          BY <4>1, <5>1
        <5>. QED
          BY <2>1, <4>1, <5>2 DEF Recent
      <4>. DEFINE i == SlotAt(n)
      <4>. HIDE DEF i, rf, lf
      <4>4. CASE n <= d
        <5>1. i \in rf .. N - 1 /\ n = i - rf + 1 /\ i \notin Recent
          BY <4>2, <4>3, <4>4 DEF i
        <5>2. ~(i <= r \/ i > 2 * r - spos)
          BY <3>3, <5>1
        <5>. QED
          BY <2>1, <5>1, <5>2
      <4>5. CASE n > d
        <5>1. i \in lf .. spos - 1 /\ n = i - lf + 1 + d /\ i \notin Recent
          BY <4>2, <4>3, <4>5 DEF i
        <5>2. ~(i <= l \/ i > 2 * l - 0)
          BY <3>4, <5>1
        <5>. QED
          BY <2>1, <5>1, <5>2
      <4>. QED
        BY <2>1, <4>1, <4>4, <4>5
    <3>6. /\ IsFiniteSet(A) /\ Cardinality(A) \in Nat
          /\ Cardinality(A) <= IF r - spos > 0 THEN r - spos ELSE 0
      <4>. DEFINE a == r - rf + 2
                  b == 2 * r - spos - rf + 1
      <4>1. a \in Int /\ b \in Int /\ b - a + 1 = r - spos /\ r - spos \in Int
        BY <2>1
      <4>2. A \subseteq a .. b
        OBVIOUS
      <4>. HIDE DEF A, a, b
      <4>3. /\ IsFiniteSet(A) /\ Cardinality(A) \in Nat
            /\ a <= b => Cardinality(A) <= b - a + 1
            /\ a > b => Cardinality(A) = 0
        BY <4>1, <4>2, FewInRange
      <4>. QED
        BY <4>1, <4>3
    <3>7. /\ IsFiniteSet(B) /\ Cardinality(B) \in Nat
          /\ Cardinality(B) <= IF l > 0 THEN l ELSE 0
      <4>. DEFINE a == l - lf + 2 + d
                  b == 2 * l - lf + 1 + d
      <4>1. a \in Int /\ b \in Int /\ b - a + 1 = l /\ l \in Int
        BY <2>1
      <4>2. B \subseteq a .. b
        OBVIOUS
      <4>. HIDE DEF B, a, b
      <4>3. /\ IsFiniteSet(B) /\ Cardinality(B) \in Nat
            /\ a <= b => Cardinality(B) <= b - a + 1
            /\ a > b => Cardinality(B) = 0
        BY <4>1, <4>2, FewInRange
      <4>. QED
        BY <4>1, <4>3
    <3>8. TooOld = A \cup B
      BY <3>5
    <3>. HIDE DEF A, B
    <3>9. /\ Cardinality(TooOld) = Cardinality(A) + Cardinality(B) - Cardinality(A \cap B)
          /\ Cardinality(A \cap B) \in Nat
      <4>1. Cardinality(A \cup B) = Cardinality(A) + Cardinality(B) - Cardinality(A \cap B)
        BY <3>6, <3>7, FS_Union
      <4>2. IsFiniteSet(A \cap B)
        <5>1. A \cap B \in SUBSET A
          OBVIOUS
        <5>. QED
          BY <3>6, <5>1, FS_Subset
      <4>. QED
        BY <3>8, <4>1, <4>2, FS_CardinalityType
    <3>10. Cardinality(TooOld) <= (IF r - spos > 0 THEN r - spos ELSE 0) + (IF l > 0 THEN l ELSE 0)
      BY <2>1, <3>6, <3>7, <3>9
    <3>11. /\ r >= spos => S - spos + 1 + r <= P
           /\ l >= 0 => S - spos + 1 + l + N <= P
      BY <2>1, <3>2, <3>3, <3>4
    <3>. HIDE DEF rf, lf, P, S
    <3>. QED
      BY <2>1, <2>3, <2>5, <3>10, <3>11
  <2>. QED
    BY <2>1, <2>6, <2>7
<1>. QED
  BY <1>1, SinceFollows, PTL

\* An event that the buffer holds and the snapshot lacks was skipped by the
\* search of its side of pos, and is the last that was recorded in its slot.
LEMMA LostAt ==
  ASSUME IInv, MemInv, FullInv, SinceInv, Copied, req.op = "since", NEW k \in Lost
  PROVE  /\ k \in 1 .. seen /\ req.time <= k /\ k <= pauseTime /\ k + N > CyclesIn
         /\ Slot(k) \in Slots /\ k = Number(Slot(k))
         /\ Slot(k) >= spos => Slot(k) < RightFirst
         /\ Slot(k) < spos => Slot(k) < LeftFirst
<1>1. /\ k \in 1 .. seen /\ req.time <= k /\ k <= pauseTime
      /\ mem[Slot(k)] = [func |-> k, cycle |-> k] /\ ~InSnap(k)
  BY DEF Lost, Holds, Slot, Event
<1>2. /\ seen \in Nat /\ seen <= Arrived /\ Arrived \in Nat /\ spos = After(seen) /\ spos \in 0 .. N
      /\ CyclesIn \in Nat /\ Arrived <= CyclesIn /\ \A c \in 1 .. CyclesIn : Slot(c) \in Slots
  BY CopiedFrom, CyclesInIs
<1>3. k \in Nat /\ k >= 1 /\ k <= seen /\ k \in 1 .. CyclesIn /\ Slot(k) \in Slots
  <2>1. k \in Nat /\ k >= 1 /\ k <= seen /\ k \in 1 .. CyclesIn
    BY <1>1, <1>2
  <2>. QED
    BY <1>2, <2>1
<1>4. k + N > CyclesIn
  <2>. SUFFICES ASSUME k + N <= CyclesIn PROVE FALSE
    BY <1>2, <1>3
  <2>1. k + N \in 1 .. CyclesIn
    BY <1>2, <1>3
  <2>2. mem[Slot(k + N)].cycle \in k + N .. CyclesIn
    BY <2>1 DEF SinceInv, CyclesForward
  <2>3. Slot(k + N) = Slot(k)
    BY <1>3, SlotAgain
  <2>4. mem[Slot(k)].cycle = k
    BY <1>1
  <2>. QED
    BY <1>3, <2>2, <2>3, <2>4
<1>. DEFINE i == Slot(k)
            a == Left + i
<1>5. /\ Left \in Nat /\ Left >= 1 /\ Left = seen - spos + 1 /\ Right = Left - N
      /\ i \in 0 .. N - 1 /\ a \in Nat /\ a >= 1 /\ Slot(a) = i
  <2>1. /\ Left \in Nat /\ Left >= 1 /\ Left = seen - spos + 1 /\ Right = Left - N
        /\ \A j \in Slots : Slot(Left + j) = j
    BY <1>2, SlotNumbers
  <2>2. Slot(Left + i) = i /\ i \in 0 .. N - 1
    BY <1>3, <2>1 DEF Slots
  <2>. QED
    BY <2>1, <2>2
<1>6. k = Number(i)
  <2>1. /\ k < a => k + N <= a
        /\ a < k => a + N <= k
    BY <1>3, <1>5, SameSlot
  <2>2. CASE i < spos
    <3>1. Number(i) = a
      BY <2>2 DEF Number
    <3>2. a <= seen /\ a + N > seen /\ a = Left + i
      BY <1>2, <1>5, <2>2
    <3>. HIDE DEF a, i
    <3>. QED
      BY <1>2, <1>3, <1>4, <1>5, <2>1, <3>1, <3>2
  <2>3. CASE ~(i < spos)
    <3>. DEFINE c == a - N
    <3>1. Number(i) = c
      BY <1>5, <2>3 DEF Number
    <3>2. a > seen /\ c <= seen /\ c \in Int
      BY <1>2, <1>5, <2>3
    <3>3. k <= c
      <4>. HIDE DEF a, i
      <4>. QED
        BY <1>2, <1>3, <1>5, <2>1, <3>2
    <3>4. ~(k < c)
      <4>. SUFFICES ASSUME k < c PROVE FALSE
        OBVIOUS
      <4>1. c \in Nat /\ c >= 1 /\ c + N = a
        BY <1>3, <1>5, <3>2
      <4>. HIDE DEF c
      <4>2. Slot(c + N) = Slot(c)
        BY <4>1, SlotAgain
      <4>3. Slot(k) = Slot(c)
        BY <1>5, <4>1, <4>2
      <4>4. k + N <= c
        BY <1>3, <4>1, <4>3, SameSlot
      <4>. QED
        BY <1>2, <1>3, <1>4, <3>2, <4>1, <4>4
    <3>. HIDE DEF c
    <3>. QED
      BY <1>3, <3>1, <3>2, <3>3, <3>4
  <2>. QED
    BY <2>2, <2>3
<1>7. ASSUME NEW n \in 1 .. Len(snap), SlotAt(n) = i PROVE FALSE
  <2>1. /\ snap[n].func \in k .. mem[i].func
        /\ snap[n].cycle \in k .. mem[i].cycle
    <3>1. Copying
      BY CopiedFrom
    <3>2. Number(SlotAt(n)) >= 1 =>
            /\ snap[n].func \in Number(SlotAt(n)) .. mem[SlotAt(n)].func
            /\ snap[n].cycle \in Number(SlotAt(n)) .. mem[SlotAt(n)].cycle
      BY <3>1 DEF SinceInv, CopiedSince
    <3>3. Number(SlotAt(n)) = k /\ k >= 1
      BY <1>3, <1>6, <1>7
    <3>. HIDE DEF i
    <3>. QED
      BY <1>7, <3>2, <3>3
  <2>2. mem[i].func = k /\ mem[i].cycle = k
    BY <1>1
  <2>3. snap[n].func = k /\ snap[n].cycle = k
    BY <1>3, <2>1, <2>2
  <2>4. snap[n] \in Entry /\ n \in DOMAIN snap
    <3>1. snap \in Seq(Entry) /\ DOMAIN snap = 1 .. Len(snap)
      BY CopiedFrom
    <3>. QED
      BY <1>7, <3>1
  <2>5. snap[n] = Event(k)
    BY <2>3, <2>4 DEF Entry, Event
  <2>. QED
    BY <1>1, <2>4, <2>5 DEF InSnap
<1>. DEFINE rf == RightFirst
            lf == LeftFirst
<1>8. /\ rf \in Nat /\ lf \in Nat /\ spos <= rf /\ rf <= N /\ lf <= spos
      /\ Len(snap) = N - rf + spos - lf /\ Len(snap) \in Nat
  BY CopiedFrom
<1>9. ~(i >= rf /\ i >= spos)
  <2>. SUFFICES ASSUME i >= rf PROVE FALSE
    OBVIOUS
  <2>. DEFINE n == i - rf + 1
  <2>1. n \in 1 .. Len(snap) /\ n <= N - rf /\ rf + n - 1 = i
    <3>1. i \in 0 .. N - 1
      BY <1>5
    <3>. HIDE DEF rf, lf, i
    <3>2. n \in Int /\ n >= 1 /\ n <= N - rf /\ rf + n - 1 = i
      BY <1>8, <3>1
    <3>3. Len(snap) >= N - rf
      BY <1>2, <1>8
    <3>. QED
      BY <1>8, <3>2, <3>3
  <2>2. SlotAt(n) = i
    BY <2>1 DEF SlotAt
  <2>. QED
    BY <1>7, <2>1, <2>2
<1>10. ~(i >= lf /\ i < spos)
  <2>. SUFFICES ASSUME i >= lf, i < spos PROVE FALSE
    OBVIOUS
  <2>. DEFINE n == i - lf + 1 + (N - rf)
  <2>1. n \in 1 .. Len(snap) /\ ~(n <= N - rf) /\ lf + n - (N - rf) - 1 = i
    <3>1. i \in 0 .. N - 1
      BY <1>5
    <3>. HIDE DEF rf, lf, i
    <3>2. n \in Int /\ n > N - rf /\ N - rf >= 0 /\ lf + n - (N - rf) - 1 = i
      BY <1>8, <3>1
    <3>3. n <= Len(snap)
      BY <1>2, <1>8, <3>1
    <3>. QED
      BY <1>8, <3>2, <3>3
  <2>2. SlotAt(n) = i
    BY <2>1 DEF SlotAt
  <2>. QED
    BY <1>7, <2>1, <2>2
<1>11. (i >= spos => i < rf) /\ (i < spos => i < lf)
  <2>1. i \in 0 .. N - 1
    BY <1>5
  <2>. HIDE DEF rf, lf, i
  <2>. QED
    BY <1>2, <1>8, <1>9, <1>10, <2>1
<1>. QED
  BY <1>1, <1>3, <1>4, <1>6, <1>11

\* find_earliest_event_after() loses no more of the events it was asked for
\* than the thread published after the pause, wherever in the buffer the late
\* events came to lie and whatever was written while it was searched.
THEOREM FewLost == Spec => []LossBounded
<1>1. IInv /\ MemInv /\ FullInv /\ SinceInv => LossBounded
  <2>. DEFINE LateOnes == {k \in 1 .. seen : LateAt(k)}
  <2>. SUFFICES ASSUME IInv, MemInv, FullInv, SinceInv, Copied, req.op = "since",
                       req.time <= pauseTime
                PROVE  Cardinality(Lost) <= Cardinality(LateOnes)
    BY DEF LossBounded
  <2>. DEFINE rf == RightFirst
              lf == LeftFirst
              P  == pauseTime
              S  == seen
  <2>1. /\ S \in Nat /\ P \in Nat /\ spos \in 0 .. N
        /\ rf \in Nat /\ lf \in Nat /\ spos <= rf /\ rf <= N /\ lf <= spos
    BY CopiedFrom
  <2>2. Cardinality(LateOnes) = IF P + 1 > S THEN 0 ELSE S - (P + 1) + 1
    <3>1. LateOnes = P + 1 .. S /\ P + 1 \in Int /\ S \in Int
      BY <2>1 DEF LateAt
    <3>. HIDE DEF LateOnes, P, S
    <3>2. Cardinality(P + 1 .. S) = IF P + 1 > S THEN 0 ELSE S - (P + 1) + 1
      BY <3>1, FS_Interval
    <3>. QED
      BY <3>1, <3>2
  <2>3. /\ Skipped(rf, spos, N, Right, req.time, P, CyclesIn)
        /\ Skipped(lf, 0, spos, Left, req.time, P, CyclesIn)
    BY CopiedFrom DEF SinceInv, SearchedSoFar
  <2>4. PICK r \in spos .. N :
          /\ r < N => r < rf /\ Right + r > P
          /\ \A i \in spos .. rf - 1 :
               1 <= Right + i /\ req.time <= Right + i /\ Right + i <= P /\ Right + i + N > CyclesIn
                 => i >= 2 * r - N
    BY <2>3 DEF Skipped
  <2>5. PICK l \in 0 .. spos :
          /\ l < spos => l < lf /\ Left + l > P
          /\ \A i \in 0 .. lf - 1 :
               1 <= Left + i /\ req.time <= Left + i /\ Left + i <= P /\ Left + i + N > CyclesIn
                 => i >= 2 * l - spos
    BY <2>3 DEF Skipped
  <2>6. Left = S - spos + 1 /\ Right = S - spos + 1 - N /\ Left \in Int /\ Right \in Int
    BY <2>1 DEF Left, Right
  \* Where the lost events lie on each side of pos.
  <2>7. ASSUME NEW k \in Lost
        PROVE  \/ k \in Left .. Left + lf - 1 /\ k >= Left + 2 * l - spos /\ k <= P
               \/ k \in Right + spos .. Right + rf - 1 /\ k >= Right + 2 * r - N /\ k <= P
    <3>. DEFINE i == Slot(k)
    <3>1. /\ k \in 1 .. S /\ req.time <= k /\ k <= P /\ k + N > CyclesIn
          /\ i \in Slots /\ k = Number(i)
          /\ i >= spos => i < rf
          /\ i < spos => i < lf
      BY <2>7, LostAt
    <3>2. i \in 0 .. N - 1
      BY <3>1 DEF Slots
    <3>. HIDE DEF i, rf, lf, P, S
    <3>3. CASE i < spos
      <4>1. k = Left + i /\ i \in 0 .. lf - 1
        BY <2>1, <3>1, <3>2, <3>3 DEF Number
      <4>2. i >= 2 * l - spos
        BY <2>5, <3>1, <4>1
      <4>. QED
        BY <2>1, <2>6, <3>1, <4>1, <4>2
    <3>4. CASE i >= spos
      <4>1. k = Right + i /\ i \in spos .. rf - 1
        <5>1. ~(i < spos)
          BY <2>1, <3>2, <3>4
        <5>. QED
          BY <2>1, <3>1, <3>2, <3>4, <5>1 DEF Number
      <4>2. i >= 2 * r - N
        BY <2>4, <3>1, <4>1
      <4>. QED
        BY <2>1, <2>6, <3>1, <4>1, <4>2
    <3>. QED
      BY <2>1, <3>2, <3>3, <3>4
  <2>8. CASE r < N
    <3>. DEFINE a == Right + 2 * r - N
                b == Right + r - 1
    <3>1. a \in Int /\ b \in Int /\ b - a + 1 = N - r
      BY <2>1, <2>4, <2>6
    <3>2. ASSUME NEW k \in Lost PROVE k \in a .. b
      <4>. HIDE DEF rf, lf, P, S
      <4>. QED
        BY <2>1, <2>4, <2>6, <2>7, <2>8
    <3>3. /\ Cardinality(Lost) \in Nat
          /\ a <= b => Cardinality(Lost) <= b - a + 1
          /\ a > b => Cardinality(Lost) = 0
      <4>1. Lost \subseteq a .. b
        BY <3>2
      <4>. HIDE DEF a, b
      <4>. QED
        BY <3>1, <4>1, FewInRange
    <3>. HIDE DEF a, b, rf, lf, P, S, LateOnes
    <3>. QED
      BY <2>1, <2>2, <2>4, <2>6, <2>8, <3>1, <3>3
  <2>9. CASE r = N
    <3>. DEFINE a == Left + 2 * l - spos
                b == Left + l - 1
    <3>1. a \in Int /\ b \in Int /\ b - a + 1 = spos - l
      BY <2>1, <2>5, <2>6
    <3>2. ASSUME NEW k \in Lost PROVE k \in a .. b
      <4>. HIDE DEF rf, lf, P, S
      <4>. QED
        BY <2>1, <2>5, <2>6, <2>7, <2>9
    <3>3. /\ Cardinality(Lost) \in Nat
          /\ a <= b => Cardinality(Lost) <= b - a + 1
          /\ a > b => Cardinality(Lost) = 0
      <4>1. Lost \subseteq a .. b
        BY <3>2
      <4>. HIDE DEF a, b
      <4>. QED
        BY <3>1, <4>1, FewInRange
    <3>. HIDE DEF a, b, rf, lf, P, S, LateOnes
    <3>. QED
      BY <2>1, <2>2, <2>5, <2>6, <3>1, <3>3
  <2>. QED
    BY <2>1, <2>4, <2>8, <2>9
<1>. QED
  BY <1>1, SinceFollows, PTL

==============================================================================
