-------------------------- MODULE FtraceEventsProofs --------------------------
(***************************************************************************)
(* What holds of the buffer of scheduling events for every size of it,      *)
(* every width of the time stamps and every number of lines: its binary     *)
(* searches, its snapshots and the core dump keep what EventWindow          *)
(* promises.                                                               *)
(***************************************************************************)
EXTENDS FtraceEvents, InductionLemmas, SequenceTheorems

USE SizeAssumption, TimeAssumption, NoLineAssumption

\* What a slot of the buffer can hold.
Entries == [line : Nat \cup {NoLine}, timestamp : Time]

\* Halving a range makes progress.
LEMMA Halving == ASSUME NEW n \in Nat, n > 0 PROVE n \div 2 \in Nat /\ n \div 2 < n
OBVIOUS

\* std::lower_bound as it is computed, one probe at a time.
LEMMA LowerBoundUnfolds ==
  ASSUME events \in [Slots -> Entries], NEW earliest \in Int
  PROVE  /\ \A f \in 0 .. N : LowerBound(f, 0, earliest) = f
         /\ \A f \in 0 .. N, c \in 1 .. N :
              f + c <= N =>
                LowerBound(f, c, earliest) =
                  IF events[f + c \div 2].timestamp < earliest
                  THEN LowerBound(f + c \div 2 + 1, c - c \div 2 - 1, earliest)
                  ELSE LowerBound(f, c \div 2, earliest)
<1>. DEFINE Ranges == {r \in [first : 0 .. N, count : 0 .. N] : r.first + r.count <= N}
            Right(r) == [first |-> r.first + r.count \div 2 + 1,
                         count |-> r.count - r.count \div 2 - 1]
            Left(r)  == [first |-> r.first, count |-> r.count \div 2]
            Probed(r) == events[r.first + r.count \div 2].timestamp < earliest
            Is(h) == h = [r \in Ranges |->
                            LET half == r.count \div 2 IN
                            IF r.count = 0 THEN r.first
                            ELSE IF events[r.first + half].timestamp < earliest
                                 THEN h[[first |-> r.first + half + 1,
                                         count |-> r.count - half - 1]]
                                 ELSE h[[first |-> r.first, count |-> half]]]
            search == CHOOSE h : Is(h)
            Stop == {r \in Ranges : r.count = 0}
            rank == [r \in Ranges |-> r.count]
            val  == [r \in Ranges |-> r.first]
            next == [r \in Ranges |-> IF r.count = 0 THEN r
                                      ELSE IF Probed(r) THEN Right(r) ELSE Left(r)]
<1>1. ASSUME NEW r \in Ranges, r.count # 0
      PROVE  /\ Right(r) \in Ranges /\ Right(r).count < r.count
             /\ Left(r) \in Ranges /\ Left(r).count < r.count
  <2>1. /\ r.first \in 0 .. N /\ r.count \in 1 .. N /\ r.first + r.count <= N
    BY <1>1
  <2>. DEFINE half == r.count \div 2
  <2>2. half \in Nat /\ half < r.count
    BY <2>1, Halving
  <2>. HIDE DEF half
  <2>3. Right(r) = [first |-> r.first + half + 1, count |-> r.count - half - 1]
    BY DEF half
  <2>4. Left(r) = [first |-> r.first, count |-> half]
    BY DEF half
  <2>. HIDE DEF Right, Left
  <2>. QED
    BY <2>1, <2>2, <2>3, <2>4
<1>2. \E h \in [Ranges -> 0 .. N] : ComputedBy(h, Ranges, Stop, val, next)
  <2>1. rank \in [Ranges -> 0 .. N] /\ val \in [Ranges -> 0 .. N]
    OBVIOUS
  <2>2. ASSUME NEW r \in Ranges
        PROVE  next[r] \in Ranges /\ (r \notin Stop => rank[next[r]] < rank[r])
    <3>. HIDE DEF Ranges, Probed, Right, Left
    <3>. QED
      BY <1>1
  <2>3. next \in [Ranges -> Ranges]
    <3>1. next = [r \in Ranges |-> next[r]]
      OBVIOUS
    <3>. HIDE DEF next
    <3>. QED
      BY <2>2, <3>1
  <2>. HIDE DEF Ranges, Stop, rank, val, next
  <2>4. EndingLoop(Ranges, Stop, next, rank, N)
    BY <2>1, <2>2, <2>3 DEF EndingLoop
  <2>. QED
    BY <2>1, <2>4, LoopExists
<1>3. \E h : Is(h)
  <2>1. PICK h \in [Ranges -> 0 .. N] : ComputedBy(h, Ranges, Stop, val, next)
    BY <1>2
  <2>2. ASSUME NEW r \in Ranges
        PROVE  h[r] = IF r.count = 0 THEN r.first
                      ELSE IF Probed(r) THEN h[Right(r)] ELSE h[Left(r)]
    <3>1. h[r] = IF r \in Stop THEN val[r] ELSE h[next[r]]
      <4>. HIDE DEF Ranges, Stop, val, next
      <4>. QED
        BY <2>1 DEF ComputedBy
    <3>. HIDE DEF Ranges, Probed, Right, Left
    <3>. QED
      BY <3>1
  <2>3. Is(h)
    <3>. HIDE DEF Ranges, Stop, val, next
    <3>. QED
      BY <2>1, <2>2
  <2>. HIDE DEF Is
  <2>. QED
    BY <2>3
<1>4. Is(search)
  <2>. HIDE DEF Is
  <2>. QED
    BY <1>3
<1>5. \A r \in Ranges : search[r] = IF r.count = 0 THEN r.first
                                    ELSE IF Probed(r) THEN search[Right(r)] ELSE search[Left(r)]
  <2>. HIDE DEF search, Ranges
  <2>. QED
    BY <1>4
<1>6. \A f, c : LowerBound(f, c, earliest) = search[[first |-> f, count |-> c]]
  BY Zenon DEF LowerBound
<1>. HIDE DEF search
<1>7. ASSUME NEW f \in 0 .. N PROVE LowerBound(f, 0, earliest) = f
  <2>. DEFINE r == [first |-> f, count |-> 0]
  <2>1. r \in Ranges /\ r.count = 0 /\ r.first = f
    OBVIOUS
  <2>. HIDE DEF Ranges
  <2>2. search[r] = f
    BY <2>1, <1>5
  <2>. QED
    BY <2>2, <1>6
<1>8. ASSUME NEW f \in 0 .. N, NEW c \in 1 .. N, f + c <= N
      PROVE  LowerBound(f, c, earliest) =
                IF events[f + c \div 2].timestamp < earliest
                THEN LowerBound(f + c \div 2 + 1, c - c \div 2 - 1, earliest)
                ELSE LowerBound(f, c \div 2, earliest)
  <2>. DEFINE r == [first |-> f, count |-> c]
  <2>1. r \in Ranges /\ r.count # 0 /\ r.first = f /\ r.count = c
    BY <1>8
  <2>2. search[r] = IF Probed(r) THEN search[Right(r)] ELSE search[Left(r)]
    BY <2>1, <1>5
  <2>. QED
    BY <2>1, <2>2, <1>6
<1>. QED
  BY <1>7, <1>8
\* Slots f up to f + c are in the order of time.
Sorted(f, c) ==
  /\ f + c <= N
  /\ \A i, j \in f .. f + c - 1 : i < j => events[i].timestamp <= events[j].timestamp

\* std::lower_bound finds where the events not earlier than a time begin.
Found(f, c, earliest) ==
  /\ LowerBound(f, c, earliest) \in f .. f + c
  /\ \A i \in f .. f + c - 1 :
        events[i].timestamp < earliest <=> i < LowerBound(f, c, earliest)

\* The halves of a sorted range are sorted, and what the probe in the middle
\* says of the half that is left out is right.
LEMMA ProbeHalves ==
  ASSUME events \in [Slots -> Entries], NEW earliest \in Int,
         NEW f \in 0 .. N, NEW c \in 1 .. N, NEW half \in Nat, half < c, Sorted(f, c)
  PROVE  /\ f + half + 1 \in 0 .. N /\ c - half - 1 \in 0 .. c - 1 /\ half \in 0 .. c - 1
         /\ Sorted(f + half + 1, c - half - 1)
         /\ Sorted(f, half)
         /\ events[f + half].timestamp < earliest =>
              \A i \in f .. f + half : events[i].timestamp < earliest
         /\ ~(events[f + half].timestamp < earliest) =>
              \A i \in f + half .. f + c - 1 : ~(events[i].timestamp < earliest)
<1>1. f + half \in f .. f + c - 1 /\ f + c <= N
  BY DEF Sorted
<1>2. \A i \in f .. f + c - 1 : events[i].timestamp \in Int
  BY <1>1 DEF Slots, Entries, Time
<1>. QED
  BY <1>1, <1>2 DEF Sorted

\* find_earliest_event_after() of the scheduling events: the binary search is
\* right on every sorted range.
LEMMA LowerBoundFinds ==
  ASSUME events \in [Slots -> Entries], NEW earliest \in Int,
         NEW f \in 0 .. N, NEW c \in 0 .. N, Sorted(f, c)
  PROVE  Found(f, c, earliest)
<1>. DEFINE S == {n \in 0 .. N : \A d \in 0 .. n, g \in 0 .. N :
                                   Sorted(g, d) => Found(g, d, earliest)}
<1>1. ASSUME NEW g \in 0 .. N PROVE Found(g, 0, earliest)
  BY LowerBoundUnfolds DEF Found
<1>2. 0 \in S
  BY <1>1
<1>3. ASSUME NEW n \in 0 .. N - 1, n \in S PROVE n + 1 \in S
  <2>. SUFFICES ASSUME NEW d \in 0 .. n + 1, NEW g \in 0 .. N, Sorted(g, d)
                PROVE  Found(g, d, earliest)
    OBVIOUS
  <2>1. CASE d = 0
    BY <1>1, <2>1
  <2>2. CASE d # 0
    <3>. DEFINE half == d \div 2
    <3>1. d \in 1 .. N /\ half \in Nat /\ half < d
      BY <2>2, Halving
    <3>2. g + d <= N
      BY DEF Sorted
    <3>3. LowerBound(g, d, earliest) =
             IF events[g + half].timestamp < earliest
             THEN LowerBound(g + half + 1, d - half - 1, earliest)
             ELSE LowerBound(g, half, earliest)
      BY <3>1, <3>2, LowerBoundUnfolds
    <3>. HIDE DEF half
    <3>4. /\ g + half + 1 \in 0 .. N /\ d - half - 1 \in 0 .. d - 1 /\ half \in 0 .. d - 1
          /\ Sorted(g + half + 1, d - half - 1)
          /\ Sorted(g, half)
          /\ events[g + half].timestamp < earliest =>
               \A i \in g .. g + half : events[i].timestamp < earliest
          /\ ~(events[g + half].timestamp < earliest) =>
               \A i \in g + half .. g + d - 1 : ~(events[i].timestamp < earliest)
      BY <3>1, ProbeHalves
    <3>5. d - half - 1 \in 0 .. n /\ half \in 0 .. n
      BY <3>1, <3>4
    <3>6. Found(g + half + 1, d - half - 1, earliest) /\ Found(g, half, earliest)
      BY <1>3, <3>4, <3>5
    <3>7. CASE events[g + half].timestamp < earliest
      <4>1. LowerBound(g, d, earliest) = LowerBound(g + half + 1, d - half - 1, earliest)
        BY <3>3, <3>7
      <4>. QED
        BY <3>1, <3>4, <3>6, <3>7, <4>1 DEF Found
    <3>8. CASE ~(events[g + half].timestamp < earliest)
      <4>1. LowerBound(g, d, earliest) = LowerBound(g, half, earliest)
        BY <3>3, <3>8
      <4>. QED
        BY <3>1, <3>4, <3>6, <3>8, <4>1 DEF Found
    <3>. QED
      BY <3>7, <3>8
  <2>. QED
    BY <2>1, <2>2
<1>. HIDE DEF S
<1>4. 0 .. N \subseteq S
  BY <1>2, <1>3, InductionUpTo
<1>5. N \in S
  BY <1>4
<1>. QED
  BY <1>5 DEF S

\* The filter of the core dump as it is computed, one slot at a time.
LEMMA StoredUnfolds ==
  ASSUME NEW s \in Seq(Entries)
  PROVE  \E h \in [0 .. Len(s) -> Seq(Entries)] :
           /\ Stored(s) = h[Len(s)]
           /\ h[0] = <<>>
           /\ \A n \in 1 .. Len(s) :
                h[n] = IF IsEvent(s[n]) THEN Append(h[n - 1], s[n]) ELSE h[n - 1]
<1>. DEFINE M == Len(s)
            V == Seq(Entries)
            Is(h) == h = [n \in 0 .. M |->
                            IF n = 0 THEN <<>>
                            ELSE IF IsEvent(s[n]) THEN Append(h[n - 1], s[n]) ELSE h[n - 1]]
            stored == CHOOSE h : Is(h)
            step == [p \in V \X (1 .. M) |->
                       IF IsEvent(s[p[2]]) THEN Append(p[1], s[p[2]]) ELSE p[1]]
<1>1. M \in Nat /\ <<>> \in V
  OBVIOUS
<1>2. ASSUME NEW t \in V, NEW n \in 1 .. M
      PROVE  /\ step[<<t, n>>] = IF IsEvent(s[n]) THEN Append(t, s[n]) ELSE t
             /\ step[<<t, n>>] \in V
  <2>1. <<t, n>> \in V \X (1 .. M)
    OBVIOUS
  <2>2. step[<<t, n>>] = IF IsEvent(s[n]) THEN Append(t, s[n]) ELSE t
    <3>. HIDE DEF V, M
    <3>. QED
      BY <2>1
  <2>3. s[n] \in Entries
    OBVIOUS
  <2>4. Append(t, s[n]) \in V
    BY <2>3, AppendProperties
  <2>. QED
    BY <2>2, <2>4
<1>3. step \in [V \X (1 .. M) -> V]
  <2>1. \A p \in V \X (1 .. M) : p[1] \in V /\ p[2] \in 1 .. M /\ p = <<p[1], p[2]>>
    OBVIOUS
  <2>2. \A p \in V \X (1 .. M) : step[p] \in V
    <3>. HIDE DEF step, V, M
    <3>. QED
      BY <1>2, <2>1
  <2>3. step = [p \in V \X (1 .. M) |-> step[p]]
    OBVIOUS
  <2>. HIDE DEF step
  <2>. QED
    BY <2>2, <2>3
<1>4. PICK h \in [0 .. M -> V] : Accumulates(h, M, <<>>, step)
  <2>. HIDE DEF step, V, M
  <2>. QED
    BY <1>1, <1>3, StepsExist
<1>5. /\ h[0] = <<>>
      /\ \A n \in 1 .. M :
           h[n] = IF IsEvent(s[n]) THEN Append(h[n - 1], s[n]) ELSE h[n - 1]
  <2>1. h[0] = <<>> /\ \A n \in 1 .. M : h[n] = step[<<h[n - 1], n>>]
    BY <1>4 DEF Accumulates
  <2>2. \A n \in 1 .. M : h[n - 1] \in V
    <3>1. \A n \in 1 .. M : n - 1 \in 0 .. M
      BY <1>1
    <3>. QED
      BY <3>1
  <2>. HIDE DEF step, V, M
  <2>. QED
    BY <1>2, <2>1, <2>2
<1>6. Is(h)
  <2>1. ASSUME NEW n \in 0 .. M
        PROVE  h[n] = IF n = 0 THEN <<>>
                      ELSE IF IsEvent(s[n]) THEN Append(h[n - 1], s[n]) ELSE h[n - 1]
    <3>1. n = 0 \/ n \in 1 .. M
      BY <1>1
    <3>2. n \in 1 .. M => n # 0
      BY <1>1
    <3>. HIDE DEF M
    <3>. QED
      BY <1>5, <3>1, <3>2
  <2>. HIDE DEF M, V
  <2>. QED
    BY <2>1
<1>7. Is(stored)
  <2>. HIDE DEF Is
  <2>. QED
    BY <1>6
<1>8. \A n \in 0 .. M : stored[n] = h[n]
  <2>. DEFINE S == {n \in 0 .. M : stored[n] = h[n]}
  <2>1. \A n \in 0 .. M : stored[n] =
           IF n = 0 THEN <<>>
           ELSE IF IsEvent(s[n]) THEN Append(stored[n - 1], s[n]) ELSE stored[n - 1]
    <3>. HIDE DEF stored, M
    <3>. QED
      BY <1>7
  <2>. HIDE DEF stored
  <2>2. 0 \in S
    BY <1>1, <1>5, <2>1
  <2>3. ASSUME NEW n \in 0 .. M - 1, n \in S PROVE n + 1 \in S
    BY <1>1, <1>5, <2>1, <2>3
  <2>. HIDE DEF S
  <2>4. 0 .. M \subseteq S
    BY <1>1, <2>2, <2>3, InductionUpTo
  <2>. QED
    BY <2>4 DEF S
<1>9. Stored(s) = stored[M]
  BY Zenon DEF Stored
<1>10. Stored(s) = h[M]
  <2>. HIDE DEF stored
  <2>. QED
    BY <1>1, <1>8, <1>9
<1>. HIDE DEF stored, step
<1>. QED
  BY <1>5, <1>10

\* Nothing is left out of slots that all hold events.
LEMMA StoredAll ==
  ASSUME NEW s \in Seq(Entries), \A i \in 1 .. Len(s) : IsEvent(s[i])
  PROVE  Stored(s) = s
<1>1. PICK h \in [0 .. Len(s) -> Seq(Entries)] :
        /\ Stored(s) = h[Len(s)]
        /\ h[0] = <<>>
        /\ \A n \in 1 .. Len(s) :
             h[n] = IF IsEvent(s[n]) THEN Append(h[n - 1], s[n]) ELSE h[n - 1]
  BY StoredUnfolds
<1>. DEFINE S == {n \in 0 .. Len(s) : h[n] = SubSeq(s, 1, n)}
<1>2. Len(s) \in Nat /\ \A i \in 1 .. Len(s) : s[i] \in Entries
  OBVIOUS
<1>3. 0 \in S
  BY <1>1, <1>2, SubSeqEmpty
<1>4. ASSUME NEW n \in 0 .. Len(s) - 1, n \in S PROVE n + 1 \in S
  <2>1. n + 1 \in 1 .. Len(s) /\ (n + 1) - 1 = n
    BY <1>2
  <2>2. h[n + 1] = Append(SubSeq(s, 1, n), s[n + 1])
    BY <1>1, <1>4, <2>1
  <2>3. SubSeq(s, 1, n) \in Seq(Entries) /\ s[n + 1] \in Entries
    BY <1>2, <2>1, SubSeqProperties
  <2>4. SubSeq(s, 1, n + 1) = SubSeq(s, 1, n) \o <<s[n + 1]>>
    BY <1>2, <2>1, SubSeqRecursiveSecond
  <2>5. SubSeq(s, 1, n + 1) = Append(SubSeq(s, 1, n), s[n + 1])
    BY <2>3, <2>4, AppendIsConcat
  <2>6. h[n + 1] = SubSeq(s, 1, n + 1) /\ n + 1 \in 0 .. Len(s)
    BY <1>2, <2>1, <2>2, <2>5
  <2>. QED
    BY ONLY <2>6
<1>. HIDE DEF S
<1>5. 0 .. Len(s) \subseteq S
  BY <1>2, <1>3, <1>4, InductionUpTo
<1>6. Len(s) \in S
  BY <1>2, <1>5
<1>. QED
  BY <1>1, <1>6, SubSeqFull DEF S

\* The filter gives a sequence of slots.
LEMMA StoredType == ASSUME NEW s \in Seq(Entries) PROVE Stored(s) \in Seq(Entries)
BY StoredUnfolds, LenProperties
------------------------------------------------------------------------------
(* The inductive invariant: what the slots hold of the events published.    *)

\* The number of the event a slot holds once the event being stored is in;
\* none is smaller than 1 in a slot that has been written.
NumberAt(i) == Len(log) - pos + 1 + i - (IF i < pos THEN 0 ELSE N)

\* What the slot held before the event being stored.
Held(i) == IF NumberAt(i) >= 1 THEN log[NumberAt(i)] ELSE Event(NoLine, 0)

LogInOrder ==
  /\ \A k \in 1 .. Len(log) : IsEvent(log[k])
  /\ \A k, m \in 1 .. Len(log) : k < m => log[k].timestamp <= log[m].timestamp

Position == pos <= Len(log) /\ (Len(log) < N => pos = Len(log))

SlotsHold == \A i \in Slots : (i = pos => Unlocked) => events[i] = Held(i)

InStore ==
  /\ reader = "line_stored" => events[pos] = Event(current.line, Held(pos).timestamp)
  /\ reader = "event_stored" => events[pos] = current

CurrentNext ==
  /\ reader # "reading" => current.line \in Nat
  /\ ~Unlocked => IsEvent(current)
  /\ reader # "reading" /\ IsEvent(current) =>
       \A k \in 1 .. Len(log) : log[k].timestamp <= current.timestamp

IInv == TypeOK /\ LogInOrder /\ Position /\ SlotsHold /\ InStore /\ CurrentNext

\* The types in the form the provers like.
LEMMA Types ==
  ASSUME TypeOK
  PROVE  /\ events \in [Slots -> Entries]
         /\ pos \in 0 .. N - 1
         /\ current \in Entries
         /\ log \in Seq([line : Nat, timestamp : Time])
         /\ Len(log) \in Nat
         /\ \A k \in 1 .. Len(log) : log[k].line \in Nat /\ log[k].timestamp \in 0 .. Range2w - 1
                                    /\ log[k] \in Entries
<1>1. /\ events \in [Slots -> Entries]
      /\ pos \in 0 .. N - 1
      /\ current \in Entries
      /\ log \in Seq([line : Nat, timestamp : Time])
  BY DEF TypeOK, Slots, Entries
<1>2. Len(log) \in Nat /\ \A k \in 1 .. Len(log) : log[k] \in [line : Nat, timestamp : Time]
  BY <1>1, LenProperties, ElementOfSeq
<1>3. \A e \in [line : Nat, timestamp : Time] :
         e.line \in Nat /\ e.timestamp \in 0 .. Range2w - 1 /\ e \in Entries
  BY DEF Entries, Time
<1>. QED
  BY <1>1, <1>2, <1>3

\* What a slot held is an event published, or an empty slot.
LEMMA HeldType ==
  ASSUME TypeOK, Position, NEW i \in Slots
  PROVE  /\ NumberAt(i) \in Int /\ NumberAt(i) <= Len(log) /\ NumberAt(i) > Len(log) - N
         /\ Held(i) \in Entries
<1>1. pos \in 0 .. N - 1 /\ Len(log) \in Nat /\ i \in 0 .. N - 1 /\ pos <= Len(log)
  BY Types DEF Slots, Position
<1>2. NumberAt(i) \in Int /\ NumberAt(i) <= Len(log) /\ NumberAt(i) > Len(log) - N
  BY <1>1 DEF NumberAt
<1>3. Event(NoLine, 0) \in Entries
  BY DEF Event, Entries, Time
<1>. QED
  BY <1>1, <1>2, <1>3, Types DEF Held

\* Outside a store every slot holds an event published or is empty, and the
\* slots on either side of pos are in the order of time.
LEMMA SlotsSorted ==
  ASSUME IInv, Unlocked
  PROVE  /\ \A i \in Slots : events[i] = Held(i)
         /\ Sorted(pos, N - pos)
         /\ Sorted(0, pos)
<1>. USE DEF IInv
<1>1. \A i \in Slots : events[i] = Held(i)
  BY DEF SlotsHold
<1>2. pos \in 0 .. N - 1 /\ Len(log) \in Nat
  BY Types
<1>3. ASSUME NEW i \in Slots, NEW j \in Slots, i < j, i < pos <=> j < pos
      PROVE  events[i].timestamp <= events[j].timestamp
  <2>1. i \in 0 .. N - 1 /\ j \in 0 .. N - 1
    BY DEF Slots
  <2>2. NumberAt(i) < NumberAt(j)
    BY <1>2, <1>3, <2>1 DEF NumberAt
  <2>3. events[i] = Held(i) /\ events[j] = Held(j)
    BY <1>1
  <2>4. /\ NumberAt(i) \in Int /\ NumberAt(j) \in Int
        /\ NumberAt(i) <= Len(log) /\ NumberAt(j) <= Len(log)
    BY HeldType
  <2>5. CASE NumberAt(i) >= 1
    BY <1>2, <2>2, <2>3, <2>4, <2>5 DEF Held, LogInOrder
  <2>6. CASE NumberAt(i) < 1
    <3>1. events[i].timestamp = 0
      BY <2>3, <2>4, <2>6 DEF Held, Event
    <3>2. events[j].timestamp \in 0 .. Range2w - 1
      BY Types DEF Entries, Time
    <3>. QED
      BY <3>1, <3>2
  <2>. QED
    BY <2>4, <2>5, <2>6
<1>4. Sorted(pos, N - pos)
  <2>. SUFFICES ASSUME NEW i \in pos .. pos + (N - pos) - 1, NEW j \in pos .. pos + (N - pos) - 1, i < j
                PROVE  events[i].timestamp <= events[j].timestamp
    BY <1>2 DEF Sorted
  <2>1. i \in Slots /\ j \in Slots /\ ~(i < pos) /\ ~(j < pos)
    BY <1>2 DEF Slots
  <2>. QED
    BY <1>3, <2>1
<1>5. Sorted(0, pos)
  <2>. SUFFICES ASSUME NEW i \in 0 .. 0 + pos - 1, NEW j \in 0 .. 0 + pos - 1, i < j
                PROVE  events[i].timestamp <= events[j].timestamp
    BY <1>2 DEF Sorted
  <2>1. i \in Slots /\ j \in Slots /\ i < pos /\ j < pos
    BY <1>2 DEF Slots
  <2>. QED
    BY <1>3, <2>1
<1>. QED
  BY <1>1, <1>4, <1>5

\* The copy of a range of slots.
LEMMA CopiedIs ==
  ASSUME events \in [Slots -> Entries], NEW b \in 0 .. N, NEW e \in 0 .. N, b <= e
  PROVE  /\ Copied(b, e) \in Seq(Entries)
         /\ Len(Copied(b, e)) = e - b
         /\ \A i \in 1 .. e - b : Copied(b, e)[i] = events[b + i - 1]
<1>1. e - b \in Nat /\ \A i \in 1 .. e - b : b + i - 1 \in Slots
  BY DEF Slots
<1>2. \A i \in 1 .. e - b : events[b + i - 1] \in Entries
  BY <1>1
<1>. QED
  BY <1>1, <1>2 DEF Copied

\* Where events_snapshot() begins to copy, in the older and the newer half.
LEMMA SearchesFind ==
  ASSUME IInv, Unlocked, NEW earliest \in Int
  PROVE  Found(pos, N - pos, earliest) /\ Found(0, pos, earliest)
<1>1. events \in [Slots -> Entries] /\ pos \in 0 .. N - 1
  BY Types DEF IInv
<1>2. pos \in 0 .. N /\ N - pos \in 0 .. N /\ 0 \in 0 .. N
  BY <1>1
<1>. QED
  BY <1>1, <1>2, SlotsSorted, LowerBoundFinds

\* A snapshot copies slots of the buffer.
LEMMA EventsSinceType ==
  ASSUME IInv, Unlocked, NEW earliest \in Int
  PROVE  EventsSince(earliest) \in Seq(Entries)
<1>1. events \in [Slots -> Entries] /\ pos \in 0 .. N - 1
  BY Types DEF IInv
<1>. DEFINE b == LowerBound(pos, N - pos, earliest)
            c == LowerBound(0, pos, earliest)
<1>2. b \in pos .. N /\ c \in 0 .. pos
  BY <1>1, SearchesFind DEF Found
<1>3. EventsSince(earliest) = Copied(b, N) \o Copied(c, pos)
  BY DEF EventsSince
<1>. HIDE DEF b, c
<1>4. Copied(b, N) \in Seq(Entries) /\ Copied(c, pos) \in Seq(Entries)
  <2>1. b \in 0 .. N /\ N \in 0 .. N /\ b <= N /\ c \in 0 .. N /\ pos \in 0 .. N /\ c <= pos
    BY <1>1, <1>2
  <2>. QED
    BY <1>1, <2>1, CopiedIs
<1>. QED
  BY <1>3, <1>4, ConcatProperties
\* Where the events no earlier than a time begin among the last N published.
BeginsAt(first, earliest) ==
  /\ first \in 1 .. Len(log) + 1 /\ first > Len(log) - N
  /\ \A k \in 1 .. Len(log) :
        k > Len(log) - N => (k >= first <=> log[k].timestamp >= earliest)

\* The slot of an event that is still in the buffer.
SlotOf(k) == IF k > Len(log) - pos THEN k - (Len(log) - pos) - 1
                                   ELSE k - (Len(log) - pos) - 1 + N

LEMMA SlotOfIs ==
  ASSUME IInv, Unlocked, NEW k \in 1 .. Len(log), k > Len(log) - N
  PROVE  /\ SlotOf(k) \in Slots /\ NumberAt(SlotOf(k)) = k /\ events[SlotOf(k)] = log[k]
         /\ SlotOf(k) < pos <=> k > Len(log) - pos
<1>1. pos \in 0 .. N - 1 /\ Len(log) \in Nat /\ pos <= Len(log)
  BY Types DEF IInv, Position
<1>2. /\ SlotOf(k) \in Slots /\ NumberAt(SlotOf(k)) = k
      /\ SlotOf(k) < pos <=> k > Len(log) - pos
  <2>1. CASE k > Len(log) - pos
    BY <1>1, <2>1 DEF SlotOf, NumberAt, Slots
  <2>2. CASE ~(k > Len(log) - pos)
    BY <1>1, <2>2 DEF SlotOf, NumberAt, Slots
  <2>. QED
    BY <2>1, <2>2
<1>3. events[SlotOf(k)] = Held(SlotOf(k))
  BY <1>2, SlotsSorted
<1>. QED
  BY <1>1, <1>2, <1>3 DEF Held

\* A snapshot is the end of the log, from the first of the last N events that
\* is recent enough on.
LEMMA EventsSinceIs ==
  ASSUME IInv, Unlocked, NEW earliest \in Nat \ {0}
  PROVE  \E first \in 1 .. Len(log) + 1 :
            /\ BeginsAt(first, earliest)
            /\ EventsSince(earliest) = SubSeq(log, first, Len(log))
<1>. DEFINE b == LowerBound(pos, N - pos, earliest)
            c == LowerBound(0, pos, earliest)
            L == Len(log)
            first == IF b < N THEN NumberAt(b) ELSE L - pos + 1 + c
<1>1. /\ events \in [Slots -> Entries] /\ pos \in 0 .. N - 1 /\ L \in Nat /\ pos <= L
      /\ earliest \in Int
  BY Types DEF IInv, Position
<1>2. /\ b \in pos .. pos + (N - pos) /\ c \in 0 .. 0 + pos
      /\ \A i \in pos .. pos + (N - pos) - 1 : events[i].timestamp < earliest <=> i < b
      /\ \A i \in 0 .. 0 + pos - 1 : events[i].timestamp < earliest <=> i < c
  <2>1. Found(pos, N - pos, earliest) /\ Found(0, pos, earliest)
    BY <1>1, SearchesFind
  <2>. QED
    BY <2>1, Zenon DEF Found
<1>4. EventsSince(earliest) = Copied(b, N) \o Copied(c, pos)
  BY DEF EventsSince
<1>. HIDE DEF b, c
<1>3. /\ b \in pos .. N /\ c \in 0 .. pos
      /\ \A i \in pos .. N - 1 : events[i].timestamp < earliest <=> i < b
      /\ \A i \in 0 .. pos - 1 : events[i].timestamp < earliest <=> i < c
  BY <1>1, <1>2
<1>5. \A k \in 1 .. L : log[k].timestamp \in Nat
  BY Types DEF IInv
<1>6. \A k, m \in 1 .. L : k < m => log[k].timestamp <= log[m].timestamp
  BY DEF IInv, LogInOrder
<1>7. b < N => NumberAt(b) \in 1 .. L /\ log[NumberAt(b)].timestamp >= earliest
  <2>. SUFFICES ASSUME b < N PROVE NumberAt(b) \in 1 .. L /\ log[NumberAt(b)].timestamp >= earliest
    OBVIOUS
  <2>1. b \in Slots /\ b \in pos .. N - 1
    BY <1>1, <1>3 DEF Slots
  <2>2. NumberAt(b) \in Int /\ NumberAt(b) <= L
    BY <2>1, HeldType DEF IInv
  <2>3. events[b] = Held(b)
    BY <2>1, SlotsSorted
  <2>4. events[b].timestamp \in Nat /\ ~(events[b].timestamp < earliest)
    BY <1>1, <1>3, <2>1 DEF Entries, Time
  <2>5. NumberAt(b) >= 1
    BY <2>2, <2>3, <2>4 DEF Held, Event
  <2>. QED
    BY <1>1, <2>2, <2>3, <2>4, <2>5 DEF Held
<1>8. b < N => NumberAt(b) = L - pos + 1 + b - N
  BY <1>1, <1>3 DEF NumberAt
<1>9. b < N => c = 0
  <2>. SUFFICES ASSUME b < N, c # 0 PROVE FALSE
    OBVIOUS
  <2>1. 0 \in 0 .. pos - 1 /\ 0 \in Slots /\ events[0].timestamp < earliest
    BY <1>1, <1>3 DEF Slots
  <2>2. NumberAt(0) = L - pos + 1
    BY <1>1, <2>1 DEF NumberAt
  <2>3. events[0] = log[L - pos + 1] /\ L - pos + 1 \in 1 .. L
    BY <1>1, <2>1, <2>2, SlotsSorted DEF Held
  <2>4. NumberAt(b) < L - pos + 1
    BY <1>1, <1>3, <1>8
  <2>. QED
    BY <1>1, <1>5, <1>6, <1>7, <2>1, <2>3, <2>4
<1>10. first \in 1 .. L + 1 /\ first > L - N
  BY <1>1, <1>3, <1>7, <1>8
<1>11. ASSUME NEW k \in 1 .. L, k > L - N
       PROVE  k >= first <=> log[k].timestamp >= earliest
  <2>1. /\ SlotOf(k) \in Slots /\ NumberAt(SlotOf(k)) = k /\ events[SlotOf(k)] = log[k]
        /\ SlotOf(k) < pos <=> k > L - pos
    BY <1>11, SlotOfIs
  <2>2. SlotOf(k) = IF k > L - pos THEN k - (L - pos) - 1 ELSE k - (L - pos) - 1 + N
    BY DEF SlotOf
  <2>3. SlotOf(k) \in 0 .. N - 1 /\ k \in Nat /\ log[k].timestamp \in Nat
    BY <1>5, <2>1 DEF Slots
  <2>8. /\ pos \in Nat /\ pos < N /\ L \in Nat /\ pos <= L /\ earliest \in Nat
        /\ b \in Nat /\ pos <= b /\ b <= N /\ c \in Nat /\ c <= pos /\ k \in Nat /\ k <= L
        /\ SlotOf(k) \in Nat /\ SlotOf(k) < N /\ log[k].timestamp \in Nat /\ N \in Nat
    BY <1>1, <1>3, <2>3
  <2>9. /\ b < N => first = L - pos + 1 + b - N
        /\ ~(b < N) => first = L - pos + 1 + c /\ b = N
    BY <1>8, <2>8
  \* The search that passes slot SlotOf(k) compares event k.
  <2>10. /\ SlotOf(k) >= pos => (log[k].timestamp < earliest <=> SlotOf(k) < b)
         /\ SlotOf(k) < pos => (log[k].timestamp < earliest <=> SlotOf(k) < c)
    <3>1. SlotOf(k) >= pos => SlotOf(k) \in pos .. N - 1
      BY ONLY <2>8
    <3>2. SlotOf(k) < pos => SlotOf(k) \in 0 .. pos - 1
      BY ONLY <2>8
    <3>. QED
      BY <1>3, <2>1, <3>1, <3>2
  <2>4. CASE b < N /\ k > L - pos
    <3>1. NumberAt(b) < k /\ NumberAt(b) \in 1 .. L
      BY <1>7, <1>8, <2>4, <2>8
    <3>2. log[NumberAt(b)].timestamp \in Nat /\ log[NumberAt(b)].timestamp >= earliest
          /\ log[NumberAt(b)].timestamp <= log[k].timestamp
      BY <1>5, <1>6, <1>7, <2>4, <3>1
    <3>3. k >= first
      BY <2>4, <2>9, <3>1, <1>8
    <3>. HIDE DEF first
    <3>. QED
      BY <2>8, <3>2, <3>3
  <2>. HIDE DEF first
  <2>5. CASE b < N /\ ~(k > L - pos)
    <3>1. SlotOf(k) = k - (L - pos) - 1 + N
      BY <2>2, <2>5
    <3>2. first = L - pos + 1 + b - N
      BY <2>5, <2>9
    <3>3. SlotOf(k) >= pos /\ (SlotOf(k) < b <=> ~(k >= first))
      BY ONLY <1>11, <2>5, <2>8, <3>1, <3>2
    <3>. QED
      BY <2>8, <2>10, <3>3
  <2>6. CASE ~(b < N) /\ k > L - pos
    <3>1. SlotOf(k) = k - (L - pos) - 1
      BY <2>2, <2>6
    <3>2. first = L - pos + 1 + c
      BY <2>6, <2>9
    <3>3. SlotOf(k) < pos /\ (SlotOf(k) < c <=> ~(k >= first))
      BY ONLY <1>11, <2>6, <2>8, <3>1, <3>2
    <3>. QED
      BY <2>8, <2>10, <3>3
  <2>7. CASE ~(b < N) /\ ~(k > L - pos)
    <3>1. SlotOf(k) = k - (L - pos) - 1 + N
      BY <2>2, <2>7
    <3>2. first = L - pos + 1 + c /\ b = N
      BY <2>7, <2>9
    <3>3. SlotOf(k) >= pos /\ SlotOf(k) < b /\ ~(k >= first)
      BY ONLY <1>11, <2>7, <2>8, <3>1, <3>2
    <3>. QED
      BY <2>8, <2>10, <3>3
  <2>. QED
    BY <2>4, <2>5, <2>6, <2>7
<1>12. EventsSince(earliest) = SubSeq(log, first, L)
  <2>1. b \in 0 .. N /\ N \in 0 .. N /\ b <= N /\ c \in 0 .. N /\ pos \in 0 .. N /\ c <= pos
    BY <1>1, <1>3
  <2>2. /\ Copied(b, N) \in Seq(Entries) /\ Len(Copied(b, N)) = N - b
        /\ \A i \in 1 .. N - b : Copied(b, N)[i] = events[b + i - 1]
    BY <1>1, <2>1, CopiedIs
  <2>3. /\ Copied(c, pos) \in Seq(Entries) /\ Len(Copied(c, pos)) = pos - c
        /\ \A i \in 1 .. pos - c : Copied(c, pos)[i] = events[c + i - 1]
    BY <1>1, <2>1, CopiedIs
  <2>. DEFINE s == Copied(b, N) \o Copied(c, pos)
              t == SubSeq(log, first, L)
  <2>4. /\ s \in Seq(Entries) /\ Len(s) = N - b + pos - c
        /\ \A i \in 1 .. Len(s) : s[i] = IF i <= N - b THEN events[b + i - 1]
                                                     ELSE events[c + (i - (N - b)) - 1]
    <3>. DEFINE u == Copied(b, N)
                v == Copied(c, pos)
    <3>1. /\ u \in Seq(Entries) /\ v \in Seq(Entries) /\ s = u \o v
          /\ Len(u) = N - b /\ Len(v) = pos - c
          /\ \A i \in 1 .. N - b : u[i] = events[b + i - 1]
          /\ \A i \in 1 .. pos - c : v[i] = events[c + i - 1]
      BY <2>2, <2>3
    <3>. HIDE DEF s, u, v
    <3>2. /\ s \in Seq(Entries) /\ Len(s) = Len(u) + Len(v)
          /\ \A i \in 1 .. Len(u) + Len(v) : s[i] = IF i <= Len(u) THEN u[i] ELSE v[i - Len(u)]
      <4>1. u \in Seq(Entries) /\ v \in Seq(Entries) /\ s = u \o v
        BY <3>1
      <4>. QED
        BY ONLY <4>1, ConcatProperties
    <3>5. b \in Nat /\ N \in Nat /\ b <= N /\ c \in Nat /\ pos \in Nat /\ c <= pos
      BY <1>1, <2>1
    <3>3. Len(s) = N - b + pos - c
      BY ONLY <3>1, <3>2, <3>5
    <3>4. ASSUME NEW i \in 1 .. Len(s)
          PROVE  s[i] = IF i <= N - b THEN events[b + i - 1]
                                      ELSE events[c + (i - (N - b)) - 1]
      <4>1. i \in 1 .. Len(u) + Len(v)
        BY ONLY <3>2, <3>4
      <4>2. s[i] = IF i <= Len(u) THEN u[i] ELSE v[i - Len(u)]
        BY ONLY <3>2, <4>1
      <4>3. CASE i <= N - b
        <5>1. i <= Len(u) /\ i \in 1 .. N - b
          BY ONLY <3>1, <3>5, <4>1, <4>3
        <5>. QED
          BY ONLY <3>1, <4>2, <4>3, <5>1
      <4>4. CASE ~(i <= N - b)
        <5>1. ~(i <= Len(u)) /\ i - Len(u) = i - (N - b) /\ i - (N - b) \in 1 .. pos - c
          BY ONLY <3>1, <3>5, <4>1, <4>4
        <5>2. v[i - (N - b)] = events[c + (i - (N - b)) - 1]
          BY ONLY <3>1, <5>1
        <5>. QED
          BY ONLY <4>2, <4>4, <5>1, <5>2
      <4>. QED
        BY ONLY <4>3, <4>4
    <3>. QED
      BY <3>2, <3>3, <3>4
  <2>5. \A k \in first .. L : log[k] \in Entries
    BY <1>10, Types DEF IInv
  <2>6. /\ t \in Seq(Entries) /\ Len(t) = (IF first <= L THEN L - first + 1 ELSE 0)
        /\ \A i \in 1 .. L - first + 1 : t[i] = log[first + i - 1]
    BY <1>1, <1>10, <2>5, SubSeqProperties
  <2>. HIDE DEF s, t
  <2>10. /\ b < N => first = L - pos + 1 + b - N /\ c = 0
         /\ ~(b < N) => first = L - pos + 1 + c /\ b = N
    BY <1>1, <1>3, <1>8, <1>9
  <2>. HIDE DEF first
  <2>7. Len(s) = L - first + 1 /\ Len(s) = Len(t) /\ Len(s) \in Nat
    <3>1. Len(s) = L - first + 1
      <4>1. /\ N \in Nat /\ b \in Nat /\ c \in Nat /\ pos \in Nat /\ L \in Nat
            /\ b <= N /\ Len(s) = N - b + pos - c
        BY <1>1, <1>3, <2>4
      <4>2. CASE b < N
        <5>1. first = L - pos + 1 + b - N /\ c = 0
          BY ONLY <2>10, <4>2
        <5>. QED
          BY ONLY <4>1, <5>1
      <4>3. CASE ~(b < N)
        <5>1. first = L - pos + 1 + c /\ b = N
          BY ONLY <2>10, <4>3
        <5>. QED
          BY ONLY <4>1, <5>1
      <4>. QED
        BY ONLY <4>2, <4>3
    <3>. QED
      BY <1>1, <1>10, <2>6, <3>1
  <2>8. ASSUME NEW i \in 1 .. Len(s) PROVE s[i] = t[i]
    <3>. DEFINE j == IF i <= N - b THEN b + i - 1 ELSE c + (i - (N - b)) - 1
    <3>1. j \in Slots /\ NumberAt(j) = first + i - 1
      <4>1. i \in Int /\ i >= 1 /\ i <= N - b + pos - c
        BY <1>1, <2>4
      <4>2. CASE i <= N - b
        <5>1. j = b + i - 1 /\ j >= pos /\ j <= N - 1 /\ b < N
          BY <1>1, <1>3, <4>1, <4>2
        <5>. HIDE DEF j
        <5>. QED
          BY <1>1, <1>3, <2>10, <4>1, <5>1 DEF NumberAt, Slots
      <4>3. CASE ~(i <= N - b)
        <5>1. j = c + (i - (N - b)) - 1 /\ j \in 0 .. pos - 1
          BY <1>1, <1>3, <4>1, <4>3
        <5>. HIDE DEF j
        <5>2. j \in Slots /\ NumberAt(j) = L - pos + 1 + j
          BY <1>1, <5>1 DEF NumberAt, Slots
        <5>3. first = L - pos + 1 + c - (N - b)
          BY <1>1, <1>3, <2>10
        <5>. QED
          BY <1>1, <1>3, <4>1, <5>1, <5>2, <5>3
      <4>. QED
        BY <4>2, <4>3
    <3>2. s[i] = events[j]
      BY <2>4
    <3>. HIDE DEF j
    <3>3. events[j] = Held(j)
      BY <3>1, SlotsSorted
    <3>4. first + i - 1 >= 1
      BY <1>10, <2>7
    <3>. QED
      BY <2>6, <2>7, <3>1, <3>2, <3>3, <3>4 DEF Held
  <2>9. s = t
    BY <2>4, <2>6, <2>7, <2>8, SeqEqual
  <2>. QED
    BY <1>4, <2>9 DEF s, t
<1>13. BeginsAt(first, earliest)
  BY <1>10, <1>11 DEF BeginsAt
<1>. HIDE DEF first
<1>. QED
  BY <1>10, <1>12, <1>13
------------------------------------------------------------------------------
(* The invariant is inductive.                                              *)

\* The buffer is empty at first.
LEMMA InitIInv == Init => IInv
<1>. SUFFICES ASSUME Init PROVE IInv
  OBVIOUS
<1>1. TypeOK
  BY DEF Init, TypeOK, Event, Time, Slots
<1>2. LogInOrder /\ Position
  BY DEF Init, LogInOrder, Position
<1>3. SlotsHold
  BY DEF Init, SlotsHold, Held, NumberAt, Slots
<1>4. InStore /\ CurrentNext
  BY DEF Init, InStore, CurrentNext, Unlocked
<1>. QED
  BY <1>1, <1>2, <1>3, <1>4 DEF IInv

\* An entry and its two words.
LEMMA EntryFields ==
  /\ \A e \in Entries : /\ e.line \in Nat \cup {NoLine} /\ e.timestamp \in Nat
                        /\ e.timestamp \in Time /\ e = Event(e.line, e.timestamp)
                        /\ e.line \in Nat => e \in [line : Nat, timestamp : Time]
  /\ \A l \in Nat \cup {NoLine}, t \in Time : Event(l, t) \in Entries
  /\ \A l, t : Event(l, t).line = l /\ Event(l, t).timestamp = t
BY DEF Entries, Event, Time

\* Storing one of the words of a slot.
LEMMA WordStores ==
  ASSUME events \in [Slots -> Entries], pos \in Slots
  PROVE  /\ StoreLine => events' = [events EXCEPT ![pos] = Event(current.line, events[pos].timestamp)]
         /\ StoreTimestamp => events' = [events EXCEPT ![pos] = Event(events[pos].line, current.timestamp)]
<1>1. events[pos] \in [line : Nat \cup {NoLine}, timestamp : Time]
  BY DEF Entries
<1>2. /\ [events[pos] EXCEPT !.line = current.line] = Event(current.line, events[pos].timestamp)
      /\ [events[pos] EXCEPT !.timestamp = current.timestamp] = Event(events[pos].line, current.timestamp)
  BY <1>1 DEF Event
<1>. QED
  BY <1>2 DEF StoreLine, StoreTimestamp

\* A step that leaves the buffer, the log and the reader's progress alone
\* keeps the invariant when it keeps the types.
LEMMA FrameStep ==
  ASSUME IInv, UNCHANGED <<events, pos, reader, current, log>>, TypeOK'
  PROVE  IInv'
BY DEF IInv, LogInOrder, Position, SlotsHold, Held, NumberAt, InStore, CurrentNext,
       Unlocked, IsEvent

\* The reader thread up to the mutex: a line read and, if it is no event,
\* dropped.
LEMMA ReadStep == IInv /\ (GetLine \/ SkipLine) => IInv'
<1>. SUFFICES ASSUME IInv, GetLine \/ SkipLine PROVE IInv'
  OBVIOUS
<1>. USE DEF IInv
<1>1. UNCHANGED <<events, pos, now, snapshot, log>> /\ reader \in {"reading", "parsed"}
      /\ reader' \in {"reading", "parsed"}
  BY DEF GetLine, SkipLine
<1>2. LogInOrder' /\ Position' /\ SlotsHold' /\ InStore'
  BY <1>1 DEF LogInOrder, Position, SlotsHold, Held, NumberAt, InStore, Unlocked, IsEvent
<1>3. TypeOK' /\ CurrentNext'
  <2>1. CASE GetLine
    <3>1. PICK t \in 0 .. now : /\ t > 0 => \A i \in DOMAIN log : log[i].timestamp <= t
                               /\ current' = Event(lines', t)
      BY <2>1 DEF GetLine
    <3>2. /\ lines' = lines + 1 /\ lines < MaxLines /\ reader' = "parsed"
          /\ lines \in 0 .. MaxLines /\ now \in Time /\ DOMAIN log = 1 .. Len(log)
      BY <2>1 DEF GetLine, TypeOK
    <3>3. lines' \in 0 .. MaxLines /\ lines' \in Nat /\ t \in Time
      BY <3>2 DEF Time
    <3>4. current' \in Entries /\ current'.line = lines' /\ current'.timestamp = t
      BY <3>1, <3>3 DEF Event, Entries
    <3>5. TypeOK'
      BY <1>1, <3>2, <3>3, <3>4 DEF TypeOK, Entries
    <3>6. CurrentNext'
      BY <1>1, <3>1, <3>2, <3>3, <3>4 DEF CurrentNext, Unlocked, IsEvent, Time
    <3>. QED
      BY <3>5, <3>6
  <2>2. CASE SkipLine
    BY <2>2 DEF SkipLine, TypeOK, CurrentNext, Unlocked
  <2>. QED
    BY <2>1, <2>2
<1>. QED
  BY <1>2, <1>3

\* The two words of the slot, under the mutex.
LEMMA StoreStep == IInv /\ (StoreLine \/ StoreTimestamp) => IInv'
<1>. SUFFICES ASSUME IInv, StoreLine \/ StoreTimestamp PROVE IInv'
  OBVIOUS
<1>. USE DEF IInv
<1>0. /\ events \in [Slots -> Entries] /\ pos \in Slots /\ current \in Entries
      /\ events[pos] \in Entries
  BY Types DEF TypeOK
<1>1. /\ UNCHANGED <<pos, current, lines, now, snapshot, log>>
      /\ reader # "reading" /\ reader' \in {"line_stored", "event_stored"}
      /\ IsEvent(current)
  BY DEF StoreLine, StoreTimestamp, CurrentNext, Unlocked
<1>2. LogInOrder' /\ Position' /\ CurrentNext'
  BY <1>1 DEF LogInOrder, Position, CurrentNext, Unlocked, IsEvent
<1>3. events' \in [Slots -> Entries] /\ InStore' /\ \A i \in Slots : i # pos => events'[i] = events[i]
  <2>1. CASE StoreLine
    <3>1. reader = "parsed" /\ reader' = "line_stored" /\ current.line \in Nat
      BY <2>1 DEF StoreLine, CurrentNext
    <3>2. events[pos] = Held(pos)
      BY <1>0, <3>1 DEF SlotsHold, Unlocked
    <3>3. events' = [events EXCEPT ![pos] = Event(current.line, events[pos].timestamp)]
      BY <1>0, <2>1, WordStores
    <3>4. Event(current.line, events[pos].timestamp) \in Entries
      BY <1>0, <3>1, EntryFields
    <3>5. Held(pos)' = Held(pos)
      BY <1>1 DEF Held, NumberAt
    <3>. QED
      BY <1>0, <1>1, <3>1, <3>2, <3>3, <3>4, <3>5 DEF InStore
  <2>2. CASE StoreTimestamp
    <3>1. reader = "line_stored" /\ reader' = "event_stored"
      BY <2>2 DEF StoreTimestamp
    <3>2. events' = [events EXCEPT ![pos] = Event(events[pos].line, current.timestamp)]
      BY <1>0, <2>2, WordStores
    <3>3. events[pos] = Event(current.line, Held(pos).timestamp)
      BY <3>1 DEF InStore
    <3>4. events[pos].line = current.line
      BY <3>3, EntryFields
    <3>5. Event(events[pos].line, current.timestamp) = current
      BY <1>0, <3>4, EntryFields
    <3>. QED
      BY <1>0, <1>1, <3>1, <3>2, <3>5 DEF InStore
  <2>. QED
    BY <2>1, <2>2
<1>4. SlotsHold'
  <2>1. \A i \in Slots : Held(i)' = Held(i)
    BY <1>1 DEF Held, NumberAt
  <2>2. \A i \in Slots : i # pos => events[i] = Held(i)
    BY DEF SlotsHold
  <2>. QED
    BY <1>1, <1>3, <2>1, <2>2 DEF SlotsHold, Unlocked
<1>5. TypeOK'
  BY <1>1, <1>3 DEF TypeOK, Entries
<1>. QED
  BY <1>2, <1>3, <1>4, <1>5

\* The increment of pos, which is cyclic.
LEMMA Advancing ==
  ASSUME NEW p \in 0 .. N - 1
  PROVE  Advance(p) = IF p = N - 1 THEN 0 ELSE p + 1
<1>1. CASE p = N - 1
  <2>1. (p + 1) = N
    BY <1>1
  <2>2. N % N = 0
    OBVIOUS
  <2>. QED
    BY <1>1, <2>1, <2>2 DEF Advance
<1>2. CASE p # N - 1
  <2>1. p + 1 \in 0 .. N - 1
    BY <1>2
  <2>2. (p + 1) % N = p + 1
    BY <2>1
  <2>. QED
    BY <1>2, <2>2 DEF Advance
<1>. QED
  BY <1>1, <1>2

\* The event is published: the slot written last gets the newest number and
\* no other slot's number changes.
LEMMA Renumbering ==
  ASSUME IInv, StorePos, NEW i \in Slots
  PROVE  /\ Len(log') = Len(log) + 1
         /\ NumberAt(i)' = IF i = pos THEN Len(log) + 1 ELSE NumberAt(i)
<1>1. /\ pos \in 0 .. N - 1 /\ Len(log) \in Nat /\ i \in 0 .. N - 1
      /\ log \in Seq([line : Nat, timestamp : Time])
  BY Types DEF IInv, Slots
<1>2. pos' = (IF pos = N - 1 THEN 0 ELSE pos + 1) /\ log' = Append(log, current)
  BY <1>1, Advancing DEF StorePos
<1>3. Len(log') = Len(log) + 1
  BY <1>1, <1>2
<1>4. NumberAt(i)' = Len(log') - pos' + 1 + i - (IF i < pos' THEN 0 ELSE N)
  BY DEF NumberAt
<1>5. NumberAt(i) = Len(log) - pos + 1 + i - (IF i < pos THEN 0 ELSE N)
  BY DEF NumberAt
<1>6. CASE pos = N - 1
  <2>1. pos' = 0 /\ ~(i < pos')
    BY <1>1, <1>2, <1>6
  <2>2. NumberAt(i)' = Len(log) + 1 + 1 + i - N
    BY <1>1, <1>3, <1>4, <2>1
  <2>3. NumberAt(i) = Len(log) - pos + 1 + i - (IF i < pos THEN 0 ELSE N) /\ (i < pos <=> i # pos)
    BY <1>1, <1>5, <1>6
  <2>. QED
    BY <1>1, <1>3, <1>6, <2>2, <2>3
<1>7. CASE pos # N - 1
  <2>1. pos' = pos + 1
    BY <1>1, <1>2, <1>7
  <2>2. NumberAt(i)' = Len(log) - pos + 1 + i - (IF i < pos + 1 THEN 0 ELSE N)
    BY <1>1, <1>3, <1>4, <2>1
  <2>3. CASE i = pos
    BY <1>1, <1>3, <2>2, <2>3
  <2>4. CASE i # pos
    <3>1. i < pos + 1 <=> i < pos
      BY <1>1, <2>4
    <3>. QED
      BY <1>3, <1>5, <2>2, <2>4, <3>1
  <2>. QED
    BY <2>3, <2>4
<1>. QED
  BY <1>6, <1>7

LEMMA StorePosStep == IInv /\ StorePos => IInv'
<1>. SUFFICES ASSUME IInv, StorePos PROVE IInv'
  OBVIOUS
<1>. USE DEF IInv
<1>0. /\ pos \in 0 .. N - 1 /\ Len(log) \in Nat /\ pos \in Slots
      /\ log \in Seq([line : Nat, timestamp : Time])
      /\ current \in Entries /\ current.line \in Nat /\ IsEvent(current)
      /\ \A k \in 1 .. Len(log) : log[k].timestamp <= current.timestamp
      /\ reader = "event_stored"
  BY Types DEF TypeOK, CurrentNext, StorePos, Unlocked
<1>1. /\ pos' = IF pos = N - 1 THEN 0 ELSE pos + 1
      /\ log' = Append(log, current) /\ reader' = "reading"
      /\ UNCHANGED <<events, current, lines, now, snapshot>>
  BY <1>0, Advancing DEF StorePos
<1>2. current \in [line : Nat, timestamp : Time]
  BY <1>0, EntryFields
<1>3. /\ log' \in Seq([line : Nat, timestamp : Time]) /\ Len(log') = Len(log) + 1
      /\ \A k \in 1 .. Len(log) : log'[k] = log[k]
      /\ log'[Len(log) + 1] = current
  BY <1>0, <1>1, <1>2, AppendProperties
<1>4. TypeOK'
  BY <1>0, <1>1, <1>3 DEF TypeOK, Slots
<1>5. LogInOrder'
  <2>1. \A k \in 1 .. Len(log) : log[k].timestamp \in Int /\ IsEvent(log[k])
    BY Types DEF LogInOrder
  <2>2. current.timestamp \in Int
    BY <1>0, EntryFields
  <2>3. ASSUME NEW k \in 1 .. Len(log) + 1 PROVE IsEvent(log'[k])
    BY <1>0, <1>3, <2>1, <2>3
  <2>4. ASSUME NEW k \in 1 .. Len(log) + 1, NEW m \in 1 .. Len(log) + 1, k < m
        PROVE  log'[k].timestamp <= log'[m].timestamp
    <3>1. CASE m = Len(log) + 1
      <4>1. k \in 1 .. Len(log)
        BY <1>0, <2>4, <3>1
      <4>. QED
        BY <1>0, <1>3, <3>1, <4>1
    <3>2. CASE m # Len(log) + 1
      <4>1. k \in 1 .. Len(log) /\ m \in 1 .. Len(log)
        BY <1>0, <2>4, <3>2
      <4>. QED
        BY <1>3, <2>4, <4>1 DEF LogInOrder
    <3>. QED
      BY <3>1, <3>2
  <2>. QED
    BY <1>3, <2>3, <2>4 DEF LogInOrder, IsEvent
<1>6. Position'
  BY <1>0, <1>1, <1>3 DEF Position
<1>7. SlotsHold'
  <2>. SUFFICES ASSUME NEW i \in Slots PROVE events'[i] = Held(i)'
    BY DEF SlotsHold
  <2>1. NumberAt(i)' = IF i = pos THEN Len(log) + 1 ELSE NumberAt(i)
    BY Renumbering
  <2>2. NumberAt(i) \in Int /\ NumberAt(i) <= Len(log)
    BY HeldType
  <2>3. CASE i = pos
    <3>1. events[pos] = current
      BY <1>0 DEF InStore
    <3>. QED
      BY <1>0, <1>1, <1>3, <2>1, <2>3, <3>1 DEF Held
  <2>4. CASE i # pos
    <3>1. events[i] = Held(i)
      BY <2>4 DEF SlotsHold
    <3>. QED
      BY <1>0, <1>1, <1>3, <2>1, <2>2, <2>4, <3>1 DEF Held
  <2>. QED
    BY <2>3, <2>4
<1>8. InStore' /\ CurrentNext'
  BY <1>1 DEF InStore, CurrentNext, Unlocked
<1>. QED
  BY <1>4, <1>5, <1>6, <1>7, <1>8

\* Taking a snapshot changes nothing but the snapshot.
LEMMA TakeSnapshotIs ==
  ASSUME IInv, TakeSnapshot
  PROVE  /\ Unlocked /\ UNCHANGED <<events, pos, reader, current, lines, now, log>>
         /\ \E since \in Int, earliest \in Nat :
              /\ snapshot' = [since |-> since, events |-> EventsSince(earliest)]
              /\ ~Zero /\ ~LongAges => since = earliest /\ earliest \in Nat \ {0}
<1>1. now \in 0 .. Range2w - 1
  BY DEF IInv, TypeOK, Time
<1>2. CASE SnapshotAll
  BY <1>2 DEF SnapshotAll, Default
<1>3. ASSUME NEW time \in Time, time = 0 => Zero, SnapshotStartingAtTime(time)
      PROVE  /\ Unlocked /\ UNCHANGED <<events, pos, reader, current, lines, now, log>>
             /\ \E since \in Int, earliest \in Nat :
                  /\ snapshot' = [since |-> since, events |-> EventsSince(earliest)]
                  /\ ~Zero /\ ~LongAges => since = earliest /\ earliest \in Nat \ {0}
  BY <1>3 DEF SnapshotStartingAtTime, Time
<1>4. ASSUME NEW age \in Time, age >= now => LongAges, SnapshotUpToAge(age)
      PROVE  /\ Unlocked /\ UNCHANGED <<events, pos, reader, current, lines, now, log>>
             /\ \E since \in Int, earliest \in Nat :
                  /\ snapshot' = [since |-> since, events |-> EventsSince(earliest)]
                  /\ ~Zero /\ ~LongAges => since = earliest /\ earliest \in Nat \ {0}
  <2>1. now - age \in Int /\ TimeOfAge(age) \in Nat
    BY <1>1 DEF TimeOfAge, Time
  <2>2. ~LongAges => now - age \in 1 .. Range2w - 1
    BY <1>1, <1>4 DEF Time
  <2>3. now - age \in 1 .. Range2w - 1 => TimeOfAge(age) = now - age
    BY DEF TimeOfAge
  <2>. QED
    BY <1>4, <2>1, <2>2, <2>3 DEF SnapshotUpToAge
<1>. QED
  BY <1>2, <1>3, <1>4 DEF TakeSnapshot

\* Every step of the program keeps the invariant.
LEMMA NextIInv == IInv /\ [Next]_vars => IInv'
<1>. SUFFICES ASSUME IInv, [Next]_vars PROVE IInv'
  OBVIOUS
<1>1. CASE Tick
  <2>1. TypeOK'
    BY <1>1 DEF Tick, IInv, TypeOK, Time
  <2>. QED
    BY <1>1, <2>1, FrameStep DEF Tick
<1>2. CASE Read
  BY <1>2, ReadStep, StoreStep, StorePosStep DEF Read
<1>3. CASE TakeSnapshot
  <2>1. PICK since \in Int, earliest \in Nat :
           snapshot' = [since |-> since, events |-> EventsSince(earliest)]
    BY <1>3, TakeSnapshotIs
  <2>2. Unlocked /\ UNCHANGED <<events, pos, reader, current, lines, now, log>>
    BY <1>3, TakeSnapshotIs
  <2>3. EventsSince(earliest) \in Seq(Entries)
    BY <2>2, EventsSinceType
  <2>4. TypeOK'
    BY <2>1, <2>2, <2>3 DEF IInv, TypeOK, Entries
  <2>. QED
    BY <2>2, <2>4, FrameStep
<1>4. CASE UNCHANGED vars
  <2>1. TypeOK'
    BY <1>4 DEF vars, IInv, TypeOK
  <2>. QED
    BY <1>4, <2>1, FrameStep DEF vars
<1>. QED
  BY <1>1, <1>2, <1>3, <1>4 DEF Next

\* The invariant holds in every state of every execution.
THEOREM Invariance == Spec => []IInv
<1>1. Init => IInv
  BY InitIInv
<1>2. IInv /\ [Next]_vars => IInv'
  BY NextIInv
<1>. QED
  BY <1>1, <1>2, PTL DEF Spec

\* Type correctness; in particular no search and no copy leaves the buffer.
THEOREM TypeCorrect == Spec => []TypeOK
<1>1. IInv => TypeOK
  BY DEF IInv
<1>. QED
  BY <1>1, Invariance, PTL
------------------------------------------------------------------------------
(* The window of the newest events.                                         *)

Published == [line : Nat, timestamp : Time]

\* The last n elements of a sequence, and how many they are.
CountOf(s, n) == IF Len(s) > n THEN n ELSE Len(s)
LastOf(s, n) == SubSeq(s, (IF Len(s) > n THEN Len(s) - n ELSE 0) + 1, Len(s))

LEMMA LastOfIs ==
  ASSUME NEW s \in Seq(Published), NEW n \in Nat
  PROVE  /\ LastOf(s, n) \in Seq(Published) /\ Len(LastOf(s, n)) = CountOf(s, n)
         /\ CountOf(s, n) \in Nat
         /\ \A i \in 1 .. CountOf(s, n) : LastOf(s, n)[i] = s[Len(s) - CountOf(s, n) + i]
<1>. DEFINE from == (IF Len(s) > n THEN Len(s) - n ELSE 0) + 1
<1>1. Len(s) \in Nat
  OBVIOUS
<1>2. /\ from \in Int /\ from >= 1 /\ Len(s) - from + 1 = CountOf(s, n)
      /\ CountOf(s, n) \in Nat
      /\ from <= Len(s) => CountOf(s, n) = Len(s) - from + 1
      /\ ~(from <= Len(s)) => CountOf(s, n) = 0
  BY <1>1 DEF CountOf
<1>3. LastOf(s, n) = SubSeq(s, from, Len(s))
  BY DEF LastOf
<1>. HIDE DEF from
<1>4. \A k \in from .. Len(s) : s[k] \in Published
  BY <1>1, <1>2, ElementOfSeq
<1>5. /\ LastOf(s, n) \in Seq(Published)
      /\ Len(LastOf(s, n)) = IF from <= Len(s) THEN Len(s) - from + 1 ELSE 0
      /\ \A i \in 1 .. Len(s) - from + 1 : LastOf(s, n)[i] = s[from + i - 1]
  BY <1>1, <1>2, <1>3, <1>4, SubSeqProperties
<1>6. \A i \in 1 .. CountOf(s, n) : from + i - 1 = Len(s) - CountOf(s, n) + i
  BY <1>1, <1>2
<1>. QED
  BY <1>2, <1>5, <1>6

\* How many of the events published are among the newest n.
Count(n) == CountOf(log, n)

LEMMA NewestIs ==
  ASSUME TypeOK, NEW n \in Nat
  PROVE  /\ Newest(n) \in Seq(Published) /\ Len(Newest(n)) = Count(n) /\ Count(n) \in Nat
         /\ \A i \in 1 .. Count(n) : Newest(n)[i] = log[Len(log) - Count(n) + i]
<1>1. log \in Seq(Published)
  BY Types DEF Published
<1>2. Newest(n) = LastOf(log, n)
  BY DEF Newest, LastOf
<1>. QED
  BY <1>1, <1>2, LastOfIs DEF Count

\* The end of the log, when it is no longer than the window, is an end of the
\* window.
LEMMA EndOfWindow ==
  ASSUME TypeOK, NEW first \in 1 .. Len(log) + 1, first > Len(log) - N
  PROVE  SubSeq(log, first, Len(log))
         = SubSeq(Newest(N), first - (Len(log) - Count(N)), Count(N))
<1>. DEFINE L == Len(log)
            C == Count(N)
            W == Newest(N)
            g == first - (L - C)
            s == SubSeq(log, first, L)
            t == SubSeq(W, g, C)
<1>1. log \in Seq(Published) /\ L \in Nat
  BY Types DEF Published
<1>2. /\ W \in Seq(Published) /\ Len(W) = C /\ C \in Nat /\ C <= L
      /\ \A i \in 1 .. C : W[i] = log[L - C + i]
      /\ C = IF L > N THEN N ELSE L
  <2>1. /\ W \in Seq(Published) /\ Len(W) = C /\ C \in Nat
        /\ \A i \in 1 .. C : W[i] = log[L - C + i]
    BY NewestIs
  <2>2. C = (IF L > N THEN N ELSE L) /\ C <= L
    BY <1>1 DEF Count, CountOf
  <2>. QED
    BY <2>1, <2>2
<1>. HIDE DEF C, W
<1>3. /\ g \in 1 .. C + 1 /\ g \in Int /\ C \in Int /\ first \in Int
      /\ L - first + 1 = C - g + 1 /\ (first <= L <=> g <= C) /\ first <= L + 1
  <2>1. /\ L \in Nat /\ C \in Nat /\ C <= L /\ (L > N => C = N) /\ (~(L > N) => C = L)
        /\ first \in Int /\ first >= 1 /\ first <= L + 1 /\ first > L - N
    BY <1>1, <1>2
  <2>. HIDE DEF L
  <2>2. g \in Int /\ g >= 1 /\ g <= C + 1
    BY <2>1
  <2>. QED
    BY <2>1, <2>2
<1>. HIDE DEF L, g
<1>4. \A k \in first .. L : log[k] \in Published
  BY <1>1, ElementOfSeq DEF L
<1>5. /\ s \in Seq(Published) /\ Len(s) = (IF first <= L THEN L - first + 1 ELSE 0)
      /\ \A i \in 1 .. L - first + 1 : s[i] = log[first + i - 1]
  <2>1. first \in Int /\ L \in Int
    BY <1>1, <1>3
  <2>. QED
    BY ONLY <2>1, <1>4, SubSeqProperties
<1>6. \A k \in g .. C : W[k] \in Published
  <2>1. g \in Int /\ g >= 1 /\ W \in Seq(Published) /\ Len(W) = C
    BY <1>2, <1>3
  <2>2. ASSUME NEW k \in g .. C PROVE k \in 1 .. Len(W)
    BY ONLY <1>3, <2>1, <2>2
  <2>. QED
    BY ONLY <2>1, <2>2, ElementOfSeq
<1>7. /\ t \in Seq(Published) /\ Len(t) = (IF g <= C THEN C - g + 1 ELSE 0)
      /\ \A i \in 1 .. C - g + 1 : t[i] = W[g + i - 1]
  <2>1. g \in Int /\ C \in Int
    BY <1>3
  <2>. QED
    BY ONLY <2>1, <1>6, SubSeqProperties
<1>. HIDE DEF s, t
<1>8. Len(s) = C - g + 1 /\ Len(t) = C - g + 1 /\ L - first + 1 = C - g + 1
  <2>1. L \in Nat /\ C \in Nat
    BY <1>1, <1>2
  <2>. QED
    BY <1>3, <1>5, <1>7, <2>1
<1>9. ASSUME NEW i \in 1 .. Len(s) PROVE s[i] = t[i]
  <2>1. g + i - 1 \in 1 .. C /\ L - C + (g + i - 1) = first + i - 1
    <3>1. L \in Nat /\ C \in Nat
      BY <1>1, <1>2
    <3>. QED
      BY <1>3, <1>8, <3>1
  <2>2. i \in 1 .. L - first + 1 /\ i \in 1 .. C - g + 1
    BY ONLY <1>8, <1>9
  <2>3. s[i] = log[first + i - 1]
    BY ONLY <1>5, <2>2
  <2>4. t[i] = W[g + i - 1]
    BY ONLY <1>7, <2>2
  <2>5. W[g + i - 1] = log[L - C + (g + i - 1)]
    BY ONLY <1>2, <2>1
  <2>. QED
    BY ONLY <2>1, <2>3, <2>4, <2>5
<1>10. s = t
  BY <1>5, <1>7, <1>8, <1>9, SeqEqual
<1>. QED
  BY <1>10 DEF s, t, g, L, C, W

\* A snapshot does what EventWindow's does.
LEMMA SnapshotRefines ==
  ASSUME IInv, TakeSnapshot, ~Zero, ~LongAges
  PROVE  Window!Snapshot(snapshot'.since)
<1>1. PICK since \in Int, earliest \in Nat :
         /\ snapshot' = [since |-> since, events |-> EventsSince(earliest)]
         /\ since = earliest /\ earliest \in Nat \ {0}
  BY TakeSnapshotIs
<1>2. Unlocked /\ log' = log
  BY TakeSnapshotIs
<1>3. PICK first \in 1 .. Len(log) + 1 :
         /\ BeginsAt(first, earliest)
         /\ EventsSince(earliest) = SubSeq(log, first, Len(log))
  BY <1>1, <1>2, EventsSinceIs
<1>. DEFINE L == Len(log)
            C == Count(N)
            W == Newest(N)
            g == first - (L - C)
<1>4. L \in Nat /\ first > L - N
  BY <1>3, Types DEF BeginsAt, IInv
<1>5. /\ W \in Seq(Published) /\ Len(W) = C /\ C \in Nat /\ C <= L
      /\ \A i \in 1 .. C : W[i] = log[L - C + i]
      /\ C = IF L > N THEN N ELSE L
  <2>1. /\ W \in Seq(Published) /\ Len(W) = C /\ C \in Nat
        /\ \A i \in 1 .. C : W[i] = log[L - C + i]
    BY NewestIs DEF IInv
  <2>2. C = (IF L > N THEN N ELSE L) /\ C <= L
    BY <1>4 DEF Count, CountOf
  <2>. QED
    BY <2>1, <2>2
<1>6. snapshot'.events = SubSeq(W, g, Len(W))
  BY <1>1, <1>3, <1>4, <1>5, EndOfWindow DEF IInv
<1>. HIDE DEF C, W
<1>7. g \in 1 .. Len(W) + 1 /\ DOMAIN W = 1 .. C
  BY <1>4, <1>5
<1>8. ASSUME NEW i \in DOMAIN W PROVE i >= g <=> W[i].timestamp >= since
  <2>1. L - C + i \in 1 .. L /\ L - C + i > L - N /\ (i >= g <=> L - C + i >= first)
    BY <1>4, <1>5, <1>7
  <2>. QED
    BY <1>1, <1>3, <1>5, <1>7, <2>1 DEF BeginsAt
<1>9. snapshot' = [since |-> snapshot'.since, events |-> SubSeq(W, g, Len(W))]
      /\ snapshot'.since = since
  BY <1>1, <1>6
<1>10. Newest(N)' = Newest(N)
  BY <1>2 DEF Newest
<1>. HIDE DEF g
<1>. QED
  BY <1>7, <1>8, <1>9, <1>10 DEF Window!Snapshot, W
\* Adding to a sequence adds to its last n elements, and drops the first of
\* them when there are n already.
LEMMA LastOfAppend ==
  ASSUME NEW s \in Seq(Published), NEW e \in Published
  PROVE  LastOf(Append(s, e), N)
         = IF Len(LastOf(s, N)) = N THEN Append(Tail(LastOf(s, N)), e)
                                    ELSE Append(LastOf(s, N), e)
<1>. DEFINE s2 == Append(s, e)
            L == Len(s)
            C == CountOf(s, N)
            D == CountOf(s2, N)
            W == LastOf(s, N)
            V == LastOf(s2, N)
            A == IF Len(W) = N THEN Append(Tail(W), e) ELSE Append(W, e)
<1>1. /\ s2 \in Seq(Published) /\ Len(s2) = L + 1 /\ s2[L + 1] = e /\ L \in Nat
      /\ \A k \in 1 .. L : s2[k] = s[k]
  BY AppendProperties
<1>2. /\ W \in Seq(Published) /\ Len(W) = C /\ C \in Nat
      /\ \A i \in 1 .. C : W[i] = s[L - C + i]
  BY LastOfIs
<1>3. /\ V \in Seq(Published) /\ Len(V) = D /\ D \in Nat
      /\ \A i \in 1 .. D : V[i] = s2[L + 1 - D + i]
  <2>. HIDE DEF s2
  <2>1. /\ V \in Seq(Published) /\ Len(V) = D /\ D \in Nat
        /\ \A i \in 1 .. D : V[i] = s2[Len(s2) - D + i]
    BY <1>1, LastOfIs
  <2>. HIDE DEF V, D
  <2>. QED
    BY <1>1, <2>1
<1>4. /\ C = (IF L > N THEN N ELSE L) /\ D = (IF L + 1 > N THEN N ELSE L + 1)
      /\ N \in Nat /\ N >= 1
  BY <1>1 DEF CountOf
<1>. HIDE DEF s2, L, C, D, W, V
<1>5. CASE C = N
  <2>1. L >= N /\ D = N /\ W # <<>>
    BY <1>1, <1>2, <1>4, <1>5
  <2>2. /\ Tail(W) \in Seq(Published) /\ Len(Tail(W)) = C - 1
        /\ \A i \in 1 .. C - 1 : Tail(W)[i] = W[i + 1]
    BY <1>2, <2>1, HeadTailProperties
  <2>3. A = Append(Tail(W), e)
    BY <1>2, <1>5
  <2>. HIDE DEF A
  <2>4. /\ A \in Seq(Published) /\ Len(A) = C /\ A[C] = e
        /\ \A i \in 1 .. C - 1 : A[i] = W[i + 1]
    <3>1. /\ A \in Seq(Published) /\ Len(A) = (C - 1) + 1 /\ A[(C - 1) + 1] = e
          /\ \A i \in 1 .. C - 1 : A[i] = Tail(W)[i]
      BY <2>2, <2>3, AppendProperties
    <3>. QED
      BY <1>2, <2>2, <3>1
  <2>5. ASSUME NEW i \in 1 .. Len(V) PROVE V[i] = A[i]
    <3>1. i \in 1 .. N /\ V[i] = s2[L + 1 - N + i]
      BY <1>3, <2>1
    <3>2. CASE i = N
      BY <1>1, <1>4, <1>5, <2>4, <3>1, <3>2
    <3>3. CASE i # N
      <4>1. i \in 1 .. N - 1 /\ i + 1 \in 1 .. N /\ L + 1 - N + i \in 1 .. L
            /\ L - N + (i + 1) = L + 1 - N + i
        BY <1>1, <1>4, <2>1, <3>1, <3>3
      <4>2. s2[L + 1 - N + i] = s[L + 1 - N + i]
        BY <1>1, <4>1
      <4>3. A[i] = W[i + 1] /\ W[i + 1] = s[L - N + (i + 1)]
        BY <1>2, <1>5, <2>4, <4>1
      <4>. QED
        BY <3>1, <4>1, <4>2, <4>3
    <3>. QED
      BY <3>2, <3>3
  <2>6. V = A
    BY <1>3, <1>5, <2>1, <2>4, <2>5, SeqEqual
  <2>. QED
    BY <2>6 DEF A, V, W, s2
<1>6. CASE C # N
  <2>1. L < N /\ C = L /\ D = L + 1
    BY <1>1, <1>4, <1>6
  <2>3. A = Append(W, e)
    BY <1>2, <1>6
  <2>. HIDE DEF A
  <2>4. /\ A \in Seq(Published) /\ Len(A) = L + 1 /\ A[L + 1] = e
        /\ \A i \in 1 .. L : A[i] = W[i]
    BY <1>2, <2>1, <2>3, AppendProperties
  <2>5. ASSUME NEW i \in 1 .. Len(V) PROVE V[i] = A[i]
    <3>1. i \in 1 .. L + 1 /\ L + 1 - D + i = i /\ V[i] = s2[i]
      BY <1>1, <1>3, <2>1
    <3>2. CASE i = L + 1
      BY <1>1, <2>4, <3>1, <3>2
    <3>3. CASE i # L + 1
      <4>1. i \in 1 .. L /\ L - C + i = i
        BY <1>1, <2>1, <3>1, <3>3
      <4>. QED
        BY <1>1, <1>2, <2>1, <2>4, <3>1, <4>1
    <3>. QED
      BY <3>2, <3>3
  <2>6. V = A
    BY <1>3, <2>1, <2>4, <2>5, SeqEqual
  <2>. QED
    BY <2>6 DEF A, V, W, s2
<1>. QED
  BY <1>5, <1>6

\* Publishing an event does what EventWindow's Add does.
LEMMA StorePosRefines ==
  ASSUME IInv, StorePos
  PROVE  /\ Window!Add(current)
         /\ current \in ToSet(Newest(N)')
         /\ current.timestamp > 0
         /\ \A i \in DOMAIN Newest(N) : Newest(N)[i].timestamp <= current.timestamp
<1>1. /\ log \in Seq(Published) /\ current \in Published /\ log' = Append(log, current)
      /\ current.timestamp > 0 /\ Len(log) \in Nat
      /\ \A k \in 1 .. Len(log) : log[k].timestamp <= current.timestamp
      /\ snapshot' = snapshot
  BY Types, EntryFields DEF Published, StorePos, IInv, CurrentNext, IsEvent, Unlocked
<1>2. Newest(N) = LastOf(log, N) /\ Newest(N)' = LastOf(Append(log, current), N)
  BY <1>1 DEF Newest, LastOf
<1>3. Newest(N)' = IF Len(Newest(N)) = N THEN Append(Tail(Newest(N)), current)
                                         ELSE Append(Newest(N), current)
  BY <1>1, <1>2, LastOfAppend
<1>4. Window!Add(current)
  BY <1>1, <1>3 DEF Window!Add
<1>5. /\ Newest(N) \in Seq(Published) /\ Len(Newest(N)) = Count(N) /\ Count(N) \in Nat
      /\ \A i \in 1 .. Count(N) : Newest(N)[i] = log[Len(log) - Count(N) + i]
  BY NewestIs DEF IInv
<1>6. \A i \in DOMAIN Newest(N) : Newest(N)[i].timestamp <= current.timestamp
  <2>1. Count(N) <= Len(log)
    BY <1>1 DEF Count, CountOf
  <2>2. ASSUME NEW i \in 1 .. Count(N) PROVE Newest(N)[i].timestamp <= current.timestamp
    <3>1. Len(log) - Count(N) + i \in 1 .. Len(log)
      BY <1>1, <1>5, <2>1
    <3>. QED
      BY <1>1, <1>5, <3>1
  <2>3. DOMAIN Newest(N) = 1 .. Count(N)
    BY <1>5
  <2>. QED
    BY <2>2, <2>3
<1>7. current \in ToSet(Newest(N)')
  <2>. DEFINE s == Append(log, current)
  <2>1. s \in Seq(Published) /\ Len(s) = Len(log) + 1 /\ s[Len(log) + 1] = current
    BY <1>1, AppendProperties
  <2>. HIDE DEF s
  <2>2. /\ LastOf(s, N) \in Seq(Published) /\ Len(LastOf(s, N)) = CountOf(s, N)
        /\ \A i \in 1 .. CountOf(s, N) : LastOf(s, N)[i] = s[Len(s) - CountOf(s, N) + i]
    BY <2>1, LastOfIs
  <2>3. CountOf(s, N) \in Nat /\ CountOf(s, N) >= 1
    BY <1>1, <2>1 DEF CountOf
  <2>4. /\ CountOf(s, N) \in DOMAIN LastOf(s, N)
        /\ LastOf(s, N)[CountOf(s, N)] = current
    BY <1>1, <2>1, <2>2, <2>3
  <2>5. current \in ToSet(LastOf(s, N))
    BY <2>4 DEF ToSet
  <2>. QED
    BY <1>2, <2>5 DEF s
<1>. QED
  BY <1>1, <1>4, <1>6, <1>7

\* The buffer, its binary searches and their copies keep the last N events and
\* answer every snapshot with those of them that are recent enough, for every
\* size of the buffer, where callers ask for a time, and an age, that exist:
\* with a time of 0 the empty slots are found too, and an age greater than the
\* time since the processor started wraps around.
THEOREM BufferKeepsWindow == ASSUME ~Zero, ~LongAges PROVE Spec => KeepsWindow
<1>1. Init => Window!Init
  <2>. SUFFICES ASSUME Init PROVE Window!Init
    OBVIOUS
  <2>1. Newest(N) = SubSeq(<<>>, 1, 0)
    BY DEF Init, Newest
  <2>2. Newest(N) = <<>>
    BY <2>1, SubSeqEmpty
  <2>. QED
    BY <2>2 DEF Init, Window!Init
<1>2. IInv /\ [Next]_vars => [Window!Next]_(Window!vars)
  <2>. SUFFICES ASSUME IInv, [Next]_vars PROVE [Window!Next]_(Window!vars)
    OBVIOUS
  <2>1. ASSUME UNCHANGED <<log, snapshot>> PROVE UNCHANGED Window!vars
    BY <2>1 DEF Window!vars, Newest
  <2>2. CASE Tick
    BY <2>1, <2>2 DEF Tick
  <2>3. CASE GetLine \/ SkipLine \/ StoreLine \/ StoreTimestamp
    BY <2>1, <2>3 DEF GetLine, SkipLine, StoreLine, StoreTimestamp
  <2>4. CASE StorePos
    BY <2>4, StorePosRefines DEF Window!Next, Window!ToSet, ToSet
  <2>5. CASE TakeSnapshot
    BY <2>5, SnapshotRefines DEF Window!Next
  <2>6. CASE UNCHANGED vars
    BY <2>1, <2>6 DEF vars
  <2>. QED
    BY <2>2, <2>3, <2>4, <2>5, <2>6 DEF Next, Read
<1>. QED
  BY <1>1, <1>2, Invariance, PTL DEF Spec, KeepsWindow, Window!Spec
\* No snapshot holds an empty slot: what it holds is the end of the log.
THEOREM ReceivesOnly == ASSUME ~Zero, ~LongAges PROVE Spec => []OnlyReceived
<1>1. Init => OnlyReceived
  BY DEF Init, OnlyReceived
<1>2. IInv /\ OnlyReceived /\ [Next]_vars => OnlyReceived'
  <2>. SUFFICES ASSUME IInv, OnlyReceived, [Next]_vars PROVE OnlyReceived'
    OBVIOUS
  <2>1. CASE TakeSnapshot
    <3>1. PICK since \in Int, earliest \in Nat :
             /\ snapshot' = [since |-> since, events |-> EventsSince(earliest)]
             /\ earliest \in Nat \ {0}
      BY <2>1, TakeSnapshotIs
    <3>2. PICK first \in 1 .. Len(log) + 1 : EventsSince(earliest) = SubSeq(log, first, Len(log))
      BY <2>1, <3>1, TakeSnapshotIs, EventsSinceIs
    <3>3. log \in Seq(Published) /\ Len(log) \in Nat
      BY Types DEF Published, IInv
    <3>4. \A k \in first .. Len(log) : log[k] \in Published
      BY <3>3, ElementOfSeq
    <3>5. first \in Int
      BY <3>3
    <3>6. SubSeq(log, first, Len(log)) \in Seq(Published)
      BY <3>3, <3>4, <3>5, SubSeqProperties
    <3>7. snapshot'.events \in Seq(Published)
      BY <3>1, <3>2, <3>6
    <3>8. \A i \in DOMAIN snapshot'.events : snapshot'.events[i] \in Published
      BY <3>7
    <3>. QED
      BY <3>8 DEF OnlyReceived, Published
  <2>2. CASE Tick \/ Read \/ UNCHANGED vars
    <3>1. snapshot' = snapshot
      BY <2>2 DEF Tick, Read, GetLine, SkipLine, StoreLine, StoreTimestamp, StorePos, vars
    <3>. QED
      BY <3>1 DEF OnlyReceived
  <2>. QED
    BY <2>1, <2>2 DEF Next
<1>. QED
  BY <1>1, <1>2, Invariance, PTL DEF Spec

\* Wherever pos stands, the slots between it and the end of the buffer hold
\* events once there have been enough of them, the one being overwritten too.
LEMMA SlotsStored ==
  ASSUME IInv, NEW i \in Slots, i < pos \/ Len(log) >= N
  PROVE  IsEvent(events[i]) /\ (i # pos => events[i] = log[NumberAt(i)])
         /\ NumberAt(i) \in 1 .. Len(log)
<1>1. pos \in 0 .. N - 1 /\ Len(log) \in Nat /\ i \in 0 .. N - 1 /\ pos <= Len(log)
  BY Types DEF IInv, Position, Slots
<1>2. NumberAt(i) \in 1 .. Len(log)
  BY <1>1 DEF NumberAt
<1>3. Held(i) = log[NumberAt(i)] /\ IsEvent(Held(i))
  BY <1>2 DEF Held, IInv, LogInOrder
<1>4. CASE i = pos => Unlocked
  BY <1>2, <1>3, <1>4 DEF IInv, SlotsHold
<1>5. CASE i = pos /\ reader = "line_stored"
  <2>1. events[pos] = Event(current.line, Held(pos).timestamp)
    BY <1>5 DEF IInv, InStore
  <2>2. events[pos].timestamp = Held(pos).timestamp
    BY <2>1, EntryFields
  <2>. QED
    BY <1>2, <1>3, <1>5, <2>2 DEF IsEvent
<1>6. CASE i = pos /\ reader = "event_stored"
  BY <1>2, <1>6 DEF IInv, InStore, CurrentNext, Unlocked
<1>. QED
  BY <1>4, <1>5, <1>6 DEF Unlocked, IInv, TypeOK

\* What a debugger finds in the slots left of pos is the end of the log.
LEMMA DumpedLeft ==
  ASSUME IInv
  PROVE  /\ Stored(Copied(0, pos)) = Copied(0, pos)
         /\ Copied(0, pos) \in Seq(Entries) /\ Len(Copied(0, pos)) = pos
         /\ \A i \in 1 .. pos : Copied(0, pos)[i] = log[Len(log) - pos + i]
<1>1. events \in [Slots -> Entries] /\ pos \in 0 .. N - 1 /\ Len(log) \in Nat
  BY Types DEF IInv
<1>2. /\ Copied(0, pos) \in Seq(Entries) /\ Len(Copied(0, pos)) = pos
      /\ \A i \in 1 .. pos : Copied(0, pos)[i] = events[0 + i - 1]
  <2>1. pos - 0 = pos /\ pos \in 0 .. N /\ 0 \in 0 .. N /\ 0 <= pos
    BY <1>1
  <2>. QED
    BY <1>1, <2>1, CopiedIs
<1>3. ASSUME NEW i \in 1 .. pos
      PROVE  IsEvent(Copied(0, pos)[i]) /\ Copied(0, pos)[i] = log[Len(log) - pos + i]
  <2>1. i - 1 \in Slots /\ i - 1 < pos /\ 0 + i - 1 = i - 1
    BY <1>1 DEF Slots
  <2>2. NumberAt(i - 1) = Len(log) - pos + i
    BY <1>1, <2>1 DEF NumberAt
  <2>3. i - 1 # pos
    BY <1>1
  <2>. QED
    BY <1>2, <2>1, <2>2, <2>3, SlotsStored
<1>4. Stored(Copied(0, pos)) = Copied(0, pos)
  BY <1>2, <1>3, StoredAll
<1>. QED
  BY <1>2, <1>3, <1>4

\* What it finds in the other slots is, once there are N events, the events
\* before those, but for the oldest, which may be half overwritten.
LEMMA DumpedRight ==
  ASSUME IInv, Len(log) >= N
  PROVE  /\ Stored(Copied(pos, N)) = Copied(pos, N)
         /\ Copied(pos, N) \in Seq(Entries) /\ Len(Copied(pos, N)) = N - pos
         /\ \A i \in 2 .. N - pos : Copied(pos, N)[i] = log[Len(log) - N + i]
<1>1. events \in [Slots -> Entries] /\ pos \in 0 .. N - 1 /\ Len(log) \in Nat
  BY Types DEF IInv
<1>2. /\ Copied(pos, N) \in Seq(Entries) /\ Len(Copied(pos, N)) = N - pos
      /\ \A i \in 1 .. N - pos : Copied(pos, N)[i] = events[pos + i - 1]
  <2>1. pos \in 0 .. N /\ N \in 0 .. N /\ pos <= N
    BY <1>1
  <2>. QED
    BY <1>1, <2>1, CopiedIs
<1>3. ASSUME NEW i \in 1 .. N - pos
      PROVE  IsEvent(Copied(pos, N)[i]) /\ (i # 1 => Copied(pos, N)[i] = log[Len(log) - N + i])
  <2>1. pos + i - 1 \in Slots /\ ~(pos + i - 1 < pos) /\ (i # 1 => pos + i - 1 # pos)
    BY <1>1 DEF Slots
  <2>2. NumberAt(pos + i - 1) = Len(log) - N + i
    BY <1>1, <2>1 DEF NumberAt
  <2>. QED
    BY <1>2, <2>1, <2>2, SlotsStored
<1>4. Stored(Copied(pos, N)) = Copied(pos, N)
  BY <1>1, <1>2, <1>3, StoredAll
<1>. QED
  BY <1>1, <1>2, <1>3, <1>4

\* The last elements of a sequence are a suffix of it.
LEMMA SuffixIs ==
  ASSUME NEW S, NEW s \in Seq(S), NEW t \in Seq(S), Len(s) <= Len(t),
         \A i \in 1 .. Len(s) : s[i] = t[Len(t) - Len(s) + i]
  PROVE  IsSuffix(s, t)
<1>. DEFINE r == Reverse(s)
            u == Reverse(t)
            m == Len(s)
<1>1. m \in Nat /\ Len(t) \in Nat
  OBVIOUS
<1>2. /\ r \in Seq(S) /\ Len(r) = m
      /\ \A i \in 1 .. m : r[i] = s[m - i + 1]
  BY <1>1 DEF Reverse
<1>3. /\ u \in Seq(S) /\ Len(u) = Len(t)
      /\ \A i \in 1 .. Len(t) : u[i] = t[Len(t) - i + 1]
  BY <1>1 DEF Reverse
<1>. HIDE DEF r, u
<1>4. \A i \in 1 .. m : r[i] = u[i]
  <2>. SUFFICES ASSUME NEW i \in 1 .. m PROVE r[i] = u[i]
    OBVIOUS
  <2>1. m - i + 1 \in 1 .. m /\ i \in 1 .. Len(t)
        /\ Len(t) - m + (m - i + 1) = Len(t) - i + 1
    BY <1>1
  <2>. QED
    BY <1>2, <1>3, <2>1
<1>5. SubSeq(r, 1, m) = SubSeq(u, 1, m)
  <2>1. /\ SubSeq(r, 1, m) \in Seq(S) /\ Len(SubSeq(r, 1, m)) = m
        /\ \A i \in 1 .. m : SubSeq(r, 1, m)[i] = r[i]
    BY <1>1, <1>2
  <2>2. /\ SubSeq(u, 1, m) \in Seq(S) /\ Len(SubSeq(u, 1, m)) = m
        /\ \A i \in 1 .. m : SubSeq(u, 1, m)[i] = u[i]
    BY <1>1, <1>3
  <2>. QED
    BY <1>4, <2>1, <2>2, SeqEqual
<1>. QED
  BY <1>1, <1>2, <1>3, <1>5 DEF IsSuffix, IsPrefix, r, u

\* Whatever store the program dies in, and whoever else was at work, a core
\* dump ends with the newest N - 1 events.
THEOREM CoreDumpKeeps == Spec => []CoreDumpKeepsNewest
<1>1. IInv => CoreDumpKeepsNewest
  <2>. SUFFICES ASSUME IInv PROVE CoreDumpKeepsNewest
    OBVIOUS
  <2>. DEFINE A == Stored(Copied(pos, N))
              B == Copied(0, pos)
              L == Len(log)
              W == Newest(N - 1)
              C == Count(N - 1)
  <2>1. /\ events \in [Slots -> Entries] /\ pos \in 0 .. N - 1 /\ L \in Nat
        /\ pos <= L /\ (L < N => pos = L)
    BY Types DEF IInv, Position
  <2>2. /\ Stored(B) = B /\ B \in Seq(Entries) /\ Len(B) = pos
        /\ \A i \in 1 .. pos : B[i] = log[L - pos + i]
    BY DumpedLeft
  <2>3. /\ W \in Seq(Published) /\ Len(W) = C /\ C \in Nat
        /\ \A i \in 1 .. C : W[i] = log[L - C + i]
    BY NewestIs DEF IInv
  <2>4. W \in Seq(Entries)
    <3>1. Published \subseteq Entries
      BY DEF Published, Entries
    <3>. QED
      BY <2>3, <3>1, SeqMonotonic
  <2>5. C = IF L > N - 1 THEN N - 1 ELSE L
    BY DEF Count, CountOf
  <2>6. A \in Seq(Entries)
    <3>1. pos \in 0 .. N /\ N \in 0 .. N /\ pos <= N
      BY <2>1
    <3>2. Copied(pos, N) \in Seq(Entries)
      BY <2>1, <3>1, CopiedIs
    <3>. QED
      BY <3>2, StoredType
  <2>. DEFINE D == A \o B
  <2>7. /\ D \in Seq(Entries) /\ Len(A) \in Nat /\ Len(D) = Len(A) + pos
        /\ \A i \in 1 .. Len(A) : D[i] = A[i]
        /\ \A i \in 1 .. pos : D[Len(A) + i] = B[i]
    <3>1. B \in Seq(Entries) /\ Len(B) = pos
      BY <2>2
    <3>. HIDE DEF A, B
    <3>2. A \in Seq(Entries) /\ D = A \o B
      BY <2>6
    <3>. HIDE DEF D
    <3>3. /\ A \o B \in Seq(Entries)
          /\ Len(A) \in Nat /\ Len(B) \in Nat
          /\ Len(A \o B) = Len(A) + Len(B)
          /\ \A i \in 1 .. Len(A) : (A \o B)[i] = A[i]
          /\ \A i \in 1 .. Len(B) : (A \o B)[Len(A) + i] = B[i]
      BY <3>1, <3>2
    <3>. QED
      BY <3>1, <3>2, <3>3
  <2>8. CoreDump = D
    BY <2>2 DEF CoreDump
  <2>9. Len(W) <= Len(D) /\ \A i \in 1 .. Len(W) : W[i] = D[Len(D) - Len(W) + i]
    <3>1. CASE L < N
      <4>1. C = L /\ pos = L
        BY <2>1, <2>5, <3>1
      <4>. HIDE DEF A, B, C, D, L, W
      <4>2. ASSUME NEW i \in 1 .. C PROVE W[i] = D[Len(D) - C + i]
        <5>1. /\ Len(D) - C + i = Len(A) + i
              /\ i \in 1 .. pos /\ L - pos + i = L - C + i
          BY <2>1, <2>7, <4>1
        <5>2. W[i] = log[L - C + i]
          BY <2>3
        <5>3. B[i] = log[L - pos + i]
          BY <2>2, <5>1
        <5>4. D[Len(A) + i] = B[i]
          BY <2>7, <5>1
        <5>. QED
          BY <5>1, <5>2, <5>3, <5>4
      <4>3. C <= Len(D)
        BY <2>1, <2>7, <4>1
      <4>. QED
        BY <2>3, <4>2, <4>3
    <3>2. CASE L >= N
      <4>1. C = N - 1
        BY <2>1, <2>5, <3>2
      <4>2. /\ A = Copied(pos, N) /\ Len(A) = N - pos
            /\ \A i \in 2 .. N - pos : A[i] = log[L - N + i]
        BY <3>2, DumpedRight
      <4>. HIDE DEF A, B, D
      <4>3. Len(D) = N
        BY <2>1, <2>7, <4>2
      <4>4. ASSUME NEW i \in 1 .. C PROVE W[i] = D[Len(D) - C + i]
        <5>1. /\ Len(D) - C + i = i + 1 /\ i + 1 \in 2 .. N /\ i + 1 \in 1 .. Len(A) + pos
              /\ L - C + i = L - N + (i + 1)
          BY <2>1, <4>1, <4>2, <4>3
        <5>2. W[i] = log[L - N + (i + 1)]
          BY <2>3, <5>1
        <5>4. CASE i + 1 <= N - pos
          <6>1. i + 1 \in 1 .. Len(A) /\ i + 1 \in 2 .. N - pos
            BY <2>1, <4>2, <5>1, <5>4
          <6>. QED
            BY <2>7, <4>2, <5>1, <5>2, <6>1
        <5>5. CASE ~(i + 1 <= N - pos)
          <6>1. (i + 1) - (N - pos) \in 1 .. pos
                /\ L - pos + ((i + 1) - (N - pos)) = L - N + (i + 1)
                /\ Len(A) + ((i + 1) - (N - pos)) = i + 1
            BY <2>1, <4>2, <5>1, <5>5
          <6>. DEFINE j == (i + 1) - (N - pos)
          <6>2. B[j] = log[L - pos + j]
            BY <2>2, <6>1
          <6>3. D[Len(A) + j] = B[j]
            BY <2>7, <6>1
          <6>. QED
            BY <5>1, <5>2, <6>1, <6>2, <6>3
        <5>. QED
          BY <5>4, <5>5
      <4>5. Len(W) = C
        BY <2>3
      <4>. HIDE DEF W, C, L
      <4>6. Len(D) >= C
        BY <2>1, <4>1, <4>3
      <4>. QED
        BY <4>4, <4>5, <4>6
    <3>. QED
      BY <2>1, <3>1, <3>2
  <2>. HIDE DEF A, B, W, C, L
  <2>. QED
    BY <2>4, <2>7, <2>8, <2>9, SuffixIs DEF CoreDumpKeepsNewest, W
<1>. QED
  BY <1>1, Invariance, PTL
===============================================================================
