-------------------------- MODULE SnapshotsProofs --------------------------
(***************************************************************************)
(* For any threads, objects, addresses and sizes, both ways of writing a    *)
(* sample and core dumps, and a file cut off anywhere: that the memory map  *)
(* of each sample is the right one for its events; that the decoder's       *)
(* caches never say what its current memory map does not; and that what the *)
(* decoder writes are the samples that were taken, each as if it were alone *)
(* in the file.                                                            *)
(***************************************************************************)
EXTENDS Snapshots, InductionLemmas, TLAPS, SequenceTheorems

------------------------------------------------------------------------------
(* The decoder's caches *)

LEMMA EmptyDomain == DOMAIN <<>> = {}
OBVIOUS

LEMMA LookupIsAlone ==
  ASSUME CachesSound, NEW a
  PROVE  Lookup(a) = Alone(maps, a)
BY DEF Lookup, Alone, Offset, CachesSound

LEMMA WriteJsonSound ==
  ASSUME CachesSound, NEW closing \in BOOLEAN, WriteJson(closing), maps' = maps
  PROVE  CachesSound'
<1> DEFINE new == Seen \ DOMAIN syms
           slots == {a[1] : a \in {b \in new : maps[b[1]] # Nothing}}
<1>1. syms' = [a \in DOMAIN syms \cup new |-> IF a \in new THEN Lookup(a) ELSE syms[a]]
  BY DEF WriteJson
<1>2. offsets' = [s \in DOMAIN offsets \cup slots |-> Offset(s)]
  BY DEF WriteJson
<1>3. ASSUME NEW a \in DOMAIN syms' PROVE syms'[a] = Alone(maps', a)
  <2>1. CASE a \in new
    BY <1>1, <2>1, LookupIsAlone
  <2>2. CASE a \notin new
    BY <1>1, <2>2 DEF CachesSound
  <2> QED BY <2>1, <2>2
<1>4. ASSUME NEW s \in DOMAIN offsets' PROVE offsets'[s] = maps'[s]
  BY <1>2 DEF Offset, CachesSound
<1> QED BY <1>3, <1>4 DEF CachesSound

\* The decoder's symbol and offset caches, whatever samples it has read before,
\* agree with the memory map it has: PROCMAPS empties both, and a miss is
\* answered from that map.
THEOREM CachesAgree == Spec => []CachesSound
<1>1. Init => CachesSound
  BY EmptyDomain DEF Init, CachesSound
<1>2. CachesSound /\ [Next]_vars => CachesSound'
  <2> SUFFICES ASSUME CachesSound, [Next]_vars PROVE CachesSound'
    OBVIOUS
  <2>1. CASE UNCHANGED <<maps, syms, offsets>>
    BY <2>1 DEF CachesSound, Alone
  <2>2. CASE SetMaps
    BY <2>2, EmptyDomain DEF SetMaps, CachesSound
  <2>3. CASE EndSample
    <3>1. CASE WriteJson(TRUE)
      BY <2>3, <3>1, WriteJsonSound DEF EndSample
    <3>2. CASE UNCHANGED <<syms, offsets>>
      BY <2>1, <2>3, <3>2 DEF EndSample
    <3> QED BY <2>3, <3>1, <3>2 DEF EndSample
  <2>4. CASE EndOfFile
    <3>1. CASE WriteJson(FALSE)
      BY <2>4, <3>1, WriteJsonSound DEF EndOfFile
    <3>2. CASE UNCHANGED <<syms, offsets>>
      BY <2>1, <2>4, <3>2 DEF EndOfFile
    <3> QED BY <2>4, <3>1, <3>2 DEF EndOfFile
  <2>5. CASE SetThread \/ AddTrace \/ SetText \/ Fail \/ StartDecoder
    BY <2>1, <2>5 DEF SetThread, AddTrace, SetText, Fail, StartDecoder, decoderVars
  <2>6. CASE Program
    BY <2>1, <2>6 DEF Program, Open, Close, Record, WritePause, WriteMaps, WriteTraces, WriteEnd,
       GetPause, GetTraces, GetMaps, WriteSnapshot, FlushSnapshot, FreeSnapshot, Exit, Crash,
       CoreDump, decoderVars
  <2>7. CASE UNCHANGED vars
    BY <2>1, <2>7 DEF vars, decoderVars
  <2> QED BY <2>2, <2>3, <2>4, <2>5, <2>6, <2>7 DEF Next, Decoder
<1> QED BY <1>1, <1>2, PTL DEF Spec

------------------------------------------------------------------------------
(* The program's side: what the samples are made of *)

Event == [at : Addresses, by : Loads]
Trace == [id : Range(Threads), events : Seq(Event)]
Sample == [traces : Seq(Trace), text : Texts,
           maps : [Slots -> Objects \cup {Nothing}] \cup {Nothing},
           gone : SUBSET Loads, safe : BOOLEAN]

Typed ==
  /\ object \in Seq(Objects) /\ DOMAIN object \subseteq Loads
  /\ loaded \in [Slots -> DOMAIN object \cup {Nothing}]
  /\ closed \subseteq Loads
  /\ bufs \in [DOMAIN Threads -> Seq(Event)]
  /\ taking \in Sample
  /\ snapshot \in Sample \cup {Nothing}
  /\ samples \in Seq(Sample)

Held == UNION {Range(bufs[i]) : i \in DOMAIN Threads}

\* An object that was not closed is where its events say, on a set of events.
InPlace(events) ==
  \A e \in events : e.by \in DOMAIN object /\ (e.by \notin closed => loaded[e.at[1]] = e.by)

\* Maps that were taken tell its file.
InMaps(events, m, gone) ==
  \A e \in events : e.by \in DOMAIN object /\ (e.by \notin gone => m[e.at[1]] = object[e.by])

Pausing == paused <=> job \in {"write", "mapped", "get"}

\* Paused, so that the maps go on being right for the events there are.
WriteSound ==
  /\ job \in {"write", "mapped"} => taking.traces = <<>>
  /\ job = "mapped" => InMaps(Held, taking.maps, closed)
  /\ job = "traced" => InMaps(EventsIn(taking.traces), taking.maps, closed)

\* The events that were copied go on being right for the maps there will be.
GetSound == job = "copied" => InPlace(EventsIn(taking.traces))

SamplesSound ==
  /\ \A n \in DOMAIN samples : InMaps(EventsIn(samples[n].traces), samples[n].maps, samples[n].gone)
  /\ snapshot # Nothing => InMaps(EventsIn(snapshot.traces), snapshot.maps, snapshot.gone)

IInv ==
  /\ Typed
  /\ InPlace(Held)
  /\ Pausing
  /\ WriteSound
  /\ GetSound
  /\ SamplesSound

------------------------------------------------------------------------------
LEMMA NothingIn == EventsIn(<<>>) = {} /\ Range(<<>>) = {}
BY DEF EventsIn, Range

LEMMA BlankTyped == Blank \in Sample /\ Blank.traces = <<>>
BY DEF Blank, Sample, Texts

LEMMA TracesAre ==
  ASSUME Typed
  PROVE  Traces \in Seq(Trace) /\ EventsIn(Traces) = Held
<1>1. Threads \in Seq(Range(Threads))
  BY ThreadsAssumption DEF ThreadsAssumption
<1>2. DOMAIN Threads = 1 .. Len(Threads) /\ Len(Threads) \in Nat
  BY <1>1
<1>3. ASSUME NEW i \in DOMAIN Threads
      PROVE  [id |-> Threads[i], events |-> bufs[i]] \in Trace
  BY <1>3 DEF Typed, Trace, Range
<1>4. Traces \in Seq(Trace)
  BY <1>2, <1>3 DEF Traces
<1>5. DOMAIN Traces = DOMAIN Threads /\ \A i \in DOMAIN Threads : Traces[i].events = bufs[i]
  BY DEF Traces
<1> QED BY <1>4, <1>5 DEF EventsIn, Held

LEMMA ProcMapsAre ==
  ASSUME Typed
  PROVE  /\ ProcMaps \in [Slots -> Objects \cup {Nothing}]
         /\ \A events : (\A e \in events : e.at \in Addresses) /\ InPlace(events) =>
                          InMaps(events, ProcMaps, closed)
<1>1. \A s \in Slots : loaded[s] # Nothing => object[loaded[s]] \in Objects
  BY DEF Typed
<1>2. ProcMaps \in [Slots -> Objects \cup {Nothing}]
  BY <1>1 DEF ProcMaps
<1>3. Nothing \notin DOMAIN object
  BY NothingAssumption DEF NothingAssumption, Typed
<1>4. ASSUME NEW events, \A e \in events : e.at \in Addresses, InPlace(events), NEW e \in events
      PROVE  e.by \in DOMAIN object /\ (e.by \notin closed => ProcMaps[e.at[1]] = object[e.by])
  <2>1. e.at[1] \in Slots
    BY <1>4 DEF Addresses
  <2> QED BY <1>3, <1>4, <2>1 DEF InPlace, ProcMaps
<1> QED BY <1>2, <1>4 DEF InMaps

LEMMA HeldTyped ==
  ASSUME Typed
  PROVE  \A e \in Held : e \in Event /\ e.at \in Addresses
<1> SUFFICES ASSUME NEW e \in Held PROVE e \in Event
  BY DEF Event
<1>1. PICK i \in DOMAIN Threads : e \in Range(bufs[i])
  BY DEF Held
<1>2. bufs[i] \in Seq(Event)
  BY DEF Typed
<1>3. PICK j \in DOMAIN bufs[i] : e = bufs[i][j]
  BY <1>1 DEF Range
<1> QED BY <1>2, <1>3

LEMMA EventsTyped ==
  ASSUME NEW traces \in Seq(Trace)
  PROVE  \A e \in EventsIn(traces) : e.at \in Addresses
<1> SUFFICES ASSUME NEW e \in EventsIn(traces) PROVE e \in Event
  BY DEF Event
<1>1. PICK i \in DOMAIN traces : e \in Range(traces[i].events)
  BY DEF EventsIn
<1>2. traces[i] \in Trace /\ traces[i].events \in Seq(Event)
  <2>1. traces[i] \in Trace
    OBVIOUS
  <2> QED BY <2>1 DEF Trace
<1> DEFINE q == traces[i].events
<1>3. PICK j \in DOMAIN q : e = q[j]
  BY <1>1 DEF Range
<1> QED BY <1>2, <1>3

\* trace() stores the event over the oldest one when the buffer is full.
LEMMA Recorded ==
  ASSUME NEW q \in Seq(Event), NEW e \in Event,
         NEW new, new = IF Len(Append(q, e)) > Capacity THEN Newest(Append(q, e)) ELSE Append(q, e)
  PROVE  new \in Seq(Event) /\ Range(new) \subseteq Range(q) \cup {e}
<1> DEFINE grown == Append(q, e)
<1>1. grown \in Seq(Event) /\ Len(grown) = Len(q) + 1
  OBVIOUS
<1>2. \A k \in 1 .. Len(grown) : grown[k] \in Range(q) \cup {e}
  BY DEF Range
<1>3. Capacity \in Nat \ {0}
  BY CapacityAssumption DEF CapacityAssumption
<1>4. CASE Len(grown) > Capacity
  <2>1. new = SubSeq(grown, Len(grown) - Capacity + 1, Len(grown))
    BY <1>4 DEF Newest
  <2> HIDE DEF grown
  <2> DEFINE m == Len(grown) - Capacity + 1
  <2>2. m \in 1 .. Len(grown) /\ Len(grown) \in Nat /\ Len(grown) - m + 1 = Capacity
    BY <1>1, <1>3, <1>4
  <2>3. \A k \in m .. Len(grown) : grown[k] \in Event
    BY <1>1, <2>2
  <2>4. new = SubSeq(grown, m, Len(grown))
    BY <2>1
  <2> HIDE DEF m
  <2>5. /\ new \in Seq(Event) /\ Len(new) = Capacity
        /\ \A k \in 1 .. Capacity : new[k] = grown[m + k - 1]
    <3>1. m \in Int /\ Len(grown) \in Int /\ m <= Len(grown)
      BY <2>2
    <3> HIDE DEF grown
    <3>2. /\ SubSeq(grown, m, Len(grown)) \in Seq(Event)
          /\ Len(SubSeq(grown, m, Len(grown))) = Len(grown) - m + 1
          /\ \A k \in 1 .. Len(grown) - m + 1 : SubSeq(grown, m, Len(grown))[k] = grown[m + k - 1]
      BY <2>3, <3>1, SubSeqProperties
    <3> QED BY <2>2, <2>4, <3>2
  <2>6. ASSUME NEW x \in Range(new) PROVE x \in Range(q) \cup {e}
    <3>1. PICK k \in 1 .. Capacity : x = new[k]
      BY <1>3, <2>5 DEF Range
    <3>2. m + k - 1 \in 1 .. Len(grown)
      BY <1>3, <2>2
    <3> QED BY <1>2, <2>5, <3>1, <3>2
  <2> QED BY <2>5, <2>6
<1>5. CASE ~(Len(grown) > Capacity)
  BY <1>1, <1>2, <1>5 DEF Range
<1> QED BY <1>4, <1>5

------------------------------------------------------------------------------
(* What the steps do to the events there are. *)

LEMMA OpenKeeps ==
  ASSUME Typed, NEW s \in Slots, NEW o \in Objects, Open(s, o)
  PROVE  /\ object' \in Seq(Objects) /\ DOMAIN object' \subseteq Loads
         /\ loaded' \in [Slots -> DOMAIN object' \cup {Nothing}]
         /\ DOMAIN object \subseteq DOMAIN object'
         /\ \A k \in DOMAIN object : object'[k] = object[k]
         /\ \A events : (\A e \in events : e.at \in Addresses) /\ InPlace(events) =>
              \A e \in events :
                e.by \in DOMAIN object' /\ (e.by \notin closed' => loaded'[e.at[1]] = e.by)
<1>1. /\ object' = Append(object, o) /\ loaded' = [loaded EXCEPT ![s] = Len(object')]
      /\ loaded[s] = Nothing /\ Len(object) + 1 \in Loads /\ closed' = closed
  BY DEF Open
<1>2. object \in Seq(Objects) /\ DOMAIN object \subseteq Loads
  BY DEF Typed
<1>3. /\ object' \in Seq(Objects) /\ Len(object') = Len(object) + 1
      /\ DOMAIN object' = DOMAIN object \cup {Len(object) + 1}
      /\ \A k \in DOMAIN object : object'[k] = object[k]
  BY <1>1, <1>2
<1>4. DOMAIN object' \subseteq Loads
  BY <1>1, <1>2, <1>3
<1>5. loaded' \in [Slots -> DOMAIN object' \cup {Nothing}]
  BY <1>1, <1>3 DEF Typed
<1>6. ASSUME NEW events, \A e \in events : e.at \in Addresses, InPlace(events), NEW e \in events
      PROVE  e.by \in DOMAIN object' /\ (e.by \notin closed' => loaded'[e.at[1]] = e.by)
  <2>1. e.at[1] \in Slots /\ e.by \in DOMAIN object /\ (e.by \notin closed => loaded[e.at[1]] = e.by)
    BY <1>6 DEF InPlace, Addresses
  <2>2. e.by # Nothing
    BY <1>2, <2>1, NothingAssumption DEF NothingAssumption
  <2>3. e.by \notin closed => e.at[1] # s
    BY <1>1, <2>1, <2>2
  <2> QED BY <1>1, <1>3, <2>1, <2>3 DEF Typed
<1> QED BY <1>3, <1>4, <1>5, <1>6

LEMMA CloseKeeps ==
  ASSUME Typed, NEW s \in Slots, Close(s)
  PROVE  /\ closed \subseteq closed' /\ closed' \subseteq Loads
         /\ loaded' \in [Slots -> DOMAIN object \cup {Nothing}]
         /\ \A events : (\A e \in events : e.at \in Addresses) /\ InPlace(events) =>
              \A e \in events :
                e.by \in DOMAIN object /\ (e.by \notin closed' => loaded'[e.at[1]] = e.by)
<1>1. /\ closed' = closed \cup {loaded[s]} /\ loaded[s] # Nothing
      /\ loaded' = [loaded EXCEPT ![s] = Nothing]
  BY DEF Close
<1>2. loaded \in [Slots -> DOMAIN object \cup {Nothing}] /\ DOMAIN object \subseteq Loads
      /\ closed \subseteq Loads
  BY DEF Typed
<1>3. ASSUME NEW events, \A e \in events : e.at \in Addresses, InPlace(events), NEW e \in events
      PROVE  e.by \in DOMAIN object /\ (e.by \notin closed' => loaded'[e.at[1]] = e.by)
  <2>1. e.at[1] \in Slots /\ e.by \in DOMAIN object /\ (e.by \notin closed => loaded[e.at[1]] = e.by)
    BY <1>3 DEF InPlace, Addresses
  <2>2. e.by \notin closed' => e.at[1] # s
    BY <1>1, <2>1
  <2> QED BY <1>1, <1>2, <2>1, <2>2
<1> QED BY <1>1, <1>2, <1>3

LEMMA RecordKeeps ==
  ASSUME Typed, InPlace(Held), NEW i \in DOMAIN Threads, NEW a \in Addresses, Record(i, a)
  PROVE  /\ bufs' \in [DOMAIN Threads -> Seq(Event)]
         /\ InPlace(Held)'
<1> DEFINE e == [at |-> a, by |-> loaded[a[1]]]
           grown == Append(bufs[i], e)
           new == IF Len(grown) > Capacity THEN Newest(grown) ELSE grown
<1>1. /\ bufs' = [bufs EXCEPT ![i] = new] /\ loaded[a[1]] # Nothing
      /\ UNCHANGED <<loaded, object, closed>>
  BY DEF Record
<1>2. e \in Event /\ e.by \in DOMAIN object /\ loaded[e.at[1]] = e.by
  BY <1>1 DEF Typed, Addresses, Event
<1>3. bufs[i] \in Seq(Event)
  BY DEF Typed
<1>4. new \in Seq(Event) /\ Range(new) \subseteq Range(bufs[i]) \cup {e}
  <2> HIDE DEF e
  <2> QED BY <1>2, <1>3, Recorded
<1> HIDE DEF new, e
<1>5. bufs' \in [DOMAIN Threads -> Seq(Event)]
  BY <1>1, <1>4 DEF Typed
<1>6. Held' \subseteq Held \cup {e}
  <2>1. \A j \in DOMAIN Threads : Range(bufs'[j]) \subseteq Held \cup {e}
    <3> SUFFICES ASSUME NEW j \in DOMAIN Threads PROVE Range(bufs'[j]) \subseteq Held \cup {e}
      OBVIOUS
    <3>1. Range(bufs[j]) \subseteq Held
      BY DEF Held
    <3>2. CASE j = i
      BY <1>1, <1>4, <3>1, <3>2 DEF Typed
    <3>3. CASE j # i
      BY <1>1, <3>1, <3>3 DEF Typed
    <3> QED BY <3>2, <3>3
  <2> QED BY <2>1 DEF Held
<1>7. InPlace(Held)'
  BY <1>1, <1>2, <1>6 DEF InPlace
<1> QED BY <1>5, <1>7

------------------------------------------------------------------------------
(* The inductive step, first for what leaves the events and the maps alone. *)

LEMMA SamplesUntouched ==
  ASSUME SamplesSound, UNCHANGED <<object, samples, snapshot>>
  PROVE  SamplesSound'
BY DEF SamplesSound, InMaps

LEMMA AsideKeeps ==
  ASSUME IInv, UNCHANGED <<programVars, paused, job, taking, snapshot, samples>>
  PROVE  IInv'
<1> USE DEF programVars
<1>1. Typed'
  BY DEF IInv, Typed
<1>2. InPlace(Held)'
  BY DEF IInv, InPlace, Held
<1>3. Pausing' /\ GetSound'
  BY DEF IInv, Pausing, GetSound, InPlace
<1>4. WriteSound'
  BY DEF IInv, WriteSound, InMaps, Held
<1>5. SamplesSound'
  BY SamplesUntouched DEF IInv
<1> QED BY <1>1, <1>2, <1>3, <1>4, <1>5 DEF IInv

LEMMA OpenSound ==
  ASSUME IInv, NEW s \in Slots, NEW o \in Objects, Open(s, o)
  PROVE  IInv'
<1>1. UNCHANGED <<closed, bufs, paused, job, taking, snapshot, samples>>
  BY DEF Open, fileVars
<1>2. /\ object' \in Seq(Objects) /\ DOMAIN object' \subseteq Loads
      /\ loaded' \in [Slots -> DOMAIN object' \cup {Nothing}]
      /\ DOMAIN object \subseteq DOMAIN object'
      /\ \A k \in DOMAIN object : object'[k] = object[k]
  BY OpenKeeps DEF IInv
<1>3. \A events : (\A e \in events : e.at \in Addresses) /\ InPlace(events) =>
        \A e \in events :
          e.by \in DOMAIN object' /\ (e.by \notin closed' => loaded'[e.at[1]] = e.by)
  BY OpenKeeps DEF IInv
<1>4. Typed'
  BY <1>1, <1>2 DEF IInv, Typed
<1>5. InPlace(Held)'
  <2>1. Held' = Held
    BY <1>1 DEF Held
  <2> QED BY <1>3, <2>1, HeldTyped DEF IInv, InPlace
<1>7. Pausing'
  BY <1>1 DEF IInv, Pausing
<1>8. WriteSound'
  <2>1. Held' = Held
    BY <1>1 DEF Held
  <2>2. job = "mapped" => InMaps(Held, taking.maps, closed)'
    BY <1>1, <1>2, <2>1 DEF IInv, WriteSound, InMaps
  <2>3. job = "traced" => InMaps(EventsIn(taking.traces), taking.maps, closed)'
    BY <1>1, <1>2 DEF IInv, WriteSound, InMaps
  <2> QED BY <1>1, <2>2, <2>3 DEF IInv, WriteSound
<1>9. GetSound'
  <2>1. taking.traces \in Seq(Trace)
    BY DEF IInv, Typed, Sample
  <2> QED BY <1>1, <1>3, <2>1, EventsTyped DEF IInv, GetSound, InPlace
<1>10. SamplesSound'
  <2>1. ASSUME NEW n \in DOMAIN samples
        PROVE  InMaps(EventsIn(samples[n].traces), samples[n].maps, samples[n].gone)'
    BY <1>1, <1>2 DEF IInv, SamplesSound, InMaps
  <2>2. snapshot # Nothing => InMaps(EventsIn(snapshot.traces), snapshot.maps, snapshot.gone)'
    BY <1>1, <1>2 DEF IInv, SamplesSound, InMaps
  <2> QED BY <1>1, <2>1, <2>2 DEF SamplesSound
<1> QED BY <1>4, <1>5, <1>7, <1>8, <1>9, <1>10 DEF IInv

LEMMA CloseSound ==
  ASSUME IInv, NEW s \in Slots, Close(s)
  PROVE  IInv'
<1>1. UNCHANGED <<object, bufs, paused, job, taking, snapshot, samples>>
  BY DEF Close, fileVars
<1>2. /\ closed \subseteq closed' /\ closed' \subseteq Loads
      /\ loaded' \in [Slots -> DOMAIN object \cup {Nothing}]
  BY CloseKeeps DEF IInv
<1>3. \A events : (\A e \in events : e.at \in Addresses) /\ InPlace(events) =>
        \A e \in events :
          e.by \in DOMAIN object /\ (e.by \notin closed' => loaded'[e.at[1]] = e.by)
  BY CloseKeeps DEF IInv
<1>4. Typed'
  BY <1>1, <1>2 DEF IInv, Typed
<1>5. InPlace(Held)'
  <2>1. Held' = Held
    BY <1>1 DEF Held
  <2> QED BY <1>1, <1>3, <2>1, HeldTyped DEF IInv, InPlace
<1>6. Pausing'
  BY <1>1 DEF IInv, Pausing
<1>7. WriteSound'
  <2>1. Held' = Held
    BY <1>1 DEF Held
  <2> QED BY <1>1, <1>2, <2>1 DEF IInv, WriteSound, InMaps
<1>8. GetSound'
  <2>1. taking.traces \in Seq(Trace)
    BY DEF IInv, Typed, Sample
  <2> QED BY <1>1, <1>3, <2>1, EventsTyped DEF IInv, GetSound, InPlace
<1>9. SamplesSound'
  BY <1>1, SamplesUntouched DEF IInv
<1> QED BY <1>4, <1>5, <1>6, <1>7, <1>8, <1>9 DEF IInv

LEMMA RecordSound ==
  ASSUME IInv, NEW i \in DOMAIN Threads, NEW a \in Addresses, Record(i, a)
  PROVE  IInv'
<1>1. UNCHANGED <<loaded, object, closed, paused, job, taking, snapshot, samples>> /\ ~paused
  BY DEF Record, fileVars
<1>2. bufs' \in [DOMAIN Threads -> Seq(Event)] /\ InPlace(Held)'
  BY RecordKeeps DEF IInv
<1>3. Typed'
  BY <1>1, <1>2 DEF IInv, Typed
<1>4. Pausing' /\ GetSound'
  BY <1>1 DEF IInv, Pausing, GetSound, InPlace
<1>5. WriteSound'
  <2>1. job' \notin {"write", "mapped"}
    BY <1>1 DEF IInv, Pausing
  <2> QED BY <1>1, <2>1 DEF IInv, WriteSound, InMaps
<1>6. SamplesSound'
  BY <1>1, SamplesUntouched DEF IInv
<1> QED BY <1>2, <1>3, <1>4, <1>5, <1>6 DEF IInv

------------------------------------------------------------------------------
(* The steps of a snapshot *)

LEMMA ProgramAside ==
  ASSUME IInv, UNCHANGED programVars,
         taking' \in Sample, snapshot' \in Sample \cup {Nothing}, samples' \in Seq(Sample)
  PROVE  Typed' /\ InPlace(Held)' /\ Held' = Held
<1>1. Held' = Held
  BY DEF programVars, Held
<1>2. Typed'
  BY DEF IInv, Typed, programVars
<1>3. InPlace(Held)'
  BY <1>1 DEF IInv, InPlace, programVars
<1> QED BY <1>1, <1>2, <1>3

LEMMA PauseSound ==
  ASSUME IInv, WritePause \/ GetPause
  PROVE  IInv'
<1>1. /\ UNCHANGED programVars /\ UNCHANGED <<snapshot, samples>>
      /\ job' \in {"write", "get"} /\ paused' = TRUE /\ taking' = Blank
  BY DEF WritePause, GetPause, fileVars
<1>2. Typed' /\ InPlace(Held)'
  BY <1>1, ProgramAside, BlankTyped DEF IInv, Typed
<1>3. Pausing' /\ GetSound' /\ WriteSound'
  BY <1>1, BlankTyped DEF Pausing, GetSound, WriteSound
<1>4. SamplesSound'
  BY <1>1, SamplesUntouched DEF IInv, programVars
<1> QED BY <1>2, <1>3, <1>4 DEF IInv

LEMMA WriteMapsSound ==
  ASSUME IInv, WriteMaps
  PROVE  IInv'
<1>1. /\ UNCHANGED programVars /\ UNCHANGED <<paused, snapshot, samples>>
      /\ job = "write" /\ job' = "mapped" /\ taking' = [taking EXCEPT !.maps = ProcMaps]
  BY DEF WriteMaps
<1>2. /\ ProcMaps \in [Slots -> Objects \cup {Nothing}]
      /\ InMaps(Held, ProcMaps, closed)
  BY ProcMapsAre, HeldTyped DEF IInv
<1>3. taking \in Sample /\ taking.traces = <<>>
  BY <1>1 DEF IInv, Typed, WriteSound
<1>4. taking' \in Sample /\ taking'.traces = <<>> /\ taking'.maps = ProcMaps
  BY <1>1, <1>2, <1>3 DEF Sample
<1>5. Typed' /\ InPlace(Held)' /\ Held' = Held
  BY <1>1, <1>4, ProgramAside DEF IInv, Typed
<1>6. Pausing' /\ GetSound'
  BY <1>1 DEF IInv, Pausing, GetSound
<1>7. WriteSound'
  BY <1>1, <1>2, <1>4, <1>5 DEF WriteSound, InMaps, programVars
<1>8. SamplesSound'
  BY <1>1, SamplesUntouched DEF IInv, programVars
<1> QED BY <1>5, <1>6, <1>7, <1>8 DEF IInv

LEMMA WriteTracesSound ==
  ASSUME IInv, WriteTraces
  PROVE  IInv'
<1>1. /\ UNCHANGED programVars /\ UNCHANGED <<snapshot, samples>>
      /\ job = "mapped" /\ job' = "traced" /\ paused' = FALSE
      /\ taking' = [taking EXCEPT !.traces = Traces]
  BY DEF WriteTraces
<1>2. Traces \in Seq(Trace) /\ EventsIn(Traces) = Held
  BY TracesAre DEF IInv
<1>3. taking \in Sample /\ InMaps(Held, taking.maps, closed)
  BY <1>1 DEF IInv, Typed, WriteSound
<1>4. taking' \in Sample /\ taking'.traces = Traces /\ taking'.maps = taking.maps
  BY <1>1, <1>2, <1>3 DEF Sample
<1>5. Typed' /\ InPlace(Held)'
  BY <1>1, <1>4, ProgramAside DEF IInv, Typed
<1>6. Pausing' /\ GetSound'
  BY <1>1 DEF Pausing, GetSound
<1>7. WriteSound'
  BY <1>1, <1>2, <1>3, <1>4 DEF WriteSound, InMaps, programVars
<1>8. SamplesSound'
  BY <1>1, SamplesUntouched DEF IInv, programVars
<1> QED BY <1>5, <1>6, <1>7, <1>8 DEF IInv

\* A sample added to those there are
LEMMA SampleAdded ==
  ASSUME IInv, UNCHANGED <<object, snapshot>>,
         NEW x \in Sample, InMaps(EventsIn(x.traces), x.maps, x.gone),
         samples' = Append(samples, x)
  PROVE  samples' \in Seq(Sample) /\ SamplesSound'
<1>1. samples \in Seq(Sample)
  BY DEF IInv, Typed
<1>2. /\ samples' \in Seq(Sample) /\ DOMAIN samples' = DOMAIN samples \cup {Len(samples) + 1}
      /\ \A n \in DOMAIN samples : samples'[n] = samples[n]
      /\ samples'[Len(samples) + 1] = x
  BY <1>1
<1>3. \A n \in DOMAIN samples' :
        InMaps(EventsIn(samples'[n].traces), samples'[n].maps, samples'[n].gone)
  BY <1>2 DEF IInv, SamplesSound
<1> QED BY <1>2, <1>3 DEF IInv, SamplesSound, InMaps

LEMMA WriteEndSound ==
  ASSUME IInv, NEW t \in Texts, WriteEnd(t)
  PROVE  IInv'
<1> DEFINE x == [taking EXCEPT !.text = t, !.gone = closed, !.safe = TRUE]
<1>1. /\ UNCHANGED programVars /\ UNCHANGED <<paused, taking, snapshot>>
      /\ job = "traced" /\ job' = "idle" /\ samples' = Append(samples, x)
  BY DEF WriteEnd
<1>2. taking \in Sample /\ closed \subseteq Loads
  BY DEF IInv, Typed
<1>3. x \in Sample /\ x.traces = taking.traces /\ x.maps = taking.maps /\ x.gone = closed
  BY <1>2 DEF Sample
<1>4. InMaps(EventsIn(x.traces), x.maps, x.gone)
  BY <1>1, <1>3 DEF IInv, WriteSound
<1>5. samples' \in Seq(Sample) /\ SamplesSound'
  <2> HIDE DEF x
  <2> QED BY <1>1, <1>3, <1>4, SampleAdded DEF programVars
<1>6. Typed' /\ InPlace(Held)'
  BY <1>1, <1>5, ProgramAside DEF IInv, Typed
<1>7. Pausing' /\ GetSound' /\ WriteSound'
  BY <1>1 DEF IInv, Pausing, GetSound, WriteSound
<1> QED BY <1>5, <1>6, <1>7 DEF IInv

LEMMA GetTracesSound ==
  ASSUME IInv, GetTraces
  PROVE  IInv'
<1>1. /\ UNCHANGED programVars /\ UNCHANGED <<snapshot, samples>>
      /\ job' = "copied" /\ paused' = FALSE /\ taking' = [taking EXCEPT !.traces = Traces]
  BY DEF GetTraces, fileVars
<1>2. Traces \in Seq(Trace) /\ EventsIn(Traces) = Held
  BY TracesAre DEF IInv
<1>3. taking' \in Sample /\ taking'.traces = Traces
  BY <1>1, <1>2 DEF IInv, Typed, Sample
<1>4. Typed' /\ InPlace(Held)' /\ Held' = Held
  BY <1>1, <1>3, ProgramAside DEF IInv, Typed
<1>5. Pausing' /\ WriteSound'
  BY <1>1 DEF Pausing, WriteSound
<1>6. GetSound'
  BY <1>2, <1>3, <1>4 DEF GetSound, InPlace, EventsIn
<1>7. SamplesSound'
  BY <1>1, SamplesUntouched DEF IInv, programVars
<1> QED BY <1>4, <1>5, <1>6, <1>7 DEF IInv

LEMMA GetMapsSound ==
  ASSUME IInv, NEW t \in Texts, GetMaps(t)
  PROVE  IInv'
<1> DEFINE x == [taking EXCEPT !.text = t, !.maps = ProcMaps, !.gone = closed]
<1>1. /\ UNCHANGED programVars /\ UNCHANGED <<paused, taking, samples>>
      /\ job = "copied" /\ job' = "idle" /\ snapshot' = x
  BY DEF GetMaps, fileVars
<1>2. taking \in Sample /\ closed \subseteq Loads /\ taking.traces \in Seq(Trace)
  BY DEF IInv, Typed, Sample
<1>3. /\ ProcMaps \in [Slots -> Objects \cup {Nothing}]
      /\ InMaps(EventsIn(taking.traces), ProcMaps, closed)
  BY <1>1, <1>2, ProcMapsAre, EventsTyped DEF IInv, GetSound
<1>4. x \in Sample /\ x.traces = taking.traces /\ x.maps = ProcMaps /\ x.gone = closed
  BY <1>2, <1>3 DEF Sample
<1> HIDE DEF x
<1>5. Typed' /\ InPlace(Held)'
  BY <1>1, <1>2, <1>4, ProgramAside DEF IInv, Typed
<1>6. Pausing' /\ GetSound' /\ WriteSound'
  BY <1>1 DEF IInv, Pausing, GetSound, WriteSound
<1>7. SamplesSound'
  BY <1>1, <1>3, <1>4 DEF IInv, SamplesSound, InMaps, programVars
<1> QED BY <1>5, <1>6, <1>7 DEF IInv

\* A file of one sample
LEMMA SampleAlone ==
  ASSUME IInv, UNCHANGED <<object, snapshot>>,
         NEW x \in Sample, InMaps(EventsIn(x.traces), x.maps, x.gone), samples' = <<x>>
  PROVE  samples' \in Seq(Sample) /\ SamplesSound'
<1>1. /\ samples' \in Seq(Sample) /\ DOMAIN samples' = {1} /\ samples'[1] = x
  OBVIOUS
<1>2. \A n \in DOMAIN samples' :
        InMaps(EventsIn(samples'[n].traces), samples'[n].maps, samples'[n].gone)
  BY <1>1
<1> QED BY <1>1, <1>2 DEF IInv, SamplesSound, InMaps

LEMMA WriteSnapshotSound ==
  ASSUME IInv, WriteSnapshot
  PROVE  IInv'
<1>1. /\ UNCHANGED programVars /\ UNCHANGED <<paused, job, taking, snapshot>>
      /\ snapshot # Nothing /\ samples' = <<snapshot>>
  BY DEF WriteSnapshot
<1>2. snapshot \in Sample /\ InMaps(EventsIn(snapshot.traces), snapshot.maps, snapshot.gone)
  BY <1>1 DEF IInv, Typed, SamplesSound
<1>3. samples' \in Seq(Sample) /\ SamplesSound'
  BY <1>1, <1>2, SampleAlone DEF programVars
<1>4. Typed' /\ InPlace(Held)' /\ Held' = Held
  BY <1>1, <1>3, ProgramAside DEF IInv, Typed
<1>5. Pausing' /\ GetSound'
  BY <1>1 DEF IInv, Pausing, GetSound, InPlace, programVars
<1>6. WriteSound'
  BY <1>1, <1>4 DEF IInv, WriteSound, InMaps, programVars
<1> QED BY <1>3, <1>4, <1>5, <1>6 DEF IInv

LEMMA FlushSound ==
  ASSUME IInv, FlushSnapshot
  PROVE  IInv'
<1>1. /\ UNCHANGED programVars /\ UNCHANGED <<paused, job, taking, snapshot>>
      /\ samples' = [samples EXCEPT ![1].safe = TRUE]
  BY DEF FlushSnapshot
<1>2. samples \in Seq(Sample)
  BY DEF IInv, Typed
<1>3. ASSUME NEW n \in DOMAIN samples
      PROVE  /\ samples'[n] \in Sample /\ samples'[n].traces = samples[n].traces
             /\ samples'[n].maps = samples[n].maps /\ samples'[n].gone = samples[n].gone
  <2>1. samples[n] \in Sample
    BY <1>2
  <2>2. CASE n = 1
    <3>1. samples'[n] = [samples[n] EXCEPT !.safe = TRUE]
      BY <1>1, <2>2
    <3> QED BY <2>1, <3>1 DEF Sample
  <2>3. CASE n # 1
    BY <1>1, <2>1, <2>3
  <2> QED BY <2>2, <2>3
<1>4. DOMAIN samples' = DOMAIN samples /\ samples' \in Seq(Sample)
  <2>1. DOMAIN samples = 1 .. Len(samples) /\ Len(samples) \in Nat
    BY <1>2
  <2>2. DOMAIN samples' = DOMAIN samples
    BY <1>1
  <2>3. samples' = [n \in DOMAIN samples |-> samples'[n]]
    BY <1>1
  <2>4. samples' \in [1 .. Len(samples) -> Sample]
    <3> DEFINE f == samples'
    <3> HIDE DEF f
    <3>1. f = [n \in DOMAIN samples |-> f[n]] /\ \A n \in DOMAIN samples : f[n] \in Sample
      BY <1>3, <2>3 DEF f
    <3> QED BY <2>1, <3>1 DEF f
  <2> QED BY <2>1, <2>2, <2>4
<1>5. Typed' /\ InPlace(Held)' /\ Held' = Held
  BY <1>1, <1>4, ProgramAside DEF IInv, Typed
<1>6. Pausing' /\ GetSound'
  BY <1>1 DEF IInv, Pausing, GetSound, InPlace, programVars
<1>7. WriteSound'
  BY <1>1, <1>5 DEF IInv, WriteSound, InMaps, programVars
<1>8. SamplesSound'
  BY <1>1, <1>3, <1>4 DEF IInv, SamplesSound, InMaps, programVars
<1> QED BY <1>5, <1>6, <1>7, <1>8 DEF IInv

LEMMA FreeSound ==
  ASSUME IInv, FreeSnapshot
  PROVE  IInv'
<1>1. /\ UNCHANGED programVars /\ UNCHANGED <<paused, job, taking, samples>>
      /\ snapshot' = Nothing
  BY DEF FreeSnapshot, fileVars
<1>2. Typed' /\ InPlace(Held)' /\ Held' = Held
  BY <1>1, ProgramAside DEF IInv, Typed
<1>3. Pausing' /\ GetSound'
  BY <1>1 DEF IInv, Pausing, GetSound, InPlace, programVars
<1>4. WriteSound'
  BY <1>1, <1>2 DEF IInv, WriteSound, InMaps, programVars
<1>5. SamplesSound'
  BY <1>1 DEF IInv, SamplesSound, InMaps, programVars
<1> QED BY <1>2, <1>3, <1>4, <1>5 DEF IInv

LEMMA CrashSound ==
  ASSUME IInv, NEW n, NEW tail, Crash(n, tail)
  PROVE  IInv'
<1> DEFINE x == [taking EXCEPT !.gone = closed]
<1>1. /\ UNCHANGED programVars /\ UNCHANGED <<paused, job, taking, snapshot>>
      /\ samples' = IF job \in {"mapped", "traced"} THEN Append(samples, x) ELSE samples
  BY DEF Crash
<1>2. CASE job \in {"mapped", "traced"}
  <2>1. taking \in Sample /\ closed \subseteq Loads
    BY DEF IInv, Typed
  <2>2. x \in Sample /\ x.traces = taking.traces /\ x.maps = taking.maps /\ x.gone = closed
    BY <2>1 DEF Sample
  <2>3. InMaps(EventsIn(x.traces), x.maps, x.gone)
    <3>1. CASE job = "mapped"
      BY <2>2, <3>1, NothingIn DEF IInv, WriteSound, InMaps
    <3>2. CASE job = "traced"
      BY <2>2, <3>2 DEF IInv, WriteSound
    <3> QED BY <1>2, <3>1, <3>2
  <2> HIDE DEF x
  <2>4. samples' \in Seq(Sample) /\ SamplesSound'
    BY <1>1, <1>2, <2>2, <2>3, SampleAdded DEF programVars
  <2>5. Typed' /\ InPlace(Held)' /\ Held' = Held
    BY <1>1, <2>4, ProgramAside DEF IInv, Typed
  <2>6. Pausing' /\ GetSound'
    BY <1>1 DEF IInv, Pausing, GetSound, InPlace, programVars
  <2>7. WriteSound'
    BY <1>1, <2>5 DEF IInv, WriteSound, InMaps, programVars
  <2> QED BY <2>4, <2>5, <2>6, <2>7 DEF IInv
<1>3. CASE job \notin {"mapped", "traced"}
  BY <1>1, <1>3, AsideKeeps
<1> QED BY <1>2, <1>3

LEMMA CoreDumpSound ==
  ASSUME IInv, NEW t \in Texts, CoreDump(t)
  PROVE  IInv'
<1> DEFINE x == [traces |-> Traces, text |-> t, maps |-> ProcMaps, gone |-> closed, safe |-> TRUE]
<1>1. /\ UNCHANGED programVars /\ UNCHANGED <<paused, job, taking, snapshot>>
      /\ samples' = <<x>>
  BY DEF CoreDump
<1>2. Traces \in Seq(Trace) /\ EventsIn(Traces) = Held
  BY TracesAre DEF IInv
<1>3. ProcMaps \in [Slots -> Objects \cup {Nothing}] /\ InMaps(Held, ProcMaps, closed)
  BY ProcMapsAre, HeldTyped DEF IInv
<1>4. x \in Sample /\ InMaps(EventsIn(x.traces), x.maps, x.gone)
  BY <1>2, <1>3 DEF IInv, Typed, Sample
<1> HIDE DEF x
<1>5. samples' \in Seq(Sample) /\ SamplesSound'
  BY <1>1, <1>4, SampleAlone DEF programVars
<1>6. Typed' /\ InPlace(Held)' /\ Held' = Held
  BY <1>1, <1>5, ProgramAside DEF IInv, Typed
<1>7. Pausing' /\ GetSound'
  BY <1>1 DEF IInv, Pausing, GetSound, InPlace, programVars
<1>8. WriteSound'
  BY <1>1, <1>6 DEF IInv, WriteSound, InMaps, programVars
<1> QED BY <1>5, <1>6, <1>7, <1>8 DEF IInv

LEMMA StartDecoderSound ==
  ASSUME IInv, StartDecoder
  PROVE  IInv'
<1>1. /\ loaded' = [s \in Slots |-> Nothing] /\ bufs' = [i \in DOMAIN Threads |-> <<>>]
      /\ closed' = {} /\ paused' = FALSE /\ job' = "idle" /\ taking' = Blank
      /\ snapshot' = Nothing /\ UNCHANGED <<object, samples>>
  BY DEF StartDecoder, fileVars
<1>2. Typed'
  BY <1>1, BlankTyped DEF IInv, Typed
<1>3. Held' = {}
  BY <1>1, NothingIn DEF Held
<1>4. InPlace(Held)' /\ Pausing' /\ WriteSound' /\ GetSound'
  BY <1>1, <1>3 DEF InPlace, Pausing, WriteSound, GetSound
<1>5. SamplesSound'
  BY <1>1 DEF IInv, SamplesSound, InMaps
<1> QED BY <1>2, <1>4, <1>5 DEF IInv

------------------------------------------------------------------------------
LEMMA InitSound == Init => IInv
<1> SUFFICES ASSUME Init PROVE IInv
  OBVIOUS
<1>1. Typed
  <2>1. /\ object = <<>> /\ loaded = [s \in Slots |-> Nothing] /\ closed = {}
        /\ bufs = [i \in DOMAIN Threads |-> <<>>] /\ taking = Blank
        /\ snapshot = Nothing /\ samples = <<>>
    BY DEF Init
  <2>2. object \in Seq(Objects) /\ DOMAIN object \subseteq Loads /\ samples \in Seq(Sample)
    BY <2>1, EmptyDomain
  <2>3. loaded \in [Slots -> DOMAIN object \cup {Nothing}]
    BY <2>1
  <2>4. bufs \in [DOMAIN Threads -> Seq(Event)]
    BY <2>1
  <2> QED BY <2>1, <2>2, <2>3, <2>4, BlankTyped DEF Typed
<1>2. Held = {}
  BY NothingIn DEF Init, Held
<1>3. InPlace(Held) /\ Pausing /\ WriteSound /\ GetSound
  BY <1>2 DEF Init, InPlace, Pausing, WriteSound, GetSound
<1>4. SamplesSound
  BY EmptyDomain DEF Init, SamplesSound
<1> QED BY <1>1, <1>3, <1>4 DEF IInv

LEMMA StepSound == IInv /\ [Next]_vars => IInv'
<1> SUFFICES ASSUME IInv, [Next]_vars PROVE IInv'
  OBVIOUS
<1>1. CASE Program
  <2>1. CASE \E s \in Slots, o \in Objects : Open(s, o)
    BY <2>1, OpenSound
  <2>2. CASE \E s \in Slots : Close(s)
    BY <2>2, CloseSound
  <2>3. CASE \E i \in DOMAIN Threads, a \in Addresses : Record(i, a)
    BY <2>3, RecordSound
  <2>4. CASE WritePause \/ GetPause
    BY <2>4, PauseSound
  <2>5. CASE WriteMaps \/ WriteTraces \/ \E t \in Texts : WriteEnd(t)
    BY <2>5, WriteMapsSound, WriteTracesSound, WriteEndSound
  <2>6. CASE GetTraces \/ \E t \in Texts : GetMaps(t)
    BY <2>6, GetTracesSound, GetMapsSound
  <2>7. CASE WriteSnapshot \/ FlushSnapshot \/ FreeSnapshot
    BY <2>7, WriteSnapshotSound, FlushSound, FreeSound
  <2>8. CASE Exit
    BY <2>8, AsideKeeps DEF Exit, fileVars
  <2>9. CASE \E n \in 0 .. Len(file), tail \in {"WHOLE", "MAGIC_CUT", "CHUNK_CUT"} : Crash(n, tail)
    BY <2>9, CrashSound
  <2>10. CASE \E t \in Texts : CoreDump(t)
    BY <2>10, CoreDumpSound
  <2> QED BY <1>1, <2>1, <2>2, <2>3, <2>4, <2>5, <2>6, <2>7, <2>8, <2>9, <2>10 DEF Program
<1>2. CASE StartDecoder
  BY <1>2, StartDecoderSound
<1>3. CASE SetMaps \/ SetThread \/ AddTrace \/ SetText \/ EndSample \/ EndOfFile \/ Fail
  BY <1>3, AsideKeeps DEF SetMaps, SetThread, AddTrace, SetText, EndSample, EndOfFile, Fail,
     outsideDecoder, fileVars
<1>4. CASE UNCHANGED vars
  BY <1>4, AsideKeeps DEF vars, fileVars
<1> QED BY <1>1, <1>2, <1>3, <1>4 DEF Next, Decoder

\* Whatever is loaded and unloaded while samples are taken, by SIGTRAP, by the
\* API or from a core dump, a sample's memory map tells the object of each of
\* its events that was not unloaded before the snapshot was complete.
THEOREM MapsOfSamples == Spec => []SamplesMapped
<1>1. IInv => SamplesMapped
  BY DEF IInv, SamplesSound, InMaps, SamplesMapped, MapsRight
<1> QED BY <1>1, InitSound, StepSound, PTL DEF Spec

------------------------------------------------------------------------------
(* Filters of sequences.                                                    *)

IsSequence(q) == q \in Seq(Range(q))

\* A filter as it is computed, one element at a time.
LEMMA SelectedUnfolds ==
  ASSUME NEW q, IsSequence(q), NEW set
  PROVE  /\ Selected(q, set, 0) = <<>>
         /\ \A n \in 1 .. Len(q) :
              Selected(q, set, n) = IF q[n] \in set THEN Append(Selected(q, set, n - 1), q[n])
                                    ELSE Selected(q, set, n - 1)
         /\ \A n \in 0 .. Len(q) : Selected(q, set, n) \in Seq(Range(q))
<1> DEFINE M == Len(q)
           V == Seq(Range(q))
           Is(h) == h = [n \in 0 .. M |->
                           IF n = 0 THEN <<>>
                           ELSE IF q[n] \in set THEN Append(h[n - 1], q[n]) ELSE h[n - 1]]
           upTo == CHOOSE h : Is(h)
           step == [p \in V \X (1 .. M) |->
                      IF q[p[2]] \in set THEN Append(p[1], q[p[2]]) ELSE p[1]]
<1>1. M \in Nat /\ <<>> \in V /\ \A n \in 1 .. M : q[n] \in Range(q)
  BY DEF IsSequence, Range
<1>2. ASSUME NEW t \in V, NEW n \in 1 .. M
      PROVE  /\ step[<<t, n>>] = IF q[n] \in set THEN Append(t, q[n]) ELSE t
             /\ step[<<t, n>>] \in V
  <2>1. <<t, n>> \in V \X (1 .. M)
    OBVIOUS
  <2>2. step[<<t, n>>] = IF q[n] \in set THEN Append(t, q[n]) ELSE t
    <3> HIDE DEF V, M
    <3> QED BY <2>1
  <2>3. Append(t, q[n]) \in V
    BY <1>1, AppendProperties
  <2> QED BY <2>2, <2>3
<1>3. step \in [V \X (1 .. M) -> V]
  <2>1. \A p \in V \X (1 .. M) : p[1] \in V /\ p[2] \in 1 .. M /\ p = <<p[1], p[2]>>
    OBVIOUS
  <2>2. \A p \in V \X (1 .. M) : step[p] \in V
    <3> HIDE DEF step, V, M
    <3> QED BY <1>2, <2>1
  <2>3. step = [p \in V \X (1 .. M) |-> step[p]]
    OBVIOUS
  <2> HIDE DEF step
  <2> QED BY <2>2, <2>3
<1>4. PICK h \in [0 .. M -> V] : Accumulates(h, M, <<>>, step)
  <2> HIDE DEF step, V, M
  <2> QED BY <1>1, <1>3, StepsExist
<1>5. /\ h[0] = <<>>
      /\ \A n \in 1 .. M : h[n] = IF q[n] \in set THEN Append(h[n - 1], q[n]) ELSE h[n - 1]
  <2>1. h[0] = <<>> /\ \A n \in 1 .. M : h[n] = step[<<h[n - 1], n>>]
    BY <1>4 DEF Accumulates
  <2>2. \A n \in 1 .. M : h[n - 1] \in V
    <3>1. \A n \in 1 .. M : n - 1 \in 0 .. M
      BY <1>1
    <3> QED BY <3>1
  <2> HIDE DEF step, V, M
  <2> QED BY <1>2, <2>1, <2>2
<1>6. Is(h)
  <2>1. ASSUME NEW n \in 0 .. M
        PROVE  h[n] = IF n = 0 THEN <<>>
                      ELSE IF q[n] \in set THEN Append(h[n - 1], q[n]) ELSE h[n - 1]
    <3>1. n = 0 \/ n \in 1 .. M
      BY <1>1
    <3>2. n \in 1 .. M => n # 0
      BY <1>1
    <3> HIDE DEF M
    <3> QED BY <1>5, <3>1, <3>2
  <2> HIDE DEF M, V
  <2> QED BY <2>1
<1>7. Is(upTo)
  <2> HIDE DEF Is
  <2> QED BY <1>6
<1>8. \A n \in 0 .. M : upTo[n] = h[n]
  <2> DEFINE S == {n \in 0 .. M : upTo[n] = h[n]}
  <2>1. \A n \in 0 .. M : upTo[n] =
           IF n = 0 THEN <<>>
           ELSE IF q[n] \in set THEN Append(upTo[n - 1], q[n]) ELSE upTo[n - 1]
    <3> HIDE DEF upTo, M
    <3> QED BY <1>7
  <2> HIDE DEF upTo
  <2>2. 0 \in S
    BY <1>1, <1>5, <2>1
  <2>3. ASSUME NEW n \in 0 .. M - 1, n \in S PROVE n + 1 \in S
    BY <1>1, <1>5, <2>1, <2>3
  <2> HIDE DEF S
  <2>4. 0 .. M \subseteq S
    BY <1>1, <2>2, <2>3, InductionUpTo
  <2> QED BY <2>4 DEF S
<1>9. \A n : Selected(q, set, n) = upTo[n]
  BY Zenon DEF Selected
<1>10. \A n \in 0 .. M : Selected(q, set, n) = h[n]
  <2> HIDE DEF upTo
  <2> QED BY <1>8, <1>9
<1> HIDE DEF upTo, step
<1>11. 0 \in 0 .. M /\ \A n \in 1 .. M : n \in 0 .. M /\ n - 1 \in 0 .. M
  BY <1>1
<1>12. \A n \in 0 .. M : h[n] \in V
  BY <1>4
<1> HIDE DEF V
<1>13. \A n \in 1 .. M :
         Selected(q, set, n) = IF q[n] \in set THEN Append(Selected(q, set, n - 1), q[n])
                               ELSE Selected(q, set, n - 1)
  BY <1>5, <1>10, <1>11
<1>14. Selected(q, set, 0) = <<>> /\ \A n \in 0 .. M : Selected(q, set, n) \in V
  BY <1>5, <1>10, <1>11, <1>12
<1> QED BY <1>13, <1>14 DEF V

\* What is selected of the first elements comes first, and stays.
LEMMA SelectedGrows ==
  ASSUME NEW q, IsSequence(q), NEW set, NEW m \in 0 .. Len(q), NEW n \in m .. Len(q)
  PROVE  /\ Len(Selected(q, set, m)) <= Len(Selected(q, set, n))
         /\ \A i \in 1 .. Len(Selected(q, set, m)) : Selected(q, set, n)[i] = Selected(q, set, m)[i]
<1> DEFINE T(k) == Selected(q, set, k)
           s == T(m)
           D == Len(q) - m
           S == {d \in 0 .. D : Len(s) <= Len(T(m + d)) /\ \A i \in 1 .. Len(s) : T(m + d)[i] = s[i]}
<1>1. Len(q) \in Nat /\ D \in Nat
  BY DEF IsSequence
<1>0. /\ \A k \in 1 .. Len(q) : T(k) = IF q[k] \in set THEN Append(T(k - 1), q[k]) ELSE T(k - 1)
      /\ \A k \in 0 .. Len(q) : T(k) \in Seq(Range(q))
  BY SelectedUnfolds, Zenon
<1>2. \A k \in 0 .. Len(q) : T(k) \in Seq(Range(q)) /\ Len(T(k)) \in Nat
  <2> HIDE DEF T
  <2> QED BY <1>0
<1>3. 0 \in S
  BY <1>1, <1>2
<1>4. ASSUME NEW d \in 0 .. D - 1, d \in S PROVE d + 1 \in S
  <2> DEFINE k == m + d + 1
  <2>1. k \in 1 .. Len(q) /\ k - 1 = m + d /\ k - 1 \in 0 .. Len(q) /\ k = m + (d + 1) /\ d + 1 \in 0 .. D
    BY <1>1
  <2> HIDE DEF k
  <2>2. T(k) = IF q[k] \in set THEN Append(T(k - 1), q[k]) ELSE T(k - 1)
    <3> HIDE DEF T
    <3> QED BY <1>0, <2>1
  <2>3. /\ T(k - 1) \in Seq(Range(q)) /\ Len(s) <= Len(T(k - 1))
        /\ \A i \in 1 .. Len(s) : T(k - 1)[i] = s[i]
    <3> HIDE DEF T
    <3> QED BY <1>2, <1>4, <2>1
  <2>4. Len(s) \in Nat
    BY <1>2
  <2> HIDE DEF T, s
  <2>5. Len(s) <= Len(T(k)) /\ \A i \in 1 .. Len(s) : T(k)[i] = s[i]
    <3>1. CASE q[k] \in set
      <4>1. q[k] \in Range(q)
        BY <1>1, <2>1 DEF IsSequence, Range
      <4>2. /\ Len(T(k)) = Len(T(k - 1)) + 1
            /\ \A i \in 1 .. Len(T(k - 1)) : T(k)[i] = T(k - 1)[i]
        BY <2>2, <2>3, <3>1, <4>1, AppendProperties
      <4> QED BY <2>3, <2>4, <4>2
    <3>2. CASE q[k] \notin set
      BY <2>2, <2>3, <3>2
    <3> QED BY <3>1, <3>2
  <2> QED BY <2>1, <2>5
<1> HIDE DEF S
<1>5. 0 .. D \subseteq S
  BY <1>1, <1>3, <1>4, InductionUpTo
<1>6. n - m \in S /\ m + (n - m) = n
  BY <1>1, <1>5
<1> HIDE DEF T
<1>7. Len(s) <= Len(T(n)) /\ \A i \in 1 .. Len(s) : T(n)[i] = s[i]
  BY <1>6 DEF S
<1> QED BY <1>7 DEF T


\* Where an element comes that is selected.
LEMMA SelectedAt ==
  ASSUME NEW q, IsSequence(q), NEW set, NEW n \in 1 .. Len(q), q[n] \in set
  PROVE  LET c == Len(Selected(q, set, n - 1))
             all == Selected(q, set, Len(q))
         IN /\ c \in Nat /\ Len(Selected(q, set, n)) = c + 1
            /\ c + 1 \in DOMAIN all /\ all[c + 1] = q[n]
<1> DEFINE T(k) == Selected(q, set, k)
<1>0. /\ \A k \in 1 .. Len(q) : T(k) = IF q[k] \in set THEN Append(T(k - 1), q[k]) ELSE T(k - 1)
      /\ \A k \in 0 .. Len(q) : T(k) \in Seq(Range(q))
  BY SelectedUnfolds, Zenon
<1>1. Len(q) \in Nat /\ n - 1 \in 0 .. Len(q) /\ n \in 0 .. Len(q) /\ Len(q) \in n .. Len(q)
  BY DEF IsSequence
<1>2. Len(T(n)) <= Len(T(Len(q))) /\ \A i \in 1 .. Len(T(n)) : T(Len(q))[i] = T(n)[i]
  <2>1. \A b \in n .. Len(q) :
           /\ Len(Selected(q, set, n)) <= Len(Selected(q, set, b))
           /\ \A i \in 1 .. Len(Selected(q, set, n)) : Selected(q, set, b)[i] = Selected(q, set, n)[i]
    BY <1>1, SelectedGrows
  <2> QED BY <1>1, <2>1
<1> HIDE DEF T
<1>3. T(n) = Append(T(n - 1), q[n]) /\ T(n - 1) \in Seq(Range(q)) /\ T(Len(q)) \in Seq(Range(q))
  BY <1>0, <1>1
<1>4. q[n] \in Range(q)
  BY DEF IsSequence, Range
<1>5. Len(T(n - 1)) \in Nat /\ Len(T(n)) = Len(T(n - 1)) + 1 /\ T(n)[Len(T(n - 1)) + 1] = q[n]
  BY <1>3, <1>4, AppendProperties
<1>6. Len(T(n - 1)) + 1 \in DOMAIN T(Len(q)) /\ T(Len(q))[Len(T(n - 1)) + 1] = q[n]
  BY <1>2, <1>3, <1>5
<1> QED BY <1>5, <1>6 DEF T

\* Whatever is selected is one of them.
LEMMA SelectedFrom ==
  ASSUME NEW q, IsSequence(q), NEW set
  PROVE  \A k \in DOMAIN Selected(q, set, Len(q)) :
           \E n \in 1 .. Len(q) : q[n] \in set /\ k = Len(Selected(q, set, n - 1)) + 1
<1> DEFINE T(k) == Selected(q, set, k)
           Is(k, n) == q[n] \in set /\ k = Len(T(n - 1)) + 1
           S == {m \in 0 .. Len(q) : \A k \in 1 .. Len(T(m)) : \E n \in 1 .. Len(q) : Is(k, n)}
<1>0. /\ T(0) = <<>>
      /\ \A k \in 1 .. Len(q) : T(k) = IF q[k] \in set THEN Append(T(k - 1), q[k]) ELSE T(k - 1)
      /\ \A k \in 0 .. Len(q) : T(k) \in Seq(Range(q))
  BY SelectedUnfolds, Zenon
<1> HIDE DEF T
<1>1. Len(q) \in Nat
  BY DEF IsSequence
<1>2. 0 \in S
  BY <1>0, <1>1
<1>3. ASSUME NEW m \in 0 .. Len(q) - 1, m \in S PROVE m + 1 \in S
  <2>1. m + 1 \in 1 .. Len(q) /\ (m + 1) - 1 = m /\ m \in 0 .. Len(q)
    BY <1>1
  <2>2. T(m + 1) = IF q[m + 1] \in set THEN Append(T(m), q[m + 1]) ELSE T(m)
    BY <1>0, <2>1
  <2>3. ASSUME NEW k \in 1 .. Len(T(m + 1)) PROVE \E n \in 1 .. Len(q) : Is(k, n)
    <3>1. CASE k \in 1 .. Len(T(m))
      BY <1>3, <3>1
    <3>2. CASE k \notin 1 .. Len(T(m))
      <4>1. q[m + 1] \in set
        BY <2>2, <3>2
      <4>2. q[m + 1] \in Range(q) /\ T(m) \in Seq(Range(q))
        <5>1. q[m + 1] \in Range(q)
          BY <2>1 DEF IsSequence, Range
        <5> QED BY <1>0, <2>1, <5>1
      <4>3. Len(T(m + 1)) = Len(T(m)) + 1 /\ Len(T(m)) \in Nat
        BY <2>2, <4>1, <4>2, AppendProperties
      <4>4. k = Len(T(m)) + 1
        BY <3>2, <4>3
      <4>5. Is(k, m + 1)
        BY <2>1, <4>1, <4>4
      <4> HIDE DEF Is
      <4> QED BY <2>1, <4>5
    <3> QED BY <3>1, <3>2
  <2> HIDE DEF Is
  <2> QED BY <2>1, <2>3
<1> HIDE DEF S
<1>4. 0 .. Len(q) \subseteq S
  BY <1>1, <1>2, <1>3, InductionUpTo
<1>5. Len(q) \in S /\ T(Len(q)) \in Seq(Range(q))
  BY <1>0, <1>1, <1>4
<1>6. \A k \in DOMAIN T(Len(q)) : \E n \in 1 .. Len(q) : Is(k, n)
  <2> HIDE DEF Is
  <2> QED BY <1>5 DEF S
<1> QED BY <1>6 DEF T


------------------------------------------------------------------------------
(* The chunks.                                                              *)

\* A sequence of whatever it holds.
LEMMA SequenceOf ==
  ASSUME NEW S, NEW q \in Seq(S)
  PROVE  IsSequence(q) /\ Range(q) \subseteq S /\ Len(q) \in Nat /\ DOMAIN q = 1 .. Len(q)
<1>1. DOMAIN q = 1 .. Len(q) /\ q = [i \in 1 .. Len(q) |-> q[i]] /\ Len(q) \in Nat
  OBVIOUS
<1> QED BY <1>1 DEF IsSequence, Range

\* What a sequence has when another is appended to it.
LEMMA Joined ==
  ASSUME NEW p, NEW q, IsSequence(p), IsSequence(q)
  PROVE  /\ IsSequence(p \o q) /\ Len(p \o q) = Len(p) + Len(q)
         /\ Len(p) \in Nat /\ Len(q) \in Nat
         /\ \A i \in 1 .. Len(p) : (p \o q)[i] = p[i]
         /\ \A i \in 1 .. Len(q) : (p \o q)[Len(p) + i] = q[i]
<1> DEFINE V == Range(p) \cup Range(q)
           r == p \o q
<1>1. p \in Seq(V) /\ q \in Seq(V)
  <2>1. p \in Seq(Range(p)) /\ q \in Seq(Range(q))
    BY DEF IsSequence
  <2> HIDE DEF IsSequence
  <2>2. \A S, R : S \subseteq R => Seq(S) \subseteq Seq(R)
    OBVIOUS
  <2>3. Range(p) \subseteq V /\ Range(q) \subseteq V
    OBVIOUS
  <2> HIDE DEF V
  <2> QED BY <2>1, <2>2, <2>3
<1> HIDE DEF V
<1>2. /\ r \in Seq(V) /\ Len(r) = Len(p) + Len(q)
      /\ \A i \in 1 .. Len(p) + Len(q) : r[i] = IF i <= Len(p) THEN p[i] ELSE q[i - Len(p)]
  BY <1>1, ConcatProperties
<1>3. Len(p) \in Nat /\ Len(q) \in Nat
  BY <1>1
<1> HIDE DEF r
<1>4. \A i \in 1 .. Len(p) : r[i] = p[i]
  BY <1>2, <1>3
<1>5. ASSUME NEW i \in 1 .. Len(q) PROVE r[Len(p) + i] = q[i]
  <2>1. /\ Len(p) + i \in 1 .. Len(p) + Len(q) /\ ~(Len(p) + i <= Len(p))
        /\ (Len(p) + i) - Len(p) = i
    BY <1>3
  <2> QED BY <1>2, <2>1
<1>6. IsSequence(r)
  BY <1>2, SequenceOf
<1> QED BY <1>2, <1>3, <1>4, <1>5, <1>6 DEF r

LEMMA OneChunk ==
  \A x : IsSequence(<<x>>) /\ Len(<<x>>) = 1 /\ <<x>>[1] = x
<1> TAKE x
<1>1. <<x>> \in Seq({x})
  OBVIOUS
<1> QED BY <1>1, SequenceOf

\* How many chunks a sample has.
Size(sample) == 2 * Len(sample.traces) + (IF sample.text = NoText THEN 2 ELSE 3)

TraceChunkAt(traces, n) ==
  IF n % 2 = 1 THEN [kind |-> "THREADID", id |-> traces[(n + 1) \div 2].id]
  ELSE [kind |-> "TRACEBUF", events |-> traces[(n + 1) \div 2].events]

LEMMA TraceChunksAre ==
  ASSUME NEW traces, IsSequence(traces)
  PROVE  /\ IsSequence(TraceChunks(traces)) /\ Len(TraceChunks(traces)) = 2 * Len(traces)
         /\ \A m \in 1 .. Len(traces) :
              /\ TraceChunks(traces)[2 * m - 1] = [kind |-> "THREADID", id |-> traces[m].id]
              /\ TraceChunks(traces)[2 * m] = [kind |-> "TRACEBUF", events |-> traces[m].events]
<1> DEFINE L == 2 * Len(traces)
           q == TraceChunks(traces)
<1>1. Len(traces) \in Nat /\ L \in Nat
  BY DEF IsSequence
<1>2. q = [n \in 1 .. L |-> TraceChunkAt(traces, n)]
  BY Zenon DEF TraceChunks, TraceChunkAt
<1>3. IsSequence(q) /\ Len(q) = L
  <2> HIDE DEF L, q
  <2>1. q \in Seq(Range(q)) /\ Len(q) = L
    BY <1>1, <1>2 DEF Range
  <2> QED BY <2>1 DEF IsSequence
<1>4. ASSUME NEW m \in 1 .. Len(traces)
      PROVE  /\ 2 * m - 1 \in 1 .. L /\ 2 * m \in 1 .. L
             /\ (2 * m - 1) % 2 = 1 /\ (2 * m) % 2 = 0
             /\ ((2 * m - 1) + 1) \div 2 = m /\ (2 * m + 1) \div 2 = m
  BY <1>1
<1>5. ASSUME NEW m \in 1 .. Len(traces)
      PROVE  /\ q[2 * m - 1] = [kind |-> "THREADID", id |-> traces[m].id]
             /\ q[2 * m] = [kind |-> "TRACEBUF", events |-> traces[m].events]
  <2> HIDE DEF L, q
  <2>1. q[2 * m - 1] = TraceChunkAt(traces, 2 * m - 1) /\ q[2 * m] = TraceChunkAt(traces, 2 * m)
    BY <1>2, <1>4
  <2> QED BY <1>4, <2>1 DEF TraceChunkAt
<1> QED BY <1>3, <1>5


LEMMA SmallChunks ==
  /\ \A m : IsSequence(MapsChunk(m)) /\ Len(MapsChunk(m)) = 1
            /\ MapsChunk(m)[1] = [kind |-> "PROCMAPS", maps |-> m]
  /\ \A t : /\ IsSequence(TextChunk(t)) /\ Len(TextChunk(t)) = (IF t = NoText THEN 0 ELSE 1)
            /\ t # NoText => TextChunk(t)[1] = [kind |-> "FTRACETX", text |-> t]
  /\ IsSequence(EndChunk) /\ Len(EndChunk) = 1 /\ EndChunk[1] = [kind |-> "ENDTRACE"]
<1>1. IsSequence(<<>>) /\ Len(<<>>) = 0
  BY DEF IsSequence
<1>2. ASSUME NEW m
      PROVE  /\ IsSequence(MapsChunk(m)) /\ Len(MapsChunk(m)) = 1
             /\ MapsChunk(m)[1] = [kind |-> "PROCMAPS", maps |-> m]
  BY OneChunk DEF MapsChunk
<1>3. ASSUME NEW t
      PROVE  /\ IsSequence(TextChunk(t)) /\ Len(TextChunk(t)) = (IF t = NoText THEN 0 ELSE 1)
             /\ t # NoText => TextChunk(t)[1] = [kind |-> "FTRACETX", text |-> t]
  <2>1. CASE t = NoText
    <3>1. TextChunk(t) = <<>>
      BY <2>1 DEF TextChunk
    <3> QED BY <1>1, <2>1, <3>1
  <2>2. CASE t # NoText
    <3>1. TextChunk(t) = <<[kind |-> "FTRACETX", text |-> t]>>
      BY <2>2 DEF TextChunk
    <3> QED BY <2>2, <3>1, OneChunk
  <2> QED BY <2>1, <2>2
<1>4. IsSequence(EndChunk) /\ Len(EndChunk) = 1 /\ EndChunk[1] = [kind |-> "ENDTRACE"]
  BY OneChunk DEF EndChunk
<1> QED BY <1>2, <1>3, <1>4

\* The chunks of a sample, one by one.
LEMMA ChunksAre ==
  ASSUME NEW s, IsSequence(s.traces)
  PROVE  LET q == Chunks(s)
             T == Len(s.traces)
         IN /\ IsSequence(q) /\ Len(q) = Size(s) /\ T \in Nat
            /\ q[1] = [kind |-> "PROCMAPS", maps |-> s.maps]
            /\ \A j \in 1 .. 2 * T : q[1 + j] = TraceChunks(s.traces)[j]
            /\ s.text # NoText => q[2 * T + 2] = [kind |-> "FTRACETX", text |-> s.text]
            /\ q[Size(s)] = [kind |-> "ENDTRACE"]
<1> DEFINE T == Len(s.traces)
           A == MapsChunk(s.maps)
           B == TraceChunks(s.traces)
           C == TextChunk(s.text)
           AB == A \o B
           ABC == AB \o C
           q == ABC \o EndChunk
<1>1. T \in Nat
  BY DEF IsSequence
<1>2. q = Chunks(s)
  BY DEF Chunks
<1>3. /\ IsSequence(A) /\ Len(A) = 1 /\ A[1] = [kind |-> "PROCMAPS", maps |-> s.maps]
      /\ IsSequence(C) /\ Len(C) = (IF s.text = NoText THEN 0 ELSE 1)
      /\ s.text # NoText => C[1] = [kind |-> "FTRACETX", text |-> s.text]
      /\ IsSequence(EndChunk) /\ Len(EndChunk) = 1 /\ EndChunk[1] = [kind |-> "ENDTRACE"]
  BY SmallChunks
<1>4. IsSequence(B) /\ Len(B) = 2 * T
  BY TraceChunksAre
<1> HIDE DEF A, B, C
<1>5. /\ IsSequence(AB) /\ Len(AB) = 1 + 2 * T /\ AB[1] = A[1]
      /\ \A j \in 1 .. 2 * T : AB[1 + j] = B[j]
  <2>1. /\ IsSequence(AB) /\ Len(AB) = Len(A) + Len(B)
        /\ \A i \in 1 .. Len(A) : AB[i] = A[i]
        /\ \A i \in 1 .. Len(B) : AB[Len(A) + i] = B[i]
    <3>1. IsSequence(A) /\ IsSequence(B)
      BY <1>3, <1>4
    <3> QED BY <3>1, Joined
  <2>2. Len(A) = 1 /\ Len(B) = 2 * T /\ 1 \in 1 .. Len(A)
    BY <1>3, <1>4
  <2> HIDE DEF AB
  <2> QED BY <2>1, <2>2
<1> HIDE DEF AB
<1>6. /\ IsSequence(ABC) /\ Len(ABC) = 2 * T + 1 + Len(C)
      /\ \A i \in 1 .. 2 * T + 1 : ABC[i] = AB[i]
      /\ \A i \in 1 .. Len(C) : ABC[2 * T + 1 + i] = C[i]
  <2>1. /\ IsSequence(ABC) /\ Len(ABC) = Len(AB) + Len(C)
        /\ \A i \in 1 .. Len(AB) : ABC[i] = AB[i]
        /\ \A i \in 1 .. Len(C) : ABC[Len(AB) + i] = C[i]
    <3>1. IsSequence(AB) /\ IsSequence(C)
      BY <1>3, <1>5
    <3> QED BY <3>1, Joined
  <2>2. Len(AB) = 2 * T + 1
    BY <1>1, <1>5
  <2> HIDE DEF ABC
  <2> QED BY <2>1, <2>2
<1> HIDE DEF ABC
<1>7. /\ IsSequence(q) /\ Len(q) = Len(ABC) + 1 /\ Len(ABC) \in Nat
      /\ \A i \in 1 .. Len(ABC) : q[i] = ABC[i]
      /\ q[Len(ABC) + 1] = EndChunk[1]
  <2>1. /\ IsSequence(q) /\ Len(q) = Len(ABC) + Len(EndChunk) /\ Len(ABC) \in Nat
        /\ \A i \in 1 .. Len(ABC) : q[i] = ABC[i]
        /\ \A i \in 1 .. Len(EndChunk) : q[Len(ABC) + i] = EndChunk[i]
    <3>1. IsSequence(ABC) /\ IsSequence(EndChunk)
      BY <1>3, <1>6
    <3> QED BY <3>1, Joined
  <2>2. Len(EndChunk) = 1 /\ 1 \in 1 .. Len(EndChunk)
    BY <1>3
  <2> HIDE DEF q
  <2> QED BY <2>1, <2>2
<1> HIDE DEF q
<1>8. Len(ABC) = (IF s.text = NoText THEN 2 * T + 1 ELSE 2 * T + 2) /\ Size(s) = Len(ABC) + 1
  <2>1. Len(C) = (IF s.text = NoText THEN 0 ELSE 1) /\ Len(ABC) = 2 * T + 1 + Len(C)
    BY <1>3, <1>6
  <2>2. CASE s.text = NoText
    BY <1>1, <2>1, <2>2 DEF Size
  <2>3. CASE s.text # NoText
    BY <1>1, <2>1, <2>3 DEF Size
  <2> QED BY <2>2, <2>3
<1>9. q[1] = [kind |-> "PROCMAPS", maps |-> s.maps]
  <2>1. 1 \in 1 .. 2 * T + 1 /\ 1 \in 1 .. Len(ABC)
    BY <1>1, <1>8
  <2>2. q[1] = A[1]
    BY <1>5, <1>6, <1>7, <2>1
  <2> QED BY <1>3, <2>2
<1>10. ASSUME NEW j \in 1 .. 2 * T PROVE q[1 + j] = B[j]
  <2>1. 1 + j \in 1 .. 2 * T + 1 /\ 1 + j \in 1 .. Len(ABC)
    BY <1>1, <1>8
  <2> QED BY <1>5, <1>6, <1>7, <2>1
<1>11. ASSUME s.text # NoText PROVE q[2 * T + 2] = [kind |-> "FTRACETX", text |-> s.text]
  <2>0. Len(C) = (IF s.text = NoText THEN 0 ELSE 1)
    BY <1>3
  <2>1. Len(C) = 1 /\ Len(ABC) = 2 * T + 2 /\ 2 * T + 2 \in 1 .. Len(ABC) /\ (2 * T + 1) + 1 = 2 * T + 2
    BY <1>1, <1>8, <1>11, <2>0
  <2>2. ABC[2 * T + 2] = C[1]
    BY <1>6, <2>1
  <2> QED BY <1>3, <1>7, <1>11, <2>1, <2>2
<1>12. q[Size(s)] = [kind |-> "ENDTRACE"] /\ Len(q) = Size(s)
  BY <1>3, <1>7, <1>8
<1>13. \A j \in 1 .. 2 * T : q[1 + j] = TraceChunks(s.traces)[j]
  BY <1>10 DEF B
<1> QED BY <1>1, <1>2, <1>7, <1>9, <1>11, <1>12, <1>13


------------------------------------------------------------------------------
(* The way from the samples to the JSON: which chunks of the file are whose,  *)
(* and what the decoder has when it comes to a chunk.                        *)

\* Sample i of ss has the chunks of f from at[i] + 1 to at[i + 1]: all of its
\* own, unless a crash cut the last one.
PartsOf(f, ss, at) ==
  LET K == Len(ss)
  IN /\ IsSequence(f)
     /\ at \in [1 .. K + 1 -> Nat] /\ at[1] = 0
     /\ at[K + 1] <= Len(f) /\ \A i, j \in 1 .. K + 1 : i <= j => at[i] <= at[j]
     /\ \A i \in 1 .. K :
          /\ at[i + 1] <= at[i] + Size(ss[i])
          /\ i < K \/ ss[i].safe => at[i + 1] = at[i] + Size(ss[i])
          /\ \A j \in 1 .. at[i + 1] - at[i] : f[at[i] + j] = Chunks(ss[i])[j]

Parts(at) == PartsOf(file, samples, at)

\* How many chunks there are of a sample that is being written.
Begun ==
  IF job = "mapped" THEN 1 ELSE IF job = "traced" THEN 1 + 2 * Len(taking.traces) ELSE 0

\* As long as the program runs, no sample is cut, the one that is being written
\* comes last, and all but the last are flushed.
Growing(at) ==
  LET K == Len(samples)
  IN /\ \A i \in 1 .. K : at[i + 1] = at[i] + Size(samples[i])
     /\ Len(file) = at[K + 1] + Begun
     /\ \A j \in 1 .. Begun : file[at[K + 1] + j] = Chunks(taking)[j]
     /\ \A i \in 1 .. K : i < K \/ samples[i].safe => at[i + 1] <= flushed
     /\ Begun > 0 => at[K + 1] <= flushed

\* Afterwards, a chunk or a magic string that was cut may follow.
Finished(at) ==
  LET end == at[Len(samples) + 1]
  IN \/ Len(file) = end
     \/ Len(file) = end + 1 /\ file[Len(file)].kind \in {"MAGIC_CUT", "CHUNK_CUT"}

\* What the program has not written yet has no ftrace events and is not safe;
\* it writes either its own file or funtrace.raw, which is flushed each time.
Fresh ==
  /\ stage \in {"running", "ended", "crashed", "decoding"}
  /\ taking.text = NoText /\ ~taking.safe
  /\ snapshot # Nothing => ~snapshot.safe /\ way = "api"
  /\ way = "api" => job \in {"idle", "get", "copied"}
  /\ way # "api" => /\ job \in {"idle", "write", "mapped", "traced"}
                    /\ stage = "running" => \A i \in DOMAIN samples : samples[i].safe

\* The samples have their maps.
MapTables == [Slots -> Objects \cup {Nothing}]

HaveMaps ==
  /\ \A i \in DOMAIN samples : samples[i].maps \in MapTables
  /\ snapshot # Nothing => snapshot.maps \in MapTables
  /\ job \in {"mapped", "traced"} => taking.maps \in MapTables

\* How many of the first d samples have a number.
Count(d) == Len(Selected(samples, ToShow, d))

\* The first m traces of sample i, but for those without events.
Upto(i, m) == Selected(samples[i].traces, Filled(samples[i].traces), m)

\* A JSON is that of sample i.
Shows(json, i) ==
  /\ samples[i] \in ToShow /\ json.number = Count(i - 1)
  /\ IF json.closed THEN json.traces = Kept(samples[i].traces) /\ json.text = samples[i].text
     ELSE /\ \E m \in 0 .. Len(samples[i].traces) : json.traces = Upto(i, m)
          /\ json.text \in {NoText, samples[i].text}
  /\ json.names = [a \in {e.at : e \in EventsIn(json.traces)} |-> Alone(samples[i].maps, a)]
  /\ json.ignored = {a \in DOMAIN json.names : IsThunk(json.names[a])}

\* The JSON files are those of the first d samples, and then that of an open one.
JsonsSound(d) ==
  /\ IsSequence(jsons)
  /\ \A k \in 1 .. Len(jsons) : \E i \in 1 .. Len(samples) : Shows(jsons[k], i)
  /\ \A k \in 1 .. Len(jsons) :
       IF jsons[k].closed THEN jsons[k].number < Count(d)
       ELSE jsons[k].number = Count(d) /\ k = Len(jsons) /\ status = "done"
  /\ \A k \in 2 .. Len(jsons) : jsons[k - 1].number < jsons[k].number
  /\ \A i \in 1 .. d :
       samples[i] \in ToShow /\ (Chosen = {} \/ Count(i - 1) \in Chosen) =>
         \E k \in 1 .. Len(jsons) : jsons[k].number = Count(i - 1) /\ jsons[k].closed

\* The decoder has read m traces of sample i, and comes to its chunk o.
Within(i, o, m) ==
  LET T == Len(samples[i].traces)
  IN /\ m <= T /\ (o = 2 * m + 2 \/ o = 2 * m + 3)
     /\ o = 2 * m + 3 /\ m < T => thread = samples[i].traces[m + 1].id
     /\ entries = Upto(i, m)
     /\ text = IF o > 2 * T + 2 THEN samples[i].text ELSE NoText
     /\ maps = samples[i].maps
     /\ status = "reading" => DOMAIN syms = {} /\ DOMAIN offsets = {}

\* The decoder has read d samples and comes to the chunk o of the next.
Place(at, d, o, m) ==
  LET K == Len(samples)
  IN /\ next = at[d + 1] + o + (IF status = "failed" THEN 1 ELSE 0)
     /\ IF d = K THEN o = 1
        ELSE o <= Size(samples[d + 1]) /\ at[d + 1] + o <= at[d + 2] + 1
     /\ IF o = 1 THEN entries = <<>> /\ text = NoText ELSE Within(d + 1, o, m)
     /\ number = Count(d)
     /\ JsonsSound(d)
     /\ status \in {"reading", "done", "failed"}
     /\ status # "reading" => at[d + 1] + o > at[K + 1]
     /\ status = "failed" => Len(file) > at[K + 1]

Decoded(at) ==
  \E d \in 0 .. Len(samples), o \in Nat \ {0}, m \in Nat : Place(at, d, o, m)

Unread ==
  /\ next = 1 /\ status = "reading" /\ entries = <<>> /\ text = NoText /\ number = 0
  /\ jsons = <<>> /\ syms = <<>> /\ offsets = <<>>

Laid(at) ==
  /\ Parts(at) /\ flushed \in 0 .. Len(file)
  /\ stage = "running" => Growing(at)
  /\ stage # "running" => Finished(at)
  /\ stage = "decoding" => Decoded(at)

\* The caches are filled from the maps for addresses that were seen.
Cached ==
  /\ maps \in MapTables
  /\ DOMAIN syms \subseteq Addresses /\ \A a \in DOMAIN syms : syms[a] \in Symbol
  /\ DOMAIN offsets \subseteq Slots /\ \A s \in DOMAIN offsets : offsets[s] \in Objects

DInv ==
  /\ Fresh /\ HaveMaps /\ Cached
  /\ stage # "decoding" => Unread
  /\ \E at : Laid(at)

------------------------------------------------------------------------------
(* The steps of the program.                                                *)

LEMMA SizeIs ==
  ASSUME NEW x \in Sample
  PROVE  /\ IsSequence(x.traces) /\ Len(x.traces) \in Nat /\ Size(x) \in Nat
         /\ Size(x) >= 2 * Len(x.traces) + 2 /\ Size(x) <= 2 * Len(x.traces) + 3
<1>1. x.traces \in Seq(Trace)
  BY DEF Sample
<1>2. IsSequence(x.traces) /\ Len(x.traces) \in Nat
  BY <1>1, SequenceOf
<1>3. CASE x.text = NoText
  BY <1>2, <1>3 DEF Size
<1>4. CASE x.text # NoText
  BY <1>2, <1>4 DEF Size
<1> QED BY <1>2, <1>3, <1>4

LEMMA PartsRise ==
  ASSUME NEW f, NEW ss, NEW at, PartsOf(f, ss, at), Len(ss) \in Nat
  PROVE  /\ \A i \in 1 .. Len(ss) + 1 : at[i] \in Nat /\ at[i] <= at[Len(ss) + 1]
         /\ \A i \in 1 .. Len(ss) : at[i] <= at[i + 1]
<1> DEFINE K == Len(ss)
<1>1. at \in [1 .. K + 1 -> Nat] /\ \A i, j \in 1 .. K + 1 : i <= j => at[i] <= at[j]
  BY DEF PartsOf
<1>2. K \in Nat
  OBVIOUS
<1> HIDE DEF K
<1>3. \A i \in 1 .. K + 1 : at[i] \in Nat /\ at[i] <= at[K + 1]
  <2>1. K + 1 \in 1 .. K + 1 /\ \A i \in 1 .. K + 1 : i <= K + 1
    BY <1>2
  <2> QED BY <1>1, <2>1
<1>4. \A i \in 1 .. K : at[i] <= at[i + 1]
  <2>1. \A i \in 1 .. K : i \in 1 .. K + 1 /\ i + 1 \in 1 .. K + 1 /\ i <= i + 1
    BY <1>2
  <2> QED BY <1>1, <2>1
<1> QED BY <1>3, <1>4 DEF K

\* What follows the samples' parts does not matter to them.
LEMMA PartsStay ==
  ASSUME NEW f, NEW g, NEW ss, NEW at, PartsOf(f, ss, at), Len(ss) \in Nat,
         IsSequence(g), at[Len(ss) + 1] <= Len(g), \A i \in 1 .. at[Len(ss) + 1] : g[i] = f[i]
  PROVE  PartsOf(g, ss, at)
<1> DEFINE K == Len(ss)
<1>1. /\ at \in [1 .. K + 1 -> Nat] /\ at[1] = 0
      /\ \A i, j \in 1 .. K + 1 : i <= j => at[i] <= at[j]
      /\ \A i \in 1 .. K :
           /\ at[i + 1] <= at[i] + Size(ss[i])
           /\ i < K \/ ss[i].safe => at[i + 1] = at[i] + Size(ss[i])
           /\ \A j \in 1 .. at[i + 1] - at[i] : f[at[i] + j] = Chunks(ss[i])[j]
  BY DEF PartsOf
<1>2. ASSUME NEW i \in 1 .. K, NEW j \in 1 .. at[i + 1] - at[i]
      PROVE  g[at[i] + j] = Chunks(ss[i])[j]
  <2>0. K \in Nat /\ \A h \in 1 .. K + 1 : at[h] \in Nat /\ at[h] <= at[K + 1]
    BY PartsRise
  <2> HIDE DEF K
  <2>1. i \in 1 .. K + 1 /\ i + 1 \in 1 .. K + 1 /\ K + 1 \in 1 .. K + 1
    BY <2>0
  <2>2. at[i] \in Nat /\ at[i + 1] \in Nat /\ at[K + 1] \in Nat
    BY <2>0, <2>1
  <2>3. at[i + 1] <= at[K + 1]
    BY <2>0, <2>1
  <2>4. at[i] + j \in 1 .. at[K + 1]
    BY <2>2, <2>3
  <2>5. g[at[i] + j] = f[at[i] + j]
    BY <2>4 DEF K
  <2> QED BY <1>1, <2>5
<1> QED BY <1>1, <1>2 DEF PartsOf

\* Another sample comes after the others, which are whole.
Adds(f, ss, at, x, n) ==
  LET N == at[Len(ss) + 1]
  IN /\ ss \in Seq(Sample) /\ x \in Sample /\ n \in Nat
     /\ PartsOf(f, ss, at)
     /\ \A i \in 1 .. Len(ss) : at[i + 1] = at[i] + Size(ss[i])
     /\ N <= n /\ n <= Len(f) /\ n <= N + Size(x) /\ (x.safe => n = N + Size(x))
     /\ \A j \in 1 .. n - N : f[N + j] = Chunks(x)[j]

Added(ss, at, n) == [i \in 1 .. Len(ss) + 2 |-> IF i = Len(ss) + 2 THEN n ELSE at[i]]

LEMMA PartAdded ==
  ASSUME NEW f, NEW ss, NEW at, NEW x, NEW n, Adds(f, ss, at, x, n)
  PROVE  PartsOf(f, Append(ss, x), Added(ss, at, n))
<1> DEFINE K == Len(ss)
           L == K + 1
           tt == Append(ss, x)
           bt == [i \in 1 .. L + 1 |-> IF i = L + 1 THEN n ELSE at[i]]
<1>0. ss \in Seq(Sample) /\ x \in Sample /\ n \in Nat /\ K \in Nat /\ K + 2 = L + 1 /\ PartsOf(f, ss, at)
  BY DEF Adds
<1>1. /\ IsSequence(f) /\ at \in [1 .. L -> Nat] /\ at[1] = 0
      /\ \A i, j \in 1 .. L : i <= j => at[i] <= at[j]
      /\ \A i \in 1 .. K : \A j \in 1 .. at[i + 1] - at[i] : f[at[i] + j] = Chunks(ss[i])[j]
  BY <1>0 DEF PartsOf
<1>2. /\ \A i \in 1 .. K : at[i + 1] = at[i] + Size(ss[i])
      /\ at[L] <= n /\ n <= Len(f) /\ n <= at[L] + Size(x)
      /\ x.safe => n = at[L] + Size(x)
      /\ \A j \in 1 .. n - at[L] : f[at[L] + j] = Chunks(x)[j]
  BY Zenon DEF Adds
<1>3. Len(tt) = L /\ tt[L] = x /\ \A i \in 1 .. K : tt[i] = ss[i]
  BY <1>0, AppendProperties
<1>4. \A i \in 1 .. K : ss[i] \in Sample /\ Size(ss[i]) \in Nat
  <2>1. \A i \in 1 .. K : ss[i] \in Sample
    BY <1>0
  <2> QED BY <2>1, SizeIs
<1> HIDE DEF K, tt
<1>5. bt[L + 1] = n /\ bt[L] = at[L] /\ \A i \in 1 .. L : bt[i] = at[i]
  BY <1>0
<1>6. bt \in [1 .. L + 1 -> Nat] /\ bt[1] = 0
  BY <1>0, <1>1
<1>7. \A i \in 1 .. K : i \in 1 .. L /\ i + 1 \in 1 .. L
  BY <1>0
<1>8. L \in 1 .. L /\ (\A i \in 1 .. L : i \in 1 .. K \/ i = L) /\ L \in Nat
  BY <1>0
<1> HIDE DEF bt, L
<1>9. at[L] \in Nat /\ \A i \in 1 .. K : at[i] \in Nat /\ at[i + 1] \in Nat
  BY <1>1, <1>7, <1>8
<1>10. ASSUME NEW i \in 1 .. L + 1, NEW j \in 1 .. L + 1, i <= j PROVE bt[i] <= bt[j]
  <2>1. (i \in 1 .. L /\ j \in 1 .. L) \/ (i \in 1 .. L /\ j = L + 1) \/ (i = L + 1 /\ j = L + 1)
    BY <1>8, <1>10
  <2>2. CASE i \in 1 .. L /\ j \in 1 .. L
    BY <1>1, <1>5, <1>10, <2>2
  <2>3. CASE i \in 1 .. L /\ j = L + 1
    <3>1. at[i] <= at[L] /\ at[i] \in Nat
      <4>1. i <= L
        BY <1>8, <2>3
      <4> QED BY <1>1, <1>8, <2>3, <4>1
    <3> QED BY <1>0, <1>2, <1>5, <1>9, <2>3, <3>1
  <2>4. CASE i = L + 1 /\ j = L + 1
    BY <1>0, <1>5, <2>4
  <2> QED BY <2>1, <2>2, <2>3, <2>4
<1>11. ASSUME NEW i \in 1 .. K
       PROVE  /\ bt[i + 1] = bt[i] + Size(tt[i])
              /\ \A j \in 1 .. bt[i + 1] - bt[i] : f[bt[i] + j] = Chunks(tt[i])[j]
  <2>1. bt[i] = at[i] /\ bt[i + 1] = at[i + 1] /\ tt[i] = ss[i]
    BY <1>3, <1>5, <1>7
  <2>2. at[i + 1] = at[i] + Size(ss[i])
    BY <1>2
  <2> QED BY <1>1, <2>1, <2>2
<1>12. /\ bt[L + 1] <= bt[L] + Size(tt[L])
       /\ tt[L].safe => bt[L + 1] = bt[L] + Size(tt[L])
       /\ \A j \in 1 .. bt[L + 1] - bt[L] : f[bt[L] + j] = Chunks(tt[L])[j]
  BY <1>2, <1>3, <1>5
<1>13. /\ bt[L + 1] <= Len(f)
       /\ \A i \in 1 .. L :
            /\ bt[i + 1] <= bt[i] + Size(tt[i])
            /\ i < L \/ tt[i].safe => bt[i + 1] = bt[i] + Size(tt[i])
            /\ \A j \in 1 .. bt[i + 1] - bt[i] : f[bt[i] + j] = Chunks(tt[i])[j]
  <2>1. \A i \in 1 .. K : bt[i + 1] <= bt[i] + Size(tt[i])
    <3> TAKE i \in 1 .. K
    <3>1. bt[i] \in Nat /\ Size(tt[i]) \in Nat
      BY <1>3, <1>4, <1>5, <1>7, <1>9
    <3> QED BY <1>11, <3>1
  <2>2. ~(L < L) /\ bt[L + 1] <= Len(f)
    BY <1>2, <1>5, <1>8
  <2> QED BY <1>8, <1>11, <1>12, <2>1, <2>2
<1>14. PartsOf(f, tt, bt)
  <2>1. /\ IsSequence(f) /\ bt \in [1 .. L + 1 -> Nat] /\ bt[1] = 0 /\ bt[L + 1] <= Len(f)
        /\ \A i, j \in 1 .. L + 1 : i <= j => bt[i] <= bt[j]
    BY <1>1, <1>6, <1>10, <1>13
  <2> QED BY <1>3, <1>13, <2>1, Zenon DEF PartsOf
<1> QED BY <1>0, <1>14 DEF Added, bt, tt, K, L

\* The last sample is cut.
LEMMA PartCut ==
  ASSUME NEW f, NEW g, NEW ss \in Seq(Sample), NEW at, PartsOf(f, ss, at), NEW n \in Nat,
         Len(ss) # 0, IsSequence(g), n <= Len(g), at[Len(ss)] <= n, n <= at[Len(ss) + 1],
         ss[Len(ss)].safe => n = at[Len(ss) + 1],
         \A i \in 1 .. n : g[i] = f[i]
  PROVE  PartsOf(g, ss, [at EXCEPT ![Len(ss) + 1] = n])
<1> DEFINE K == Len(ss)
           bt == [at EXCEPT ![K + 1] = n]
<1>0. K \in Nat \ {0} /\ \A i \in 1 .. K : ss[i] \in Sample
  OBVIOUS
<1>1. /\ IsSequence(f) /\ at \in [1 .. K + 1 -> Nat] /\ at[1] = 0
      /\ \A i, j \in 1 .. K + 1 : i <= j => at[i] <= at[j]
      /\ \A i \in 1 .. K :
           /\ at[i + 1] <= at[i] + Size(ss[i])
           /\ i < K \/ ss[i].safe => at[i + 1] = at[i] + Size(ss[i])
           /\ \A j \in 1 .. at[i + 1] - at[i] : f[at[i] + j] = Chunks(ss[i])[j]
  BY DEF PartsOf
<1>2. /\ n <= Len(g) /\ at[K] <= n /\ n <= at[K + 1] /\ (ss[K].safe => n = at[K + 1])
      /\ \A i \in 1 .. n : g[i] = f[i]
  OBVIOUS
<1>3. \A i \in 1 .. K : Size(ss[i]) \in Nat
  BY <1>0, SizeIs
<1> HIDE DEF K
<1>4. /\ \A i \in 1 .. K : i \in 1 .. K + 1 /\ i + 1 \in 1 .. K + 1 /\ i # K + 1
      /\ \A i \in 1 .. K - 1 : i \in 1 .. K /\ i + 1 \in 1 .. K
      /\ \A i \in 1 .. K : (i \in 1 .. K - 1 /\ i < K) \/ (i = K /\ ~(i < K))
      /\ K + 1 \in 1 .. K + 1 /\ K \in 1 .. K /\ 1 \in 1 .. K /\ 1 \in 1 .. K + 1
  BY <1>0
<1>5. /\ bt \in [1 .. K + 1 -> Nat] /\ bt[K + 1] = n /\ \A i \in 1 .. K : bt[i] = at[i]
  BY <1>1, <1>4
<1>6. at[K + 1] \in Nat /\ \A i \in 1 .. K : at[i] \in Nat /\ at[i + 1] \in Nat
  BY <1>1, <1>4
<1> HIDE DEF bt
<1>12. \A i \in 1 .. K : i <= K /\ (i < K => i + 1 \in 1 .. K /\ i + 1 <= K)
  BY <1>0
<1>7. \A i \in 1 .. K : at[i] <= n
  <2> TAKE i \in 1 .. K
  <2>1. at[i] <= at[K] /\ at[K] \in Nat /\ at[i] \in Nat
    BY <1>1, <1>4, <1>6, <1>12
  <2> QED BY <1>2, <2>1
<1>13. ASSUME NEW i \in 1 .. K + 1, NEW j \in 1 .. K + 1, i <= j PROVE bt[i] <= bt[j]
  <2>1. (i \in 1 .. K /\ j \in 1 .. K) \/ (i \in 1 .. K /\ j = K + 1) \/ (i = K + 1 /\ j = K + 1)
    BY <1>0, <1>13
  <2>2. CASE i \in 1 .. K /\ j \in 1 .. K
    BY <1>1, <1>5, <1>13, <2>2
  <2>3. CASE i \in 1 .. K /\ j = K + 1
    BY <1>5, <1>7, <2>3
  <2>4. CASE i = K + 1 /\ j = K + 1
    BY <1>5, <2>4
  <2> QED BY <2>1, <2>2, <2>3, <2>4
<1>8. ASSUME NEW i \in 1 .. K
      PROVE  /\ bt[i + 1] <= bt[i] + Size(ss[i])
             /\ i < K \/ ss[i].safe => bt[i + 1] = bt[i] + Size(ss[i])
             /\ bt[i + 1] <= at[i + 1] /\ bt[i] = at[i] /\ bt[i + 1] \in Nat /\ bt[i + 1] <= n
  <2>1. CASE i \in 1 .. K - 1 /\ i < K
    <3>1. i + 1 \in 1 .. K /\ bt[i] = at[i] /\ bt[i + 1] = at[i + 1]
      BY <1>4, <1>5, <2>1
    <3> QED BY <1>1, <1>6, <1>7, <2>1, <3>1
  <2>2. CASE i = K /\ ~(i < K)
    <3>1. bt[i + 1] = n /\ bt[i] = at[i] /\ at[i + 1] = at[K + 1]
      BY <1>4, <1>5, <2>2
    <3>2. n <= at[K] + Size(ss[K]) /\ (ss[K].safe => n = at[K] + Size(ss[K]))
      <4>1. at[K + 1] <= at[K] + Size(ss[K]) /\ (ss[K].safe => at[K + 1] = at[K] + Size(ss[K]))
        BY <1>1, <1>4
      <4>2. at[K] \in Nat /\ Size(ss[K]) \in Nat /\ at[K + 1] \in Nat
        BY <1>3, <1>4, <1>6
      <4> QED BY <1>2, <4>1, <4>2
    <3> QED BY <1>2, <1>6, <2>2, <3>1, <3>2
  <2> QED BY <1>4, <2>1, <2>2
<1>9. ASSUME NEW i \in 1 .. K, NEW j \in 1 .. bt[i + 1] - bt[i]
      PROVE  g[bt[i] + j] = Chunks(ss[i])[j]
  <2>1. j \in 1 .. at[i + 1] - at[i] /\ at[i] + j \in 1 .. n /\ bt[i] = at[i]
    BY <1>6, <1>8
  <2>2. g[at[i] + j] = f[at[i] + j] /\ f[at[i] + j] = Chunks(ss[i])[j]
    BY <1>1, <1>2, <2>1
  <2> QED BY <2>1, <2>2
<1>10. bt[1] = 0 /\ bt[K + 1] <= Len(g)
  BY <1>1, <1>2, <1>4, <1>5
<1>11. PartsOf(g, ss, bt)
  <2>1. /\ IsSequence(g) /\ bt \in [1 .. Len(ss) + 1 -> Nat] /\ bt[1] = 0 /\ bt[Len(ss) + 1] <= Len(g)
        /\ \A i, j \in 1 .. Len(ss) + 1 : i <= j => bt[i] <= bt[j]
    BY <1>5, <1>10, <1>13 DEF K
  <2> QED BY <1>8, <1>9, <2>1, Zenon DEF PartsOf, K
<1> QED BY <1>11 DEF bt, K

\* One sample that is whole.
LEMMA OnePart ==
  ASSUME NEW x \in Sample
  PROVE  PartsOf(Chunks(x), <<x>>, [i \in 1 .. 2 |-> IF i = 1 THEN 0 ELSE Size(x)])
<1> DEFINE at == [i \in 1 .. 2 |-> IF i = 1 THEN 0 ELSE Size(x)]
<1>1. Size(x) \in Nat /\ IsSequence(x.traces)
  BY SizeIs
<1>2. IsSequence(Chunks(x)) /\ Len(Chunks(x)) = Size(x)
  BY <1>1, ChunksAre
<1>3. Len(<<x>>) = 1 /\ <<x>>[1] = x
  OBVIOUS
<1>4. at \in [1 .. 1 + 1 -> Nat] /\ at[1] = 0 /\ at[2] = Size(x)
  BY <1>1
<1> HIDE DEF at
<1>5. \A i \in 1 .. 1 : i = 1 /\ i + 1 = 2
  OBVIOUS
<1>6. ASSUME NEW i \in 1 .. 1
      PROVE  /\ at[i + 1] = at[i] + Size(<<x>>[i])
             /\ at[i + 1] <= at[i] + Size(<<x>>[i])
             /\ \A j \in 1 .. at[i + 1] - at[i] : Chunks(x)[at[i] + j] = Chunks(<<x>>[i])[j]
  <2>1. at[i] = 0 /\ at[i + 1] = Size(x) /\ <<x>>[i] = x
    BY <1>3, <1>4, <1>5
  <2>2. \A j \in 1 .. Size(x) - 0 : 0 + j = j
    BY <1>1
  <2> QED BY <1>1, <2>1, <2>2
<1>7. at[1 + 1] <= Len(Chunks(x)) /\ \A i, j \in 1 .. 1 + 1 : i <= j => at[i] <= at[j]
  BY <1>1, <1>2, <1>4
<1>8. PartsOf(Chunks(x), <<x>>, at)
  BY <1>2, <1>3, <1>4, <1>6, <1>7, Zenon DEF PartsOf
<1> QED BY <1>8 DEF at

LEMMA SameButFlushed ==
  ASSUME Typed, DOMAIN samples # {}, samples' = [samples EXCEPT ![1].safe = TRUE]
  PROVE  /\ samples' \in Seq(Sample) /\ Len(samples') = Len(samples)
         /\ \A i \in DOMAIN samples :
              /\ samples'[i].traces = samples[i].traces /\ samples'[i].text = samples[i].text
              /\ samples'[i].maps = samples[i].maps
              /\ i # 1 => samples'[i].safe = samples[i].safe
<1>1. samples \in Seq(Sample) /\ 1 \in DOMAIN samples
  BY DEF Typed
<1> DEFINE x == [samples[1] EXCEPT !.safe = TRUE]
<1>2. samples[1] \in Sample
  BY <1>1
<1>3. x \in Sample /\ x.traces = samples[1].traces /\ x.text = samples[1].text /\ x.maps = samples[1].maps
  BY <1>2 DEF Sample
<1>4. samples' = [samples EXCEPT ![1] = x]
  OBVIOUS
<1> HIDE DEF x
<1>5. /\ samples' \in Seq(Sample) /\ Len(samples') = Len(samples)
      /\ \A i \in 1 .. Len(samples) : samples'[i] = IF i = 1 THEN x ELSE samples[i]
  <2>1. 1 \in 1 .. Len(samples)
    BY <1>1
  <2>2. x \in Sample /\ samples \in Seq(Sample)
    BY <1>1, <1>3
  <2>3. /\ [samples EXCEPT ![1] = x] \in Seq(Sample)
        /\ Len([samples EXCEPT ![1] = x]) = Len(samples)
        /\ \A j \in 1 .. Len(samples) :
             [samples EXCEPT ![1] = x][j] = IF j = 1 THEN x ELSE samples[j]
    BY <2>1, <2>2, ExceptSeq
  <2> QED BY <1>4, <2>3
<1>6. samples'[1] = x /\ \A i \in DOMAIN samples : i # 1 => samples'[i] = samples[i]
  BY <1>1, <1>5
<1> QED BY <1>3, <1>5, <1>6

FreshSteps == Fresh' /\ HaveMaps'

LEMMA FreshAside ==
  ASSUME Fresh, HaveMaps, UNCHANGED <<taking, snapshot, way, samples, job>>,
         stage' = stage \/ stage' \in {"ended", "crashed", "decoding"}
  PROVE  FreshSteps
BY DEF Fresh, HaveMaps, FreshSteps, MapTables

LEMMA FreshWrite ==
  ASSUME IInv, Fresh, HaveMaps, NEW t \in Texts,
         WritePause \/ WriteMaps \/ WriteTraces \/ WriteEnd(t)
  PROVE  FreshSteps
<1> USE DEF FreshSteps
<1>0. stage' = stage /\ way' = way /\ snapshot' = snapshot /\ stage = "running" /\ taking \in Sample
  BY DEF WritePause, WriteMaps, WriteTraces, WriteEnd, fileVars, IInv, Typed
<1>1. CASE WritePause
  BY <1>0, <1>1 DEF WritePause, Fresh, HaveMaps, MapTables, Blank, fileVars
<1>2. CASE WriteMaps
  <2>1. ProcMaps \in MapTables
    BY ProcMapsAre DEF IInv, MapTables
  <2>2. taking' = [taking EXCEPT !.maps = ProcMaps] /\ samples' = samples /\ job = "write" /\ job' = "mapped"
    BY <1>2 DEF WriteMaps
  <2>3. taking'.text = taking.text /\ taking'.safe = taking.safe /\ taking'.maps = ProcMaps
    BY <1>0, <2>2 DEF Sample
  <2> QED BY <1>0, <2>1, <2>2, <2>3 DEF Fresh, HaveMaps, MapTables
<1>3. CASE WriteTraces
  <2>2. taking' = [taking EXCEPT !.traces = Traces] /\ samples' = samples /\ job = "mapped" /\ job' = "traced"
    BY <1>3 DEF WriteTraces
  <2>3. taking'.text = taking.text /\ taking'.safe = taking.safe /\ taking'.maps = taking.maps
    BY <1>0, <2>2 DEF Sample
  <2> QED BY <1>0, <2>2, <2>3 DEF Fresh, HaveMaps, MapTables
<1>4. CASE WriteEnd(t)
  <2> DEFINE x == [taking EXCEPT !.text = t, !.gone = closed, !.safe = TRUE]
  <2>1. samples' = Append(samples, x) /\ taking' = taking /\ job = "traced" /\ job' = "idle"
    BY <1>4 DEF WriteEnd
  <2>2. x \in Sample /\ x.safe /\ x.maps = taking.maps
    BY <1>0 DEF IInv, Typed, Sample
  <2> HIDE DEF x
  <2>3. samples \in Seq(Sample)
    BY DEF IInv, Typed
  <2>4. /\ DOMAIN samples' = DOMAIN samples \cup {Len(samples) + 1}
        /\ samples'[Len(samples) + 1] = x /\ \A i \in DOMAIN samples : samples'[i] = samples[i]
    BY <2>1, <2>2, <2>3, AppendProperties
  <2>5. \A i \in DOMAIN samples' : samples'[i] = x \/ (i \in DOMAIN samples /\ samples'[i] = samples[i])
    BY <2>4
  <2>6. Fresh'
    BY <1>0, <2>1, <2>2, <2>5 DEF Fresh
  <2>7. HaveMaps'
    BY <1>0, <2>1, <2>2, <2>5 DEF HaveMaps, MapTables
  <2> QED BY <2>6, <2>7
<1> QED BY <1>1, <1>2, <1>3, <1>4

LEMMA FreshGet ==
  ASSUME IInv, Fresh, HaveMaps, NEW t \in Texts,
         GetPause \/ GetTraces \/ GetMaps(t) \/ WriteSnapshot \/ FlushSnapshot \/ FreeSnapshot
  PROVE  FreshSteps
<1> USE DEF FreshSteps
<1>0. stage' = stage /\ way' = way /\ stage = "running" /\ taking \in Sample /\ samples \in Seq(Sample)
  BY DEF GetPause, GetTraces, GetMaps, WriteSnapshot, FlushSnapshot, FreeSnapshot, fileVars, IInv, Typed
<1>1. CASE GetPause
  BY <1>0, <1>1 DEF GetPause, Fresh, HaveMaps, MapTables, Blank, fileVars
<1>2. CASE GetTraces
  <2>2. /\ taking' = [taking EXCEPT !.traces = Traces] /\ samples' = samples /\ snapshot' = snapshot
        /\ job = "get" /\ job' = "copied"
    BY <1>2 DEF GetTraces, fileVars
  <2>3. taking'.text = taking.text /\ taking'.safe = taking.safe
    BY <1>0, <2>2 DEF Sample
  <2> QED BY <1>0, <2>2, <2>3 DEF Fresh, HaveMaps, MapTables
<1>3. CASE GetMaps(t)
  <2>1. ProcMaps \in MapTables
    BY ProcMapsAre DEF IInv, MapTables
  <2>2. /\ snapshot' = [taking EXCEPT !.text = t, !.maps = ProcMaps, !.gone = closed]
        /\ samples' = samples /\ taking' = taking /\ job = "copied" /\ job' = "idle"
    BY <1>3 DEF GetMaps, fileVars
  <2>3. snapshot'.safe = taking.safe /\ snapshot'.maps = ProcMaps
    BY <1>0, <2>2 DEF Sample
  <2> QED BY <1>0, <2>1, <2>2, <2>3 DEF Fresh, HaveMaps, MapTables
<1>4. CASE WriteSnapshot
  <2>1. /\ snapshot # Nothing /\ samples' = <<snapshot>> /\ taking' = taking /\ job' = job
        /\ snapshot' = snapshot
    BY <1>4 DEF WriteSnapshot
  <2>2. \A i \in DOMAIN samples' : samples'[i] = snapshot
    BY <2>1
  <2> QED BY <1>0, <2>1, <2>2 DEF Fresh, HaveMaps, MapTables
<1>5. CASE FlushSnapshot
  <2>1. /\ samples' = [samples EXCEPT ![1].safe = TRUE] /\ taking' = taking /\ job' = job
        /\ snapshot' = snapshot /\ way = "api"
    BY <1>5 DEF FlushSnapshot
  <2>2. \A i \in DOMAIN samples' : i \in DOMAIN samples /\ samples'[i].maps = samples[i].maps
    <3>1. DOMAIN samples' = DOMAIN samples
      BY <1>0, <2>1
    <3>2. CASE DOMAIN samples = {}
      BY <3>1, <3>2
    <3>3. CASE DOMAIN samples # {}
      BY <2>1, <3>1, <3>3, SameButFlushed DEF IInv
    <3> QED BY <3>2, <3>3
  <2> QED BY <1>0, <2>1, <2>2 DEF Fresh, HaveMaps, MapTables
<1>6. CASE FreeSnapshot
  BY <1>0, <1>6 DEF FreeSnapshot, Fresh, HaveMaps, MapTables, fileVars
<1> QED BY <1>1, <1>2, <1>3, <1>4, <1>5, <1>6

LEMMA FreshEnd ==
  ASSUME IInv, Fresh, HaveMaps, NEW t \in Texts, NEW n, NEW tail,
         Crash(n, tail) \/ CoreDump(t) \/ StartDecoder
  PROVE  FreshSteps
<1> USE DEF FreshSteps
<1>0. way' = way /\ taking \in Sample /\ samples \in Seq(Sample)
  BY DEF Crash, CoreDump, StartDecoder, fileVars, IInv, Typed
<1>1. CASE Crash(n, tail)
  <2> DEFINE x == [taking EXCEPT !.gone = closed]
  <2>1. /\ samples' = IF job \in {"mapped", "traced"} THEN Append(samples, x) ELSE samples
        /\ stage' = "crashed" /\ UNCHANGED <<job, taking, snapshot>>
    BY <1>1 DEF Crash
  <2>2. CASE job \in {"mapped", "traced"}
    <3>1. x \in Sample /\ x.maps = taking.maps
      BY <1>0 DEF IInv, Typed, Sample
    <3> HIDE DEF x
    <3>2. /\ DOMAIN samples' = DOMAIN samples \cup {Len(samples) + 1}
          /\ samples'[Len(samples) + 1] = x /\ \A i \in DOMAIN samples : samples'[i] = samples[i]
      BY <1>0, <2>1, <2>2, <3>1, AppendProperties
    <3>3. \A i \in DOMAIN samples' : samples'[i] = x \/ (i \in DOMAIN samples /\ samples'[i] = samples[i])
      BY <3>2
    <3>4. HaveMaps'
      BY <2>1, <2>2, <3>1, <3>3 DEF HaveMaps, MapTables
    <3>5. Fresh'
      BY <1>0, <2>1 DEF Fresh
    <3> QED BY <3>4, <3>5
  <2>3. CASE job \notin {"mapped", "traced"}
    BY <1>0, <2>1, <2>3, FreshAside
  <2> QED BY <2>2, <2>3
<1>2. CASE CoreDump(t)
  <2>1. ProcMaps \in MapTables
    BY ProcMapsAre DEF IInv, MapTables
  <2> DEFINE x == [traces |-> Traces, text |-> t, maps |-> ProcMaps, gone |-> closed, safe |-> TRUE]
  <2>2. samples' = <<x>> /\ stage' = "ended" /\ UNCHANGED <<job, taking, snapshot>>
    BY <1>2 DEF CoreDump
  <2>3. x.maps \in MapTables
    BY <2>1
  <2> HIDE DEF x
  <2>4. \A i \in DOMAIN samples' : samples'[i] = x
    BY <2>2
  <2>5. HaveMaps'
    BY <2>2, <2>3, <2>4 DEF HaveMaps, MapTables
  <2>6. Fresh'
    BY <1>0, <2>2 DEF Fresh
  <2> QED BY <2>5, <2>6
<1>3. CASE StartDecoder
  BY <1>0, <1>3 DEF StartDecoder, Fresh, HaveMaps, MapTables, Blank, fileVars
<1> QED BY <1>1, <1>2, <1>3

LEMMA FreshStays ==
  ASSUME IInv, Fresh, HaveMaps, [Next]_vars
  PROVE  FreshSteps
<1>1. CASE Program
  <2>1. CASE \E s \in Slots, o \in Objects : Open(s, o)
    BY <2>1, FreshAside DEF Open, fileVars
  <2>2. CASE \E s \in Slots : Close(s)
    BY <2>2, FreshAside DEF Close, fileVars
  <2>3. CASE \E i \in DOMAIN Threads, a \in Addresses : Record(i, a)
    BY <2>3, FreshAside DEF Record, fileVars
  <2>4. CASE WritePause \/ WriteMaps \/ WriteTraces \/ \E t \in Texts : WriteEnd(t)
    <3>1. PICK t \in Texts : WritePause \/ WriteMaps \/ WriteTraces \/ WriteEnd(t)
      BY <2>4 DEF Texts
    <3> QED BY <3>1, FreshWrite
  <2>5. CASE \/ GetPause \/ GetTraces \/ (\E t \in Texts : GetMaps(t))
             \/ WriteSnapshot \/ FlushSnapshot \/ FreeSnapshot
    <3>1. PICK t \in Texts : \/ GetPause \/ GetTraces \/ GetMaps(t)
                             \/ WriteSnapshot \/ FlushSnapshot \/ FreeSnapshot
      BY <2>5 DEF Texts
    <3> QED BY <3>1, FreshGet
  <2>6. CASE Exit
    BY <2>6, FreshAside DEF Exit, fileVars
  <2>7. CASE \E n \in 0 .. Len(file), tail \in {"WHOLE", "MAGIC_CUT", "CHUNK_CUT"} : Crash(n, tail)
    <3>1. PICK t \in Texts : TRUE
      BY DEF Texts
    <3> QED BY <2>7, <3>1, FreshEnd
  <2>8. CASE \E t \in Texts : CoreDump(t)
    BY <2>8, FreshEnd
  <2> QED BY <1>1, <2>1, <2>2, <2>3, <2>4, <2>5, <2>6, <2>7, <2>8 DEF Program
<1>2. CASE StartDecoder
  <2>1. PICK t \in Texts : TRUE
    BY DEF Texts
  <2> QED BY <1>2, <2>1, FreshEnd
<1>3. CASE SetMaps \/ SetThread \/ AddTrace \/ SetText \/ EndSample \/ EndOfFile \/ Fail
  BY <1>3, FreshAside DEF SetMaps, SetThread, AddTrace, SetText, EndSample, EndOfFile, Fail,
     outsideDecoder, fileVars
<1>4. CASE UNCHANGED vars
  BY <1>4, FreshAside DEF vars, fileVars
<1> QED BY <1>1, <1>2, <1>3, <1>4 DEF Next, Decoder

LEMMA LaidAside ==
  ASSUME NEW at, Laid(at), stage = "running", UNCHANGED <<stage, file, flushed, samples>>,
         Begun' = Begun, Begun = 0 \/ taking' = taking
  PROVE  Laid(at)'
<1>1. Parts(at)'
  BY DEF Laid, Parts
<1>2. Growing(at)
  BY DEF Laid
<1>3. Growing(at)'
  <2>1. CASE Begun = 0
    BY <1>2, <2>1 DEF Growing
  <2>2. CASE taking' = taking
    BY <1>2, <2>2 DEF Growing
  <2> QED BY <2>1, <2>2
<1> QED BY <1>1, <1>3 DEF Laid

\* What there is as long as the program runs.
LEMMA LaidRunning ==
  ASSUME IInv, NEW at, Laid(at), stage = "running"
  PROVE  LET K == Len(samples)
             N == at[K + 1]
         IN /\ samples \in Seq(Sample) /\ K \in Nat /\ N \in Nat /\ PartsOf(file, samples, at)
            /\ IsSequence(file) /\ Len(file) \in Nat /\ flushed \in 0 .. Len(file)
            /\ at \in [1 .. K + 1 -> Nat] /\ at[1] = 0
            /\ \A i \in 1 .. K : at[i + 1] = at[i] + Size(samples[i])
            /\ \A i \in 1 .. K + 1 : at[i] <= N
            /\ Len(file) = N + Begun
            /\ \A j \in 1 .. Begun : file[N + j] = Chunks(taking)[j]
            /\ \A i \in 1 .. K : i < K \/ samples[i].safe => at[i + 1] <= flushed
            /\ Begun > 0 => N <= flushed
<1>1. samples \in Seq(Sample) /\ Len(samples) \in Nat
  BY DEF IInv, Typed
<1>2. PartsOf(file, samples, at) /\ Growing(at) /\ flushed \in 0 .. Len(file)
  BY DEF Laid, Parts
<1>3. IsSequence(file) /\ Len(file) \in Nat
  BY <1>2 DEF PartsOf, IsSequence
<1>4. /\ at \in [1 .. Len(samples) + 1 -> Nat] /\ at[1] = 0
      /\ \A i \in 1 .. Len(samples) + 1 : at[i] <= at[Len(samples) + 1]
  BY <1>1, <1>2, PartsRise DEF PartsOf
<1>5. at[Len(samples) + 1] \in Nat
  <2>1. Len(samples) + 1 \in 1 .. Len(samples) + 1
    BY <1>1
  <2> QED BY <1>4, <2>1
<1> QED BY <1>1, <1>2, <1>3, <1>4, <1>5, Zenon DEF Growing

LEMMA LaidWriteMaps ==
  ASSUME IInv, IInv', Fresh, NEW at, Laid(at), WriteMaps
  PROVE  Laid(at)'
<1> DEFINE K == Len(samples)
           N == at[K + 1]
<1>1. /\ stage = "running" /\ stage' = stage /\ job = "write" /\ job' = "mapped"
      /\ taking' = [taking EXCEPT !.maps = ProcMaps] /\ file' = file \o MapsChunk(ProcMaps)
      /\ flushed' = flushed /\ samples' = samples
  BY DEF WriteMaps
<1>2. Begun = 0 /\ Begun' = 1
  BY <1>1 DEF Begun
<1>3. /\ samples \in Seq(Sample) /\ K \in Nat /\ N \in Nat /\ PartsOf(file, samples, at)
      /\ IsSequence(file) /\ flushed \in 0 .. Len(file) /\ Len(file) \in Nat
      /\ \A i \in 1 .. K : at[i + 1] = at[i] + Size(samples[i])
      /\ Len(file) = N /\ at[1] = 0
      /\ \A i \in 1 .. K : i < K \/ samples[i].safe => at[i + 1] <= flushed
  <2>1. N + Begun = N
    <3>1. N \in Nat
      BY <1>1, LaidRunning, Zenon
    <3> QED BY <1>2, <3>1
  <2> QED BY <1>1, <2>1, LaidRunning, Zenon
<1>4. /\ IsSequence(file') /\ Len(file') = N + 1
      /\ \A i \in 1 .. N : file'[i] = file[i]
      /\ file'[N + 1] = [kind |-> "PROCMAPS", maps |-> ProcMaps]
  <2> DEFINE M == MapsChunk(ProcMaps)
  <2>1. IsSequence(M) /\ Len(M) = 1 /\ M[1] = [kind |-> "PROCMAPS", maps |-> ProcMaps]
    BY SmallChunks
  <2> HIDE DEF M
  <2>2. IsSequence(file) /\ IsSequence(M)
    BY <1>3, <2>1
  <2>3. /\ IsSequence(file \o M) /\ Len(file \o M) = Len(file) + Len(M)
        /\ \A i \in 1 .. Len(file) : (file \o M)[i] = file[i]
        /\ \A i \in 1 .. Len(M) : (file \o M)[Len(file) + i] = M[i]
    BY <2>2, Joined
  <2>4. file' = file \o M
    BY <1>1 DEF M
  <2> QED BY <1>3, <2>1, <2>3, <2>4
<1>5. taking' \in Sample /\ taking'.maps = ProcMaps
  <2>1. taking \in Sample /\ taking' \in Sample
    BY DEF IInv, Typed
  <2> QED BY <1>1, <2>1 DEF Sample
<1>6. Chunks(taking')[1] = [kind |-> "PROCMAPS", maps |-> ProcMaps]
  <2>1. IsSequence(taking'.traces)
    BY <1>5, SizeIs
  <2> QED BY <1>5, <2>1, ChunksAre
<1> HIDE DEF N, K
<1>7. PartsOf(file', samples, at)
  <2>1. N <= Len(file')
    BY <1>3, <1>4
  <2> QED BY <1>3, <1>4, <2>1, PartsStay DEF N, K
<1>8. N <= flushed
  <2>1. CASE K = 0
    BY <1>3, <2>1 DEF N
  <2>2. CASE K # 0
    <3>1. K \in 1 .. K /\ K \in DOMAIN samples
      BY <1>3, <2>2 DEF K
    <3>2. samples[K].safe
      BY <1>1, <3>1 DEF Fresh
    <3> QED BY <1>3, <3>1, <3>2 DEF N
  <2> QED BY <2>1, <2>2
<1>9. Growing(at)'
  <2>1. \A j \in 1 .. 1 : file'[N + j] = Chunks(taking')[j]
    BY <1>4, <1>6
  <2> QED BY <1>1, <1>2, <1>3, <1>4, <1>8, <2>1 DEF Growing, N, K
<1>10. flushed' \in 0 .. Len(file')
  BY <1>1, <1>3, <1>4
<1> QED BY <1>1, <1>7, <1>9, <1>10 DEF Laid, Parts

LEMMA LaidWriteTraces ==
  ASSUME IInv, IInv', Fresh, NEW at, Laid(at), WriteTraces
  PROVE  Laid(at)'
<1> DEFINE K == Len(samples)
           N == at[K + 1]
           T == Len(Traces)
           B == TraceChunks(Traces)
<1>1. /\ stage = "running" /\ stage' = stage /\ job = "mapped" /\ job' = "traced"
      /\ taking' = [taking EXCEPT !.traces = Traces] /\ file' = file \o B
      /\ flushed' = flushed /\ samples' = samples
  BY DEF WriteTraces
<1>2. taking \in Sample /\ taking' \in Sample /\ taking'.traces = Traces /\ taking'.maps = taking.maps
  <2>1. taking \in Sample /\ taking' \in Sample
    BY DEF IInv, Typed
  <2> QED BY <1>1, <2>1 DEF Sample
<1>3. Begun = 1 /\ Begun' = 1 + 2 * T
  BY <1>1, <1>2 DEF Begun
<1>4. /\ samples \in Seq(Sample) /\ K \in Nat /\ N \in Nat /\ PartsOf(file, samples, at)
      /\ IsSequence(file) /\ flushed \in 0 .. Len(file) /\ Len(file) \in Nat
      /\ \A i \in 1 .. K : at[i + 1] = at[i] + Size(samples[i])
      /\ Len(file) = N + Begun
      /\ \A j \in 1 .. Begun : file[N + j] = Chunks(taking)[j]
      /\ \A i \in 1 .. K : i < K \/ samples[i].safe => at[i + 1] <= flushed
      /\ Begun > 0 => N <= flushed
  BY <1>1, LaidRunning, Zenon
<1>5. Len(file) = N + 1 /\ N <= flushed /\ file[N + 1] = Chunks(taking)[1]
  BY <1>3, <1>4
<1>6. IsSequence(Traces) /\ T \in Nat
  BY <1>2, SizeIs
<1>7. IsSequence(B) /\ Len(B) = 2 * T
  BY <1>6, TraceChunksAre
<1>8. /\ Chunks(taking')[1] = Chunks(taking)[1]
      /\ \A j \in 1 .. 2 * T : Chunks(taking')[1 + j] = B[j]
  <2>1. IsSequence(taking.traces) /\ IsSequence(taking'.traces)
    BY <1>2, SizeIs
  <2>2. Chunks(taking)[1] = [kind |-> "PROCMAPS", maps |-> taking.maps]
    BY <2>1, ChunksAre
  <2>3. /\ Chunks(taking')[1] = [kind |-> "PROCMAPS", maps |-> taking'.maps]
        /\ \A j \in 1 .. 2 * Len(taking'.traces) : Chunks(taking')[1 + j] = TraceChunks(taking'.traces)[j]
    BY <2>1, ChunksAre
  <2> QED BY <1>2, <2>2, <2>3
<1> HIDE DEF B, T, N, K
<1>9. /\ IsSequence(file') /\ Len(file') = N + 1 + 2 * T
      /\ \A i \in 1 .. N + 1 : file'[i] = file[i]
      /\ \A i \in 1 .. 2 * T : file'[(N + 1) + i] = B[i]
  <2>2. IsSequence(file) /\ IsSequence(B)
    BY <1>4, <1>7
  <2>3. /\ IsSequence(file \o B) /\ Len(file \o B) = Len(file) + Len(B)
        /\ \A i \in 1 .. Len(file) : (file \o B)[i] = file[i]
        /\ \A i \in 1 .. Len(B) : (file \o B)[Len(file) + i] = B[i]
    BY <2>2, Joined
  <2> QED BY <1>1, <1>5, <1>7, <2>3
<1>10. PartsOf(file', samples, at)
  <2>1. N <= Len(file') /\ \A i \in 1 .. N : file'[i] = file[i]
    BY <1>4, <1>6, <1>9
  <2> QED BY <1>4, <1>9, <2>1, PartsStay DEF N, K
<1>11. \A j \in 1 .. 1 + 2 * T : file'[N + j] = Chunks(taking')[j]
  <2> TAKE j \in 1 .. 1 + 2 * T
  <2>1. CASE j = 1
    <3>1. N + 1 \in 1 .. N + 1
      BY <1>4
    <3> QED BY <1>5, <1>8, <1>9, <2>1, <3>1
  <2>2. CASE j # 1
    <3>1. j - 1 \in 1 .. 2 * T /\ (N + 1) + (j - 1) = N + j /\ 1 + (j - 1) = j
      BY <1>4, <1>6, <2>2
    <3>2. file'[(N + 1) + (j - 1)] = B[j - 1] /\ Chunks(taking')[1 + (j - 1)] = B[j - 1]
      BY <1>8, <1>9, <3>1
    <3> QED BY <3>1, <3>2
  <2> QED BY <2>1, <2>2
<1>12. Growing(at)'
  <2>1. Len(file') = N + (1 + 2 * T)
    BY <1>4, <1>6, <1>9
  <2> QED BY <1>1, <1>3, <1>4, <1>5, <1>11, <2>1 DEF Growing, N, K
<1>13. flushed' \in 0 .. Len(file')
  BY <1>1, <1>4, <1>5, <1>6, <1>9
<1> QED BY <1>1, <1>10, <1>12, <1>13 DEF Laid, Parts

\* The chunks that a sample has before its ftrace events.
LEMMA ChunksSame ==
  ASSUME NEW x \in Sample, NEW y \in Sample, x.traces = y.traces, x.maps = y.maps
  PROVE  \A j \in 1 .. 1 + 2 * Len(x.traces) : Chunks(x)[j] = Chunks(y)[j]
<1>1. IsSequence(x.traces) /\ IsSequence(y.traces) /\ Len(x.traces) \in Nat
  BY SizeIs
<1>2. /\ Chunks(x)[1] = [kind |-> "PROCMAPS", maps |-> x.maps]
      /\ \A j \in 1 .. 2 * Len(x.traces) : Chunks(x)[1 + j] = TraceChunks(x.traces)[j]
  BY <1>1, ChunksAre
<1>3. /\ Chunks(y)[1] = [kind |-> "PROCMAPS", maps |-> y.maps]
      /\ \A j \in 1 .. 2 * Len(y.traces) : Chunks(y)[1 + j] = TraceChunks(y.traces)[j]
  BY <1>1, ChunksAre
<1> TAKE j \in 1 .. 1 + 2 * Len(x.traces)
<1>4. CASE j = 1
  BY <1>2, <1>3, <1>4
<1>5. CASE j # 1
  <2>1. j - 1 \in 1 .. 2 * Len(x.traces) /\ 1 + (j - 1) = j
    BY <1>1, <1>5
  <2> QED BY <1>2, <1>3, <2>1
<1> QED BY <1>4, <1>5

LEMMA LaidWriteEnd ==
  ASSUME IInv, IInv', Fresh, NEW at, Laid(at), NEW t \in Texts, WriteEnd(t)
  PROVE  \E bt : Laid(bt)'
<1> DEFINE K == Len(samples)
           N == at[K + 1]
           T == Len(taking.traces)
           x == [taking EXCEPT !.text = t, !.gone = closed, !.safe = TRUE]
           C == TextChunk(t)
<1>1. /\ stage = "running" /\ stage' = stage /\ job = "traced" /\ job' = "idle"
      /\ file' = (file \o C) \o EndChunk /\ flushed' = Len(file')
      /\ samples' = Append(samples, x) /\ taking' = taking
  BY DEF WriteEnd
<1>2. taking \in Sample /\ x \in Sample /\ x.traces = taking.traces /\ x.maps = taking.maps /\ x.text = t
  <2>1. taking \in Sample /\ closed \subseteq Loads
    BY DEF IInv, Typed
  <2> QED BY <2>1 DEF Sample
<1>3. Begun = 1 + 2 * T /\ Begun' = 0
  BY <1>1 DEF Begun
<1>4. /\ samples \in Seq(Sample) /\ K \in Nat /\ N \in Nat /\ PartsOf(file, samples, at)
      /\ IsSequence(file) /\ Len(file) \in Nat /\ at \in [1 .. K + 1 -> Nat]
      /\ \A i \in 1 .. K : at[i + 1] = at[i] + Size(samples[i])
      /\ \A i \in 1 .. K + 1 : at[i] <= N
      /\ Len(file) = N + Begun
      /\ \A j \in 1 .. Begun : file[N + j] = Chunks(taking)[j]
  BY <1>1, LaidRunning, Zenon
<1>5. /\ IsSequence(x.traces) /\ T \in Nat /\ Size(x) \in Nat /\ Len(x.traces) = T
      /\ Size(x) = 2 * T + (IF t = NoText THEN 2 ELSE 3)
  <2>1. Len(x.traces) = T /\ x.text = t
    BY <1>2
  <2> HIDE DEF x
  <2>2. IsSequence(x.traces) /\ Len(x.traces) \in Nat /\ Size(x) \in Nat
    BY <1>2, SizeIs
  <2> QED BY <2>1, <2>2 DEF Size
<1>6. \A j \in 1 .. 1 + 2 * T : Chunks(x)[j] = Chunks(taking)[j]
  <2> HIDE DEF x
  <2> QED BY <1>2, <1>5, ChunksSame
<1>7. /\ t # NoText => Chunks(x)[2 * T + 2] = [kind |-> "FTRACETX", text |-> t]
      /\ Chunks(x)[Size(x)] = [kind |-> "ENDTRACE"]
  <2> HIDE DEF x
  <2> QED BY <1>2, <1>5, ChunksAre
<1>8. /\ IsSequence(C) /\ Len(C) = (IF t = NoText THEN 0 ELSE 1)
      /\ t # NoText => C[1] = [kind |-> "FTRACETX", text |-> t]
      /\ IsSequence(EndChunk) /\ Len(EndChunk) = 1 /\ EndChunk[1] = [kind |-> "ENDTRACE"]
  BY SmallChunks
<1> HIDE DEF x, C, T
<1>9. /\ IsSequence(file \o C) /\ Len(file \o C) = Len(file) + Len(C)
      /\ \A i \in 1 .. Len(file) : (file \o C)[i] = file[i]
      /\ \A i \in 1 .. Len(C) : (file \o C)[Len(file) + i] = C[i]
  <2>1. IsSequence(file) /\ IsSequence(C)
    BY <1>4, <1>8
  <2> QED BY <2>1, Joined
<1> DEFINE g == file \o C
<1> HIDE DEF g
<1>10. /\ IsSequence(file') /\ Len(file') = Len(g) + 1
       /\ \A i \in 1 .. Len(g) : file'[i] = g[i]
       /\ file'[Len(g) + 1] = [kind |-> "ENDTRACE"]
  <2>1. IsSequence(g) /\ IsSequence(EndChunk) /\ file' = g \o EndChunk
    BY <1>1, <1>8, <1>9 DEF g
  <2>2. /\ IsSequence(g \o EndChunk) /\ Len(g \o EndChunk) = Len(g) + Len(EndChunk)
        /\ \A i \in 1 .. Len(g) : (g \o EndChunk)[i] = g[i]
        /\ \A i \in 1 .. Len(EndChunk) : (g \o EndChunk)[Len(g) + i] = EndChunk[i]
    BY <2>1, Joined
  <2>3. 1 \in 1 .. Len(EndChunk)
    BY <1>8
  <2> QED BY <1>8, <2>1, <2>2, <2>3
<1>11. Len(file) = N + 1 + 2 * T
  <2> HIDE DEF N, K
  <2> QED BY <1>3, <1>4, <1>5
<1>12. /\ Len(g) \in Nat /\ Len(file) <= Len(g) /\ Len(file') = N + Size(x) /\ Len(g) + 1 = N + Size(x)
       /\ \A i \in 1 .. Len(file) : file'[i] = file[i]
       /\ t # NoText => Len(g) = N + (2 * T + 2) /\ file'[N + (2 * T + 2)] = [kind |-> "FTRACETX", text |-> t]
  <2> HIDE DEF N, K
  <2>1. CASE t = NoText
    <3>1. Len(C) = 0 /\ Size(x) = 2 * T + 2
      BY <1>5, <1>8, <2>1
    <3>2. Len(g) = Len(file)
      BY <1>4, <1>9, <3>1 DEF g
    <3>3. \A i \in 1 .. Len(file) : i \in 1 .. Len(g) /\ g[i] = file[i]
      BY <1>4, <1>9, <3>2 DEF g
    <3> QED BY <1>4, <1>5, <1>10, <1>11, <2>1, <3>1, <3>2, <3>3
  <2>2. CASE t # NoText
    <3>1. Len(C) = 1 /\ Size(x) = 2 * T + 3 /\ C[1] = [kind |-> "FTRACETX", text |-> t]
      BY <1>5, <1>8, <2>2
    <3>2. Len(g) = Len(file) + 1 /\ g[Len(file) + 1] = C[1]
      BY <1>4, <1>9, <3>1 DEF g
    <3>3. Len(file) + 1 = N + (2 * T + 2)
      BY <1>4, <1>5, <1>11
    <3>4. \A i \in 1 .. Len(file) : i \in 1 .. Len(g) /\ g[i] = file[i]
      BY <1>4, <1>9, <3>2 DEF g
    <3>5. Len(g) \in 1 .. Len(g)
      BY <1>4, <3>2
    <3> QED BY <1>4, <1>5, <1>10, <1>11, <2>2, <3>1, <3>2, <3>3, <3>4, <3>5
  <2> QED BY <2>1, <2>2
<1>13. \A j \in 1 .. Size(x) : file'[N + j] = Chunks(x)[j]
  <2> HIDE DEF N, K
  <2> TAKE j \in 1 .. Size(x)
  <2>1. CASE j \in 1 .. 1 + 2 * T
    <3>1. N + j \in 1 .. Len(file)
      BY <1>4, <1>5, <1>11, <2>1
    <3>2. file[N + j] = Chunks(taking)[j]
      BY <1>3, <1>4, <2>1 DEF N, K
    <3> QED BY <1>6, <1>12, <2>1, <3>1, <3>2
  <2>2. CASE j \notin 1 .. 1 + 2 * T /\ j # Size(x)
    <3>1. t # NoText /\ j = 2 * T + 2
      <4>1. CASE t = NoText
        BY <1>5, <2>2, <4>1
      <4>2. CASE t # NoText
        BY <1>5, <2>2, <4>2
      <4> QED BY <4>1, <4>2
    <3> QED BY <1>7, <1>12, <3>1
  <2>3. CASE j = Size(x)
    BY <1>7, <1>10, <1>12, <2>3
  <2> QED BY <2>1, <2>2, <2>3
<1>14. PartsOf(file', samples, at)
  <2> HIDE DEF N, K
  <2>1. N <= Len(file') /\ \A i \in 1 .. N : file'[i] = file[i]
    BY <1>4, <1>5, <1>11, <1>12
  <2> QED BY <1>4, <1>10, <2>1, PartsStay DEF N, K
<1> DEFINE bt == Added(samples, at, N + Size(x))
<1>15. PartsOf(file', samples', bt)
  <2>1. /\ N + Size(x) \in Nat /\ N <= N + Size(x) /\ N + Size(x) <= Len(file')
        /\ N + Size(x) <= N + Size(x) /\ (N + Size(x)) - N = Size(x)
    <3> HIDE DEF N, K
    <3> QED BY <1>4, <1>5, <1>12
  <2>2. \A j \in 1 .. (N + Size(x)) - N : file'[N + j] = Chunks(x)[j]
    BY <1>13, <2>1
  <2>3. PartsOf(file', Append(samples, x), bt)
    <3>1. Adds(file', samples, at, x, N + Size(x))
      BY <1>2, <1>4, <1>14, <2>1, <2>2, Zenon DEF Adds
    <3> QED BY <3>1, PartAdded
  <2> QED BY <1>1, <2>3
<1>16. /\ Len(samples') = K + 1 /\ samples'[K + 1] = x
       /\ \A i \in 1 .. K : samples'[i] = samples[i]
  BY <1>1, <1>2, <1>4, AppendProperties
<1>17. PICK ct : ct = bt
  OBVIOUS
<1>18. /\ ct[K + 2] = N + Size(x) /\ ct[K + 1] = N /\ \A i \in 1 .. K : ct[i] = at[i] /\ ct[i + 1] = at[i + 1]
  <2>1. K + 2 \in 1 .. K + 2 /\ K + 1 \in 1 .. K + 2 /\ K + 1 # K + 2
        /\ \A i \in 1 .. K : i \in 1 .. K + 2 /\ i + 1 \in 1 .. K + 2 /\ i # K + 2 /\ i + 1 # K + 2
    BY <1>4
  <2> HIDE DEF K, N
  <2> QED BY <1>17, <2>1 DEF Added, N, K
<1>19. Growing(ct)'
  <2>1. \A i \in 1 .. K + 1 : i \in 1 .. K \/ i = K + 1
    BY <1>4
  <2>2. \A i \in 1 .. K + 1 : ct[i + 1] = ct[i] + Size(samples'[i])
    <3> TAKE i \in 1 .. K + 1
    <3>1. CASE i \in 1 .. K
      BY <1>4, <1>16, <1>18, <3>1
    <3>2. CASE i = K + 1
      <4>1. i + 1 = K + 2
        BY <1>4, <3>2
      <4> QED BY <1>16, <1>18, <3>2, <4>1
    <3> QED BY <2>1, <3>1, <3>2
  <2>3. ct[(K + 1) + 1] = N + Size(x) /\ Len(file') = (N + Size(x)) + 0
    <3>1. (K + 1) + 1 = K + 2
      BY <1>4
    <3>2. (N + Size(x)) + 0 = N + Size(x)
      BY <1>4, <1>5
    <3> QED BY <1>12, <1>18, <3>1, <3>2
  <2>4. \A i \in 1 .. K + 1 : ct[i + 1] <= flushed'
    <3>1. flushed' = N + Size(x) /\ N \in Nat /\ Size(x) \in Nat
      BY <1>1, <1>4, <1>5, <1>12
    <3>2. \A i \in 1 .. K : at[i + 1] <= N /\ at[i + 1] \in Nat
      <4> TAKE i \in 1 .. K
      <4>1. (i + 1 \in 1 .. K \/ i + 1 = K + 1) /\ i + 1 \in 1 .. K + 1
        BY <1>4
      <4> HIDE DEF K
      <4>2. at[i + 1] \in Nat
        BY <1>4, <4>1
      <4>3. at[i + 1] <= N
        BY <1>4, <4>1, <4>2
      <4> QED BY <4>2, <4>3
    <3> HIDE DEF N
    <3>4. \A i \in 1 .. K : ct[i + 1] <= N + Size(x)
      BY <1>18, <3>1, <3>2
    <3> HIDE DEF K
    <3> QED BY <2>1, <2>3, <3>1, <3>4
  <2> HIDE DEF N, K
  <2>5. 1 .. 0 = {} /\ ~(0 > 0)
    OBVIOUS
  <2> QED BY <1>3, <1>16, <2>2, <2>3, <2>4, <2>5 DEF Growing
<1>20. flushed' \in 0 .. Len(file')
  <2>1. Len(file') \in Nat
    BY <1>10, <1>12
  <2> QED BY <1>1, <2>1
<1>21. Laid(ct)'
  BY <1>1, <1>15, <1>17, <1>19, <1>20 DEF Laid, Parts
<1> QED BY <1>21

\* Samples of the same chunks.
LEMMA PartsSame ==
  ASSUME NEW f, NEW ss \in Seq(Sample), NEW tt \in Seq(Sample), NEW at, PartsOf(f, ss, at),
         Len(tt) = Len(ss), \A i \in 1 .. Len(ss) : at[i + 1] = at[i] + Size(ss[i]),
         \A i \in 1 .. Len(ss) : Chunks(tt[i]) = Chunks(ss[i]) /\ Size(tt[i]) = Size(ss[i])
  PROVE  PartsOf(f, tt, at)
<1>1. /\ IsSequence(f) /\ at \in [1 .. Len(ss) + 1 -> Nat] /\ at[1] = 0
      /\ at[Len(ss) + 1] <= Len(f) /\ \A i, j \in 1 .. Len(ss) + 1 : i <= j => at[i] <= at[j]
      /\ \A i \in 1 .. Len(ss) : \A j \in 1 .. at[i + 1] - at[i] : f[at[i] + j] = Chunks(ss[i])[j]
  BY DEF PartsOf
<1>2. \A i \in 1 .. Len(ss) : at[i] \in Nat /\ at[i + 1] \in Nat
  BY <1>1
<1>3. ASSUME NEW i \in 1 .. Len(ss)
      PROVE  /\ at[i + 1] <= at[i] + Size(tt[i])
             /\ i < Len(ss) \/ tt[i].safe => at[i + 1] = at[i] + Size(tt[i])
             /\ \A j \in 1 .. at[i + 1] - at[i] : f[at[i] + j] = Chunks(tt[i])[j]
  <2>1. at[i + 1] = at[i] + Size(tt[i]) /\ at[i + 1] \in Nat
    BY <1>2
  <2>2. at[i + 1] <= at[i] + Size(tt[i])
    BY <2>1
  <2> QED BY <1>1, <2>1, <2>2
<1> QED BY <1>1, <1>3 DEF PartsOf

LEMMA LaidFlush ==
  ASSUME IInv, IInv', Fresh, NEW at, Laid(at), FlushSnapshot
  PROVE  Laid(at)'
<1>1. /\ stage = "running" /\ stage' = stage /\ way = "api" /\ job' = job /\ file' = file
      /\ flushed < Len(file) /\ flushed' = Len(file)
      /\ samples' = [samples EXCEPT ![1].safe = TRUE]
  BY DEF FlushSnapshot
<1>2. Begun = 0 /\ Begun' = 0
  BY <1>1 DEF Begun, Fresh
<1>3. /\ samples \in Seq(Sample) /\ Len(samples) \in Nat /\ at[Len(samples) + 1] \in Nat
      /\ PartsOf(file, samples, at) /\ Len(file) \in Nat /\ flushed \in 0 .. Len(file) /\ at[1] = 0
      /\ \A i \in 1 .. Len(samples) : at[i + 1] = at[i] + Size(samples[i])
      /\ Len(file) = at[Len(samples) + 1] + Begun
      /\ \A i \in 1 .. Len(samples) + 1 : at[i] <= at[Len(samples) + 1]
  BY <1>1, LaidRunning, Zenon
<1>4. Len(file) = at[Len(samples) + 1]
  BY <1>2, <1>3
<1>5. DOMAIN samples # {}
  <2>1. Len(samples) # 0
    BY <1>1, <1>3, <1>4
  <2> QED BY <1>3, <2>1
<1>6. /\ samples' \in Seq(Sample) /\ Len(samples') = Len(samples)
      /\ \A i \in 1 .. Len(samples) :
           /\ samples'[i].traces = samples[i].traces /\ samples'[i].text = samples[i].text
           /\ samples'[i].maps = samples[i].maps
  <2>1. DOMAIN samples = 1 .. Len(samples)
    BY <1>3
  <2> QED BY <1>1, <1>5, <2>1, SameButFlushed DEF IInv
<1>7. \A i \in 1 .. Len(samples) : Chunks(samples'[i]) = Chunks(samples[i]) /\ Size(samples'[i]) = Size(samples[i])
  BY <1>6, Zenon DEF Chunks, Size
<1>8. PartsOf(file', samples', at)
  BY <1>1, <1>3, <1>6, <1>7, PartsSame
<1>9. Growing(at)'
  <2>1. \A i \in 1 .. Len(samples) : at[i + 1] <= flushed'
    <3>1. flushed' = at[Len(samples) + 1]
      BY <1>1, <1>4
    <3>2. /\ Len(samples) \in Nat
          /\ \A i \in 1 .. Len(samples) + 1 : at[i] <= at[Len(samples) + 1]
      BY <1>3
    <3>3. ASSUME NEW i \in 1 .. Len(samples) PROVE i + 1 \in 1 .. Len(samples) + 1
      BY ONLY <3>2, <3>3
    <3> QED BY ONLY <3>1, <3>2, <3>3
  <2>2. \A i \in 1 .. Len(samples') : at[i + 1] = at[i] + Size(samples'[i]) /\ at[i + 1] <= flushed'
    BY <1>3, <1>6, <1>7, <2>1
  <2>3. Len(file') = at[Len(samples') + 1] + Begun'
    BY <1>1, <1>2, <1>3, <1>6
  <2>4. 1 .. 0 = {} /\ ~(0 > 0)
    OBVIOUS
  <2> QED BY <1>2, <2>2, <2>3, <2>4, Zenon DEF Growing
<1>10. flushed' \in 0 .. Len(file')
  BY <1>1, <1>3
<1> QED BY <1>1, <1>8, <1>9, <1>10 DEF Laid, Parts

LEMMA LaidOne ==
  ASSUME NEW x \in Sample, file' = Chunks(x), samples' = <<x>>, flushed' \in {0, Len(file')},
         stage' \in {"running", "ended"}, stage' = "running" => Begun' = 0 /\ (x.safe => flushed' = Len(file'))
  PROVE  \E at : Laid(at)'
<1>1. PICK at : at = [i \in 1 .. 2 |-> IF i = 1 THEN 0 ELSE Size(x)]
  OBVIOUS
<1>2. PartsOf(file', samples', at)
  BY <1>1, OnePart
<1>3. Size(x) \in Nat /\ IsSequence(x.traces)
  BY SizeIs
<1>4. Len(file') = Size(x)
  BY <1>3, ChunksAre
<1>5. at[1] = 0 /\ at[2] = Size(x) /\ Len(samples') = 1 /\ samples'[1] = x
  BY <1>1
<1>6. flushed' \in 0 .. Len(file')
  BY <1>3, <1>4
<1>7. CASE stage' = "running"
  <2>1. \A i \in 1 .. 1 : i = 1 /\ i + 1 = 2 /\ ~(i < 1)
    OBVIOUS
  <2>2. /\ Len(file') = at[1 + 1] + 0 /\ at[1 + 1] = at[2] /\ 1 .. 0 = {} /\ ~(0 > 0)
        /\ Size(x) = 0 + Size(x)
    BY <1>3, <1>4, <1>5
  <2>3. x.safe => Size(x) <= flushed'
    BY <1>3, <1>4, <1>7
  <2>4. Growing(at)'
    BY <1>5, <1>7, <2>1, <2>2, <2>3 DEF Growing
  <2>5. Laid(at)'
    BY <1>2, <1>6, <1>7, <2>4 DEF Laid, Parts
  <2> QED BY <2>5
<1>8. CASE stage' = "ended"
  <2>1. Finished(at)'
    BY <1>4, <1>5 DEF Finished
  <2>2. Laid(at)'
    BY <1>2, <1>6, <1>8, <2>1 DEF Laid, Parts
  <2> QED BY <2>2
<1> QED BY <1>7, <1>8

LEMMA LaidAnew ==
  ASSUME IInv, IInv', Fresh, NEW t \in Texts, WriteSnapshot \/ CoreDump(t)
  PROVE  \E at : Laid(at)'
<1>1. CASE WriteSnapshot
  <2>1. /\ stage = "running" /\ stage' = stage /\ job' = job /\ snapshot # Nothing
        /\ file' = Chunks(snapshot) /\ flushed' = 0 /\ samples' = <<snapshot>>
    BY <1>1 DEF WriteSnapshot
  <2>2. snapshot \in Sample /\ ~snapshot.safe /\ Begun' = 0
    BY <2>1 DEF IInv, Typed, Fresh, Begun
  <2> QED BY <2>1, <2>2, LaidOne
<1>2. CASE CoreDump(t)
  <2> DEFINE x == [traces |-> Traces, text |-> t, maps |-> ProcMaps, gone |-> closed, safe |-> TRUE]
  <2>1. stage' = "ended" /\ file' = Chunks(x) /\ flushed' = Len(file') /\ samples' = <<x>>
    BY <1>2 DEF CoreDump
  <2>2. x \in Sample
    <3>1. Traces \in Seq(Trace) /\ ProcMaps \in MapTables
      BY TracesAre, ProcMapsAre DEF IInv, MapTables
    <3> QED BY <3>1 DEF Sample, MapTables, IInv, Typed
  <2> HIDE DEF x
  <2> QED BY <2>1, <2>2, LaidOne
<1> QED BY <1>1, <1>2

\* What a crash leaves of a file.
Rest(f, n, tail) == SubSeq(f, 1, n) \o (IF tail = "WHOLE" THEN <<>> ELSE <<[kind |-> tail]>>)

LEMMA Torn ==
  ASSUME NEW f, IsSequence(f), NEW n \in 0 .. Len(f), NEW tail, NEW g, g = Rest(f, n, tail)
  PROVE  /\ IsSequence(g) /\ \A i \in 1 .. n : g[i] = f[i]
         /\ IF tail = "WHOLE" THEN Len(g) = n ELSE Len(g) = n + 1 /\ g[Len(g)] = [kind |-> tail]
<1> DEFINE p == SubSeq(f, 1, n)
           q == IF tail = "WHOLE" THEN <<>> ELSE <<[kind |-> tail]>>
<1>1. Len(f) \in Nat /\ n \in Nat /\ f \in Seq(Range(f))
  BY DEF IsSequence
<1>2. IsSequence(p) /\ Len(p) = n /\ \A i \in 1 .. n : p[i] = f[i]
  <2>1. \A i \in 1 .. n : f[i] \in Range(f)
    BY <1>1 DEF Range
  <2>2. CASE n = 0
    <3>1. p = <<>>
      BY <2>2, <1>1
    <3> QED BY <2>2, <3>1 DEF IsSequence
  <2>3. CASE n # 0
    <3>0. 1 \in Int /\ n \in Int /\ 1 <= n
      BY <1>1, <2>3
    <3>1. /\ p \in Seq(Range(f)) /\ Len(p) = n - 1 + 1
          /\ \A i \in 1 .. n - 1 + 1 : p[i] = f[1 + i - 1]
      BY <2>1, <3>0, SubSeqProperties
    <3>2. n - 1 + 1 = n /\ \A i \in 1 .. n : 1 + i - 1 = i
      BY <1>1
    <3> HIDE DEF p
    <3>3. IsSequence(p)
      BY <3>1, SequenceOf
    <3> QED BY <3>1, <3>2, <3>3
  <2> QED BY <2>2, <2>3
<1>3. /\ IsSequence(q) /\ Len(q) = (IF tail = "WHOLE" THEN 0 ELSE 1)
      /\ tail # "WHOLE" => q[1] = [kind |-> tail]
  <2>1. IsSequence(<<>>) /\ Len(<<>>) = 0
    BY DEF IsSequence
  <2> QED BY <2>1, OneChunk
<1> HIDE DEF p, q
<1>4. /\ IsSequence(p \o q) /\ Len(p \o q) = Len(p) + Len(q)
      /\ \A i \in 1 .. Len(p) : (p \o q)[i] = p[i]
      /\ \A i \in 1 .. Len(q) : (p \o q)[Len(p) + i] = q[i]
  <2>1. IsSequence(p) /\ IsSequence(q)
    BY <1>2, <1>3
  <2> QED BY <2>1, Joined
<1>5. g = p \o q
  BY Zenon DEF p, q, Rest
<1>6. CASE tail = "WHOLE"
  <2>1. Len(q) = 0
    BY <1>3, <1>6
  <2>2. Len(g) = n
    BY <1>1, <1>2, <1>4, <1>5, <2>1
  <2>3. IsSequence(g) /\ \A i \in 1 .. n : g[i] = f[i]
    BY <1>2, <1>4, <1>5
  <2> QED BY <1>6, <2>2, <2>3
<1>7. CASE tail # "WHOLE"
  <2>1. Len(g) = n + 1 /\ g[n + 1] = q[1]
    BY <1>1, <1>2, <1>3, <1>4, <1>5, <1>7
  <2> QED BY <1>2, <1>3, <1>4, <1>5, <1>7, <2>1
<1> QED BY <1>6, <1>7

LEMMA LaidCrash ==
  ASSUME IInv, IInv', Fresh, NEW at, Laid(at),
         NEW n \in 0 .. Len(file), NEW tail \in {"WHOLE", "MAGIC_CUT", "CHUNK_CUT"}, Crash(n, tail)
  PROVE  \E bt : Laid(bt)'
<1> DEFINE K == Len(samples)
           N == at[K + 1]
           x == [taking EXCEPT !.gone = closed]
<1>1. /\ stage = "running" /\ stage' = "crashed" /\ n \in flushed .. Len(file) /\ flushed' = flushed
      /\ n = Len(file) <=> tail = "WHOLE"
      /\ file' = Rest(file, n, tail)
      /\ samples' = IF job \in {"mapped", "traced"} THEN Append(samples, x) ELSE samples
  BY Zenon DEF Crash, Rest
<1>2. /\ samples \in Seq(Sample) /\ K \in Nat /\ N \in Nat /\ PartsOf(file, samples, at)
      /\ IsSequence(file) /\ Len(file) \in Nat /\ flushed \in 0 .. Len(file)
      /\ at \in [1 .. K + 1 -> Nat] /\ at[1] = 0
      /\ \A i \in 1 .. K : at[i + 1] = at[i] + Size(samples[i])
      /\ Len(file) = N + Begun
      /\ \A j \in 1 .. Begun : file[N + j] = Chunks(taking)[j]
      /\ \A i \in 1 .. K : i < K \/ samples[i].safe => at[i + 1] <= flushed
      /\ Begun > 0 => N <= flushed
  BY <1>1, LaidRunning, Zenon
<1>3. /\ IsSequence(file') /\ \A i \in 1 .. n : file'[i] = file[i]
      /\ IF tail = "WHOLE" THEN Len(file') = n ELSE Len(file') = n + 1 /\ file'[Len(file')] = [kind |-> tail]
  <2>1. n \in 0 .. Len(file)
    OBVIOUS
  <2>2. file' = Rest(file, n, tail)
    BY <1>1
  <2>3. IsSequence(file)
    BY <1>2
  <2> QED BY <2>1, <2>2, <2>3, Torn
<1>4. n \in Nat /\ n <= Len(file) /\ flushed <= n /\ Len(file') \in Nat /\ n <= Len(file')
  BY <1>1, <1>2, <1>3
<1>5. ASSUME NEW bt, PartsOf(file', samples', bt), bt[Len(samples') + 1] = n
      PROVE  Laid(bt)'
  <2>1. Finished(bt)'
    <3>1. CASE tail = "WHOLE"
      BY <1>3, <1>5, <3>1 DEF Finished
    <3>2. CASE tail # "WHOLE"
      BY <1>3, <1>5, <3>2 DEF Finished
    <3> QED BY <3>1, <3>2
  <2>2. flushed' \in 0 .. Len(file')
    BY <1>1, <1>2, <1>4
  <2> QED BY <1>1, <1>5, <2>1, <2>2 DEF Laid, Parts
<1>6. CASE job \in {"mapped", "traced"}
  <2>1. taking \in Sample /\ x \in Sample /\ x.traces = taking.traces /\ x.maps = taking.maps /\ ~x.safe
    <3>1. taking \in Sample /\ closed \subseteq Loads
      BY DEF IInv, Typed
    <3> QED BY <3>1 DEF Sample, Fresh
  <2> HIDE DEF x
  <2>2. Len(x.traces) \in Nat /\ Size(x) \in Nat /\ Size(x) >= 2 * Len(x.traces) + 2
    BY <2>1, SizeIs
  <2>3. Begun \in Nat /\ Begun > 0 /\ Begun <= 1 + 2 * Len(x.traces)
    <3>1. CASE job = "mapped"
      BY <2>2, <3>1 DEF Begun
    <3>2. CASE job = "traced"
      BY <2>1, <2>2, <3>2 DEF Begun
    <3> QED BY <1>6, <3>1, <3>2
  <2>4. \A j \in 1 .. 1 + 2 * Len(x.traces) : Chunks(x)[j] = Chunks(taking)[j]
    BY <2>1, ChunksSame
  <2> HIDE DEF N, K
  <2>5. N <= n /\ n <= N + Size(x) /\ n - N <= Begun
    BY <1>2, <1>4, <2>2, <2>3
  <2>6. PartsOf(file', samples, at)
    <3>1. N <= Len(file') /\ \A i \in 1 .. N : file'[i] = file[i]
      BY <1>2, <1>3, <1>4, <2>5
    <3> QED BY <1>2, <1>3, <3>1, PartsStay DEF N, K
  <2>7. \A j \in 1 .. n - N : file'[N + j] = Chunks(x)[j]
    <3> TAKE j \in 1 .. n - N
    <3>1. j \in 1 .. Begun /\ N + j \in 1 .. n /\ j \in 1 .. 1 + 2 * Len(x.traces)
      BY <1>2, <1>4, <2>2, <2>3, <2>5
    <3> QED BY <1>2, <1>3, <2>4, <3>1
  <2>8. Adds(file', samples, at, x, n)
    BY <1>2, <1>4, <2>1, <2>5, <2>6, <2>7 DEF Adds, N, K
  <2>9. samples' = Append(samples, x) /\ Len(samples') = K + 1
    BY <1>1, <1>2, <1>6, <2>1, AppendProperties DEF K
  <2>10. PICK bt : bt = Added(samples, at, n)
    OBVIOUS
  <2>11. PartsOf(file', samples', bt)
    BY <2>8, <2>9, <2>10, PartAdded
  <2>12. bt[Len(samples') + 1] = n
    <3>1. Len(samples') + 1 = K + 2 /\ K + 2 \in 1 .. K + 2
      BY <1>2, <2>9
    <3> QED BY <2>10, <3>1 DEF Added, K
  <2> QED BY <1>5, <2>11, <2>12
<1>7. CASE job \notin {"mapped", "traced"}
  <2>1. Begun = 0 /\ samples' = samples
    BY <1>1, <1>7 DEF Begun
  <2>2. Len(file) = N
    BY <1>2, <2>1
  <2>3. CASE K = 0
    <3>1. N = 0 /\ n = 0
      BY <1>2, <1>4, <2>2, <2>3
    <3>2. PartsOf(file', samples, at)
      <4>1. N <= Len(file') /\ \A i \in 1 .. N : file'[i] = file[i]
        BY <1>3, <1>4, <3>1
      <4> QED BY <1>2, <1>3, <4>1, PartsStay
    <3> QED BY <1>5, <2>1, <3>1, <3>2
  <2>4. CASE K # 0
    <3>1. samples[K].safe => n = N
      <4>1. K \in 1 .. K
        BY <1>2, <2>4
      <4> HIDE DEF K
      <4> QED BY <1>2, <1>4, <2>2, <4>1 DEF N
    <3>2. at[K] <= n
      <4>1. CASE K = 1
        BY <1>2, <1>4, <4>1
      <4>2. CASE K # 1
        <5> HIDE DEF K, N
        <5>1. K - 1 \in 1 .. K /\ K - 1 < K /\ (K - 1) + 1 = K /\ K \in 1 .. K + 1
          BY <1>2, <2>4, <4>2
        <5>2. at[K] <= flushed /\ at[K] \in Nat
          BY <1>2, <5>1
        <5>3. flushed \in Nat /\ n \in Nat /\ flushed <= n
          BY <1>2, <1>4
        <5> QED BY ONLY <5>2, <5>3
      <4> QED BY <4>1, <4>2
    <3>3. PICK bt : bt = [at EXCEPT ![K + 1] = n]
      OBVIOUS
    <3>4. PartsOf(file', samples, bt)
      <4>1. n <= N
        BY <1>4, <2>2
      <4>2. /\ samples \in Seq(Sample) /\ PartsOf(file, samples, at) /\ n \in Nat
            /\ Len(samples) # 0 /\ IsSequence(file') /\ n <= Len(file')
        BY <1>2, <1>3, <1>4, <2>4
      <4>3. /\ at[Len(samples)] <= n /\ n <= at[Len(samples) + 1]
            /\ samples[Len(samples)].safe => n = at[Len(samples) + 1]
        BY <3>1, <3>2, <4>1
      <4>4. \A j \in 1 .. n : file'[j] = file[j]
        BY <1>3
      <4>5. PartsOf(file', samples, [at EXCEPT ![Len(samples) + 1] = n])
        BY ONLY <4>2, <4>3, <4>4, PartCut
      <4> QED BY <3>3, <4>5
    <3>5. bt[K + 1] = n
      <4>1. K + 1 \in 1 .. K + 1
        BY <1>2
      <4> HIDE DEF K
      <4> QED BY <1>2, <3>3, <4>1
    <3> QED BY <1>5, <2>1, <3>4, <3>5
  <2> QED BY <2>3, <2>4
<1> QED BY <1>6, <1>7

\* What the decoder is to show depends on the samples only.
LEMMA SameSamples ==
  ASSUME samples' = samples
  PROVE  /\ ToShow' = ToShow
         /\ \A d : Count(d)' = Count(d)
         /\ \A i, m : Upto(i, m)' = Upto(i, m)
         /\ \A j, i : Shows(j, i)' <=> Shows(j, i)
<1>1. ToShow' = ToShow
  BY DEF ToShow
<1>2. \A d : Count(d)' = Count(d)
  BY <1>1 DEF Count
<1>3. \A i, m : Upto(i, m)' = Upto(i, m)
  BY DEF Upto
<1>4. ASSUME NEW j, NEW i PROVE Shows(j, i)' <=> Shows(j, i)
  BY <1>1, <1>2, <1>3, Zenon DEF Shows
<1> QED BY <1>1, <1>2, <1>3, <1>4

LEMMA AtStart ==
  ASSUME NEW at, Parts(at), Typed, Unread
  PROVE  Place(at, 0, 1, 0)
<1> DEFINE K == Len(samples)
<1>1. /\ samples \in Seq(Sample) /\ K \in Nat /\ IsSequence(samples) /\ at[1] = 0
      /\ \A i \in 1 .. K + 1 : at[i] \in Nat /\ at[1] <= at[i]
  <2>1. samples \in Seq(Sample) /\ K \in Nat
    BY DEF Typed
  <2>2. at[1] = 0
    BY DEF Parts, PartsOf
  <2>3. \A i \in 1 .. K + 1 : at[i] \in Nat
    BY <2>1, PartsRise DEF Parts
  <2>4. IsSequence(samples)
    BY <2>1, SequenceOf
  <2> QED BY <2>1, <2>2, <2>3, <2>4
<1>2. Count(0) = 0
  <2>1. Selected(samples, ToShow, 0) = <<>>
    BY <1>1, SelectedUnfolds
  <2> QED BY <2>1 DEF Count
<1>3. JsonsSound(0)
  <2>1. IsSequence(<<>>) /\ Len(<<>>) = 0
    BY DEF IsSequence
  <2>2. jsons = <<>>
    BY DEF Unread
  <2>3. 1 .. 0 = {} /\ 2 .. 0 = {}
    OBVIOUS
  <2> QED BY <2>1, <2>2, <2>3 DEF JsonsSound
<1>4. next = at[0 + 1] + 1 /\ entries = <<>> /\ text = NoText /\ number = 0 /\ status = "reading"
  BY <1>1 DEF Unread
<1>5. IF 0 = K THEN 1 = 1 ELSE 1 <= Size(samples[0 + 1]) /\ at[0 + 1] + 1 <= at[0 + 2] + 1
  <2>1. CASE K # 0
    <3>1. samples[1] \in Sample /\ 2 \in 1 .. K + 1
      BY <1>1, <2>1
    <3>2. Size(samples[1]) >= 2
      <4>1. /\ Size(samples[1]) \in Nat /\ Len(samples[1].traces) \in Nat
            /\ Size(samples[1]) >= 2 * Len(samples[1].traces) + 2
        BY <3>1, SizeIs
      <4> QED BY <4>1
    <3>3. 0 + 1 = 1 /\ 0 + 2 = 2 /\ at[1] + 1 <= at[2] + 1
      BY <1>1, <3>1
    <3>4. 1 <= Size(samples[1])
      <4>1. Size(samples[1]) \in Nat
        BY <3>1, SizeIs
      <4> QED BY <3>2, <4>1
    <3> QED BY <2>1, <3>3, <3>4
  <2> QED BY <2>1
<1>6. at[0 + 1] + 1 = at[0 + 1] + 1 + 0
  BY <1>1
<1> QED BY <1>2, <1>3, <1>4, <1>5, <1>6 DEF Place

LEMMA LaidStart ==
  ASSUME IInv, Fresh, Unread, NEW at, Laid(at), StartDecoder
  PROVE  Laid(at)'
<1>1. /\ stage \in {"ended", "crashed"} /\ stage' = "decoding"
      /\ UNCHANGED <<file, flushed, samples>> /\ UNCHANGED decoderVars
  BY DEF StartDecoder, fileVars
<1>2. Parts(at) /\ Finished(at) /\ flushed \in 0 .. Len(file)
  BY <1>1 DEF Laid
<1>3. Place(at, 0, 1, 0)
  BY <1>2, AtStart DEF IInv
<1>4. Place(at, 0, 1, 0)'
  <2>1. \A d : JsonsSound(d)' <=> JsonsSound(d)
    BY <1>1, SameSamples, Zenon DEF JsonsSound, decoderVars
  <2>2. \A d : Count(d)' = Count(d)
    BY <1>1, SameSamples
  <2> QED BY <1>1, <1>3, <2>1, <2>2 DEF Place, decoderVars
<1>5. Parts(at)' /\ Finished(at)'
  BY <1>1, <1>2 DEF Parts, Finished
<1>6. Decoded(at)'
  <2>1. Len(samples') \in Nat
    BY <1>1 DEF IInv, Typed
  <2>2. 0 \in 0 .. Len(samples') /\ 1 \in Nat \ {0} /\ 0 \in Nat
    BY <2>1
  <2> QED BY <1>4, <2>2 DEF Decoded
<1> QED BY <1>1, <1>2, <1>5, <1>6 DEF Laid

\* The other steps of the program leave the file and the samples alone.
LEMMA LaidProgram ==
  ASSUME IInv, IInv', Fresh, NEW at, Laid(at), Program
  PROVE  \E bt : Laid(bt)'
<1>1. CASE (\E s \in Slots, o \in Objects : Open(s, o)) \/ (\E s \in Slots : Close(s))
  <2>1. stage = "running" /\ UNCHANGED <<stage, file, flushed, samples, job, taking>>
    BY <1>1 DEF Open, Close, fileVars
  <2> QED BY <2>1, LaidAside DEF Begun
<1>2. CASE \E i \in DOMAIN Threads, a \in Addresses : Record(i, a)
  <2>1. stage = "running" /\ UNCHANGED <<stage, file, flushed, samples, job, taking>>
    BY <1>2 DEF Record, fileVars
  <2> QED BY <2>1, LaidAside DEF Begun
<1>3. CASE WritePause \/ GetPause
  <2>1. /\ stage = "running" /\ UNCHANGED <<stage, file, flushed, samples>> /\ job = "idle"
        /\ job' \in {"write", "get"}
    BY <1>3 DEF WritePause, GetPause, fileVars
  <2> QED BY <2>1, LaidAside DEF Begun
<1>4. CASE GetTraces \/ (\E t \in Texts : GetMaps(t))
  <2>1. /\ stage = "running" /\ UNCHANGED <<stage, file, flushed, samples>> /\ job \in {"get", "copied"}
        /\ job' \in {"copied", "idle"}
    BY <1>4 DEF GetTraces, GetMaps, fileVars
  <2> QED BY <2>1, LaidAside DEF Begun
<1>5. CASE FreeSnapshot
  <2>1. stage = "running" /\ UNCHANGED <<stage, file, flushed, samples, job, taking>>
    BY <1>5 DEF FreeSnapshot, fileVars
  <2> QED BY <2>1, LaidAside DEF Begun
<1>6. CASE WriteMaps \/ WriteTraces \/ (\E t \in Texts : WriteEnd(t))
  BY <1>6, LaidWriteMaps, LaidWriteTraces, LaidWriteEnd
<1>7. CASE FlushSnapshot
  BY <1>7, LaidFlush
<1>8. CASE WriteSnapshot \/ (\E t \in Texts : CoreDump(t))
  <2>1. PICK t \in Texts : WriteSnapshot \/ CoreDump(t)
    BY <1>8 DEF Texts
  <2> QED BY <2>1, LaidAnew
<1>9. CASE Exit
  <2>1. /\ stage = "running" /\ stage' = "ended" /\ UNCHANGED <<file, flushed, samples>>
        /\ job = "idle"
    BY <1>9 DEF Exit, fileVars
  <2>2. Begun = 0
    BY <2>1 DEF Begun
  <2>3. /\ at[Len(samples) + 1] \in Nat /\ Len(file) = at[Len(samples) + 1] + Begun
        /\ PartsOf(file, samples, at) /\ flushed \in 0 .. Len(file)
    BY <2>1, LaidRunning, Zenon
  <2>4. Len(file) = at[Len(samples) + 1]
    BY <2>2, <2>3
  <2>5. Finished(at)'
    BY <2>1, <2>4 DEF Finished
  <2>6. Laid(at)'
    BY <2>1, <2>3, <2>5 DEF Laid, Parts
  <2> QED BY <2>6
<1>10. CASE \E n \in 0 .. Len(file), tail \in {"WHOLE", "MAGIC_CUT", "CHUNK_CUT"} : Crash(n, tail)
  BY <1>10, LaidCrash
<1> QED BY <1>1, <1>2, <1>3, <1>4, <1>5, <1>6, <1>7, <1>8, <1>9, <1>10 DEF Program

------------------------------------------------------------------------------
(* The steps of the decoder.                                                *)

\* What a chunk says of where it is.
LEMMA KindOf ==
  ASSUME NEW s \in Sample, NEW m \in Nat, m <= Len(s.traces), NEW o \in 1 .. Size(s),
         o = 1 \/ o = 2 * m + 2 \/ o = 2 * m + 3
  PROVE  LET c == Chunks(s)[o]
             T == Len(s.traces)
         IN /\ c.kind \in {"PROCMAPS", "THREADID", "TRACEBUF", "FTRACETX", "ENDTRACE"}
            /\ c.kind = "PROCMAPS" => o = 1 /\ c.maps = s.maps
            /\ c.kind = "THREADID" => o = 2 * m + 2 /\ m < T /\ c.id = s.traces[m + 1].id
            /\ c.kind = "TRACEBUF" => o = 2 * m + 3 /\ m < T /\ c.events = s.traces[m + 1].events
            /\ c.kind = "FTRACETX" => o = 2 * m + 2 /\ m = T /\ c.text = s.text
            /\ IF c.kind = "ENDTRACE" THEN o = Size(s) /\ m = T /\ o # 1 ELSE o < Size(s)
<1> DEFINE T == Len(s.traces)
           c == Chunks(s)[o]
           B == TraceChunks(s.traces)
<1>1. /\ IsSequence(s.traces) /\ T \in Nat /\ Size(s) \in Nat
      /\ Size(s) = IF s.text = NoText THEN 2 * T + 2 ELSE 2 * T + 3
  <2>1. IsSequence(s.traces) /\ T \in Nat /\ Size(s) \in Nat
    BY SizeIs
  <2>2. CASE s.text = NoText
    BY <2>1, <2>2 DEF Size
  <2>3. CASE s.text # NoText
    BY <2>1, <2>3 DEF Size
  <2> QED BY <2>1, <2>2, <2>3
<1>2. /\ Chunks(s)[1] = [kind |-> "PROCMAPS", maps |-> s.maps]
      /\ \A j \in 1 .. 2 * T : Chunks(s)[1 + j] = B[j]
      /\ s.text # NoText => Chunks(s)[2 * T + 2] = [kind |-> "FTRACETX", text |-> s.text]
      /\ Chunks(s)[Size(s)] = [kind |-> "ENDTRACE"]
  BY <1>1, ChunksAre
<1>3. \A k \in 1 .. T : /\ B[2 * k - 1] = [kind |-> "THREADID", id |-> s.traces[k].id]
                        /\ B[2 * k] = [kind |-> "TRACEBUF", events |-> s.traces[k].events]
  BY <1>1, TraceChunksAre
<1>4. m <= T
  OBVIOUS
<1>5. CASE o = 1
  <2>1. c = [kind |-> "PROCMAPS", maps |-> s.maps]
    BY <1>2, <1>5
  <2>2. o < Size(s)
    <3>1. CASE s.text = NoText
      BY <1>1, <1>5, <3>1
    <3>2. CASE s.text # NoText
      BY <1>1, <1>5, <3>2
    <3> QED BY <3>1, <3>2
  <2> QED BY <1>5, <2>1, <2>2
<1>0. o <= 2 * T + 1 => o < Size(s)
  <2>1. CASE s.text = NoText
    BY <1>1, <2>1
  <2>2. CASE s.text # NoText
    BY <1>1, <2>2
  <2> QED BY <2>1, <2>2
<1>6. CASE o = 2 * m + 2 /\ m < T
  <2>1. m + 1 \in 1 .. T /\ 2 * (m + 1) - 1 \in 1 .. 2 * T /\ 1 + (2 * (m + 1) - 1) = o
    BY <1>1, <1>6
  <2>2. c = [kind |-> "THREADID", id |-> s.traces[m + 1].id]
    BY <1>2, <1>3, <2>1
  <2>3. o < Size(s)
    BY <1>0, <1>1, <1>6
  <2> QED BY <1>6, <2>2, <2>3
<1>7. CASE o = 2 * m + 3 /\ m < T
  <2>1. m + 1 \in 1 .. T /\ 2 * (m + 1) \in 1 .. 2 * T /\ 1 + 2 * (m + 1) = o
    BY <1>1, <1>7
  <2>2. c = [kind |-> "TRACEBUF", events |-> s.traces[m + 1].events]
    BY <1>2, <1>3, <2>1
  <2>3. o < Size(s)
    BY <1>0, <1>1, <1>7
  <2> QED BY <1>7, <2>2, <2>3
<1>8. CASE o = 2 * m + 2 /\ m = T
  <2>1. CASE s.text = NoText
    <3>1. c = [kind |-> "ENDTRACE"] /\ o = Size(s) /\ o # 1
      BY <1>1, <1>2, <1>8, <2>1
    <3> QED BY <1>8, <3>1
  <2>2. CASE s.text # NoText
    <3>1. c = [kind |-> "FTRACETX", text |-> s.text]
      BY <1>2, <1>8, <2>2
    <3>2. o < Size(s)
      BY <1>1, <1>8, <2>2
    <3> QED BY <1>8, <3>1, <3>2
  <2> QED BY <2>1, <2>2
<1>9. CASE o = 2 * m + 3 /\ m = T
  <2>1. o = Size(s) /\ o # 1
    <3>1. CASE s.text = NoText
      BY <1>1, <1>9, <3>1
    <3>2. CASE s.text # NoText
      BY <1>1, <1>9, <3>2
    <3> QED BY <3>1, <3>2
  <2>2. c = [kind |-> "ENDTRACE"]
    BY <1>2, <2>1
  <2> QED BY <1>9, <2>1, <2>2
<1>10. m < T \/ m = T
  BY <1>1, <1>4
<1> QED BY <1>5, <1>6, <1>7, <1>8, <1>9, <1>10

\* What there is when the decoder is somewhere.
LEMMA PlaceIs ==
  ASSUME IInv, NEW at, Parts(at), NEW d \in 0 .. Len(samples), NEW o \in Nat \ {0}, NEW m, Place(at, d, o, m)
  PROVE  LET K == Len(samples)
         IN /\ samples \in Seq(Sample) /\ K \in Nat /\ IsSequence(samples)
            /\ at[d + 1] \in Nat /\ at[K + 1] \in Nat /\ at[d + 1] <= at[K + 1] /\ at[K + 1] <= Len(file)
            /\ IsSequence(file) /\ Len(file) \in Nat
            /\ d # K => /\ d + 1 \in 1 .. K /\ samples[d + 1] \in Sample /\ Size(samples[d + 1]) \in Nat
                        /\ at[d + 2] \in Nat /\ at[d + 2] <= at[K + 1]
                        /\ at[d + 2] <= at[d + 1] + Size(samples[d + 1])
                        /\ d + 1 # K => at[d + 2] = at[d + 1] + Size(samples[d + 1])
                        /\ d + 1 = K => at[d + 2] = at[K + 1]
                        /\ \A j \in 1 .. at[d + 2] - at[d + 1] : file[at[d + 1] + j] = Chunks(samples[d + 1])[j]
<1> DEFINE K == Len(samples)
<1>1. samples \in Seq(Sample) /\ K \in Nat
  BY DEF IInv, Typed
<1>2. IsSequence(samples)
  BY <1>1, SequenceOf
<1>3. /\ IsSequence(file) /\ at[K + 1] <= Len(file)
      /\ \A i \in 1 .. K :
           /\ at[i + 1] <= at[i] + Size(samples[i])
           /\ i < K => at[i + 1] = at[i] + Size(samples[i])
           /\ \A j \in 1 .. at[i + 1] - at[i] : file[at[i] + j] = Chunks(samples[i])[j]
  BY DEF Parts, PartsOf
<1>4. \A i \in 1 .. K + 1 : at[i] \in Nat /\ at[i] <= at[K + 1]
  BY <1>1, PartsRise DEF Parts
<1>5. Len(file) \in Nat
  BY <1>3 DEF IsSequence
<1>6. d + 1 \in 1 .. K + 1 /\ K + 1 \in 1 .. K + 1
  BY <1>1
<1>7. ASSUME d # K
      PROVE  /\ d + 1 \in 1 .. K /\ samples[d + 1] \in Sample /\ Size(samples[d + 1]) \in Nat
             /\ at[d + 2] \in Nat /\ at[d + 2] <= at[K + 1]
             /\ at[d + 2] <= at[d + 1] + Size(samples[d + 1])
             /\ d + 1 # K => at[d + 2] = at[d + 1] + Size(samples[d + 1])
             /\ d + 1 = K => at[d + 2] = at[K + 1]
             /\ \A j \in 1 .. at[d + 2] - at[d + 1] : file[at[d + 1] + j] = Chunks(samples[d + 1])[j]
  <2>1. d + 1 \in 1 .. K /\ d + 2 \in 1 .. K + 1 /\ (d + 1) + 1 = d + 2 /\ (d + 1 # K => d + 1 < K)
    BY <1>1, <1>7
  <2>2. samples[d + 1] \in Sample
    BY <1>1, <2>1
  <2>3. Size(samples[d + 1]) \in Nat
    BY <2>2, SizeIs
  <2> HIDE DEF K
  <2>4. /\ at[d + 2] <= at[d + 1] + Size(samples[d + 1])
        /\ d + 1 < K => at[d + 2] = at[d + 1] + Size(samples[d + 1])
        /\ \A j \in 1 .. at[d + 2] - at[d + 1] : file[at[d + 1] + j] = Chunks(samples[d + 1])[j]
    BY <1>3, <2>1
  <2>5. at[d + 2] \in Nat /\ at[d + 2] <= at[K + 1] /\ (d + 1 = K => at[d + 2] = at[K + 1])
    BY <1>4, <2>1
  <2> QED BY <2>1, <2>2, <2>3, <2>4, <2>5
<1>8. at[d + 1] \in Nat /\ at[K + 1] \in Nat /\ at[d + 1] <= at[K + 1]
  BY <1>4, <1>6
<1> QED BY <1>1, <1>2, <1>3, <1>5, <1>7, <1>8

\* The decoder comes to a chunk of its sample, or to the end of the last one.
LEMMA AtChunk ==
  ASSUME IInv, NEW at, Parts(at), Finished(at), NEW d \in 0 .. Len(samples), NEW o \in Nat \ {0}, NEW m,
         Place(at, d, o, m), status = "reading"
  PROVE  \/ /\ next = Len(file) + 1 /\ next = at[d + 1] + o /\ next = at[Len(samples) + 1] + 1
         \/ /\ next = Len(file) /\ next = at[d + 1] + o /\ next = at[Len(samples) + 1] + 1
            /\ Chunk.kind \in {"MAGIC_CUT", "CHUNK_CUT"}
         \/ /\ d + 1 \in 1 .. Len(samples) /\ next = at[d + 1] + o /\ o \in 1 .. Size(samples[d + 1])
            /\ next <= at[d + 2] /\ next \in 1 .. Len(file) /\ Chunk = Chunks(samples[d + 1])[o]
<1> DEFINE K == Len(samples)
           S == samples[d + 1]
<1>1. /\ K \in Nat /\ at[d + 1] \in Nat /\ at[K + 1] \in Nat /\ at[d + 1] <= at[K + 1]
      /\ at[K + 1] <= Len(file) /\ Len(file) \in Nat
      /\ d # K => /\ d + 1 \in 1 .. K /\ Size(S) \in Nat
                  /\ at[d + 2] \in Nat /\ at[d + 2] <= at[K + 1]
                  /\ d + 1 # K => at[d + 2] = at[d + 1] + Size(S)
                  /\ d + 1 = K => at[d + 2] = at[K + 1]
                  /\ \A j \in 1 .. at[d + 2] - at[d + 1] : file[at[d + 1] + j] = Chunks(S)[j]
  BY PlaceIs
<1>2. /\ next = at[d + 1] + o + 0
      /\ d = K => o = 1
      /\ d # K => o <= Size(S) /\ at[d + 1] + o <= at[d + 2] + 1
  BY DEF Place
<1>3. \/ Len(file) = at[K + 1]
      \/ Len(file) = at[K + 1] + 1 /\ file[Len(file)].kind \in {"MAGIC_CUT", "CHUNK_CUT"}
  BY Zenon DEF Finished
<1> HIDE DEF K, S
<1>4. next = at[d + 1] + o
  BY <1>1, <1>2
<1>5. CASE next = at[K + 1] + 1
  <2>1. CASE Len(file) = at[K + 1]
    BY <1>4, <1>5, <2>1 DEF K
  <2>2. CASE Len(file) = at[K + 1] + 1 /\ file[Len(file)].kind \in {"MAGIC_CUT", "CHUNK_CUT"}
    BY <1>4, <1>5, <2>2 DEF K, Chunk
  <2> QED BY <1>3, <2>1, <2>2
<1>6. CASE next # at[K + 1] + 1
  <2>1. d # K
    BY <1>2, <1>4, <1>6
  <2>0. /\ at[d + 1] \in Nat /\ at[d + 2] \in Nat /\ at[K + 1] \in Nat /\ Size(S) \in Nat
        /\ at[d + 2] <= at[K + 1] /\ at[K + 1] <= Len(file) /\ Len(file) \in Nat
        /\ d + 1 # K => at[d + 2] = at[d + 1] + Size(S)
        /\ d + 1 = K => at[d + 2] = at[K + 1]
        /\ o <= Size(S) /\ at[d + 1] + o <= at[d + 2] + 1
    BY <1>1, <1>2, <2>1
  <2>2. next <= at[d + 2]
    <3>1. CASE d + 1 = K
      BY <1>4, <1>6, <2>0, <3>1
    <3>2. CASE d + 1 # K
      BY <1>4, <2>0, <3>2
    <3> QED BY <3>1, <3>2
  <2>3. o \in 1 .. at[d + 2] - at[d + 1] /\ o \in 1 .. Size(S) /\ next \in 1 .. Len(file)
    <3>1. o \in 1 .. at[d + 2] - at[d + 1]
      BY <1>4, <2>0, <2>2
    <3>2. o \in 1 .. Size(S)
      BY <2>0
    <3>3. next \in 1 .. Len(file)
      <4>1. next \in Nat /\ next >= 1
        BY <1>4, <2>0
      <4> QED BY <2>0, <2>2, <4>1
    <3> QED BY <3>1, <3>2, <3>3
  <2>4. file[next] = Chunks(S)[o]
    BY <1>1, <1>4, <2>1, <2>3
  <2> QED BY <1>1, <1>4, <2>1, <2>2, <2>3, <2>4 DEF K, S, Chunk
<1> QED BY <1>5, <1>6

\* What a chunk that is read is, for the decoder's place.
LEMMA ReadingIs ==
  ASSUME IInv, NEW at, Parts(at), Finished(at), NEW d \in 0 .. Len(samples), NEW o \in Nat \ {0},
         NEW m \in Nat, Place(at, d, o, m), NEW kind, Reading(kind)
  PROVE  LET S == samples[d + 1]
             T == Len(S.traces)
         IN /\ next' = next + 1 /\ status = "reading" /\ stage = "decoding" /\ next = at[d + 1] + o
            /\ \/ /\ kind \in {"MAGIC_CUT", "CHUNK_CUT"}
                  /\ next = Len(file) /\ next = at[Len(samples) + 1] + 1
               \/ /\ kind \in {"PROCMAPS", "THREADID", "TRACEBUF", "FTRACETX", "ENDTRACE"}
                  /\ d + 1 \in 1 .. Len(samples) /\ S \in Sample /\ o \in 1 .. Size(S) /\ next <= at[d + 2]
                  /\ IF o = 1 THEN entries = <<>> /\ text = NoText ELSE Within(d + 1, o, m)
                  /\ kind = "PROCMAPS" => o = 1 /\ Chunk.maps = S.maps
                  /\ kind # "PROCMAPS" => o # 1
                  /\ kind = "THREADID" => o = 2 * m + 2 /\ m < T /\ Chunk.id = S.traces[m + 1].id
                  /\ kind = "TRACEBUF" => o = 2 * m + 3 /\ m < T /\ Chunk.events = S.traces[m + 1].events
                  /\ kind = "FTRACETX" => o = 2 * m + 2 /\ m = T /\ Chunk.text = S.text
                  /\ IF kind = "ENDTRACE" THEN o = Size(S) /\ m = T ELSE o < Size(S)
<1> DEFINE S == samples[d + 1]
           T == Len(S.traces)
<1>1. /\ next' = next + 1 /\ status = "reading" /\ stage = "decoding"
      /\ next \in DOMAIN file /\ Chunk.kind = kind
  BY DEF Reading, Chunk
<1>2. Len(file) \in Nat /\ DOMAIN file = 1 .. Len(file) /\ samples \in Seq(Sample)
  <2>1. IsSequence(file) /\ samples \in Seq(Sample)
    BY PlaceIs
  <2>2. file \in Seq(Range(file))
    BY <2>1 DEF IsSequence
  <2> QED BY <2>1, <2>2
<1>3. \/ /\ next = Len(file) + 1 /\ next = at[d + 1] + o /\ next = at[Len(samples) + 1] + 1
      \/ /\ next = Len(file) /\ next = at[d + 1] + o /\ next = at[Len(samples) + 1] + 1
         /\ Chunk.kind \in {"MAGIC_CUT", "CHUNK_CUT"}
      \/ /\ d + 1 \in 1 .. Len(samples) /\ next = at[d + 1] + o /\ o \in 1 .. Size(samples[d + 1])
         /\ next <= at[d + 2] /\ next \in 1 .. Len(file) /\ Chunk = Chunks(samples[d + 1])[o]
  BY <1>1, AtChunk, Zenon
<1>4. next # Len(file) + 1
  BY <1>1, <1>2
<1>5. CASE /\ d + 1 \in 1 .. Len(samples) /\ next = at[d + 1] + o /\ o \in 1 .. Size(samples[d + 1])
           /\ next <= at[d + 2] /\ next \in 1 .. Len(file) /\ Chunk = Chunks(samples[d + 1])[o]
  <2>1. S \in Sample
    BY <1>2, <1>5
  <2>2. IF o = 1 THEN entries = <<>> /\ text = NoText ELSE Within(d + 1, o, m)
    BY Zenon DEF Place
  <2>3. Len(S.traces) \in Nat
    BY <2>1, SizeIs
  <2>4. CASE o = 1
    <3>1. 0 \in Nat /\ 0 <= Len(S.traces) /\ o \in 1 .. Size(S)
      BY <1>5, <2>3
    <3> HIDE DEF S
    <3>2. LET c == Chunks(S)[o]
          IN /\ c.kind \in {"PROCMAPS", "THREADID", "TRACEBUF", "FTRACETX", "ENDTRACE"}
             /\ c.kind = "PROCMAPS" => o = 1 /\ c.maps = S.maps
             /\ c.kind = "THREADID" => o = 2 * 0 + 2
             /\ c.kind = "TRACEBUF" => o = 2 * 0 + 3
             /\ c.kind = "FTRACETX" => o = 2 * 0 + 2
             /\ IF c.kind = "ENDTRACE" THEN o # 1 ELSE o < Size(S)
      BY <2>1, <2>4, <3>1, KindOf
    <3>3. /\ kind = "PROCMAPS" /\ Chunk.maps = S.maps /\ o < Size(S)
      BY <1>1, <1>5, <2>4, <3>2 DEF S
    <3> QED BY <1>1, <1>5, <2>1, <2>2, <2>4, <3>3 DEF S
  <2>5. CASE o # 1
    <3>0. Within(d + 1, o, m)
      BY <2>2, <2>5
    <3>1. m <= Len(S.traces) /\ (o = 2 * m + 2 \/ o = 2 * m + 3) /\ o \in 1 .. Size(S)
      BY <1>5, <3>0 DEF Within
    <3> HIDE DEF S
    <3>2. LET c == Chunks(S)[o]
          IN /\ c.kind \in {"PROCMAPS", "THREADID", "TRACEBUF", "FTRACETX", "ENDTRACE"}
             /\ c.kind = "PROCMAPS" => o = 1 /\ c.maps = S.maps
             /\ c.kind = "THREADID" => o = 2 * m + 2 /\ m < T /\ c.id = S.traces[m + 1].id
             /\ c.kind = "TRACEBUF" => o = 2 * m + 3 /\ m < T /\ c.events = S.traces[m + 1].events
             /\ c.kind = "FTRACETX" => o = 2 * m + 2 /\ m = T /\ c.text = S.text
             /\ IF c.kind = "ENDTRACE" THEN o = Size(S) /\ m = T /\ o # 1 ELSE o < Size(S)
      BY <2>1, <3>1, KindOf
    <3> HIDE DEF T
    <3> QED BY <1>1, <1>5, <2>1, <2>5, <3>0, <3>2 DEF S, T
  <2> QED BY <2>4, <2>5
<1>6. CASE /\ next = Len(file) /\ next = at[d + 1] + o /\ next = at[Len(samples) + 1] + 1
           /\ Chunk.kind \in {"MAGIC_CUT", "CHUNK_CUT"}
  BY <1>1, <1>6
<1> QED BY <1>3, <1>4, <1>5, <1>6

LEMMA LaidDecoding ==
  ASSUME NEW at, Laid(at), stage = "decoding", UNCHANGED outsideDecoder,
         NEW d \in 0 .. Len(samples), NEW o \in Nat \ {0}, NEW m \in Nat, Place(at, d, o, m)'
  PROVE  Laid(at)'
<1>1. UNCHANGED <<stage, file, flushed, samples>>
  BY DEF outsideDecoder, fileVars
<1>2. Parts(at)' /\ (flushed \in 0 .. Len(file))' /\ Finished(at)'
  BY <1>1 DEF Laid, Parts, Finished
<1>3. Decoded(at)'
  BY <1>1 DEF Decoded
<1> QED BY <1>1, <1>2, <1>3 DEF Laid

\* The decoder goes on to the next chunk of the sample.
LEMMA PlaceMoves ==
  ASSUME NEW at, NEW d \in 0 .. Len(samples), NEW o \in Nat \ {0}, NEW m, NEW m2,
         Place(at, d, o, m), IInv, Parts(at), status = "reading", UNCHANGED <<file, samples, number, jsons, status>>,
         next' = next + 1, d + 1 \in 1 .. Len(samples), o < Size(samples[d + 1]), next <= at[d + 2],
         Within(d + 1, o + 1, m2)'
  PROVE  Place(at, d, o + 1, m2)'
<1>1. \A k : JsonsSound(k)' <=> JsonsSound(k)
  BY SameSamples, Zenon DEF JsonsSound
<1>2. \A k : Count(k)' = Count(k)
  BY SameSamples
<1>3. d # Len(samples) /\ d # Len(samples')
  OBVIOUS
<1>4. /\ at[d + 1] \in Nat /\ at[d + 2] \in Nat /\ Size(samples[d + 1]) \in Nat
  BY <1>3, PlaceIs
<1>5. next = at[d + 1] + o + 0 /\ number = Count(d) /\ JsonsSound(d)
  BY DEF Place
<1>6. /\ next' = at[d + 1] + (o + 1) + 0 /\ o + 1 <= Size(samples'[d + 1])
      /\ at[d + 1] + (o + 1) <= at[d + 2] + 1 /\ o + 1 # 1
  <2> HIDE DEF Count, JsonsSound, Within
  <2> DEFINE a == at[d + 1]
             b == at[d + 2]
             z == Size(samples[d + 1])
  <2>1. /\ a \in Nat /\ b \in Nat /\ z \in Nat /\ o \in Nat \ {0} /\ next = a + o + 0
        /\ next' = next + 1 /\ o < z /\ next <= b /\ z = Size(samples'[d + 1])
    BY <1>4, <1>5
  <2> HIDE DEF a, b, z
  <2>2. next' = a + (o + 1) + 0 /\ o + 1 <= z /\ a + (o + 1) <= b + 1 /\ o + 1 # 1
    BY <2>1
  <2> QED BY <2>1, <2>2 DEF a, b, z
<1>7. number' = Count(d)' /\ JsonsSound(d)' /\ status' = "reading"
  BY <1>1, <1>2, <1>5
<1> HIDE DEF Within, JsonsSound, Count
<1> QED
  <2>1. Len(samples') = Len(samples) /\ status' # "failed" /\ status' \in {"reading", "done", "failed"}
    BY <1>7
  <2> QED BY <1>3, <1>6, <1>7, <2>1 DEF Place

\* One more trace of a sample.
LEMMA UptoNext ==
  ASSUME NEW i \in 1 .. Len(samples), samples \in Seq(Sample)
  PROVE  /\ Upto(i, 0) = <<>>
         /\ \A m \in 0 .. Len(samples[i].traces) : Upto(i, m) \in Seq(Trace)
         /\ \A m \in 0 .. Len(samples[i].traces) - 1 :
              Upto(i, m + 1) = IF samples[i].traces[m + 1].events = <<>> THEN Upto(i, m)
                               ELSE Append(Upto(i, m), samples[i].traces[m + 1])
<1> DEFINE q == samples[i].traces
           set == Filled(q)
           T(k) == Selected(q, set, k)
<1>1. samples[i] \in Sample
  OBVIOUS
<1>2. IsSequence(q) /\ Len(q) \in Nat /\ q \in Seq(Trace)
  BY <1>1, SizeIs DEF Sample
<1>3. /\ T(0) = <<>>
      /\ \A k \in 1 .. Len(q) : T(k) = IF q[k] \in set THEN Append(T(k - 1), q[k]) ELSE T(k - 1)
      /\ \A k \in 0 .. Len(q) : T(k) \in Seq(Range(q))
  BY <1>2, SelectedUnfolds, Zenon
<1>4. \A k \in 1 .. Len(q) : q[k] \in set <=> q[k].events # <<>>
  <2>1. \A k \in 1 .. Len(q) : q[k] \in Range(q)
    BY <1>2 DEF Range
  <2> QED BY <2>1 DEF Filled
<1>5. \A k \in 0 .. Len(q) : T(k) \in Seq(Trace)
  <2>1. Range(q) \subseteq Trace
    BY <1>2, SequenceOf
  <2>2. \A S, R : S \subseteq R => Seq(S) \subseteq Seq(R)
    OBVIOUS
  <2> HIDE DEF q, T
  <2> QED BY <1>3, <2>1, <2>2
<1>6. \A m : Upto(i, m) = T(m)
  BY DEF Upto
<1> HIDE DEF q, T, set
<1>7. ASSUME NEW m \in 0 .. Len(q) - 1
      PROVE  T(m + 1) = IF q[m + 1].events = <<>> THEN T(m) ELSE Append(T(m), q[m + 1])
  <2>1. m + 1 \in 1 .. Len(q) /\ (m + 1) - 1 = m
    BY <1>2
  <2> QED BY <1>3, <1>4, <2>1
<1>8. /\ Upto(i, 0) = <<>>
      /\ \A m \in 0 .. Len(q) : Upto(i, m) \in Seq(Trace)
      /\ \A m \in 0 .. Len(q) - 1 :
           Upto(i, m + 1) = IF q[m + 1].events = <<>> THEN Upto(i, m)
                            ELSE Append(Upto(i, m), q[m + 1])
  <2>1. Upto(i, 0) = <<>> /\ \A m \in 0 .. Len(q) : Upto(i, m) \in Seq(Trace)
    BY <1>3, <1>5, <1>6
  <2> QED BY <1>6, <1>7, <2>1
<1> QED BY <1>8 DEF q

LEMMA ReadOn ==
  ASSUME IInv, NEW at, Laid(at), stage = "decoding",
         NEW d \in 0 .. Len(samples), NEW o \in Nat \ {0}, NEW m \in Nat, Place(at, d, o, m),
         SetMaps \/ SetThread \/ AddTrace \/ SetText
  PROVE  Laid(at)'
<1> DEFINE i == d + 1
           S == samples[i]
           T == Len(S.traces)
<1>1. /\ UNCHANGED outsideDecoder /\ UNCHANGED <<file, samples, number, jsons, status>>
  BY DEF SetMaps, SetThread, AddTrace, SetText, outsideDecoder, fileVars
<1>2. Parts(at) /\ Finished(at)
  BY DEF Laid
<1>3. \A k, n : Upto(k, n)' = Upto(k, n)
  BY <1>1, SameSamples
<1>4. samples \in Seq(Sample)
  BY DEF IInv, Typed
<1>5. ASSUME NEW n \in Nat, i \in 1 .. Len(samples), next' = next + 1, status = "reading", o < Size(S), next <= at[d + 2],
             Within(i, o + 1, n)'
      PROVE  Laid(at)'
  <2>1. Place(at, d, o + 1, n)'
    BY <1>1, <1>2, <1>5, PlaceMoves
  <2>2. o + 1 \in Nat \ {0}
    OBVIOUS
  <2> QED BY <1>1, <2>1, <2>2, LaidDecoding
<1>6. CASE SetMaps
  <2>1. Reading("PROCMAPS") /\ maps' = Chunk.maps /\ offsets' = <<>> /\ syms' = <<>> /\ UNCHANGED <<entries, text>>
    BY <1>6 DEF SetMaps
  <2>2. /\ next' = next + 1 /\ status = "reading" /\ i \in 1 .. Len(samples) /\ S \in Sample /\ next <= at[d + 2]
        /\ o = 1 /\ Chunk.maps = S.maps /\ entries = <<>> /\ text = NoText /\ o < Size(S)
    <3>1. "PROCMAPS" \notin {"MAGIC_CUT", "CHUNK_CUT"} /\ "PROCMAPS" # "ENDTRACE"
      OBVIOUS
    <3> QED BY <1>2, <2>1, <3>1, ReadingIs
  <2>3. T \in Nat
    BY <2>2, SizeIs
  <2>4. entries' = Upto(i, 0)'
    BY <1>3, <1>4, <2>1, <2>2, UptoNext
  <2> HIDE DEF T, S, i
  <2>5. /\ 0 <= T /\ o + 1 = 2 * 0 + 2 /\ ~(o + 1 = 2 * 0 + 3) /\ ~(o + 1 > 2 * T + 2)
        /\ maps' = S.maps /\ DOMAIN syms' = {} /\ DOMAIN offsets' = {} /\ text' = NoText
    BY <2>1, <2>2, <2>3, EmptyDomain
  <2>6. Within(i, o + 1, 0)'
    BY <1>1, <2>4, <2>5 DEF Within, S, T
  <2> QED BY <1>5, <2>2, <2>6
<1>7. ASSUME NEW kind, Reading(kind), kind \in {"THREADID", "TRACEBUF", "FTRACETX"}
      PROVE  /\ next' = next + 1 /\ status = "reading" /\ i \in 1 .. Len(samples) /\ S \in Sample /\ next <= at[d + 2]
             /\ Within(i, o, m) /\ o < Size(S) /\ T \in Nat
             /\ kind = "THREADID" => o = 2 * m + 2 /\ m < T /\ Chunk.id = S.traces[m + 1].id
             /\ kind = "TRACEBUF" => o = 2 * m + 3 /\ m < T /\ Chunk.events = S.traces[m + 1].events
             /\ kind = "FTRACETX" => o = 2 * m + 2 /\ m = T /\ Chunk.text = S.text
  <2>1. kind \notin {"MAGIC_CUT", "CHUNK_CUT"} /\ kind # "ENDTRACE" /\ kind # "PROCMAPS"
    BY <1>7
  <2>2. /\ next' = next + 1 /\ status = "reading" /\ i \in 1 .. Len(samples) /\ S \in Sample /\ next <= at[d + 2]
        /\ Within(i, o, m) /\ o < Size(S)
        /\ kind = "THREADID" => o = 2 * m + 2 /\ m < T /\ Chunk.id = S.traces[m + 1].id
        /\ kind = "TRACEBUF" => o = 2 * m + 3 /\ m < T /\ Chunk.events = S.traces[m + 1].events
        /\ kind = "FTRACETX" => o = 2 * m + 2 /\ m = T /\ Chunk.text = S.text
    BY <1>2, <1>7, <2>1, ReadingIs
  <2>3. T \in Nat
    BY <2>2, SizeIs
  <2> QED BY <2>2, <2>3
<1> HIDE DEF T, S, i
<1>8. ASSUME Within(i, o, m)
      PROVE  /\ entries = Upto(i, m) /\ maps = S.maps
             /\ text = (IF o > 2 * T + 2 THEN S.text ELSE NoText)
             /\ (status = "reading" => DOMAIN syms = {} /\ DOMAIN offsets = {})
             /\ (o = 2 * m + 3 /\ m < T => thread = S.traces[m + 1].id)
  BY <1>8, Zenon DEF Within, S, T
<1>9. CASE SetThread
  <2>1. Reading("THREADID") /\ thread' = Chunk.id /\ UNCHANGED <<entries, text, maps, syms, offsets>>
    BY <1>9 DEF SetThread
  <2>2. /\ next' = next + 1 /\ status = "reading" /\ i \in 1 .. Len(samples) /\ next <= at[d + 2]
        /\ Within(i, o, m) /\ o < Size(S) /\ T \in Nat
        /\ o = 2 * m + 2 /\ m < T /\ Chunk.id = S.traces[m + 1].id
    BY <1>7, <2>1
  <2>3. m <= T /\ o + 1 = 2 * m + 3 /\ ~(o > 2 * T + 2) /\ ~(o + 1 > 2 * T + 2)
    BY <2>2
  <2>4. /\ entries' = Upto(i, m)' /\ maps' = S.maps /\ text' = NoText /\ DOMAIN syms' = {} /\ DOMAIN offsets' = {}
        /\ thread' = S.traces[m + 1].id
    BY <1>3, <1>8, <2>1, <2>2, <2>3
  <2>5. Within(i, o + 1, m)'
    BY <1>1, <2>3, <2>4 DEF Within, S, T
  <2> QED BY <1>5, <2>2, <2>5 DEF i, S
<1>10. CASE SetText
  <2>1. Reading("FTRACETX") /\ text' = Chunk.text /\ UNCHANGED <<thread, entries, maps, syms, offsets>>
    BY <1>10 DEF SetText
  <2>2. /\ next' = next + 1 /\ status = "reading" /\ i \in 1 .. Len(samples) /\ next <= at[d + 2]
        /\ Within(i, o, m) /\ o < Size(S) /\ T \in Nat
        /\ o = 2 * m + 2 /\ m = T /\ Chunk.text = S.text
    BY <1>7, <2>1
  <2>3. m <= T /\ ~(m < T) /\ o + 1 = 2 * m + 3 /\ o + 1 > 2 * T + 2
    BY <2>2
  <2>4. /\ entries' = Upto(i, m)' /\ maps' = S.maps /\ text' = S.text /\ DOMAIN syms' = {} /\ DOMAIN offsets' = {}
    BY <1>3, <1>8, <2>1, <2>2
  <2>5. Within(i, o + 1, m)'
    BY <1>1, <2>3, <2>4 DEF Within, S, T
  <2> QED BY <1>5, <2>2, <2>5 DEF i, S
<1>11. CASE AddTrace
  <2>1. /\ Reading("TRACEBUF") /\ UNCHANGED <<thread, text, maps, syms, offsets>>
        /\ entries' = IF Chunk.events = <<>> THEN entries
                      ELSE Append(entries, [id |-> thread, events |-> Chunk.events])
    BY <1>11 DEF AddTrace
  <2>2. /\ next' = next + 1 /\ status = "reading" /\ i \in 1 .. Len(samples) /\ next <= at[d + 2] /\ S \in Sample
        /\ Within(i, o, m) /\ o < Size(S) /\ T \in Nat
        /\ o = 2 * m + 3 /\ m < T /\ Chunk.events = S.traces[m + 1].events
    BY <1>7, <2>1, Zenon
  <2>3. /\ m + 1 <= T /\ o + 1 = 2 * (m + 1) + 2 /\ o + 1 # 2 * (m + 1) + 3
        /\ ~(o > 2 * T + 2) /\ ~(o + 1 > 2 * T + 2) /\ m \in 0 .. T - 1 /\ m + 1 \in 1 .. T /\ m + 1 \in Nat
    <3>1. m \in Nat /\ o \in Nat /\ T \in Nat /\ o = 2 * m + 3 /\ m < T
      BY <2>2
    <3> QED BY ONLY <3>1
  <2>4. /\ entries = Upto(i, m) /\ maps' = S.maps /\ text' = NoText /\ DOMAIN syms' = {} /\ DOMAIN offsets' = {}
        /\ thread = S.traces[m + 1].id
    BY <1>8, <2>1, <2>2, <2>3
  <2>5. [id |-> thread, events |-> Chunk.events] = S.traces[m + 1]
    <3>1. S.traces[m + 1] \in Trace
      <4>1. S.traces \in Seq(Trace)
        BY <2>2 DEF Sample
      <4>2. m + 1 \in 1 .. Len(S.traces)
        BY <2>3 DEF T
      <4> QED BY ONLY <4>1, <4>2, ElementOfSeq
    <3>2. S.traces[m + 1].id = thread /\ S.traces[m + 1].events = Chunk.events
      BY <2>2, <2>4
    <3> QED BY <3>1, <3>2 DEF Trace
  <2>6. Upto(i, m + 1) = IF S.traces[m + 1].events = <<>> THEN Upto(i, m)
                         ELSE Append(Upto(i, m), S.traces[m + 1])
    <3>1. samples \in Seq(Sample) /\ i \in 1 .. Len(samples)
      BY <1>4, <2>2
    <3>2. m \in 0 .. Len(samples[i].traces) - 1
      BY <2>3 DEF T, S
    <3> HIDE DEF i
    <3>3. Upto(i, m + 1) = IF samples[i].traces[m + 1].events = <<>> THEN Upto(i, m)
                           ELSE Append(Upto(i, m), samples[i].traces[m + 1])
      BY <3>1, <3>2, UptoNext
    <3> QED BY <3>3 DEF S
  <2>7. entries' = Upto(i, m + 1)'
    BY <1>3, <2>1, <2>2, <2>4, <2>5, <2>6
  <2>8. Within(i, o + 1, m + 1)'
    BY <1>1, <2>3, <2>4, <2>7 DEF Within, S, T
  <2> QED BY <1>5, <2>2, <2>3, <2>8 DEF i, S
<1> QED BY <1>6, <1>9, <1>10, <1>11

LEMMA CountNext ==
  ASSUME samples \in Seq(Sample)
  PROVE  /\ \A n \in 0 .. Len(samples) : Count(n) \in Nat
         /\ \A n \in 1 .. Len(samples) :
              Count(n) = IF samples[n] \in ToShow THEN Count(n - 1) + 1 ELSE Count(n - 1)
<1> DEFINE T(k) == Selected(samples, ToShow, k)
<1>1. IsSequence(samples) /\ Len(samples) \in Nat
  BY SequenceOf
<1>2. /\ \A k \in 1 .. Len(samples) : T(k) = IF samples[k] \in ToShow THEN Append(T(k - 1), samples[k]) ELSE T(k - 1)
      /\ \A k \in 0 .. Len(samples) : T(k) \in Seq(Range(samples))
  BY <1>1, SelectedUnfolds, Zenon
<1>3. \A n : Count(n) = Len(T(n))
  BY DEF Count
<1>4. ASSUME NEW n \in 1 .. Len(samples)
      PROVE  Count(n) = IF samples[n] \in ToShow THEN Count(n - 1) + 1 ELSE Count(n - 1)
  <2>1. CASE samples[n] \in ToShow
    <3>1. Len(T(n)) = Len(T(n - 1)) + 1
      BY <1>1, <2>1, SelectedAt
    <3> QED BY <1>3, <2>1, <3>1
  <2>2. CASE samples[n] \notin ToShow
    <3> HIDE DEF T
    <3> QED BY <1>2, <1>3, <2>2
  <2> QED BY <2>1, <2>2
<1> HIDE DEF T
<1>5. \A n \in 0 .. Len(samples) : Count(n) \in Nat
  BY <1>2, <1>3
<1> QED BY <1>4, <1>5

LEMMA ToShowIs ==
  ASSUME samples \in Seq(Sample), NEW i \in 1 .. Len(samples)
  PROVE  /\ samples[i] \in ToShow <=> Kept(samples[i].traces) # <<>> \/ samples[i].text # NoText
         /\ Kept(samples[i].traces) = Upto(i, Len(samples[i].traces))
         /\ \A m \in 0 .. Len(samples[i].traces) : Upto(i, m) # <<>> => samples[i] \in ToShow
<1> DEFINE q == samples[i].traces
           T(k) == Selected(q, Filled(q), k)
<1>1. samples[i] \in Sample /\ samples[i] \in Range(samples)
  BY DEF Range
<1>2. samples[i] \in ToShow <=> Kept(q) # <<>> \/ samples[i].text # NoText
  BY <1>1 DEF ToShow
<1>3. Kept(q) = T(Len(q)) /\ \A m : Upto(i, m) = T(m)
  BY Zenon DEF Kept, Upto
<1>4. IsSequence(q) /\ Len(q) \in Nat
  BY <1>1, SizeIs
<1>5. ASSUME NEW m \in 0 .. Len(q), T(m) # <<>> PROVE T(Len(q)) # <<>>
  <2>1. Len(q) \in m .. Len(q) /\ Len(q) \in 0 .. Len(q)
    BY <1>4
  <2>2. Len(T(m)) <= Len(T(Len(q)))
    BY <1>4, <2>1, SelectedGrows, Zenon
  <2>3. \A k \in 0 .. Len(q) : T(k) \in Seq(Range(q))
    BY <1>4, SelectedUnfolds, Zenon
  <2> HIDE DEF T
  <2>4. T(m) \in Seq(Range(q)) /\ T(Len(q)) \in Seq(Range(q))
    BY <2>1, <2>3
  <2>5. Len(T(m)) # 0 /\ Len(T(m)) \in Nat /\ Len(T(Len(q))) \in Nat
    BY <1>5, <2>4, EmptySeq
  <2>6. Len(T(Len(q))) # 0
    BY <2>2, <2>5
  <2> QED BY <2>6
<1> HIDE DEF T, q
<1> QED BY <1>2, <1>3, <1>5 DEF q

\* The JSON that the decoder writes is that of its sample.
LEMMA JsonWritten ==
  ASSUME IInv, NEW i \in 1 .. Len(samples), NEW o, NEW m \in Nat, Within(i, o, m), status = "reading",
         number = Count(i - 1), samples[i] \in ToShow, NEW closing \in BOOLEAN, WriteJson(closing),
         closing => entries = Kept(samples[i].traces) /\ text = samples[i].text
  PROVE  \E json : /\ jsons' = Append(jsons, json) /\ json.number = number /\ json.closed = closing
                   /\ Shows(json, i)
<1> DEFINE S == samples[i]
           new == Seen \ DOMAIN syms
           table == [a \in DOMAIN syms \cup new |-> IF a \in new THEN Lookup(a) ELSE syms[a]]
           Names == [a \in Seen |-> Alone(S.maps, a)]
           json == [number |-> number, traces |-> entries, text |-> text, closed |-> closing,
                    names |-> [a \in Seen |-> table[a]],
                    ignored |-> {a \in new : IsThunk(table[a])}]
<1>1. jsons' = Append(jsons, json)
  BY DEF WriteJson
<1>2. /\ entries = Upto(i, m) /\ maps = S.maps /\ m <= Len(S.traces) /\ text \in {NoText, S.text}
      /\ DOMAIN syms = {} /\ DOMAIN offsets = {}
  BY DEF Within
<1>3. \A a : Lookup(a) = Alone(S.maps, a)
  BY <1>2 DEF Lookup, Offset, Alone
<1>4. new = Seen
  BY <1>2
<1>5. DOMAIN table = Seen /\ \A a \in Seen : table[a] = Alone(S.maps, a)
  <2> HIDE DEF new
  <2> QED BY <1>2, <1>3, <1>4
<1> HIDE DEF table, new
<1>6. [a \in Seen |-> table[a]] = Names /\ {a \in new : IsThunk(table[a])} = {a \in Seen : IsThunk(Names[a])}
  BY <1>4, <1>5
<1>7. PICK j : j = json
  OBVIOUS
<1>8. /\ j.number = number /\ j.traces = entries /\ j.text = text /\ j.closed = closing
      /\ j.names = Names /\ j.ignored = {a \in Seen : IsThunk(Names[a])}
  BY <1>6, <1>7
<1>9. jsons' = Append(jsons, j)
  BY <1>1, <1>7
<1> HIDE DEF json
<1>10. DOMAIN Names = Seen /\ Seen = {e.at : e \in EventsIn(j.traces)}
  BY <1>8 DEF Seen
<1>11. j.ignored = {a \in DOMAIN j.names : IsThunk(j.names[a])}
  BY <1>8, <1>10
<1>12. j.names = [a \in {e.at : e \in EventsIn(j.traces)} |-> Alone(S.maps, a)]
  BY <1>8, <1>10
<1>13. m \in 0 .. Len(S.traces)
  <2>1. S \in Sample
    BY DEF IInv, Typed
  <2>2. Len(S.traces) \in Nat
    BY <2>1, SizeIs
  <2> QED BY <1>2, <2>2
<1>14. IF j.closed THEN j.traces = Kept(S.traces) /\ j.text = S.text
       ELSE (\E n \in 0 .. Len(S.traces) : j.traces = Upto(i, n)) /\ j.text \in {NoText, S.text}
  <2>1. CASE closing
    BY <1>8, <2>1
  <2>2. CASE ~closing
    BY <1>2, <1>8, <1>13, <2>2
  <2> QED BY <2>1, <2>2
<1>15. Shows(j, i)
  BY <1>8, <1>11, <1>12, <1>14, Zenon DEF Shows
<1> QED BY <1>8, <1>9, <1>15

\* While the decoder reads, each JSON that there is is whole.
LEMMA JsonsAre ==
  ASSUME samples \in Seq(Sample), NEW d \in 0 .. Len(samples), JsonsSound(d), status = "reading"
  PROVE  /\ IsSequence(jsons) /\ Len(jsons) \in Nat
         /\ \A k \in 1 .. Len(jsons) :
              /\ \E i \in 1 .. Len(samples) : Shows(jsons[k], i)
              /\ jsons[k].closed /\ jsons[k].number \in Nat /\ jsons[k].number < Count(d)
         /\ \A k \in 2 .. Len(jsons) : jsons[k - 1].number < jsons[k].number
         /\ \A i \in 1 .. d :
              samples[i] \in ToShow /\ (Chosen = {} \/ Count(i - 1) \in Chosen) =>
                \E k \in 1 .. Len(jsons) : jsons[k].number = Count(i - 1) /\ jsons[k].closed
<1>1. /\ IsSequence(jsons)
      /\ \A k \in 1 .. Len(jsons) : \E i \in 1 .. Len(samples) : Shows(jsons[k], i)
      /\ \A k \in 1 .. Len(jsons) : jsons[k].closed /\ jsons[k].number < Count(d)
      /\ \A k \in 2 .. Len(jsons) : jsons[k - 1].number < jsons[k].number
      /\ \A i \in 1 .. d :
           samples[i] \in ToShow /\ (Chosen = {} \/ Count(i - 1) \in Chosen) =>
             \E k \in 1 .. Len(jsons) : jsons[k].number = Count(i - 1) /\ jsons[k].closed
  <2>1. status # "done"
    OBVIOUS
  <2> QED BY <2>1 DEF JsonsSound
<1>2. Len(jsons) \in Nat
  BY <1>1 DEF IsSequence
<1>3. ASSUME NEW k \in 1 .. Len(jsons) PROVE jsons[k].number \in Nat
  <2>1. PICK i \in 1 .. Len(samples) : Shows(jsons[k], i)
    BY <1>1
  <2>2. jsons[k].number = Count(i - 1)
    BY <2>1 DEF Shows
  <2>3. i - 1 \in 0 .. Len(samples)
    OBVIOUS
  <2> QED BY <2>2, <2>3, CountNext
<1> QED BY <1>1, <1>2, <1>3

\* A sample has been read and no JSON was written.
LEMMA JsonsPass ==
  ASSUME samples \in Seq(Sample), NEW d \in 0 .. Len(samples), d # Len(samples), JsonsSound(d),
         status = "reading", UNCHANGED <<samples, jsons, status>>,
         samples[d + 1] \notin ToShow \/ ~(Chosen = {} \/ Count(d) \in Chosen)
  PROVE  JsonsSound(d + 1)'
<1>1. d + 1 \in 1 .. Len(samples) /\ (d + 1) - 1 = d /\ d \in 0 .. Len(samples)
  OBVIOUS
<1>2. /\ Count(d) \in Nat /\ Count(d + 1) \in Nat /\ Count(d) <= Count(d + 1)
  BY <1>1, CountNext
<1>3. /\ IsSequence(jsons) /\ Len(jsons) \in Nat
      /\ \A k \in 1 .. Len(jsons) :
           /\ \E i \in 1 .. Len(samples) : Shows(jsons[k], i)
           /\ jsons[k].closed /\ jsons[k].number \in Nat /\ jsons[k].number < Count(d)
      /\ \A k \in 2 .. Len(jsons) : jsons[k - 1].number < jsons[k].number
      /\ \A i \in 1 .. d :
           samples[i] \in ToShow /\ (Chosen = {} \/ Count(i - 1) \in Chosen) =>
             \E k \in 1 .. Len(jsons) : jsons[k].number = Count(i - 1) /\ jsons[k].closed
  BY JsonsAre, Zenon
<1>4. \A k \in 1 .. Len(jsons) : jsons[k].closed /\ jsons[k].number < Count(d + 1)
  BY <1>2, <1>3
<1>5. ASSUME NEW i \in 1 .. d + 1, samples[i] \in ToShow, Chosen = {} \/ Count(i - 1) \in Chosen
      PROVE  \E k \in 1 .. Len(jsons) : jsons[k].number = Count(i - 1) /\ jsons[k].closed
  <2>1. i # d + 1
    BY <1>1, <1>5
  <2>2. i \in 1 .. d
    BY <2>1
  <2> QED BY <1>3, <1>5, <2>2
<1>6. JsonsSound(d + 1)
  BY <1>3, <1>4, <1>5 DEF JsonsSound
<1>7. \A k : JsonsSound(k)' <=> JsonsSound(k)
  BY SameSamples, Zenon DEF JsonsSound
<1> QED BY <1>6, <1>7

\* A JSON is added: of a whole sample, or of the one that the file breaks off in.
LEMMA JsonsGrow ==
  ASSUME samples \in Seq(Sample), NEW d \in 0 .. Len(samples), d # Len(samples), JsonsSound(d),
         status = "reading", samples' = samples, samples[d + 1] \in ToShow,
         NEW j, jsons' = Append(jsons, j), Shows(j, d + 1), j.number = Count(d), j.closed \in BOOLEAN,
         IF j.closed THEN status' = "reading" ELSE status' = "done"
  PROVE  IF j.closed THEN JsonsSound(d + 1)' ELSE JsonsSound(d)'
<1> DEFINE L == Len(jsons)
<1>1. d + 1 \in 1 .. Len(samples) /\ (d + 1) - 1 = d /\ d \in 0 .. Len(samples)
  OBVIOUS
<1>2. Count(d) \in Nat /\ Count(d + 1) = Count(d) + 1
  BY <1>1, CountNext
<1>3. /\ IsSequence(jsons) /\ L \in Nat
      /\ \A k \in 1 .. L :
           /\ \E i \in 1 .. Len(samples) : Shows(jsons[k], i)
           /\ jsons[k].closed /\ jsons[k].number \in Nat /\ jsons[k].number < Count(d)
      /\ \A k \in 2 .. L : jsons[k - 1].number < jsons[k].number
      /\ \A i \in 1 .. d :
           samples[i] \in ToShow /\ (Chosen = {} \/ Count(i - 1) \in Chosen) =>
             \E k \in 1 .. L : jsons[k].number = Count(i - 1) /\ jsons[k].closed
  BY JsonsAre, Zenon
<1>4. /\ IsSequence(jsons') /\ Len(jsons') = L + 1 /\ jsons'[L + 1] = j
      /\ \A k \in 1 .. L : jsons'[k] = jsons[k]
  <2> DEFINE V == Range(jsons) \cup {j}
  <2>1. jsons \in Seq(V) /\ j \in V
    <3>1. \A S, R : S \subseteq R => Seq(S) \subseteq Seq(R)
      OBVIOUS
    <3>2. Range(jsons) \subseteq V
      OBVIOUS
    <3>3. jsons \in Seq(Range(jsons))
      BY <1>3 DEF IsSequence
    <3> HIDE DEF V
    <3>4. jsons \in Seq(V)
      BY <3>1, <3>2, <3>3
    <3> QED BY <3>4 DEF V
  <2> HIDE DEF V
  <2>2. /\ Append(jsons, j) \in Seq(V) /\ Len(Append(jsons, j)) = L + 1
        /\ Append(jsons, j)[L + 1] = j /\ \A k \in 1 .. L : Append(jsons, j)[k] = jsons[k]
    BY <2>1, AppendProperties
  <2> QED BY <2>2, SequenceOf
<1> HIDE DEF L
<1>5. \A k \in 1 .. L + 1 : k \in 1 .. L \/ k = L + 1
  BY <1>3
<1>6. ASSUME NEW k \in 1 .. L + 1 PROVE \E i \in 1 .. Len(samples) : Shows(jsons'[k], i)
  BY <1>1, <1>3, <1>4, <1>5
<1>7. ASSUME NEW k \in 2 .. L + 1 PROVE jsons'[k - 1].number < jsons'[k].number
  <2>1. k - 1 \in 1 .. L /\ jsons'[k - 1] = jsons[k - 1]
    BY <1>3, <1>4
  <2>2. CASE k = L + 1
    BY <1>3, <1>4, <2>1, <2>2
  <2>3. CASE k # L + 1
    <3>1. k \in 2 .. L /\ k \in 1 .. L
      BY <1>3, <2>3
    <3> QED BY <1>3, <1>4, <2>1, <3>1
  <2> QED BY <2>2, <2>3
<1>8. ASSUME NEW i \in 1 .. d, samples[i] \in ToShow, Chosen = {} \/ Count(i - 1) \in Chosen
      PROVE  \E k \in 1 .. L + 1 : jsons'[k].number = Count(i - 1) /\ jsons'[k].closed
  <2>1. PICK k \in 1 .. L : jsons[k].number = Count(i - 1) /\ jsons[k].closed
    BY <1>3, <1>8
  <2>2. k \in 1 .. L + 1
    BY <1>3
  <2> QED BY <1>4, <2>1, <2>2
<1>9. /\ \A k : Count(k)' = Count(k)
      /\ \A x, i : Shows(x, i)' <=> Shows(x, i)
      /\ ToShow' = ToShow
  BY SameSamples
<1>10. CASE j.closed
  <2>1. ASSUME NEW k \in 1 .. L + 1 PROVE jsons'[k].closed /\ jsons'[k].number < Count(d + 1)
    <3>1. CASE k = L + 1
      BY <1>2, <1>4, <1>10, <3>1
    <3>2. CASE k # L + 1
      BY <1>2, <1>3, <1>4, <1>5, <3>2
    <3> QED BY <3>1, <3>2
  <2>2. ASSUME NEW i \in 1 .. d + 1, samples[i] \in ToShow, Chosen = {} \/ Count(i - 1) \in Chosen
        PROVE  \E k \in 1 .. L + 1 : jsons'[k].number = Count(i - 1) /\ jsons'[k].closed
    <3>1. CASE i = d + 1
      <4>1. L + 1 \in 1 .. L + 1
        BY <1>3
      <4> QED BY <1>1, <1>4, <1>10, <3>1, <4>1
    <3>2. CASE i # d + 1
      <4>1. i \in 1 .. d
        BY <3>2
      <4> QED BY <1>8, <2>2, <4>1
    <3> QED BY <3>1, <3>2
  <2>3. JsonsSound(d + 1)'
    <3>1. /\ IsSequence(jsons')
          /\ \A k \in 1 .. Len(jsons') : \E i \in 1 .. Len(samples') : Shows(jsons[k], i)'
          /\ \A k \in 1 .. Len(jsons') : jsons'[k].closed /\ jsons'[k].number < Count(d + 1)'
          /\ \A k \in 2 .. Len(jsons') : jsons'[k - 1].number < jsons'[k].number
          /\ \A i \in 1 .. d + 1 :
               samples'[i] \in ToShow' /\ (Chosen = {} \/ Count(i - 1)' \in Chosen) =>
                 \E k \in 1 .. Len(jsons') : jsons'[k].number = Count(i - 1)' /\ jsons'[k].closed
      BY <1>4, <1>6, <1>7, <1>9, <2>1, <2>2
    <3> QED BY <3>1, Zenon DEF JsonsSound
  <2> QED BY <1>10, <2>3
<1>11. CASE ~j.closed
  <2>1. ASSUME NEW k \in 1 .. L + 1
        PROVE  IF jsons'[k].closed THEN jsons'[k].number < Count(d)
               ELSE jsons'[k].number = Count(d) /\ k = L + 1
    <3>1. CASE k = L + 1
      BY <1>4, <1>11, <3>1
    <3>2. CASE k # L + 1
      BY <1>3, <1>4, <1>5, <3>2
    <3> QED BY <3>1, <3>2
  <2>2. status' = "done"
    BY <1>11
  <2>3. JsonsSound(d)'
    <3>1. /\ IsSequence(jsons')
          /\ \A k \in 1 .. Len(jsons') : \E i \in 1 .. Len(samples') : Shows(jsons[k], i)'
          /\ \A k \in 1 .. Len(jsons') :
               IF jsons'[k].closed THEN jsons'[k].number < Count(d)'
               ELSE jsons'[k].number = Count(d)' /\ k = Len(jsons') /\ status' = "done"
          /\ \A k \in 2 .. Len(jsons') : jsons'[k - 1].number < jsons'[k].number
          /\ \A i \in 1 .. d :
               samples'[i] \in ToShow' /\ (Chosen = {} \/ Count(i - 1)' \in Chosen) =>
                 \E k \in 1 .. Len(jsons') : jsons'[k].number = Count(i - 1)' /\ jsons'[k].closed
      BY <1>4, <1>6, <1>7, <1>8, <1>9, <2>1, <2>2
    <3> QED BY <3>1, Zenon DEF JsonsSound
  <2> QED BY <1>11, <2>3
<1> QED BY <1>10, <1>11

\* The end of a sample, which is shown if it is to be shown and was chosen.
LEMMA EndOfSample ==
  ASSUME IInv, NEW at, Laid(at), stage = "decoding",
         NEW d \in 0 .. Len(samples), NEW o \in Nat \ {0}, NEW m \in Nat, Place(at, d, o, m), EndSample
  PROVE  Laid(at)'
<1> DEFINE i == d + 1
           S == samples[i]
           T == Len(S.traces)
           K == Len(samples)
<1>1. /\ UNCHANGED outsideDecoder /\ UNCHANGED <<file, samples, status, maps, thread>>
      /\ Reading("ENDTRACE")
      /\ IF entries # <<>> \/ text # NoText
         THEN /\ IF Chosen = {} \/ number \in Chosen
                 THEN WriteJson(TRUE) ELSE UNCHANGED <<syms, offsets, jsons>>
              /\ number' = number + 1 /\ entries' = <<>> /\ text' = NoText
         ELSE UNCHANGED <<syms, offsets, jsons, number, entries, text>>
  BY DEF EndSample, outsideDecoder, fileVars
<1>2. Parts(at) /\ Finished(at)
  BY DEF Laid
<1>3. samples \in Seq(Sample) /\ K \in Nat
  BY DEF IInv, Typed
<1>4. /\ next' = next + 1 /\ status = "reading" /\ i \in 1 .. K /\ S \in Sample /\ next <= at[d + 2]
      /\ next = at[d + 1] + o /\ o # 1 /\ Within(i, o, m) /\ o = Size(S) /\ m = T
  <2>1. "ENDTRACE" \notin {"MAGIC_CUT", "CHUNK_CUT"} /\ "ENDTRACE" # "PROCMAPS"
    OBVIOUS
  <2> QED BY <1>1, <1>2, <2>1, ReadingIs
<1>5. number = Count(d) /\ JsonsSound(d)
  BY DEF Place
<1>6. T \in Nat /\ Size(S) \in Nat
  BY <1>4, SizeIs
<1>7. entries = Kept(S.traces) /\ text = S.text
  <2>1. entries = Upto(i, T) /\ text = (IF o > 2 * T + 2 THEN S.text ELSE NoText)
    BY <1>4, Zenon DEF Within
  <2>2. Kept(S.traces) = Upto(i, T)
    BY <1>3, <1>4, ToShowIs
  <2>3. CASE S.text = NoText
    BY <2>1, <2>2, <2>3
  <2>4. CASE S.text # NoText
    <3>1. Size(S) = 2 * T + 3
      BY <2>4 DEF Size
    <3>2. o > 2 * T + 2
      BY <1>4, <1>6, <3>1
    <3> QED BY <2>1, <2>2, <3>2
  <2> QED BY <2>3, <2>4
<1>8. S \in ToShow <=> entries # <<>> \/ text # NoText
  BY <1>3, <1>4, <1>7, ToShowIs
<1>9. i - 1 = d /\ d # K /\ Count(i) = IF S \in ToShow THEN Count(d) + 1 ELSE Count(d)
  <2>1. i - 1 = d /\ d # K
    BY <1>3, <1>4
  <2>2. Count(i) = IF S \in ToShow THEN Count(i - 1) + 1 ELSE Count(i - 1)
    BY <1>3, <1>4, CountNext
  <2> QED BY <2>1, <2>2
<1>10. /\ number' = Count(i)' /\ JsonsSound(i)' /\ entries' = <<>> /\ text' = NoText
  <2>1. Count(i)' = Count(i)
    BY <1>1, SameSamples
  <2>2. CASE S \notin ToShow
    <3>1. entries = <<>> /\ text = NoText /\ UNCHANGED <<jsons, number, entries, text>>
      BY <1>1, <1>8, <2>2
    <3>2. JsonsSound(d + 1)'
      BY <1>1, <1>3, <1>4, <1>5, <1>9, <2>2, <3>1, JsonsPass
    <3> QED BY <1>5, <1>9, <2>1, <2>2, <3>1, <3>2
  <2>3. CASE S \in ToShow /\ ~(Chosen = {} \/ number \in Chosen)
    <3>1. UNCHANGED jsons /\ number' = number + 1 /\ entries' = <<>> /\ text' = NoText
      BY <1>1, <1>8, <2>3
    <3>2. JsonsSound(d + 1)'
      BY <1>1, <1>3, <1>4, <1>5, <1>9, <2>3, <3>1, JsonsPass
    <3> QED BY <1>5, <1>9, <2>1, <2>3, <3>1, <3>2
  <2>4. CASE S \in ToShow /\ (Chosen = {} \/ number \in Chosen)
    <3>1. WriteJson(TRUE) /\ number' = number + 1 /\ entries' = <<>> /\ text' = NoText
      BY <1>1, <1>8, <2>4
    <3>2. PICK json : /\ jsons' = Append(jsons, json) /\ json.number = number /\ json.closed = TRUE
                      /\ Shows(json, i)
      <4>1. i \in 1 .. Len(samples) /\ Within(i, o, m) /\ number = Count(i - 1) /\ samples[i] \in ToShow
        BY <1>4, <1>5, <1>9, <2>4
      <4>2. TRUE => entries = Kept(samples[i].traces) /\ text = samples[i].text
        BY <1>7
      <4> HIDE DEF i
      <4> QED BY <1>4, <3>1, <4>1, <4>2, JsonWritten
    <3>3. JsonsSound(d + 1)'
      <4>1. samples[d + 1] \in ToShow /\ Shows(json, d + 1) /\ json.number = Count(d) /\ json.closed /\ json.closed \in BOOLEAN
        BY <1>5, <2>4, <3>2
      <4>2. IF json.closed THEN status' = "reading" ELSE status' = "done"
        BY <1>1, <1>4, <4>1
      <4> QED BY <1>1, <1>3, <1>5, <1>9, <1>4, <3>2, <4>1, <4>2, JsonsGrow
    <3> QED BY <1>5, <1>9, <2>1, <2>4, <3>1, <3>3
  <2> QED BY <2>2, <2>3, <2>4
<1>11. at[d + 2] \in Nat /\ at[d + 1] \in Nat /\ at[d + 2] = at[d + 1] + Size(S)
  <2>1. /\ at[d + 2] \in Nat /\ at[d + 1] \in Nat /\ at[d + 2] <= at[d + 1] + Size(S)
    BY <1>2, <1>9, PlaceIs
  <2> QED BY <1>4, <1>6, <2>1
<1>12. next' = at[i + 1] + 1 + 0 /\ i + 1 = d + 2
  BY <1>4, <1>6, <1>11
<1>13. i # K => 1 <= Size(samples[i + 1]) /\ at[i + 1] + 1 <= at[i + 2] + 1
  <2> SUFFICES ASSUME i # K PROVE 1 <= Size(samples[i + 1]) /\ at[i + 1] + 1 <= at[i + 2] + 1
    OBVIOUS
  <2>1. i + 1 \in 1 .. K /\ i + 1 \in 1 .. K + 1 /\ i + 2 \in 1 .. K + 1 /\ (i + 1) + 1 = i + 2
    BY <1>3, <1>4
  <2> HIDE DEF i, K, T
  <2>2. at[i + 1] \in Nat /\ at[i + 2] \in Nat /\ at[i + 1] <= at[i + 2]
    <3>1. /\ \A k \in 1 .. K + 1 : at[k] \in Nat
          /\ \A k \in 1 .. K : at[k] <= at[k + 1]
      BY <1>2, <1>3, PartsRise DEF Parts, K
    <3> QED BY <2>1, <3>1
  <2>3. samples[i + 1] \in Sample
    BY <1>3, <2>1 DEF K
  <2>4. /\ Size(samples[i + 1]) \in Nat /\ Len(samples[i + 1].traces) \in Nat
        /\ Size(samples[i + 1]) >= 2 * Len(samples[i + 1].traces) + 2
    BY <2>3, SizeIs
  <2> QED BY <2>2, <2>4
<1>14. Place(at, i, 1, 0)'
  <2>1. status' = "reading" /\ samples' = samples
    BY <1>1, <1>4
  <2> HIDE DEF i, S, T
  <2> QED BY <1>10, <1>12, <1>13, <2>1 DEF Place, K
<1>15. i \in 0 .. K /\ 1 \in Nat \ {0} /\ 0 \in Nat
  BY <1>3, <1>4
<1> HIDE DEF i
<1> QED BY <1>1, <1>14, <1>15, LaidDecoding

\* Where no chunk of a sample follows, all there is of the samples was read.
LEMMA AtEnd ==
  ASSUME IInv, NEW at, Parts(at), Finished(at), NEW d \in 0 .. Len(samples), NEW o \in Nat \ {0},
         NEW m \in Nat, Place(at, d, o, m), status = "reading",
         \/ next = Len(file) + 1
         \/ Chunk.kind \notin {"PROCMAPS", "THREADID", "TRACEBUF", "FTRACETX", "ENDTRACE"}
  PROVE  next = at[d + 1] + o /\ next = at[Len(samples) + 1] + 1
<1> DEFINE S == samples[d + 1]
           K == Len(samples)
<1>1. \/ /\ next = Len(file) + 1 /\ next = at[d + 1] + o /\ next = at[K + 1] + 1
      \/ /\ next = Len(file) /\ next = at[d + 1] + o /\ next = at[K + 1] + 1
         /\ Chunk.kind \in {"MAGIC_CUT", "CHUNK_CUT"}
      \/ /\ d + 1 \in 1 .. K /\ next = at[d + 1] + o /\ o \in 1 .. Size(S)
         /\ next <= at[d + 2] /\ next \in 1 .. Len(file) /\ Chunk = Chunks(S)[o]
  BY AtChunk, Zenon
<1>2. CASE /\ d + 1 \in 1 .. K /\ next = at[d + 1] + o /\ o \in 1 .. Size(S)
           /\ next <= at[d + 2] /\ next \in 1 .. Len(file) /\ Chunk = Chunks(S)[o]
  <2>1. samples \in Seq(Sample) /\ Len(file) \in Nat
    BY PlaceIs
  <2>2. S \in Sample /\ o \in 1 .. Size(S) /\ Chunk = Chunks(S)[o]
    BY <1>2, <2>1
  <2>3. PICK n \in Nat : n <= Len(S.traces) /\ (o = 1 \/ o = 2 * n + 2 \/ o = 2 * n + 3)
    <3>1. Len(S.traces) \in Nat
      BY <2>2, SizeIs
    <3>2. CASE o = 1
      BY <3>1, <3>2
    <3>3. CASE o # 1
      BY <3>3 DEF Place, Within
    <3> QED BY <3>2, <3>3
  <2>4. Chunk.kind \in {"PROCMAPS", "THREADID", "TRACEBUF", "FTRACETX", "ENDTRACE"}
    <3> HIDE DEF S
    <3> QED BY <2>2, <2>3, KindOf
  <2>5. next # Len(file) + 1
    BY <1>2, <2>1
  <2> QED BY <2>4, <2>5
<1> QED BY <1>1, <1>2

\* The end of the file: the sample that is open, if there is one, is shown as
\* far as it was read.
LEMMA EndOfInput ==
  ASSUME IInv, NEW at, Laid(at), stage = "decoding",
         NEW d \in 0 .. Len(samples), NEW o \in Nat \ {0}, NEW m \in Nat, Place(at, d, o, m), EndOfFile
  PROVE  Laid(at)'
<1> DEFINE i == d + 1
           S == samples[i]
           K == Len(samples)
<1>1. /\ UNCHANGED outsideDecoder /\ UNCHANGED <<file, samples, next, thread, entries, text, maps, number>>
      /\ status = "reading" /\ status' = "done"
      /\ next = Len(file) + 1 \/ (next = Len(file) /\ Chunk.kind = "MAGIC_CUT")
      /\ IF entries # <<>> \/ text # NoText THEN WriteJson(FALSE)
         ELSE UNCHANGED <<syms, offsets, jsons>>
  BY DEF EndOfFile, outsideDecoder, fileVars
<1>2. Parts(at) /\ Finished(at)
  BY DEF Laid
<1>3. samples \in Seq(Sample) /\ K \in Nat
  BY DEF IInv, Typed
<1>4. /\ next = at[d + 1] + o + 0 /\ number = Count(d) /\ JsonsSound(d)
      /\ IF d = K THEN o = 1 ELSE o <= Size(S) /\ at[d + 1] + o <= at[d + 2] + 1
      /\ IF o = 1 THEN entries = <<>> /\ text = NoText ELSE Within(i, o, m)
  BY <1>1 DEF Place
<1>5. /\ at[d + 1] \in Nat /\ at[K + 1] \in Nat /\ at[K + 1] <= Len(file) /\ Len(file) \in Nat
      /\ d # K => i \in 1 .. K /\ S \in Sample
  BY <1>2, PlaceIs
<1>6. at[d + 1] + o > at[K + 1]
  <2>1. next = Len(file) + 1 \/ Chunk.kind \notin {"PROCMAPS", "THREADID", "TRACEBUF", "FTRACETX", "ENDTRACE"}
    BY <1>1
  <2>2. next = at[d + 1] + o /\ next = at[K + 1] + 1
    BY <1>1, <1>2, <2>1, AtEnd
  <2> QED BY <1>5, <2>2
<1>7. Count(d)' = Count(d) /\ \A k, n : Upto(k, n)' = Upto(k, n)
  BY <1>1, SameSamples
<1>8. JsonsSound(d)'
  <2>1. CASE entries # <<>> \/ text # NoText
    <3>1. WriteJson(FALSE) /\ o # 1
      BY <1>1, <1>4, <2>1
    <3>2. Within(i, o, m) /\ d # K /\ i \in 1 .. K /\ S \in Sample
      BY <1>4, <1>5, <3>1
    <3>3. /\ entries = Upto(i, m) /\ m <= Len(S.traces) /\ text \in {NoText, S.text}
      BY <3>2 DEF Within
    <3>4. S \in ToShow
      <4>1. m \in 0 .. Len(S.traces)
        <5>1. Len(S.traces) \in Nat
          BY <3>2, SizeIs
        <5> QED BY <3>3, <5>1
      <4>2. /\ S \in ToShow <=> Kept(S.traces) # <<>> \/ S.text # NoText
            /\ \A n \in 0 .. Len(S.traces) : Upto(i, n) # <<>> => S \in ToShow
        BY <1>3, <3>2, ToShowIs
      <4> QED BY <2>1, <3>3, <4>1, <4>2
    <3>5. i - 1 = d
      BY <3>2
    <3>6. PICK json : /\ jsons' = Append(jsons, json) /\ json.number = number /\ json.closed = FALSE
                      /\ Shows(json, i)
      <4>1. i \in 1 .. Len(samples) /\ number = Count(i - 1) /\ samples[i] \in ToShow
        BY <1>4, <3>2, <3>4, <3>5
      <4> HIDE DEF i
      <4> QED BY <1>1, <3>1, <3>2, <4>1, JsonWritten
    <3>7. samples[d + 1] \in ToShow /\ Shows(json, d + 1) /\ json.number = Count(d) /\ ~json.closed /\ json.closed \in BOOLEAN
      BY <1>4, <3>4, <3>6
    <3>8. IF json.closed THEN status' = "reading" ELSE status' = "done"
      BY <1>1, <3>7
    <3>9. IF json.closed THEN JsonsSound(d + 1)' ELSE JsonsSound(d)'
      BY <1>1, <1>3, <1>4, <3>2, <3>6, <3>7, <3>8, JsonsGrow
    <3> QED BY <3>7, <3>9
  <2>2. CASE ~(entries # <<>> \/ text # NoText)
    <3>1. UNCHANGED <<jsons, samples>> /\ status' # "reading"
      BY <1>1, <2>2
    <3>2. /\ IsSequence(jsons)
          /\ \A k \in 1 .. Len(jsons) :
               /\ \E n \in 1 .. Len(samples) : Shows(jsons[k], n)
               /\ jsons[k].closed /\ jsons[k].number < Count(d)
          /\ \A k \in 2 .. Len(jsons) : jsons[k - 1].number < jsons[k].number
          /\ \A n \in 1 .. d :
               samples[n] \in ToShow /\ (Chosen = {} \/ Count(n - 1) \in Chosen) =>
                 \E k \in 1 .. Len(jsons) : jsons[k].number = Count(n - 1) /\ jsons[k].closed
      BY <1>1, <1>3, <1>4, JsonsAre, Zenon
    <3> QED BY <3>1, <3>2, SameSamples, Zenon DEF JsonsSound
  <2> QED BY <2>1, <2>2
<1>9. IF o = 1 THEN entries' = <<>> /\ text' = NoText ELSE Within(i, o, m)'
  <2>1. status' # "reading"
    BY <1>1
  <2>2. CASE o = 1
    BY <1>1, <1>4, <2>2
  <2>3. CASE o # 1
    <3>1. Within(i, o, m)
      BY <1>4, <2>3
    <3>2. Within(i, o, m)'
      BY <1>1, <1>7, <2>1, <3>1, Zenon DEF Within
    <3> QED BY <2>3, <3>2
  <2> QED BY <2>2, <2>3
<1>10. Place(at, d, o, m)'
  <2>1. status' = "done" /\ samples' = samples /\ file' = file /\ next' = next /\ number' = number
    BY <1>1
  <2>2. IF d = Len(samples') THEN o = 1 ELSE o <= Size(samples'[d + 1]) /\ at[d + 1] + o <= at[d + 2] + 1
    BY <1>4, <2>1
  <2>3. IF o = 1 THEN entries' = <<>> /\ text' = NoText ELSE Within(d + 1, o, m)'
    BY <1>9
  <2> HIDE DEF i, S
  <2> QED BY <1>4, <1>6, <1>7, <1>8, <2>1, <2>2, <2>3 DEF Place, K
<1> QED BY <1>1, <1>10, LaidDecoding

\* The end of the file is inside a chunk: what was open is not shown.
LEMMA FailsAtEnd ==
  ASSUME IInv, NEW at, Laid(at), stage = "decoding",
         NEW d \in 0 .. Len(samples), NEW o \in Nat \ {0}, NEW m \in Nat, Place(at, d, o, m), Fail
  PROVE  Laid(at)'
<1> DEFINE K == Len(samples)
<1>1. /\ UNCHANGED outsideDecoder /\ Reading("CHUNK_CUT") /\ status' = "failed"
      /\ UNCHANGED <<file, samples, thread, entries, text, maps, syms, offsets, number, jsons>>
  BY DEF Fail, outsideDecoder, fileVars
<1>2. Parts(at) /\ Finished(at)
  BY DEF Laid
<1>3. /\ next' = next + 1 /\ status = "reading" /\ next = at[d + 1] + o
      /\ next <= Len(file) /\ next = at[K + 1] + 1
  <2>1. /\ next' = next + 1 /\ status = "reading" /\ next \in DOMAIN file /\ Chunk.kind = "CHUNK_CUT"
    BY <1>1 DEF Reading, Chunk
  <2>2. Chunk.kind \notin {"PROCMAPS", "THREADID", "TRACEBUF", "FTRACETX", "ENDTRACE"}
    BY <2>1
  <2>3. next = at[d + 1] + o /\ next = at[K + 1] + 1
    BY <1>2, <2>1, <2>2, AtEnd
  <2>4. next <= Len(file) /\ Len(file) \in Nat /\ at[K + 1] \in Nat
    <3>1. IsSequence(file) /\ at[K + 1] \in Nat /\ Len(file) \in Nat
      BY <1>2, PlaceIs
    <3>2. DOMAIN file = 1 .. Len(file)
      BY <3>1 DEF IsSequence
    <3> QED BY <2>1, <3>1, <3>2
  <2> QED BY <2>1, <2>3, <2>4
<1>4. /\ number = Count(d) /\ JsonsSound(d)
      /\ IF d = K THEN o = 1 ELSE o <= Size(samples[d + 1]) /\ at[d + 1] + o <= at[d + 2] + 1
      /\ IF o = 1 THEN entries = <<>> /\ text = NoText ELSE Within(d + 1, o, m)
  BY DEF Place
<1>5. at[d + 1] \in Nat /\ at[K + 1] \in Nat /\ Len(file) \in Nat /\ samples \in Seq(Sample)
  BY <1>2, PlaceIs
<1>6. Count(d)' = Count(d) /\ \A k, n : Upto(k, n)' = Upto(k, n)
  BY <1>1, SameSamples
<1>7. JsonsSound(d)'
  <2>1. status' # "reading"
    BY <1>1
  <2>2. /\ IsSequence(jsons)
        /\ \A k \in 1 .. Len(jsons) :
             /\ \E n \in 1 .. Len(samples) : Shows(jsons[k], n)
             /\ jsons[k].closed /\ jsons[k].number < Count(d)
        /\ \A k \in 2 .. Len(jsons) : jsons[k - 1].number < jsons[k].number
        /\ \A n \in 1 .. d :
             samples[n] \in ToShow /\ (Chosen = {} \/ Count(n - 1) \in Chosen) =>
               \E k \in 1 .. Len(jsons) : jsons[k].number = Count(n - 1) /\ jsons[k].closed
    BY <1>3, <1>4, <1>5, JsonsAre, Zenon
  <2> QED BY <1>1, <2>1, <2>2, SameSamples, Zenon DEF JsonsSound
<1>8. IF o = 1 THEN entries' = <<>> /\ text' = NoText ELSE Within(d + 1, o, m)'
  <2>1. status' # "reading"
    BY <1>1
  <2>2. CASE o = 1
    BY <1>1, <1>4, <2>2
  <2>3. CASE o # 1
    <3>1. Within(d + 1, o, m)
      BY <1>4, <2>3
    <3>2. Within(d + 1, o, m)'
      BY <1>1, <1>6, <2>1, <3>1, Zenon DEF Within
    <3> QED BY <2>3, <3>2
  <2> QED BY <2>2, <2>3
<1>9. Place(at, d, o, m)'
  <2>1. next' = at[d + 1] + o + 1 /\ at[d + 1] + o > at[K + 1] /\ Len(file) > at[K + 1]
    <3>1. /\ next' = next + 1 /\ next = at[d + 1] + o /\ next <= Len(file) /\ next = at[K + 1] + 1
          /\ at[d + 1] \in Nat /\ at[K + 1] \in Nat /\ Len(file) \in Nat /\ o \in Nat
      BY <1>3, <1>5
    <3> HIDE DEF K
    <3> QED BY ONLY <3>1
  <2>2. status' = "failed" /\ samples' = samples /\ file' = file /\ number' = number
    BY <1>1
  <2>3. IF d = Len(samples') THEN o = 1 ELSE o <= Size(samples'[d + 1]) /\ at[d + 1] + o <= at[d + 2] + 1
    BY <1>4, <2>2
  <2>4. next' = at[d + 1] + o + (IF status' = "failed" THEN 1 ELSE 0) /\ number' = Count(d)'
    BY <1>4, <1>6, <2>1, <2>2
  <2>5. at[d + 1] + o > at[Len(samples') + 1] /\ Len(file') > at[Len(samples') + 1]
    BY <2>1, <2>2
  <2> QED BY <1>7, <1>8, <2>2, <2>3, <2>4, <2>5, Zenon DEF Place
<1> QED BY <1>1, <1>9, LaidDecoding


\* Every step of the decoder.
LEMMA LaidDecoder ==
  ASSUME IInv, NEW at, Laid(at), stage = "decoding",
         SetMaps \/ SetThread \/ AddTrace \/ SetText \/ EndSample \/ EndOfFile \/ Fail
  PROVE  Laid(at)'
<1>1. PICK d \in 0 .. Len(samples), o \in Nat \ {0}, m \in Nat : Place(at, d, o, m)
  BY DEF Laid, Decoded
<1>2. CASE SetMaps \/ SetThread \/ AddTrace \/ SetText
  BY <1>1, <1>2, ReadOn
<1>3. CASE EndSample
  BY <1>1, <1>3, EndOfSample
<1>4. CASE EndOfFile
  BY <1>1, <1>4, EndOfInput
<1>5. CASE Fail
  BY <1>1, <1>5, FailsAtEnd
<1> QED BY <1>2, <1>3, <1>4, <1>5

\* The decoder decodes at the stage that is for it.
LEMMA DecoderDecodes ==
  ASSUME SetMaps \/ SetThread \/ AddTrace \/ SetText \/ EndSample \/ EndOfFile \/ Fail
  PROVE  stage = "decoding" /\ stage' = "decoding" /\ UNCHANGED <<samples, file, object, loaded>>
BY DEF SetMaps, SetThread, AddTrace, SetText, EndSample, EndOfFile, Fail, Reading, outsideDecoder,
   fileVars, programVars

\* Nothing else than the decoder changes what it has.
LEMMA ProgramLeavesDecoder ==
  ASSUME Program \/ StartDecoder
  PROVE  stage # "decoding" /\ UNCHANGED decoderVars
<1>1. CASE Program
  BY <1>1 DEF Program, Open, Close, Record, WritePause, WriteMaps, WriteTraces, WriteEnd,
     GetPause, GetTraces, GetMaps, WriteSnapshot, FlushSnapshot, FreeSnapshot, Exit, Crash, CoreDump
<1>2. CASE StartDecoder
  BY <1>2 DEF StartDecoder
<1> QED BY <1>1, <1>2

\* What the steps do to a file and its samples.
LEMMA LaidStep ==
  ASSUME IInv, IInv', Fresh, stage # "decoding" => Unread, NEW at, Laid(at), [Next]_vars
  PROVE  \E bt : Laid(bt)'
<1>1. CASE Program
  BY <1>1, LaidProgram
<1>2. CASE StartDecoder
  BY <1>2, ProgramLeavesDecoder, LaidStart
<1>3. CASE SetMaps \/ SetThread \/ AddTrace \/ SetText \/ EndSample \/ EndOfFile \/ Fail
  BY <1>3, DecoderDecodes, LaidDecoder
<1>4. CASE UNCHANGED vars
  <2>1. /\ UNCHANGED <<stage, file, flushed, samples, taking, job>> /\ UNCHANGED decoderVars
    BY <1>4 DEF vars, fileVars
  <2>2. stage' = "decoding" => Decoded(at)'
    <3>1. SUFFICES ASSUME stage' = "decoding" PROVE Decoded(at)'
      OBVIOUS
    <3>2. PICK d \in 0 .. Len(samples), o \in Nat \ {0}, m \in Nat : Place(at, d, o, m)
      BY <2>1, <3>1 DEF Laid, Decoded
    <3>3. Place(at, d, o, m)'
      <4>1. JsonsSound(d)' <=> JsonsSound(d)
        BY <2>1, SameSamples, Zenon DEF JsonsSound, decoderVars
      <4>2. Within(d + 1, o, m)' <=> Within(d + 1, o, m)
        BY <2>1, SameSamples, Zenon DEF Within, decoderVars
      <4>3. Count(d)' = Count(d)
        BY <2>1, SameSamples
      <4> QED BY <2>1, <3>2, <4>1, <4>2, <4>3 DEF decoderVars, Place
    <3> QED BY <2>1, <3>2, <3>3 DEF Decoded
  <2>3. Parts(at)' /\ (flushed \in 0 .. Len(file))'
    BY <2>1 DEF Laid, Parts, PartsOf
  <2>4. (stage = "running" => Growing(at))' /\ (stage # "running" => Finished(at))'
    BY <2>1 DEF Laid, Growing, Begun, Finished
  <2> QED BY <2>2, <2>3, <2>4 DEF Laid
<1> QED BY <1>1, <1>2, <1>3, <1>4 DEF Next, Decoder

\* A JSON's addresses are addresses, and what the caches get are symbols.
LEMMA WriteJsonCached ==
  ASSUME Cached, entries \in Seq(Trace), NEW closing, WriteJson(closing), maps' = maps
  PROVE  Cached'
<1> DEFINE new == Seen \ DOMAIN syms
           slots == {a[1] : a \in {b \in new : maps[b[1]] # Nothing}}
<1>1. /\ syms' = [a \in DOMAIN syms \cup new |-> IF a \in new THEN Lookup(a) ELSE syms[a]]
      /\ offsets' = [s \in DOMAIN offsets \cup slots |-> Offset(s)]
  BY DEF WriteJson
<1>2. Seen \subseteq Addresses
  BY EventsTyped DEF Seen
<1>3. /\ maps \in [Slots -> Objects \cup {Nothing}]
      /\ DOMAIN syms \subseteq Addresses /\ \A a \in DOMAIN syms : syms[a] \in Symbol
      /\ DOMAIN offsets \subseteq Slots /\ \A s \in DOMAIN offsets : offsets[s] \in Objects
  BY DEF Cached, MapTables
<1>4. \A s \in Slots : maps[s] # Nothing => Offset(s) \in Objects
  BY <1>3 DEF Offset
<1>5. \A a \in Addresses : a[1] \in Slots /\ a[2] \in {"f", "thunk"}
  BY DEF Addresses
<1>6. \A a \in Addresses : Lookup(a) \in Symbol
  <2> SUFFICES ASSUME NEW a \in Addresses PROVE Lookup(a) \in Symbol
    OBVIOUS
  <2>1. CASE maps[a[1]] = Nothing
    BY <2>1 DEF Lookup, Symbol
  <2>2. CASE maps[a[1]] # Nothing
    <3>1. maps[a[1]] \in Objects /\ Offset(a[1]) \in Objects /\ a[2] \in {"f", "thunk"}
      BY <1>3, <1>4, <1>5, <2>2
    <3> QED BY <2>2, <3>1 DEF Lookup, Symbol
  <2> QED BY <2>1, <2>2
<1>7. DOMAIN syms' \subseteq Addresses /\ \A a \in DOMAIN syms' : syms'[a] \in Symbol
  BY <1>1, <1>2, <1>3, <1>6
<1>8. slots \subseteq Slots /\ \A s \in slots : maps[s] # Nothing
  BY <1>2, <1>5
<1>9. DOMAIN offsets' \subseteq Slots /\ \A s \in DOMAIN offsets' : offsets'[s] \in Objects
  <2> HIDE DEF slots, new
  <2>1. DOMAIN offsets' = DOMAIN offsets \cup slots /\ \A s \in DOMAIN offsets' : offsets'[s] = Offset(s)
    BY <1>1
  <2> SUFFICES ASSUME NEW s \in DOMAIN offsets' PROVE s \in Slots /\ offsets'[s] \in Objects
    OBVIOUS
  <2>2. CASE s \in DOMAIN offsets
    BY <1>3, <2>1, <2>2 DEF Offset
  <2>3. CASE s \in slots
    BY <1>4, <1>8, <2>1, <2>3
  <2> QED BY <2>1, <2>2, <2>3
<1> QED BY <1>3, <1>7, <1>9 DEF Cached, MapTables

\* What the decoder shows are traces of a sample.
LEMMA EntriesAre ==
  ASSUME IInv, NEW at, Laid(at), stage = "decoding"
  PROVE  entries \in Seq(Trace)
<1>1. PICK d \in 0 .. Len(samples), o \in Nat \ {0}, m \in Nat : Place(at, d, o, m)
  BY DEF Laid, Decoded
<1>2. CASE o = 1
  <2>1. entries = <<>>
    BY <1>1, <1>2 DEF Place
  <2> QED BY <2>1
<1>3. CASE o # 1
  <2>1. Within(d + 1, o, m) /\ d # Len(samples)
    BY <1>1, <1>3 DEF Place
  <2>2. samples \in Seq(Sample) /\ d + 1 \in 1 .. Len(samples) /\ samples[d + 1] \in Sample
    BY <1>1, <2>1, PlaceIs DEF Laid
  <2>3. entries = Upto(d + 1, m) /\ m <= Len(samples[d + 1].traces)
    BY <2>1 DEF Within
  <2>4. m \in 0 .. Len(samples[d + 1].traces)
    BY <2>2, <2>3, SizeIs
  <2> QED BY <2>2, <2>3, <2>4, UptoNext
<1> QED BY <1>2, <1>3

LEMMA CachedStep ==
  ASSUME IInv, HaveMaps, Cached, NEW at, Laid(at), [Next]_vars
  PROVE  Cached'
<1>1. CASE UNCHANGED <<maps, syms, offsets>>
  BY <1>1 DEF Cached
<1>2. CASE Program \/ StartDecoder \/ UNCHANGED vars
  BY <1>1, <1>2, ProgramLeavesDecoder DEF vars, decoderVars
<1>3. CASE SetThread \/ AddTrace \/ SetText \/ Fail
  BY <1>1, <1>3 DEF SetThread, AddTrace, SetText, Fail
<1>4. CASE SetMaps
  <2>1. stage = "decoding" /\ Reading("PROCMAPS") /\ maps' = Chunk.maps /\ offsets' = <<>> /\ syms' = <<>>
    BY <1>4 DEF SetMaps, Reading
  <2>2. PICK d \in 0 .. Len(samples), o \in Nat \ {0}, m \in Nat : Place(at, d, o, m)
    BY <2>1 DEF Laid, Decoded
  <2>3. Parts(at) /\ Finished(at)
    BY <2>1 DEF Laid
  <2>4. d + 1 \in 1 .. Len(samples) /\ Chunk.maps = samples[d + 1].maps
    <3>1. "PROCMAPS" \notin {"MAGIC_CUT", "CHUNK_CUT"} /\ "PROCMAPS" # "ENDTRACE"
      OBVIOUS
    <3> QED BY <2>1, <2>2, <2>3, <3>1, ReadingIs
  <2>5. d + 1 \in DOMAIN samples
    BY <2>4 DEF IInv, Typed
  <2>6. maps' \in MapTables
    BY <2>1, <2>4, <2>5 DEF HaveMaps
  <2>7. DOMAIN syms' = {} /\ DOMAIN offsets' = {}
    BY <2>1, EmptyDomain
  <2> QED BY <2>6, <2>7 DEF Cached, MapTables
<1>5. CASE EndSample
  <2>1. stage = "decoding" /\ maps' = maps
    BY <1>5 DEF EndSample, Reading
  <2>2. WriteJson(TRUE) \/ UNCHANGED <<syms, offsets>>
    BY <1>5 DEF EndSample
  <2> QED BY <1>1, <2>1, <2>2, EntriesAre, WriteJsonCached
<1>6. CASE EndOfFile
  <2>1. stage = "decoding" /\ maps' = maps
    BY <1>6 DEF EndOfFile
  <2>2. WriteJson(FALSE) \/ UNCHANGED <<syms, offsets>>
    BY <1>6 DEF EndOfFile
  <2> QED BY <1>1, <2>1, <2>2, EntriesAre, WriteJsonCached
<1> QED BY <1>2, <1>3, <1>4, <1>5, <1>6 DEF Next, Decoder


LEMMA DecoderInit == Init => DInv
<1> SUFFICES ASSUME Init PROVE DInv
  OBVIOUS
<1>1. /\ stage = "running" /\ job = "idle" /\ taking = Blank /\ snapshot = Nothing /\ way \in {"sigtrap", "api"}
      /\ file = <<>> /\ flushed = 0 /\ samples = <<>>
      /\ maps = [s \in Slots |-> Nothing] /\ syms = <<>> /\ offsets = <<>>
  BY DEF Init
<1>2. Fresh
  BY <1>1 DEF Fresh, Blank
<1>3. HaveMaps
  BY <1>1, EmptyDomain DEF HaveMaps
<1>4. Cached
  BY <1>1, EmptyDomain DEF Cached, MapTables
<1>5. Unread
  BY DEF Init, Unread
<1>6. \E at : Laid(at)
  <2> DEFINE at == [i \in 1 .. 1 |-> 0]
  <2>1. Len(samples) = 0 /\ Len(file) = 0 /\ IsSequence(file)
    BY <1>1 DEF IsSequence
  <2>2. at \in [1 .. 1 -> Nat] /\ at[1] = 0
    OBVIOUS
  <2> HIDE DEF at
  <2>3. Parts(at)
    <3>1. at \in [1 .. Len(samples) + 1 -> Nat] /\ at[Len(samples) + 1] = 0
      BY <2>1, <2>2
    <3>2. \A i, j \in 1 .. Len(samples) + 1 : at[i] <= at[j]
      BY <2>1, <2>2
    <3> QED BY <2>1, <2>2, <3>1, <3>2 DEF Parts, PartsOf
  <2>4. Begun = 0
    BY <1>1 DEF Begun
  <2>5. Growing(at)
    BY <2>1, <2>2, <2>4 DEF Growing
  <2> QED BY <1>1, <2>1, <2>3, <2>5 DEF Laid
<1> QED BY <1>2, <1>3, <1>4, <1>5, <1>6 DEF DInv

LEMMA DecoderStep == IInv /\ IInv' /\ DInv /\ [Next]_vars => DInv'
<1> SUFFICES ASSUME IInv, IInv', DInv, [Next]_vars PROVE DInv'
  OBVIOUS
<1>1. Fresh /\ HaveMaps /\ Cached /\ (stage # "decoding" => Unread)
  BY DEF DInv
<1>2. PICK at : Laid(at)
  BY DEF DInv
<1>3. Fresh' /\ HaveMaps'
  BY <1>1, FreshStays DEF FreshSteps
<1>4. Cached'
  BY <1>1, <1>2, CachedStep
<1>5. (stage # "decoding" => Unread)'
  <2>1. CASE Program \/ StartDecoder \/ UNCHANGED vars
    <3>1. UNCHANGED decoderVars /\ (stage # "decoding" \/ UNCHANGED stage)
      BY <2>1, ProgramLeavesDecoder DEF vars
    <3> QED BY <1>1, <3>1 DEF Unread, decoderVars
  <2>2. CASE SetMaps \/ SetThread \/ AddTrace \/ SetText \/ EndSample \/ EndOfFile \/ Fail
    BY <2>2, DecoderDecodes
  <2> QED BY <2>1, <2>2 DEF Next, Decoder
<1>6. \E bt : Laid(bt)'
  BY <1>1, <1>2, LaidStep
<1> QED BY <1>3, <1>4, <1>5, <1>6 DEF DInv

\* Where the decoder is in the file.
LEMMA NextIs ==
  ASSUME IInv, DInv
  PROVE  flushed \in 0 .. Len(file) /\ next \in 1 .. Len(file) + 1
<1>1. PICK at : Laid(at)
  BY DEF DInv
<1>2. flushed \in 0 .. Len(file) /\ Parts(at)
  BY <1>1 DEF Laid
<1>3. Len(file) \in Nat
  <2>1. file \in Seq(Range(file))
    BY <1>2 DEF Parts, PartsOf, IsSequence
  <2> QED BY <2>1
<1>4. CASE stage # "decoding"
  BY <1>2, <1>3, <1>4 DEF DInv, Unread
<1>5. CASE stage = "decoding"
  <2> DEFINE K == Len(samples)
  <2>1. PICK d \in 0 .. K, o \in Nat \ {0}, m \in Nat : Place(at, d, o, m)
    BY <1>1, <1>5 DEF Laid, Decoded
  <2>2. Finished(at)
    BY <1>1, <1>5 DEF Laid
  <2>3. /\ next = at[d + 1] + o + (IF status = "failed" THEN 1 ELSE 0)
        /\ IF d = K THEN o = 1 ELSE at[d + 1] + o <= at[d + 2] + 1
        /\ status = "failed" => Len(file) > at[K + 1]
    BY <2>1 DEF Place
  <2>4. /\ at[d + 1] \in Nat /\ at[K + 1] \in Nat /\ at[K + 1] <= Len(file)
        /\ d # K => at[d + 2] \in Nat /\ at[d + 2] <= at[K + 1]
    BY <1>2, <2>1, PlaceIs, Zenon
  <2>5. at[d + 1] + o <= at[K + 1] + 1
    <3>1. CASE d = K
      <4>1. o = 1
        BY <2>3, <3>1
      <4> QED BY <2>4, <3>1, <4>1
    <3>2. CASE d # K
      <4>1. at[d + 1] + o <= at[d + 2] + 1
        BY <2>3, <3>2
      <4>2. at[d + 1] + o \in Int /\ at[d + 2] \in Nat /\ at[d + 2] <= at[K + 1] /\ at[K + 1] \in Nat
        BY <2>4, <3>2
      <4> QED BY <4>1, <4>2
    <3> QED BY <3>1, <3>2
  <2> HIDE DEF K
  <2>6. CASE status = "failed"
    <3>1. next = at[d + 1] + o + 1 /\ Len(file) > at[K + 1]
      BY <2>3, <2>6
    <3>2. at[d + 1] \in Nat /\ at[K + 1] \in Nat /\ o \in Nat /\ o >= 1
      BY <2>4
    <3>3. next \in 1 .. Len(file) + 1
      BY ONLY <1>3, <2>5, <3>1, <3>2
    <3> QED BY <1>2, <3>3
  <2>7. CASE status # "failed"
    <3>1. next = at[d + 1] + o + 0
      BY <2>3, <2>7
    <3>2. at[d + 1] \in Nat /\ at[K + 1] \in Nat /\ at[K + 1] <= Len(file) /\ o \in Nat /\ o >= 1
      BY <2>4
    <3>3. next \in 1 .. Len(file) + 1
      BY ONLY <1>3, <2>5, <3>1, <3>2
    <3> QED BY <1>2, <3>3
  <2> QED BY <1>2, <2>6, <2>7
<1> QED BY <1>4, <1>5

\* The caches hold symbols of known objects for addresses that occur, and the
\* decoder never reads beyond the file's chunks, whatever was cut off.
THEOREM TypeCorrect == Spec => []TypeOK
<1>1. IInv /\ DInv => TypeOK
  <2> SUFFICES ASSUME IInv, DInv PROVE TypeOK
    OBVIOUS
  <2>1. flushed \in 0 .. Len(file) /\ next \in 1 .. Len(file) + 1
    BY NextIs
  <2>2. stage \in {"running", "ended", "crashed", "decoding"} /\ (paused <=> job \in {"write", "mapped", "get"})
    BY DEF DInv, Fresh, IInv, Pausing
  <2> QED BY <2>1, <2>2 DEF DInv, Cached, MapTables, TypeOK
<1> QED BY <1>1, InitSound, StepSound, DecoderInit, DecoderStep, PTL DEF Spec


------------------------------------------------------------------------------
(* What the JSON files show.                                                *)

\* What is known of them at any time.
Soundly ==
  /\ \A k \in DOMAIN jsons : \E i \in 1 .. Len(samples) : Shows(jsons[k], i)
  /\ \A k \in DOMAIN jsons : ~jsons[k].closed => k = Len(jsons)
  /\ \A k \in DOMAIN jsons : k > 1 => jsons[k - 1].number < jsons[k].number
  /\ status # "reading" =>
       \A i \in 1 .. Len(samples) :
         samples[i].safe /\ samples[i] \in ToShow /\ (Chosen = {} \/ Count(i - 1) \in Chosen) =>
           \E k \in DOMAIN jsons : jsons[k].number = Count(i - 1) /\ jsons[k].closed

\* When the decoder has stopped, all of the samples that are not cut were read.
LEMMA AllRead ==
  ASSUME IInv, NEW at, Parts(at), NEW d \in 0 .. Len(samples), NEW o \in Nat \ {0}, NEW m,
         Place(at, d, o, m), status # "reading", NEW i \in 1 .. Len(samples), samples[i].safe
  PROVE  i <= d
<1> DEFINE K == Len(samples)
<1> SUFFICES ASSUME ~(i <= d) PROVE FALSE
  OBVIOUS
<1>1. K \in Nat /\ d # K /\ i >= d + 1 /\ d + 1 \in 1 .. K
  <2>1. K \in Nat
    BY PlaceIs
  <2> QED BY <2>1
<1>2. /\ at[d + 1] \in Nat /\ at[d + 2] \in Nat /\ at[K + 1] \in Nat /\ Size(samples[d + 1]) \in Nat
      /\ d + 1 = K => at[d + 2] = at[K + 1]
      /\ d + 1 # K => at[d + 2] = at[d + 1] + Size(samples[d + 1])
      /\ at[d + 2] <= at[K + 1]
  BY <1>1, PlaceIs
<1>3. o <= Size(samples[d + 1]) /\ at[d + 1] + o > at[K + 1]
  BY <1>1 DEF Place
<1>4. at[d + 2] = at[d + 1] + Size(samples[d + 1])
  <2>1. CASE d + 1 = K
    <3>1. i = d + 1 /\ i = K
      BY <1>1, <2>1
    <3>2. at[i + 1] = at[i] + Size(samples[i])
      BY <3>1 DEF Parts, PartsOf
    <3>3. i + 1 = d + 2
      BY <3>1
    <3> QED BY <3>1, <3>2, <3>3
  <2>2. CASE d + 1 # K
    BY <1>2, <2>2
  <2> QED BY <2>1, <2>2
<1> HIDE DEF K
<1> QED BY <1>2, <1>3, <1>4

LEMMA SoundlyShown ==
  ASSUME IInv, DInv
  PROVE  Soundly
<1>1. PICK at : Laid(at)
  BY DEF DInv
<1>2. CASE stage # "decoding"
  <2>1. jsons = <<>> /\ status = "reading"
    BY <1>2 DEF DInv, Unread
  <2>2. DOMAIN jsons = {}
    BY <2>1, EmptyDomain
  <2> QED BY <2>1, <2>2 DEF Soundly
<1>3. CASE stage = "decoding"
  <2>1. PICK d \in 0 .. Len(samples), o \in Nat \ {0}, m \in Nat : Place(at, d, o, m)
    BY <1>1, <1>3 DEF Laid, Decoded
  <2>2. Parts(at)
    BY <1>1 DEF Laid
  <2>3. JsonsSound(d)
    BY <2>1 DEF Place
  <2>4. IsSequence(jsons) /\ DOMAIN jsons = 1 .. Len(jsons) /\ Len(jsons) \in Nat
    <3>1. jsons \in Seq(Range(jsons))
      BY <2>3 DEF JsonsSound, IsSequence
    <3> QED BY <3>1 DEF IsSequence
  <2>5. \A k \in DOMAIN jsons : \E i \in 1 .. Len(samples) : Shows(jsons[k], i)
    BY <2>3, <2>4, Zenon DEF JsonsSound
  <2>6. \A k \in DOMAIN jsons : ~jsons[k].closed => k = Len(jsons)
    BY <2>3, <2>4, Zenon DEF JsonsSound
  <2>7. ASSUME NEW k \in DOMAIN jsons, k > 1 PROVE jsons[k - 1].number < jsons[k].number
    <3>1. k \in 2 .. Len(jsons)
      BY <2>4, <2>7
    <3> QED BY <2>3, <3>1 DEF JsonsSound
  <2>8. ASSUME status # "reading", NEW i \in 1 .. Len(samples), samples[i].safe,
               samples[i] \in ToShow, Chosen = {} \/ Count(i - 1) \in Chosen
        PROVE  \E k \in DOMAIN jsons : jsons[k].number = Count(i - 1) /\ jsons[k].closed
    <3>1. i <= d
      BY <2>1, <2>2, <2>8, AllRead
    <3>2. i \in 1 .. d
      BY <3>1
    <3> QED BY <2>3, <2>4, <2>8, <3>2, Zenon DEF JsonsSound
  <2> QED BY <2>5, <2>6, <2>7, <2>8, Zenon DEF Soundly
<1> QED BY <1>2, <1>3

\* The sample of a JSON's number.
LEMMA SourceIs ==
  ASSUME IInv, NEW json, NEW i \in 1 .. Len(samples), Shows(json, i)
  PROVE  /\ samples[i] \in ToShow /\ samples[i] \in Sample /\ i \in DOMAIN samples
         /\ json.number + 1 \in DOMAIN Shown /\ Source(json) = samples[i]
<1>1. samples \in Seq(Sample)
  BY DEF IInv, Typed
<1>2. IsSequence(samples)
  BY <1>1, SequenceOf
<1>3. samples[i] \in ToShow /\ json.number = Count(i - 1)
  BY DEF Shows
<1>4. /\ Len(Selected(samples, ToShow, i - 1)) + 1 \in DOMAIN Selected(samples, ToShow, Len(samples))
      /\ Selected(samples, ToShow, Len(samples))[Len(Selected(samples, ToShow, i - 1)) + 1] = samples[i]
  BY <1>2, <1>3, SelectedAt
<1>5. samples[i] \in Sample /\ i \in DOMAIN samples
  BY <1>1
<1> QED BY <1>3, <1>4, <1>5, Zenon DEF Count, Shown, Source

\* What an open sample has of its traces comes first in it.
LEMMA UptoComesFirst ==
  ASSUME IInv, NEW i \in 1 .. Len(samples), NEW m \in 0 .. Len(samples[i].traces)
  PROVE  IsPrefix(Upto(i, m), Kept(samples[i].traces))
<1> DEFINE q == samples[i].traces
           set == Filled(q)
           s == Selected(q, set, m)
           t == Selected(q, set, Len(q))
<1>1. samples[i] \in Sample
  BY DEF IInv, Typed
<1>2. IsSequence(q) /\ Len(q) \in Nat
  BY <1>1, SizeIs
<1>3. Len(q) \in m .. Len(q) /\ m \in 0 .. Len(q) /\ Len(q) \in 0 .. Len(q)
  BY <1>2
<1>4. Len(s) <= Len(t) /\ \A k \in 1 .. Len(s) : t[k] = s[k]
  <2> HIDE DEF q, set
  <2>1. \A b \in m .. Len(q) :
           /\ Len(Selected(q, set, m)) <= Len(Selected(q, set, b))
           /\ \A k \in 1 .. Len(Selected(q, set, m)) : Selected(q, set, b)[k] = Selected(q, set, m)[k]
    BY <1>2, <1>3, SelectedGrows
  <2> QED BY <1>3, <2>1
<1>5. s \in Seq(Range(q)) /\ t \in Seq(Range(q))
  <2> HIDE DEF q, set
  <2> QED BY <1>2, <1>3, SelectedUnfolds, Zenon
<1>6. SubSeq(s, 1, Len(s)) = SubSeq(t, 1, Len(s))
  <2> HIDE DEF s, t, q
  <2>1. Len(s) \in Nat /\ Len(t) \in Nat
    BY <1>5
  <2>2. \A k \in 1 .. Len(s) : s[k] = t[k]
    BY <1>4
  <2>3. SubSeq(s, 1, Len(s)) = [k \in 1 .. Len(s) |-> s[k]]
    BY <1>5, <2>1
  <2>4. SubSeq(t, 1, Len(s)) = [k \in 1 .. Len(s) |-> t[k]]
    BY <1>4, <1>5, <2>1
  <2>5. [k \in 1 .. Len(s) |-> s[k]] = [k \in 1 .. Len(s) |-> t[k]]
    BY <2>2
  <2> QED BY <2>3, <2>4, <2>5
<1>7. Upto(i, m) = s /\ Kept(samples[i].traces) = t
  BY DEF Upto, Kept
<1> HIDE DEF s, t
<1> QED BY <1>4, <1>6, <1>7 DEF IsPrefix


\* Nothing in a JSON is from elsewhere than its sample.
LEMMA EventsOfSample ==
  ASSUME IInv, NEW json, NEW i \in 1 .. Len(samples), Shows(json, i)
  PROVE  EventsIn(json.traces) \subseteq EventsIn(samples[i].traces)
<1> DEFINE q == samples[i].traces
<1>1. samples[i] \in Sample
  BY DEF IInv, Typed
<1>2. IsSequence(q) /\ Len(q) \in Nat
  BY <1>1, SizeIs
<1>3. PICK m \in 0 .. Len(q) : json.traces = Selected(q, Filled(q), m)
  <2>1. Len(q) \in 0 .. Len(q)
    BY <1>2
  <2>2. CASE json.closed
    <3>1. json.traces = Kept(q)
      BY <2>2 DEF Shows
    <3> HIDE DEF q
    <3> QED BY <2>1, <3>1 DEF Kept
  <2>3. CASE ~json.closed
    <3>1. \E m \in 0 .. Len(q) : json.traces = Upto(i, m)
      BY <2>3 DEF Shows
    <3> QED BY <3>1 DEF Upto
  <2> QED BY <2>2, <2>3
<1> HIDE DEF q
<1>4. json.traces \in Seq(Range(q))
  <2>1. \A n \in 0 .. Len(q) : Selected(q, Filled(q), n) \in Seq(Range(q))
    BY <1>2, SelectedUnfolds, Zenon
  <2> QED BY <1>3, <2>1
<1>5. ASSUME NEW k \in DOMAIN json.traces
      PROVE  \E n \in DOMAIN q : json.traces[k] = q[n]
  <2>1. json.traces[k] \in Range(q)
    BY <1>4
  <2> QED BY <2>1 DEF Range
<1>6. EventsIn(json.traces) \subseteq EventsIn(q)
  <2> SUFFICES ASSUME NEW e \in EventsIn(json.traces) PROVE e \in EventsIn(q)
    OBVIOUS
  <2>1. PICK k \in DOMAIN json.traces : e \in Range(json.traces[k].events)
    BY DEF EventsIn
  <2>2. PICK n \in DOMAIN q : json.traces[k] = q[n]
    BY <1>5
  <2>3. e \in Range(q[n].events)
    BY <2>1, <2>2
  <2> QED BY <2>3 DEF EventsIn
<1> QED BY <1>6 DEF q

\* For any threads, objects and sizes, with snapshots taken by SIGTRAP, by the
\* API and from a core dump, and wherever a crash cuts the file: each JSON
\* shows the sample of its number as it was taken, or the first threads of the
\* one the file breaks off in, and no sample that was flushed is left out.
THEOREM EachSampleShown == Spec => []SamplesAsTaken
<1>1. IInv /\ DInv => SamplesAsTaken
  <2> SUFFICES ASSUME IInv, DInv PROVE SamplesAsTaken
    OBVIOUS
  <2>1. Soundly
    BY SoundlyShown
  <2>2. ASSUME NEW k \in DOMAIN jsons
        PROVE  LET json == jsons[k]
               IN /\ json.number + 1 \in DOMAIN Shown
                  /\ IF json.closed
                     THEN json.traces = Kept(Source(json).traces) /\ json.text = Source(json).text
                     ELSE /\ k = Len(jsons)
                          /\ IsPrefix(json.traces, Kept(Source(json).traces))
                          /\ json.text \in {NoText, Source(json).text}
                  /\ k > 1 => jsons[k - 1].number < json.number
    <3>1. PICK i \in 1 .. Len(samples) : Shows(jsons[k], i)
      BY <2>1 DEF Soundly
    <3>2. jsons[k].number + 1 \in DOMAIN Shown /\ Source(jsons[k]) = samples[i]
      BY <3>1, SourceIs
    <3>3. k > 1 => jsons[k - 1].number < jsons[k].number
      BY <2>1 DEF Soundly
    <3>4. CASE jsons[k].closed
      <4>1. jsons[k].traces = Kept(samples[i].traces) /\ jsons[k].text = samples[i].text
        BY <3>1, <3>4 DEF Shows
      <4> QED BY <3>2, <3>3, <3>4, <4>1
    <3>5. CASE ~jsons[k].closed
      <4>1. k = Len(jsons)
        BY <2>1, <3>5 DEF Soundly
      <4>2. PICK m \in 0 .. Len(samples[i].traces) : jsons[k].traces = Upto(i, m)
        BY <3>1, <3>5 DEF Shows
      <4>3. jsons[k].text \in {NoText, samples[i].text}
        BY <3>1, <3>5 DEF Shows
      <4>4. IsPrefix(jsons[k].traces, Kept(samples[i].traces))
        BY <4>2, UptoComesFirst
      <4> QED BY <3>2, <3>3, <3>5, <4>1, <4>3, <4>4
    <3> QED BY <3>4, <3>5
  <2>3. ASSUME status # "reading", NEW n \in DOMAIN Shown, Shown[n].safe,
               Chosen = {} \/ n - 1 \in Chosen
        PROVE  \E k \in DOMAIN jsons : jsons[k].number = n - 1 /\ jsons[k].closed
    <3>1. samples \in Seq(Sample) /\ IsSequence(samples)
      BY SequenceOf DEF IInv, Typed
    <3>2. n \in DOMAIN Selected(samples, ToShow, Len(samples))
      BY DEF Shown
    <3>3. PICK i \in 1 .. Len(samples) :
            samples[i] \in ToShow /\ n = Len(Selected(samples, ToShow, i - 1)) + 1
      BY <3>1, <3>2, SelectedFrom, Zenon
    <3>4. /\ Len(Selected(samples, ToShow, i - 1)) \in Nat
          /\ Selected(samples, ToShow, Len(samples))[Len(Selected(samples, ToShow, i - 1)) + 1] = samples[i]
      BY <3>1, <3>3, SelectedAt
    <3>5. Shown[n] = samples[i]
      BY <3>3, <3>4, Zenon DEF Shown
    <3>6. n - 1 = Count(i - 1)
      <4>1. Count(i - 1) \in Nat /\ n = Count(i - 1) + 1
        BY <3>3, <3>4, Zenon DEF Count
      <4> QED BY <4>1
    <3>7. samples[i].safe /\ (Chosen = {} \/ Count(i - 1) \in Chosen)
      BY <2>3, <3>5, <3>6
    <3>8. \E k \in DOMAIN jsons : jsons[k].number = Count(i - 1) /\ jsons[k].closed
      BY <2>1, <2>3, <3>3, <3>7, Zenon DEF Soundly
    <3> QED BY <3>6, <3>8
  <2> QED BY <2>2, <2>3, Zenon DEF SamplesAsTaken
<1> QED BY <1>1, InitSound, StepSound, DecoderInit, DecoderStep, PTL DEF Spec

\* The decoder's caches do not show in any JSON: a sample is decoded as if it
\* were alone in the file, by its own memory map and without its thunks.
THEOREM EachDecodedAlone == Spec => []DecodedAlone
<1>1. IInv /\ DInv => DecodedAlone
  <2> SUFFICES ASSUME IInv, DInv, NEW k \in DOMAIN jsons
               PROVE  /\ \A a \in DOMAIN jsons[k].names : jsons[k].names[a] = Alone(Source(jsons[k]).maps, a)
                      /\ jsons[k].ignored = {a \in DOMAIN jsons[k].names : IsThunk(jsons[k].names[a])}
    BY Zenon DEF DecodedAlone
  <2>1. PICK i \in 1 .. Len(samples) : Shows(jsons[k], i)
    BY SoundlyShown DEF Soundly
  <2>2. Source(jsons[k]) = samples[i]
    BY <2>1, SourceIs
  <2>3. /\ jsons[k].names = [a \in {e.at : e \in EventsIn(jsons[k].traces)} |-> Alone(samples[i].maps, a)]
        /\ jsons[k].ignored = {a \in DOMAIN jsons[k].names : IsThunk(jsons[k].names[a])}
    BY <2>1 DEF Shows
  <2> QED BY <2>2, <2>3
<1> QED BY <1>1, InitSound, StepSound, DecoderInit, DecoderStep, PTL DEF Spec

\* An event is shown as a call of the function that was called, if its object
\* was not unloaded before the snapshot was complete.
THEOREM EachNamedRight == Spec => []NamedRight
<1>1. IInv /\ DInv => NamedRight
  <2> SUFFICES ASSUME IInv, DInv, NEW k \in DOMAIN jsons, NEW t \in DOMAIN jsons[k].traces,
                      NEW j \in DOMAIN jsons[k].traces[t].events,
                      jsons[k].traces[t].events[j].by \notin Source(jsons[k]).gone
               PROVE  LET event == jsons[k].traces[t].events[j]
                      IN jsons[k].names[event.at] =
                           [object |-> object[event.by], offset |-> object[event.by], func |-> event.at[2]]
    BY Zenon DEF NamedRight
  <2> DEFINE json == jsons[k]
             event == json.traces[t].events[j]
  <2>1. PICK i \in 1 .. Len(samples) : Shows(json, i)
    BY SoundlyShown DEF Soundly
  <2>2. Source(json) = samples[i] /\ i \in DOMAIN samples
    BY <2>1, SourceIs
  <2>3. event \in EventsIn(json.traces)
    <3>1. event \in Range(json.traces[t].events)
      BY DEF Range
    <3> QED BY <3>1 DEF EventsIn
  <2>4. event \in EventsIn(samples[i].traces)
    BY <2>1, <2>3, EventsOfSample
  <2>5. InMaps(EventsIn(samples[i].traces), samples[i].maps, samples[i].gone)
    BY <2>2 DEF IInv, SamplesSound
  <2>6. event.by \notin samples[i].gone
    BY <2>2
  <2> HIDE DEF event
  <2>7. event.by \in DOMAIN object /\ samples[i].maps[event.at[1]] = object[event.by]
    BY <2>4, <2>5, <2>6 DEF InMaps
  <2>8. object[event.by] # Nothing
    <3>1. object[event.by] \in Objects
      BY <2>7 DEF IInv, Typed
    <3> QED BY <3>1, NothingAssumption DEF NothingAssumption
  <2>9. Alone(samples[i].maps, event.at) =
          [object |-> object[event.by], offset |-> object[event.by], func |-> event.at[2]]
    BY <2>7, <2>8 DEF Alone
  <2>10. json.names = [a \in {e.at : e \in EventsIn(json.traces)} |-> Alone(samples[i].maps, a)]
    BY <2>1 DEF Shows
  <2> HIDE DEF json
  <2>11. json.names[event.at] = Alone(samples[i].maps, event.at)
    BY <2>3, <2>10
  <2>12. json.names[event.at] =
           [object |-> object[event.by], offset |-> object[event.by], func |-> event.at[2]]
    BY <2>9, <2>11
  <2> QED BY <2>12 DEF json, event
<1> QED BY <1>1, InitSound, StepSound, DecoderInit, DecoderStep, PTL DEF Spec
==============================================================================
