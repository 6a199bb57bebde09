----------------------------- MODULE Snapshots -----------------------------
(***************************************************************************)
(* The way of a trace sample from the threads' buffers to the JSON: the     *)
(* program loads and unloads shared objects while it records; a snapshot     *)
(* pairs the buffers with the memory map; funtrace.raw grows by a sample     *)
(* per SIGTRAP, funtrace_write_snapshot() makes a file of its own, gdb makes *)
(* one of a core dump; a crash cuts a file short; and funtrace2viz reads a    *)
(* file chunk by chunk, with caches that outlive the samples.               *)
(*                                                                         *)
(* The buffers' races with a snapshot are TraceBuffer's, the call stacks are *)
(* CallStacks', and here an event is stored in one step.  A shared object    *)
(* has a base address (a slot); an address is a slot and a function of the   *)
(* object that is loaded there: "f", or "thunk", which no JSON shows.       *)
(***************************************************************************)
EXTENDS Integers, Sequences, SequencesExt

CONSTANTS
  Threads,    \* a sequence: thread_traces, in the order of registration
  Slots,      \* base addresses
  Objects,    \* files of shared objects
  Loads,      \* bound: each is one dlopen(), 1 .. how many there can be
  Nothing,    \* an empty slot; no sample; an unknown symbol
  Capacity,   \* events that a buffer holds
  MaxEvents,  \* bound: how many events are recorded
  MaxSamples, \* bound: how many samples funtrace.raw gets
  Chosen      \* --samples: the numbers of those to decode; {}: all

ASSUME LoadsAssumption == Loads \subseteq Nat
ASSUME NothingAssumption == Nothing \notin Loads \cup Objects
ASSUME ThreadsAssumption == Threads \in Seq(Range(Threads))
ASSUME CapacityAssumption ==
  Capacity \in Nat \ {0} /\ MaxEvents \in Nat /\ MaxSamples \in Nat

VARIABLES
  stage,     \* "running", "ended", "crashed", "decoding"
  loaded,    \* the load whose object is at each slot
  object,    \* the object of each load so far
  closed,    \* the loads undone by dlclose()
  bufs,      \* the events in each thread's buffer, the oldest first
  recorded,  \* how many events were recorded
  paused,    \* pause_tracing()
  job,       \* who holds the mutex and how far that snapshot is
  taking,    \* the snapshot being taken
  snapshot,  \* the funtrace_snapshot the program keeps, or Nothing
  way,       \* "sigtrap": funtrace.raw; "api": funtrace_write_snapshot()'s file
  file,      \* its chunks
  flushed,   \* how many of them a crash leaves alone
  samples    \* history: its samples

programVars == <<loaded, object, closed, bufs, recorded>>
fileVars == <<way, file, flushed, samples>>

VARIABLES
  next,      \* the chunk it reads next
  thread,    \* thread_id
  entries,   \* sample_entries
  text,      \* ftrace_text
  maps,      \* procaddr2sym's maps
  syms,      \* sym_cache
  offsets,   \* procaddr2sym's offset_cache
  number,    \* num_json
  jsons,     \* the JSON files
  status     \* "reading", "done", "failed"

decoderVars ==
  <<next, thread, entries, text, maps, syms, offsets, number, jsons, status>>
vars == <<stage, programVars, paused, job, taking, snapshot, fileVars, decoderVars>>

EventsIn(traces) == UNION {Range(traces[i].events) : i \in DOMAIN traces}

Addresses == Slots \X {"f", "thunk"}

\* The ftrace events of a sample: none, or some.
NoText == ""
Texts == {NoText, "events"}

Blank == [traces |-> <<>>, text |-> NoText, maps |-> Nothing, gone |-> {}, safe |-> FALSE]

Init ==
  /\ stage = "running"
  /\ loaded = [s \in Slots |-> Nothing] /\ object = <<>> /\ closed = {}
  /\ bufs = [i \in DOMAIN Threads |-> <<>>] /\ recorded = 0
  /\ paused = FALSE /\ job = "idle" /\ taking = Blank /\ snapshot = Nothing
  /\ way \in {"sigtrap", "api"}
  /\ file = <<>> /\ flushed = 0 /\ samples = <<>>
  /\ next = 1 /\ status = "reading"
  /\ thread = Nothing /\ entries = <<>> /\ text = NoText
  /\ maps = [s \in Slots |-> Nothing] /\ syms = <<>> /\ offsets = <<>>
  /\ number = 0 /\ jsons = <<>>

------------------------------------------------------------------------------
(* The traced program *)

\* dlopen(): the object gets a base address that is free.
Open(s, o) ==
  /\ stage = "running"
  /\ loaded[s] = Nothing
  /\ Len(object) + 1 \in Loads
  /\ object' = Append(object, o)
  /\ loaded' = [loaded EXCEPT ![s] = Len(object')]
  /\ UNCHANGED <<stage, closed, bufs, recorded, paused, job, taking, snapshot, fileVars, decoderVars>>

\* dlclose()
Close(s) ==
  /\ stage = "running"
  /\ loaded[s] # Nothing
  /\ closed' = closed \cup {loaded[s]}
  /\ loaded' = [loaded EXCEPT ![s] = Nothing]
  /\ UNCHANGED <<stage, object, bufs, recorded, paused, job, taking, snapshot, fileVars, decoderVars>>

Newest(q) == SubSeq(q, Len(q) - Capacity + 1, Len(q))

\* A function of a loaded object is called: its event, and whose it is.
Record(i, a) ==
  LET event == [at |-> a, by |-> loaded[a[1]]]
      grown == Append(bufs[i], event)
  IN /\ stage = "running" /\ ~paused
     /\ loaded[a[1]] # Nothing
     /\ recorded < MaxEvents /\ recorded' = recorded + 1
     /\ bufs' = [bufs EXCEPT ![i] = IF Len(grown) > Capacity THEN Newest(grown) ELSE grown]
     /\ UNCHANGED <<stage, loaded, object, closed, paused, job, taking, snapshot, fileVars, decoderVars>>

------------------------------------------------------------------------------
(* The chunks of a sample *)

\* get_procmaps() and gdb's `info proc mappings` tell the objects' files.
ProcMaps == [s \in Slots |-> IF loaded[s] = Nothing THEN Nothing ELSE object[loaded[s]]]

Traces == [i \in DOMAIN Threads |-> [id |-> Threads[i], events |-> bufs[i]]]

MapsChunk(m) == <<[kind |-> "PROCMAPS", maps |-> m]>>

\* Two chunks for each trace: whose it is, and its events.
TraceChunks(traces) ==
  [n \in 1 .. 2 * Len(traces) |->
     LET trace == traces[(n + 1) \div 2]
     IN IF n % 2 = 1 THEN [kind |-> "THREADID", id |-> trace.id]
                     ELSE [kind |-> "TRACEBUF", events |-> trace.events]]

TextChunk(t) == IF t = NoText THEN <<>> ELSE <<[kind |-> "FTRACETX", text |-> t]>>

EndChunk == <<[kind |-> "ENDTRACE"]>>

Chunks(sample) ==
  MapsChunk(sample.maps) \o TraceChunks(sample.traces) \o TextChunk(sample.text) \o EndChunk

------------------------------------------------------------------------------
(* funtrace_pause_and_write_current_snapshot() *)

\* A mutant of WritePause: tracing goes on while the snapshot is written.
WritePauseNothing ==
  /\ stage = "running" /\ way = "sigtrap" /\ job = "idle"
  /\ Len(samples) < MaxSamples
  /\ job' = "write" /\ paused' = FALSE /\ taking' = Blank
  /\ UNCHANGED <<stage, programVars, snapshot, fileVars, decoderVars>>

WritePause ==
  /\ stage = "running" /\ way = "sigtrap" /\ job = "idle"
  /\ Len(samples) < MaxSamples
  /\ job' = "write" /\ paused' = TRUE /\ taking' = Blank
  /\ UNCHANGED <<stage, programVars, snapshot, fileVars, decoderVars>>

WriteMaps ==
  /\ stage = "running" /\ job = "write"
  /\ job' = "mapped"
  /\ taking' = [taking EXCEPT !.maps = ProcMaps]
  /\ file' = file \o MapsChunk(ProcMaps)
  /\ UNCHANGED <<stage, programVars, paused, snapshot, way, flushed, samples, decoderVars>>

WriteTraces ==
  /\ stage = "running" /\ job = "mapped"
  /\ job' = "traced" /\ paused' = FALSE
  /\ taking' = [taking EXCEPT !.traces = Traces]
  /\ file' = file \o TraceChunks(Traces)
  /\ UNCHANGED <<stage, programVars, snapshot, way, flushed, samples, decoderVars>>

\* The ftrace events, the end of the sample, and the flush
WriteEnd(t) ==
  /\ stage = "running" /\ job = "traced"
  /\ job' = "idle"
  /\ file' = file \o TextChunk(t) \o EndChunk
  /\ flushed' = Len(file')
  /\ samples' = Append(samples, [taking EXCEPT !.text = t, !.gone = closed, !.safe = TRUE])
  /\ UNCHANGED <<stage, programVars, paused, taking, snapshot, way, decoderVars>>

------------------------------------------------------------------------------
(* funtrace_pause_and_get_snapshot(), write_snapshot() and free_snapshot() *)

GetPause ==
  /\ stage = "running" /\ way = "api" /\ job = "idle" /\ snapshot = Nothing
  /\ job' = "get" /\ paused' = TRUE /\ taking' = Blank
  /\ UNCHANGED <<stage, programVars, snapshot, fileVars, decoderVars>>

\* A mutant of GetTraces: tracing stays paused.
GetTracesPaused ==
  /\ stage = "running" /\ job = "get"
  /\ job' = "copied" /\ paused' = paused
  /\ taking' = [taking EXCEPT !.traces = Traces]
  /\ UNCHANGED <<stage, programVars, snapshot, fileVars, decoderVars>>

GetTraces ==
  /\ stage = "running" /\ job = "get"
  /\ job' = "copied" /\ paused' = FALSE
  /\ taking' = [taking EXCEPT !.traces = Traces]
  /\ UNCHANGED <<stage, programVars, snapshot, fileVars, decoderVars>>

\* Here the maps come last.
GetMaps(t) ==
  /\ stage = "running" /\ job = "copied"
  /\ job' = "idle"
  /\ snapshot' = [taking EXCEPT !.text = t, !.maps = ProcMaps, !.gone = closed]
  /\ UNCHANGED <<stage, programVars, paused, taking, fileVars, decoderVars>>

\* The file is new, or truncated.
WriteSnapshot ==
  /\ stage = "running" /\ snapshot # Nothing
  /\ flushed = Len(file)
  /\ file' = Chunks(snapshot) /\ flushed' = 0
  /\ samples' = <<snapshot>>
  /\ UNCHANGED <<stage, programVars, paused, job, taking, snapshot, way, decoderVars>>

FlushSnapshot ==
  /\ stage = "running" /\ way = "api" /\ flushed < Len(file)
  /\ flushed' = Len(file)
  /\ samples' = [samples EXCEPT ![1].safe = TRUE]
  /\ UNCHANGED <<stage, programVars, paused, job, taking, snapshot, way, file, decoderVars>>

FreeSnapshot ==
  /\ stage = "running" /\ snapshot # Nothing
  /\ flushed = Len(file)
  /\ snapshot' = Nothing
  /\ UNCHANGED <<stage, programVars, paused, job, taking, fileVars, decoderVars>>

------------------------------------------------------------------------------
(* The end of the process *)

Exit ==
  /\ stage = "running" /\ job = "idle"
  /\ flushed = Len(file)
  /\ stage' = "ended"
  /\ UNCHANGED <<programVars, paused, job, taking, snapshot, fileVars, decoderVars>>

\* What was not flushed is cut anywhere: before the end of a magic string - or
\* between two chunks - or further inside a chunk.
Crash(n, tail) ==
  /\ stage = "running"
  /\ n \in flushed .. Len(file)
  /\ n = Len(file) <=> tail = "WHOLE"
  /\ stage' = "crashed"
  /\ file' = SubSeq(file, 1, n) \o (IF tail = "WHOLE" THEN <<>> ELSE <<[kind |-> tail]>>)
  /\ samples' = IF job \in {"mapped", "traced"}
                THEN Append(samples, [taking EXCEPT !.gone = closed]) ELSE samples
  /\ UNCHANGED <<programVars, paused, job, taking, snapshot, way, flushed, decoderVars>>

\* gdb makes funtrace.raw anew of the core dump.
CoreDump(t) ==
  LET sample == [traces |-> Traces, text |-> t, maps |-> ProcMaps, gone |-> closed,
                 safe |-> TRUE]
  IN /\ stage = "crashed" /\ way = "sigtrap"
     /\ stage' = "ended"
     /\ file' = Chunks(sample) /\ flushed' = Len(file')
     /\ samples' = <<sample>>
     /\ UNCHANGED <<programVars, paused, job, taking, snapshot, way, decoderVars>>

------------------------------------------------------------------------------
(* funtrace2viz: parse_chunks() *)

\* The process and its memory are gone.
StartDecoder ==
  /\ stage \in {"ended", "crashed"}
  /\ stage' = "decoding"
  /\ loaded' = [s \in Slots |-> Nothing] /\ bufs' = [i \in DOMAIN Threads |-> <<>>]
  /\ closed' = {} /\ recorded' = 0
  /\ paused' = FALSE /\ job' = "idle" /\ taking' = Blank /\ snapshot' = Nothing
  /\ UNCHANGED <<object, fileVars, decoderVars>>

\* proc_addr2sym() and the caches before it: the program header that makes
\* the offset is the object's whose lookup comes first at a slot.
Offset(s) == IF s \in DOMAIN offsets THEN offsets[s] ELSE maps[s]
Lookup(a) ==
  IF maps[a[1]] = Nothing THEN Nothing
  ELSE [object |-> maps[a[1]], offset |-> Offset(a[1]), func |-> a[2]]

IsThunk(sym) == sym # Nothing /\ sym.func = "thunk"

Seen == {e.at : e \in EventsIn(entries)}

\* write_sample_to_json()
WriteJson(closing) ==
  LET new == Seen \ DOMAIN syms
      table == [a \in DOMAIN syms \cup new |-> IF a \in new THEN Lookup(a) ELSE syms[a]]
      slots == {a[1] : a \in {b \in new : maps[b[1]] # Nothing}}
  IN /\ syms' = table
     /\ offsets' = [s \in DOMAIN offsets \cup slots |-> Offset(s)]
     /\ jsons' = Append(jsons,
          [number |-> number, traces |-> entries, text |-> text, closed |-> closing,
           names |-> [a \in Seen |-> table[a]],
           ignored |-> {a \in new : IsThunk(table[a])}])

Reading(kind) ==
  /\ stage = "decoding" /\ status = "reading"
  /\ next \in DOMAIN file /\ file[next].kind = kind
  /\ next' = next + 1

Chunk == file[next]

outsideDecoder == <<stage, programVars, paused, job, taking, snapshot, fileVars>>

\* A mutant of SetMaps: the symbols of the old maps stay.
SetMapsOnly ==
  /\ Reading("PROCMAPS")
  /\ maps' = Chunk.maps /\ offsets' = <<>> /\ syms' = syms
  /\ UNCHANGED <<outsideDecoder, thread, entries, text, number, jsons, status>>

SetMaps ==
  /\ Reading("PROCMAPS")
  /\ maps' = Chunk.maps /\ offsets' = <<>> /\ syms' = <<>>
  /\ UNCHANGED <<outsideDecoder, thread, entries, text, number, jsons, status>>

SetThread ==
  /\ Reading("THREADID")
  /\ thread' = Chunk.id
  /\ UNCHANGED <<outsideDecoder, entries, text, maps, syms, offsets, number, jsons, status>>

AddTrace ==
  /\ Reading("TRACEBUF")
  /\ entries' = IF Chunk.events = <<>> THEN entries
                ELSE Append(entries, [id |-> thread, events |-> Chunk.events])
  /\ UNCHANGED <<outsideDecoder, thread, text, maps, syms, offsets, number, jsons, status>>

SetText ==
  /\ Reading("FTRACETX")
  /\ text' = Chunk.text
  /\ UNCHANGED <<outsideDecoder, thread, entries, maps, syms, offsets, number, jsons, status>>

\* A mutant of EndSample: the ftrace text stays for the next sample.
EndSampleKeepText ==
  /\ Reading("ENDTRACE")
  /\ IF entries # <<>> \/ text # NoText
     THEN /\ IF Chosen = {} \/ number \in Chosen
             THEN WriteJson(TRUE) ELSE UNCHANGED <<syms, offsets, jsons>>
          /\ number' = number + 1 /\ entries' = <<>> /\ text' = text
     ELSE UNCHANGED <<syms, offsets, jsons, number, entries, text>>
  /\ UNCHANGED <<outsideDecoder, thread, maps, status>>

EndSample ==
  /\ Reading("ENDTRACE")
  /\ IF entries # <<>> \/ text # NoText
     THEN /\ IF Chosen = {} \/ number \in Chosen
             THEN WriteJson(TRUE) ELSE UNCHANGED <<syms, offsets, jsons>>
          /\ number' = number + 1 /\ entries' = <<>> /\ text' = NoText
     ELSE UNCHANGED <<syms, offsets, jsons, number, entries, text>>
  /\ UNCHANGED <<outsideDecoder, thread, maps, status>>

\* Less than a magic string is left: the end, whatever sample is open.
EndOfFile ==
  /\ stage = "decoding" /\ status = "reading"
  /\ \/ next = Len(file) + 1
     \/ next = Len(file) /\ Chunk.kind = "MAGIC_CUT"
  /\ status' = "done"
  /\ IF entries # <<>> \/ text # NoText THEN WriteJson(FALSE)
     ELSE UNCHANGED <<syms, offsets, jsons>>
  /\ UNCHANGED <<outsideDecoder, next, thread, entries, text, maps, number>>

\* A read inside a chunk fails.
Fail ==
  /\ Reading("CHUNK_CUT")
  /\ status' = "failed"
  /\ UNCHANGED <<outsideDecoder, thread, entries, text, maps, syms, offsets, number, jsons>>

------------------------------------------------------------------------------
Program ==
  \/ \E s \in Slots, o \in Objects : Open(s, o)
  \/ \E s \in Slots : Close(s)
  \/ \E i \in DOMAIN Threads, a \in Addresses : Record(i, a)
  \/ WritePause \/ WriteMaps \/ WriteTraces \/ \E t \in Texts : WriteEnd(t)
  \/ GetPause \/ GetTraces \/ \E t \in Texts : GetMaps(t)
  \/ WriteSnapshot \/ FlushSnapshot \/ FreeSnapshot
  \/ Exit
  \/ \E n \in 0 .. Len(file), tail \in {"WHOLE", "MAGIC_CUT", "CHUNK_CUT"} : Crash(n, tail)
  \/ \E t \in Texts : CoreDump(t)

Decoder ==
  \/ StartDecoder
  \/ SetMaps \/ SetThread \/ AddTrace \/ SetText \/ EndSample \/ EndOfFile \/ Fail

Next == Program \/ Decoder

Spec == Init /\ [][Next]_vars

------------------------------------------------------------------------------
(* Properties *)

Symbol == [object : Objects, offset : Objects, func : {"f", "thunk"}] \cup {Nothing}

\* The caches and the decoder's place in the file
TypeOK ==
  /\ stage \in {"running", "ended", "crashed", "decoding"}
  /\ paused <=> job \in {"write", "mapped", "get"}
  /\ flushed \in 0 .. Len(file)
  /\ next \in 1 .. Len(file) + 1
  /\ maps \in [Slots -> Objects \cup {Nothing}]
  /\ DOMAIN syms \subseteq Addresses /\ \A a \in DOMAIN syms : syms[a] \in Symbol
  /\ DOMAIN offsets \subseteq Slots /\ \A s \in DOMAIN offsets : offsets[s] \in Objects

\* Of the first n elements of a sequence, those in a set.
Selected(q, set, n) ==
  LET upTo[k \in 0 .. Len(q)] ==
        IF k = 0 THEN <<>>
        ELSE IF q[k] \in set THEN Append(upTo[k - 1], q[k]) ELSE upTo[k - 1]
  IN upTo[n]

\* A sample of neither events nor ftrace text makes no JSON and has no number.
Filled(traces) == {trace \in Range(traces) : trace.events # <<>>}
Kept(traces) == Selected(traces, Filled(traces), Len(traces))
ToShow == {s \in Range(samples) : Kept(s.traces) # <<>> \/ s.text # NoText}
Shown == Selected(samples, ToShow, Len(samples))

Source(json) == Shown[json.number + 1]

\* Each JSON shows the sample of its number as it was taken: each thread's
\* events under that thread's id, in order, and the sample's own ftrace
\* events.  One that the file breaks off in comes last and shows some of its
\* threads, each of them whole.  What was flushed is not left out.
\* (write_chunk(), the order of the chunks, what ENDTRACE resets.)
SamplesAsTaken ==
  /\ \A k \in DOMAIN jsons :
       LET json == jsons[k]
       IN /\ json.number + 1 \in DOMAIN Shown
          /\ IF json.closed
             THEN json.traces = Kept(Source(json).traces) /\ json.text = Source(json).text
             ELSE /\ k = Len(jsons)
                  /\ IsPrefix(json.traces, Kept(Source(json).traces))
                  /\ json.text \in {NoText, Source(json).text}
          /\ k > 1 => jsons[k - 1].number < json.number
  /\ status # "reading" =>
       \A n \in DOMAIN Shown :
         Shown[n].safe /\ (Chosen = {} \/ n - 1 \in Chosen) =>
           \E k \in DOMAIN jsons : jsons[k].number = n - 1 /\ jsons[k].closed

\* What a decoder that had read nothing else would say of an address.
Alone(m, a) ==
  IF m[a[1]] = Nothing THEN Nothing
  ELSE [object |-> m[a[1]], offset |-> m[a[1]], func |-> a[2]]

\* The caches do not show: a sample is decoded as if it were alone in the
\* file, by its own memory map and without its thunks.  (The reset of
\* sym_cache and offset_cache at PROCMAPS; ignore_addrs, which is filled by
\* sym_cache's misses only.)
DecodedAlone ==
  \A k \in DOMAIN jsons :
    LET json == jsons[k]
    IN /\ \A a \in DOMAIN json.names : json.names[a] = Alone(Source(json).maps, a)
       /\ json.ignored = {a \in DOMAIN json.names : IsThunk(json.names[a])}

\* An event is shown as a call of the function that was called, if its
\* object was not unloaded before the snapshot was complete, whatever was
\* loaded or unloaded elsewhere and in the samples before.  (Pausing before
\* the maps are taken, or taking them after the copy.)
NamedRight ==
  \A k \in DOMAIN jsons :
    \A i \in DOMAIN jsons[k].traces :
      \A j \in DOMAIN jsons[k].traces[i].events :
        LET event == jsons[k].traces[i].events[j]
        IN event.by \notin Source(jsons[k]).gone =>
             jsons[k].names[event.at] =
               [object |-> object[event.by], offset |-> object[event.by], func |-> event.at[2]]

\* The caches hold what a decoder would find that had read nothing but the
\* maps of this sample.  (Why DecodedAlone holds.)
CachesSound ==
  /\ \A a \in DOMAIN syms : syms[a] = Alone(maps, a)
  /\ \A s \in DOMAIN offsets : offsets[s] = maps[s]

MapsRight(sample) ==
  \A e \in EventsIn(sample.traces) :
    e.by \notin sample.gone => sample.maps[e.at[1]] = object[e.by]

\* A sample's own memory map tells the object of each of its events that was
\* not unloaded before the snapshot was complete.  (Why NamedRight holds: the
\* program's part of it.)
SamplesMapped ==
  /\ \A n \in DOMAIN samples : MapsRight(samples[n])
  /\ snapshot # Nothing => MapsRight(snapshot)

\* The help of --samples: samples with indexes outside the list are ignored.
\* (One that the file breaks off in is decoded whatever its index.)
OnlyChosen == Chosen # {} => \A k \in DOMAIN jsons : jsons[k].number \in Chosen

\* The README on core dumps: what gdb saves is what SIGTRAP would have saved to
\* funtrace.raw, which it appends to.  (gdb's command truncates the file.)
SamplesStay == [][IsPrefix(SubSeq(file, 1, flushed), file')]_vars
=============================================================================
