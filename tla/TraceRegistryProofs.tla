------------------------- MODULE TraceRegistryProofs -------------------------
(***************************************************************************)
(* What holds of the registry for any number of threads and addresses, any *)
(* age of the traces to be collected and any interleaving of threads that   *)
(* start and end, snapshots and the collector.  Threads end by returning    *)
(* from their function (~AbruptExits).                                     *)
(***************************************************************************)
EXTENDS TraceRegistry, TLAPS

\* What pausing has done to the registered traces.
MasksSet ==
  \A t \in All : Tls(t) \in Registered /\ tls[t].buf # Null => (tls[t].on <=> ~tracing_paused)

\* The inductive invariant.
IInv ==
  /\ TypeOK
  /\ RegistrySound
  /\ RegisteredBuffersLive
  /\ NoBufferLeaked
  /\ BuffersHeld
  /\ MainStays
  /\ MasksSet

USE MaxAgeAssumption, ThreadsAssumption, NullAssumption, FlagsAssumption DEF markVars

------------------------------------------------------------------------------
(* The three changes of the registry, as a set of pointers without          *)
(* duplicates.                                                              *)

\* push_back() of a new pointer.
LEMMA AppendElems ==
  ASSUME NEW S, NEW s \in Seq(S), NEW e \in S, IsInjective(s), e \notin Range(s)
  PROVE  /\ Append(s, e) \in Seq(S)
         /\ Range(Append(s, e)) = Range(s) \cup {e}
         /\ IsInjective(Append(s, e))
<1>. DEFINE r == Append(s, e)
<1>1. /\ r \in Seq(S) /\ DOMAIN r = 1 .. Len(s) + 1 /\ DOMAIN s = 1 .. Len(s) /\ Len(s) \in Nat
      /\ \A i \in 1 .. Len(s) : r[i] = s[i]
      /\ r[Len(s) + 1] = e
  OBVIOUS
<1>. HIDE DEF r
<1>2. Range(r) = Range(s) \cup {e}
  BY <1>1 DEF Range
<1>3. IsInjective(r)
  <2>. SUFFICES ASSUME NEW i \in DOMAIN r, NEW j \in DOMAIN r, r[i] = r[j] PROVE i = j
    BY DEF IsInjective
  <2>1. \A k \in 1 .. Len(s) : r[k] # e
    BY <1>1 DEF Range
  <2>. QED
    BY <1>1, <2>1 DEF IsInjective
<1>. QED
  BY <1>1, <1>2, <1>3 DEF r

\* Overwriting one pointer by a new one.
LEMMA ReplaceElems ==
  ASSUME NEW S, NEW s \in Seq(S), NEW e \in S, NEW i \in DOMAIN s,
         IsInjective(s), e \notin Range(s)
  PROVE  /\ [s EXCEPT ![i] = e] \in Seq(S)
         /\ Range([s EXCEPT ![i] = e]) = (Range(s) \ {s[i]}) \cup {e}
         /\ IsInjective([s EXCEPT ![i] = e])
<1>. DEFINE r == [s EXCEPT ![i] = e]
<1>1. /\ r \in Seq(S) /\ DOMAIN r = DOMAIN s
      /\ \A j \in DOMAIN s : r[j] = IF j = i THEN e ELSE s[j]
  OBVIOUS
<1>. HIDE DEF r
<1>2. Range(r) = (Range(s) \ {s[i]}) \cup {e}
  BY <1>1 DEF Range, IsInjective
<1>3. IsInjective(r)
  BY <1>1 DEF Range, IsInjective
<1>. QED
  BY <1>1, <1>2, <1>3 DEF r

\* Swapping with the last pointer and popping it: exactly one pointer goes.
LEMMA SwapRemoveElems ==
  ASSUME NEW S, NEW s \in Seq(S), NEW i \in DOMAIN s, IsInjective(s)
  PROVE  /\ SwapRemove(s, i) \in Seq(S)
         /\ Range(SwapRemove(s, i)) = Range(s) \ {s[i]}
         /\ IsInjective(SwapRemove(s, i))
<1>. DEFINE r == SwapRemove(s, i)
            n == Len(s)
<1>1. n \in Nat /\ DOMAIN s = 1 .. n /\ i \in 1 .. n /\ n >= 1
      /\ \A j \in 1 .. n : s[j] \in S
  OBVIOUS
<1>2. /\ r = [j \in 1 .. n - 1 |-> IF j = i THEN s[n] ELSE s[j]]
      /\ DOMAIN r = 1 .. n - 1
      /\ \A j \in 1 .. n - 1 : r[j] = IF j = i THEN s[n] ELSE s[j]
  BY DEF SwapRemove
<1>3. r \in Seq(S)
  BY <1>1, <1>2
<1>. HIDE DEF r, n
<1>4. IsInjective(r)
  BY <1>1, <1>2 DEF IsInjective
<1>5. Range(r) \subseteq Range(s) \ {s[i]}
  BY <1>1, <1>2 DEF Range, IsInjective
<1>6. Range(s) \ {s[i]} \subseteq Range(r)
  <2>. SUFFICES ASSUME NEW j \in 1 .. n, j # i PROVE s[j] \in Range(r)
    BY <1>1 DEF Range
  <2>1. CASE j = n
    <3>1. i \in 1 .. n - 1 /\ r[i] = s[j]
      BY <1>1, <1>2, <2>1
    <3>. QED
      BY <1>2, <3>1 DEF Range
  <2>2. CASE j # n
    <3>1. j \in 1 .. n - 1 /\ r[j] = s[j]
      BY <1>1, <1>2, <2>2
    <3>. QED
      BY <1>2, <3>1 DEF Range
  <2>. QED
    BY <2>1, <2>2
<1>. QED
  BY <1>3, <1>4, <1>5, <1>6 DEF r

\* A pointer in the registry is to a thread's own trace or to its copy.
LEMMA RegisteredCases ==
  ASSUME TypeOK, NEW r \in Registered
  PROVE  /\ r \in Ref /\ r.of \in All
         /\ (r = Tls(r.of) /\ ~r.copied) \/ (r = Copy(r.of) /\ r.copied)
<1>1. r \in Ref
  BY DEF TypeOK, Registered, Range
<1>. QED
  BY <1>1 DEF Ref, Tls, Copy

\* Where a thread's own trace is not registered, unregistering finds nothing.
LEMMA AtRegistered ==
  ASSUME NEW t \in All
  PROVE  At(t) = {} <=> Tls(t) \notin Registered
BY DEF At, Registered, Range

------------------------------------------------------------------------------
(* The steps that leave the registry, the heap and the masks alone.         *)

\* Such a step keeps the invariant if it keeps the other variables' types.
LEMMA QuietKeeps ==
  ASSUME IInv, UNCHANGED <<regVars, tracing_paused>>, TypeOK', MainStays'
  PROVE  IInv'
BY DEF IInv, regVars, RegistrySound, Registered, RegisteredBuffersLive, BufOf,
       NoBufferLeaked, BuffersHeld, MasksSet

\* The loops of a snapshot and of the collector, the clock, and the exit
\* sequence up to the join.
LEMMA QuietStep ==
  ASSUME IInv,
         \/ SnapshotCopy \/ Tick
         \/ GcWait \/ (\E r \in {"timeout", "woken"} : GcWake(r)) \/ GcRelock
         \/ GcBegin \/ GcKeep \/ GcEnd \/ GcNothing
         \/ ExitQuit \/ ExitNotify \/ ExitJoin
  PROVE  IInv'
<1>1. UNCHANGED <<regVars, tracing_paused>>
  BY DEF SnapshotCopy, Tick, GcWait, GcWake, GcRelock, GcBegin, GcKeep, GcEnd, GcNothing,
         ExitQuit, ExitNotify, ExitJoin
<1>. USE DEF IInv, TypeOK, regVars
<1>2. CASE SnapshotCopy \/ GcKeep \/ GcEnd \/ GcNothing
  <2>1. TypeOK' /\ MainStays'
    <3>1. CASE SnapshotCopy
      <4>1. next' \in Nat \ {0}
        BY <3>1 DEF SnapshotCopy
      <4>2. crashed' \in BOOLEAN
        BY <3>1, Zenon DEF SnapshotCopy
      <4>. QED
        BY <1>1, <3>1, <4>1, <4>2 DEF SnapshotCopy, gcVars, MainStays
    <3>2. CASE GcKeep \/ GcEnd \/ GcNothing
      BY <1>1, <3>2 DEF GcKeep, GcEnd, GcNothing, gcVars, lockVars, MainStays
    <3>. QED
      BY <1>2, <3>1, <3>2
  <2>. QED
    BY <1>1, <2>1, QuietKeeps
<1>3. CASE Tick
  <2>1. age' \in [All -> 0 .. MaxAge]
    BY <1>3 DEF Tick
  <2>2. TypeOK' /\ MainStays'
    BY <1>1, <1>3, <2>1 DEF Tick, gcVars, lockVars, MainStays
  <2>. QED
    BY <1>1, <2>2, QuietKeeps
<1>4. CASE GcWait \/ (\E r \in {"timeout", "woken"} : GcWake(r)) \/ GcRelock
  <2>1. TypeOK' /\ MainStays'
    BY <1>1, <1>4 DEF GcWait, GcWake, GcRelock, lockVars, MainStays
  <2>. QED
    BY <1>1, <2>1, QuietKeeps
<1>5. CASE GcBegin
  <2>1. exiting' \in BOOLEAN
    BY <1>5 DEF GcBegin, Leaving
  <2>2. expired' \subseteq All /\ holder' \in All \cup {Null}
    BY <1>5 DEF GcBegin, All
  <2>3. TypeOK' /\ MainStays'
    BY <1>1, <1>5, <2>1, <2>2 DEF GcBegin, MainStays
  <2>. QED
    BY <1>1, <2>3, QuietKeeps
<1>6. CASE ExitQuit \/ ExitNotify \/ ExitJoin
  <2>1. TypeOK' /\ MainStays'
    <3>1. CASE ExitQuit
      BY <1>1, <3>1 DEF ExitQuit, lockVars, MainStays
    <3>2. CASE ExitNotify
      BY <1>1, <3>2 DEF ExitNotify, lockVars, MainStays
    <3>3. CASE ExitJoin
      BY <1>1, <3>3 DEF ExitJoin, lockVars, MainStays
    <3>. QED
      BY <1>6, <3>1, <3>2, <3>3
  <2>. QED
    BY <1>1, <2>1, QuietKeeps
<1>. QED
  BY <1>2, <1>3, <1>4, <1>5, <1>6

------------------------------------------------------------------------------
(* Pausing and resuming.                                                    *)

\* Setting the masks of all registered traces.
LEMMA MasksKeep ==
  ASSUME IInv, PauseAll \/ ResumeAll, UNCHANGED <<phase, thread_traces, copy, owner>>
  PROVE  /\ tls' \in [All -> [buf : Bufs \cup {Null}, on : BOOLEAN]]
         /\ tracing_paused' \in BOOLEAN
         /\ RegistrySound' /\ RegisteredBuffersLive' /\ NoBufferLeaked'
         /\ BuffersHeld' /\ MasksSet'
<1>. USE DEF IInv
<1>1. PICK on \in BOOLEAN :
        /\ tracing_paused' = ~on
        /\ tls' = [t \in All |-> IF At(t) # {} THEN [tls[t] EXCEPT !.on = on] ELSE tls[t]]
  BY DEF PauseAll, ResumeAll, SetMasks
<1>2. \A t \in All : /\ tls'[t] \in [buf : Bufs \cup {Null}, on : BOOLEAN]
                     /\ tls'[t].buf = tls[t].buf
                     /\ Tls(t) \in Registered => (tls'[t].on <=> on)
                     /\ Tls(t) \notin Registered => tls'[t] = tls[t]
  <2>1. TAKE t \in All
  <2>2. tls[t] \in [buf : Bufs \cup {Null}, on : BOOLEAN]
    BY DEF TypeOK
  <2>3. At(t) # {} <=> Tls(t) \in Registered
    BY AtRegistered DEF TypeOK
  <2>. HIDE DEF IInv
  <2>4. CASE At(t) # {}
    <3>1. tls'[t] = [tls[t] EXCEPT !.on = on]
      BY <1>1, <2>4
    <3>2. tls'[t] = [buf |-> tls[t].buf, on |-> on]
      BY <2>2, <3>1
    <3>. QED
      BY <2>2, <2>3, <2>4, <3>2
  <2>5. CASE At(t) = {}
    <3>1. tls'[t] = tls[t]
      BY <1>1, <2>5
    <3>. QED
      BY <2>2, <2>3, <2>5, <3>1
  <2>. QED
    BY <2>4, <2>5
<1>3. tls' \in [All -> [buf : Bufs \cup {Null}, on : BOOLEAN]]
  BY <1>1, <1>2
<1>4. Registered' = Registered
  BY DEF Registered
<1>5. RegistrySound' /\ BuffersHeld' /\ MasksSet'
  <2>1. RegistrySound'
    BY <1>4 DEF RegistrySound
  <2>2. BuffersHeld'
    BY <1>2, <1>4 DEF RegistrySound, BuffersHeld
  <2>3. MasksSet'
    BY <1>1, <1>2, <1>4 DEF MasksSet
  <2>. QED
    BY <2>1, <2>2, <2>3
<1>6. \A r \in Registered : BufOf(r)' = BufOf(r)
  BY <1>2, RegisteredCases DEF BufOf
<1>7. RegisteredBuffersLive'
  BY <1>4, <1>6 DEF RegisteredBuffersLive
<1>8. NoBufferLeaked'
  <2>. SUFFICES ASSUME NEW b \in Bufs, owner[b] # Null
                PROVE  \/ phase[owner[b]] = "allocated" /\ tls'[owner[b]].buf = b
                       \/ \E r \in Registered : r.of = owner[b] /\ BufOf(r)' = b
    BY <1>4 DEF NoBufferLeaked
  <2>1. owner[b] \in All
    BY DEF TypeOK
  <2>. QED
    BY <1>2, <1>6, <2>1 DEF NoBufferLeaked
<1>. QED
  BY <1>1, <1>3, <1>5, <1>7, <1>8

LEMMA MaskStep ==
  ASSUME IInv, NEW t \in All, Disable(t) \/ Enable(t) \/ SnapshotBegin(t) \/ SnapshotEnd
  PROVE  IInv'
<1>1. (PauseAll \/ ResumeAll) /\ UNCHANGED <<phase, thread_traces, copy, owner>>
  BY DEF Disable, Enable, SnapshotBegin, SnapshotEnd
<1>2. TypeOK'
  <2>1. /\ tls' \in [All -> [buf : Bufs \cup {Null}, on : BOOLEAN]]
        /\ tracing_paused' \in BOOLEAN
    BY <1>1, MasksKeep
  <2>2. /\ crashed' \in BOOLEAN /\ disabled' \in BOOLEAN /\ holder' \in All \cup {Null}
        /\ kind' \in {"none", "full", "since"}
        /\ next' \in Nat \ {0} /\ expired' \subseteq All
        /\ UNCHANGED <<age, exiting, gcVars>>
    <3>1. CASE Disable(t) \/ Enable(t)
      BY <3>1 DEF Disable, Enable, IInv, TypeOK, lockVars
    <3>2. CASE SnapshotBegin(t)
      BY <3>2 DEF SnapshotBegin, IInv, TypeOK
    <3>3. CASE SnapshotEnd
      BY <3>3 DEF SnapshotEnd, IInv, TypeOK
    <3>. QED
      BY <3>1, <3>2, <3>3
  <2>. QED
    BY <1>1, <2>1, <2>2 DEF IInv, TypeOK, gcVars
<1>3. MainStays'
  BY <1>1 DEF Disable, Enable, SnapshotBegin, SnapshotEnd, IInv, MainStays, gcVars
<1>. QED
  BY <1>1, <1>2, <1>3, MasksKeep DEF IInv

------------------------------------------------------------------------------
(* Threads that start.                                                      *)

LEMMA CreateStep == ASSUME IInv, NEW t \in All, Create(t) PROVE IInv'
<1>. USE DEF IInv
<1>1. /\ phase' = [phase EXCEPT ![t] = "starting"] /\ phase[t] = "unborn"
      /\ UNCHANGED <<tls, thread_traces, copy, owner, age, tracing_paused, exiting,
                     lockVars, gcVars, markVars>>
  BY DEF Create
<1>2. TypeOK'
  BY <1>1 DEF TypeOK, Phases, lockVars, gcVars
<1>3. RegistrySound' /\ BuffersHeld' /\ MainStays' /\ MasksSet'
  BY <1>1 DEF TypeOK, RegistrySound, Registered, BuffersHeld, MainStays, MasksSet, gcVars
<1>4. RegisteredBuffersLive'
  BY <1>1 DEF RegisteredBuffersLive, Registered, BufOf
<1>5. NoBufferLeaked'
  <2>1. Registered' = Registered /\ \A r \in Registered : BufOf(r)' = BufOf(r)
    BY <1>1 DEF Registered, BufOf
  <2>2. \A u \in All : phase[u] = "allocated" => phase'[u] = "allocated"
    BY <1>1 DEF TypeOK
  <2>3. \A b \in Bufs : owner[b] # Null => owner[b] \in All
    BY DEF TypeOK
  <2>. QED
    BY <1>1, <2>1, <2>2, <2>3 DEF NoBufferLeaked
<1>. QED
  BY <1>2, <1>3, <1>4, <1>5

\* The address allocated was nobody's, and the thread has no other trace.
LEMMA AllocateStep == ASSUME IInv, NEW t \in All, Allocate(t) PROVE IInv'
<1>. USE DEF IInv
<1>1. /\ phase' = [phase EXCEPT ![t] = "allocated"] /\ phase[t] = "starting"
      /\ UNCHANGED <<thread_traces, copy, age, tracing_paused, exiting, lockVars, gcVars, markVars>>
  BY DEF Allocate
<1>2. Tls(t) \notin Registered /\ Copy(t) \notin Registered /\ copy[t] = NoCopy
  BY <1>1 DEF RegistrySound, BuffersHeld
<1>3. Registered' = Registered
  BY <1>1 DEF Registered
<1>4. \A r \in Registered : r.of # t
  BY <1>2, RegisteredCases
<1>5. CASE tls' = [tls EXCEPT ![t] = [buf |-> Null, on |-> FALSE]] /\ UNCHANGED owner
  <2>1. TypeOK'
    BY <1>1, <1>5 DEF TypeOK, Phases, lockVars, gcVars
  <2>2. RegistrySound' /\ MainStays'
    BY <1>1, <1>2, <1>3 DEF TypeOK, RegistrySound, MainStays, gcVars
  <2>6. BuffersHeld' /\ MasksSet'
    BY <1>1, <1>2, <1>3, <1>5 DEF TypeOK, BuffersHeld, MasksSet
  <2>3. \A r \in Registered : BufOf(r)' = BufOf(r)
    BY <1>1, <1>4, <1>5, RegisteredCases DEF BufOf, TypeOK
  <2>4. RegisteredBuffersLive'
    BY <1>3, <1>5, <2>3 DEF RegisteredBuffersLive
  <2>5. NoBufferLeaked'
    <3>. SUFFICES ASSUME NEW b \in Bufs, owner[b] # Null
                  PROVE  \/ phase'[owner[b]] = "allocated" /\ tls'[owner[b]].buf = b
                         \/ \E r \in Registered : r.of = owner[b] /\ BufOf(r)' = b
      BY <1>3, <1>5 DEF NoBufferLeaked
    <3>1. phase[owner[b]] = "allocated" => owner[b] # t
      BY <1>1
    <3>2. owner[b] \in All
      BY DEF TypeOK
    <3>. QED
      BY <1>1, <1>5, <2>3, <3>1, <3>2 DEF TypeOK, NoBufferLeaked
  <2>. QED
    BY <2>1, <2>2, <2>4, <2>5, <2>6
<1>6. ASSUME NEW b \in Bufs, owner[b] = Null, owner' = [owner EXCEPT ![b] = t],
             tls' = [tls EXCEPT ![t] = [buf |-> b, on |-> TRUE]]
      PROVE  IInv'
  <2>1. TypeOK'
    BY <1>1, <1>6 DEF TypeOK, Phases, lockVars, gcVars
  <2>2. RegistrySound' /\ MainStays' /\ MasksSet'
    <3>1. RegistrySound' /\ MainStays'
      BY <1>1, <1>2, <1>3 DEF TypeOK, RegistrySound, MainStays, gcVars
    <3>2. MasksSet'
      BY <1>1, <1>2, <1>3, <1>6 DEF TypeOK, MasksSet
    <3>. QED
      BY <3>1, <3>2
  <2>3. BuffersHeld'
    BY <1>1, <1>2, <1>3, <1>6 DEF TypeOK, BuffersHeld
  <2>4. \A r \in Registered : BufOf(r)' = BufOf(r) /\ BufOf(r) # b
    <3>. SUFFICES ASSUME NEW r \in Registered PROVE BufOf(r)' = BufOf(r) /\ BufOf(r) # b
      OBVIOUS
    <3>1. BufOf(r)' = BufOf(r)
      BY <1>1, <1>4, <1>6, RegisteredCases DEF BufOf, TypeOK
    <3>2. r.of # Null
      BY RegisteredCases
    <3>. QED
      BY <1>6, <3>1, <3>2 DEF RegisteredBuffersLive
  <2>5. RegisteredBuffersLive'
    <3>. SUFFICES ASSUME NEW r \in Registered, BufOf(r) # Null PROVE owner'[BufOf(r)] = r.of
      BY <1>3, <2>4 DEF RegisteredBuffersLive
    <3>1. BufOf(r) \in Bufs
      BY RegisteredCases DEF BufOf, TypeOK, RegistrySound
    <3>. QED
      BY <1>6, <2>4, <3>1 DEF RegisteredBuffersLive, TypeOK
  <2>6. NoBufferLeaked'
    <3>. SUFFICES ASSUME NEW a \in Bufs, owner'[a] # Null
                  PROVE  \/ phase'[owner'[a]] = "allocated" /\ tls'[owner'[a]].buf = a
                         \/ \E r \in Registered : r.of = owner'[a] /\ BufOf(r)' = a
      BY <1>3 DEF NoBufferLeaked
    <3>1. CASE a = b
      BY <1>1, <1>6, <3>1 DEF TypeOK
    <3>2. CASE a # b
      <4>1. owner'[a] = owner[a] /\ owner[a] \in All
        BY <1>6, <3>2 DEF TypeOK
      <4>2. owner[a] # t
        BY <1>1, <1>4, <4>1 DEF NoBufferLeaked
      <4>. QED
        BY <1>1, <1>6, <2>4, <4>1, <4>2 DEF NoBufferLeaked, TypeOK
    <3>. QED
      BY <3>1, <3>2
  <2>. QED
    BY <2>1, <2>2, <2>3, <2>5, <2>6
<1>. QED
  BY <1>5, <1>6 DEF Allocate

LEMMA RegisterStep == ASSUME IInv, NEW t \in All, Register(t) PROVE IInv'
<1>. USE DEF IInv
<1>1. /\ phase' = [phase EXCEPT ![t] = "running"] /\ phase[t] = "allocated"
      /\ tls' = [tls EXCEPT ![t].on = @ /\ ~tracing_paused]
      /\ thread_traces' = Append(thread_traces, Tls(t))
      /\ UNCHANGED <<copy, owner, age, tracing_paused, exiting, lockVars, gcVars, markVars>>
  BY DEF Register
<1>2. Tls(t) \notin Registered /\ Tls(t) \in Ref
  BY <1>1 DEF RegistrySound, Tls, Ref
<1>3. /\ thread_traces' \in Seq(Ref)
      /\ Registered' = Registered \cup {Tls(t)}
      /\ IsInjective(thread_traces')
  BY <1>1, <1>2, AppendElems DEF TypeOK, RegistrySound, Registered
<1>4. \A u \in All : /\ tls'[u] \in [buf : Bufs \cup {Null}, on : BOOLEAN]
                     /\ tls'[u].buf = tls[u].buf
                     /\ u # t => tls'[u] = tls[u]
                     /\ u = t => (tls'[u].on <=> tls[u].on /\ ~tracing_paused)
  <2>1. tls[t] \in [buf : Bufs \cup {Null}, on : BOOLEAN]
    BY DEF TypeOK
  <2>2. tls'[t] = [tls[t] EXCEPT !.on = @ /\ ~tracing_paused]
    BY <1>1 DEF TypeOK
  <2>3. \A u \in All : u # t => tls'[u] = tls[u]
    BY <1>1 DEF TypeOK
  <2>4. (tls[t].on /\ ~tracing_paused) \in BOOLEAN
    OBVIOUS
  <2>5. /\ tls'[t] \in [buf : Bufs \cup {Null}, on : BOOLEAN]
        /\ tls'[t].buf = tls[t].buf
        /\ tls'[t].on = (tls[t].on /\ ~tracing_paused)
    BY <2>1, <2>2, <2>4
  <2>. QED
    BY <2>3, <2>5 DEF TypeOK
<1>5. TypeOK'
  <2>1. tls' \in [All -> [buf : Bufs \cup {Null}, on : BOOLEAN]]
    BY <1>1, <1>4 DEF TypeOK
  <2>. QED
    BY <1>1, <1>3, <2>1 DEF TypeOK, Phases, lockVars, gcVars
<1>6. \A u \in All : Copy(u) # Tls(t) /\ (u # t => Tls(u) # Tls(t))
  BY DEF Copy, Tls
<1>7. RegistrySound' /\ BuffersHeld' /\ MainStays'
  BY <1>1, <1>3, <1>4, <1>6 DEF TypeOK, RegistrySound, BuffersHeld, MainStays, gcVars
<1>8. MasksSet'
  <2>. SUFFICES ASSUME NEW u \in All, Tls(u) \in Registered', tls[u].buf # Null
                PROVE  tls'[u].on <=> ~tracing_paused
    BY <1>1, <1>4 DEF MasksSet
  <2>1. CASE u = t
    <3>1. tls[t].on
      BY <1>1, <2>1 DEF BuffersHeld
    <3>. QED
      BY <1>4, <2>1, <3>1
  <2>2. CASE u # t
    BY <1>3, <1>4, <1>6, <2>2 DEF MasksSet
  <2>. QED
    BY <2>1, <2>2
<1>9. \A r \in Registered' : BufOf(r)' = BufOf(r)
  BY <1>1, <1>3, <1>4, RegisteredCases DEF BufOf, Tls
<1>10. RegisteredBuffersLive'
  <2>. SUFFICES ASSUME NEW r \in Registered', BufOf(r) # Null PROVE owner[BufOf(r)] = r.of
    BY <1>1, <1>9 DEF RegisteredBuffersLive
  <2>1. CASE r = Tls(t)
    BY <1>1, <2>1 DEF BuffersHeld, BufOf, Tls
  <2>2. CASE r # Tls(t)
    BY <1>3, <2>2 DEF RegisteredBuffersLive
  <2>. QED
    BY <2>1, <2>2
<1>11. NoBufferLeaked'
  <2>. SUFFICES ASSUME NEW b \in Bufs, owner[b] # Null
                PROVE  \/ phase'[owner[b]] = "allocated" /\ tls'[owner[b]].buf = b
                       \/ \E r \in Registered' : r.of = owner[b] /\ BufOf(r)' = b
    BY <1>1 DEF NoBufferLeaked
  <2>1. owner[b] \in All
    BY DEF TypeOK
  <2>2. CASE owner[b] = t /\ tls[t].buf = b
    <3>1. Tls(t) \in Registered' /\ BufOf(Tls(t))' = BufOf(Tls(t))
      BY <1>3, <1>9
    <3>2. Tls(t).of = t /\ BufOf(Tls(t)) = b
      BY <2>2 DEF BufOf, Tls
    <3>. QED
      BY <2>2, <3>1, <3>2
  <2>3. CASE owner[b] # t
    BY <1>1, <1>3, <1>4, <1>9, <2>1, <2>3 DEF NoBufferLeaked, TypeOK
  <2>4. CASE owner[b] = t /\ tls[t].buf # b
    BY <1>3, <1>9, <2>4 DEF NoBufferLeaked
  <2>. QED
    BY <2>2, <2>3, <2>4
<1>. QED
  BY <1>5, <1>7, <1>8, <1>10, <1>11

------------------------------------------------------------------------------
(* Threads that end.                                                        *)

\* The thread_local storage of a thread that returned is not registered.
LEMMA VanishStep == ASSUME IInv, NEW t \in All, Vanish(t) PROVE IInv'
<1>. USE DEF IInv
<1>1. /\ phase' = [phase EXCEPT ![t] = "gone"] /\ phase[t] = "dying"
      /\ UNCHANGED <<tls, thread_traces, copy, owner, age, tracing_paused, exiting,
                     lockVars, gcVars, markVars>>
  BY DEF Vanish
<1>2. TypeOK'
  BY <1>1 DEF TypeOK, Phases, lockVars, gcVars
<1>3. RegistrySound' /\ BuffersHeld' /\ MainStays' /\ MasksSet'
  BY <1>1 DEF TypeOK, RegistrySound, Registered, BuffersHeld, MainStays, MasksSet, gcVars
<1>4. RegisteredBuffersLive'
  BY <1>1 DEF RegisteredBuffersLive, Registered, BufOf
<1>5. NoBufferLeaked'
  <2>1. Registered' = Registered /\ \A r \in Registered : BufOf(r)' = BufOf(r)
    BY <1>1 DEF Registered, BufOf
  <2>2. \A u \in All : phase[u] = "allocated" => phase'[u] = "allocated"
    BY <1>1 DEF TypeOK
  <2>3. \A b \in Bufs : owner[b] # Null => owner[b] \in All
    BY DEF TypeOK
  <2>. QED
    BY <1>1, <2>1, <2>2, <2>3 DEF NoBufferLeaked
<1>. QED
  BY <1>2, <1>3, <1>4, <1>5

\* unregister_this_thread(), whatever the thread goes on to.  A thread whose
\* buffer may have been kept for the collector goes on to its end.
LEMMA UnregisterKeeps ==
  ASSUME IInv, NEW t \in All, NEW d \in BOOLEAN, Unregister(t, d), phase[t] = "running",
         NEW p \in {"starting", "running", "dying", "gone"}, d => p = "dying",
         phase' = [phase EXCEPT ![t] = p],
         UNCHANGED tracing_paused
  PROVE  /\ phase' \in [All -> Phases]
         /\ tls' \in [All -> [buf : Bufs \cup {Null}, on : BOOLEAN]]
         /\ thread_traces' \in Seq(Ref)
         /\ copy' \in [All -> Bufs \cup {Null, NoCopy}]
         /\ age' \in [All -> 0 .. MaxAge]
         /\ owner' \in [Bufs -> All \cup {Null}]
         /\ RegistrySound' /\ RegisteredBuffersLive' /\ NoBufferLeaked'
         /\ BuffersHeld' /\ MasksSet'
         /\ Tls(t) \notin Registered'
<1>. USE DEF IInv
<1>0. /\ phase' \in [All -> Phases] /\ phase'[t] = p
      /\ \A u \in All : u # t => phase'[u] = phase[u]
  BY DEF TypeOK, Phases
<1>1. copy[t] = NoCopy /\ Copy(t) \notin Registered
  BY DEF RegistrySound, BuffersHeld
<1>2. /\ \A u \in All : Tls(u).of = u /\ Copy(u).of = u /\ ~Tls(u).copied /\ Copy(u).copied
      /\ \A u \in All : Tls(u) \in Ref /\ Copy(u) \in Ref
  BY DEF Tls, Copy, Ref
<1>3. \A r \in Registered : r.of = t => r = Tls(t)
  BY <1>1, RegisteredCases
<1>4. \A b \in Bufs : owner[b] # Null => owner[b] \in All
  BY DEF TypeOK
<1>5. CASE At(t) = {} /\ UNCHANGED <<tls, thread_traces, copy, age, owner>>
  <2>1. Registered' = Registered /\ Tls(t) \notin Registered
    BY <1>5, AtRegistered DEF Registered
  <2>2. tls[t].buf = Null
    BY <2>1 DEF BuffersHeld
  <2>3. RegistrySound' /\ MasksSet'
    BY <1>0, <1>5, <2>1 DEF RegistrySound, MasksSet
  <2>4. BuffersHeld'
    BY <1>0, <1>1, <1>5, <2>1, <2>2 DEF BuffersHeld
  <2>5. \A r \in Registered : BufOf(r)' = BufOf(r)
    BY <1>5 DEF BufOf
  <2>6. RegisteredBuffersLive'
    BY <1>5, <2>1, <2>5 DEF RegisteredBuffersLive
  <2>7. NoBufferLeaked'
    BY <1>0, <1>4, <1>5, <2>1, <2>5 DEF NoBufferLeaked
  <2>. QED
    BY <1>0, <1>5, <2>1, <2>3, <2>4, <2>6, <2>7 DEF TypeOK
<1>6. ASSUME NEW i \in At(t),
             owner' = Free(owner, tls[t].buf),
             tls' = [tls EXCEPT ![t] = [buf |-> Null, on |-> FALSE]],
             thread_traces' = SwapRemove(thread_traces, i),
             UNCHANGED <<copy, age>>
      PROVE  /\ tls' \in [All -> [buf : Bufs \cup {Null}, on : BOOLEAN]]
             /\ thread_traces' \in Seq(Ref)
             /\ owner' \in [Bufs -> All \cup {Null}]
             /\ RegistrySound' /\ RegisteredBuffersLive' /\ NoBufferLeaked'
             /\ BuffersHeld' /\ MasksSet'
             /\ Tls(t) \notin Registered'
  <2>1. i \in DOMAIN thread_traces /\ thread_traces[i] = Tls(t) /\ Tls(t) \in Registered
    BY <1>6 DEF At, Registered, Range
  <2>2. /\ thread_traces' \in Seq(Ref) /\ IsInjective(thread_traces')
        /\ Registered' = Registered \ {Tls(t)}
    BY <1>6, <2>1, SwapRemoveElems DEF TypeOK, RegistrySound, Registered
  <2>3. tls' \in [All -> [buf : Bufs \cup {Null}, on : BOOLEAN]]
    BY <1>6 DEF TypeOK
  <2>4. /\ owner' \in [Bufs -> All \cup {Null}]
        /\ \A b \in Bufs : owner'[b] = IF b = tls[t].buf THEN Null ELSE owner[b]
    BY <1>6 DEF TypeOK, Free
  <2>5. \A u \in All : u # t => tls'[u] = tls[u]
    BY <1>6 DEF TypeOK
  <2>6. tls'[t].buf = Null
    BY <1>6 DEF TypeOK
  <2>7. tls[t].buf # Null => owner[tls[t].buf] = t
    BY <2>1, <1>2 DEF RegisteredBuffersLive, BufOf
  <2>8. RegistrySound'
    BY <1>0, <1>2, <1>6, <2>2 DEF RegistrySound
  <2>9. MasksSet'
    BY <2>2, <2>5 DEF MasksSet
  <2>10. BuffersHeld'
    <3>. SUFFICES ASSUME NEW u \in All
                  PROVE  /\ phase'[u] \in {"unborn", "starting"} => tls'[u].buf = Null
                         /\ phase'[u] = "running" /\ Tls(u) \notin Registered' => tls'[u].buf = Null
                         /\ phase'[u] = "allocated" /\ tls'[u].buf # Null =>
                              owner'[tls'[u].buf] = u /\ tls'[u].on
                         /\ copy'[u] # NoCopy => phase'[u] \in {"dying", "gone"}
      BY DEF BuffersHeld
    <3>1. CASE u = t
      BY <1>0, <1>1, <1>6, <2>6, <3>1
    <3>2. CASE u # t
      <4>1. Tls(u) # Tls(t)
        BY <1>2, <3>2
      <4>2. tls[u].buf # Null => tls[u].buf \in Bufs
        BY DEF TypeOK
      <4>3. phase[u] = "allocated" /\ tls[u].buf # Null => tls[u].buf # tls[t].buf
        BY <2>7, <3>2 DEF BuffersHeld
      <4>. QED
        BY <1>0, <1>6, <2>2, <2>4, <2>5, <3>2, <4>1, <4>2, <4>3 DEF BuffersHeld
    <3>. QED
      BY <3>1, <3>2
  <2>11. \A r \in Registered' : r.of # t /\ BufOf(r)' = BufOf(r)
    BY <1>3, <1>6, <2>2, <2>5, RegisteredCases DEF BufOf
  <2>12. RegisteredBuffersLive'
    <3>. SUFFICES ASSUME NEW r \in Registered', BufOf(r) # Null PROVE owner'[BufOf(r)] = r.of
      BY <2>11 DEF RegisteredBuffersLive
    <3>1. r \in Registered /\ owner[BufOf(r)] = r.of /\ r.of # t
      BY <2>2, <2>11 DEF RegisteredBuffersLive
    <3>2. BufOf(r) \in Bufs
      BY <3>1, RegisteredCases DEF BufOf, TypeOK, RegistrySound
    <3>. QED
      BY <2>4, <2>7, <3>1, <3>2
  <2>13. NoBufferLeaked'
    <3>. SUFFICES ASSUME NEW b \in Bufs, owner'[b] # Null
                  PROVE  \/ phase'[owner'[b]] = "allocated" /\ tls'[owner'[b]].buf = b
                         \/ \E r \in Registered' : r.of = owner'[b] /\ BufOf(r)' = b
      BY DEF NoBufferLeaked
    <3>1. b # tls[t].buf /\ owner'[b] = owner[b] /\ owner[b] \in All
      BY <1>4, <2>4
    <3>2. CASE phase[owner[b]] = "allocated" /\ tls[owner[b]].buf = b
      BY <1>0, <2>5, <3>1, <3>2
    <3>3. ASSUME NEW r \in Registered, r.of = owner[b], BufOf(r) = b
          PROVE  \E q \in Registered' : q.of = owner'[b] /\ BufOf(q)' = b
      <4>1. r # Tls(t)
        BY <1>2, <3>1, <3>3 DEF BufOf
      <4>. QED
        BY <2>2, <2>11, <3>1, <3>3, <4>1
    <3>. QED
      BY <3>1, <3>2, <3>3 DEF NoBufferLeaked
  <2>. QED
    BY <2>2, <2>3, <2>4, <2>8, <2>9, <2>10, <2>12, <2>13
<1>7. ASSUME NEW i \in At(t), MaxAge # 0, d,
             thread_traces' = [thread_traces EXCEPT ![i] = Copy(t)],
             copy' = [copy EXCEPT ![t] = tls[t].buf],
             age' = [age EXCEPT ![t] = 0],
             UNCHANGED <<tls, owner>>
      PROVE  /\ thread_traces' \in Seq(Ref)
             /\ copy' \in [All -> Bufs \cup {Null, NoCopy}]
             /\ age' \in [All -> 0 .. MaxAge]
             /\ RegistrySound' /\ RegisteredBuffersLive' /\ NoBufferLeaked'
             /\ BuffersHeld' /\ MasksSet'
             /\ Tls(t) \notin Registered'
  <2>1. i \in DOMAIN thread_traces /\ thread_traces[i] = Tls(t) /\ Tls(t) \in Registered
    BY <1>7 DEF At, Registered, Range
  <2>2. /\ thread_traces' \in Seq(Ref) /\ IsInjective(thread_traces')
        /\ Registered' = (Registered \ {Tls(t)}) \cup {Copy(t)}
    <3>1. /\ thread_traces \in Seq(Ref) /\ IsInjective(thread_traces)
          /\ Copy(t) \in Ref /\ Copy(t) \notin Range(thread_traces)
      BY <1>1, <1>2 DEF TypeOK, RegistrySound, Registered
    <3>2. /\ [thread_traces EXCEPT ![i] = Copy(t)] \in Seq(Ref)
          /\ Range([thread_traces EXCEPT ![i] = Copy(t)])
               = (Range(thread_traces) \ {thread_traces[i]}) \cup {Copy(t)}
          /\ IsInjective([thread_traces EXCEPT ![i] = Copy(t)])
      BY <2>1, <3>1, ReplaceElems
    <3>. QED
      BY <1>7, <2>1, <3>2 DEF Registered
  <2>3. /\ copy' \in [All -> Bufs \cup {Null, NoCopy}] /\ copy'[t] = tls[t].buf
        /\ tls[t].buf \in Bufs \cup {Null} /\ tls[t].buf # NoCopy
        /\ \A u \in All : u # t => copy'[u] = copy[u]
        /\ age' \in [All -> 0 .. MaxAge]
    BY <1>7 DEF TypeOK
  <2>4. p = "dying"
    BY <1>7
  <2>5. \A u \in All : Tls(u) # Copy(t) /\ (u # t => Tls(u) # Tls(t) /\ Copy(u) # Copy(t))
                     /\ Copy(u) # Tls(t)
    BY <1>2
  <2>6. RegistrySound'
    <3>. SUFFICES ASSUME NEW u \in All
                  PROVE  /\ Tls(u) \in Registered' => phase'[u] = "running"
                         /\ Copy(u) \in Registered' <=> copy'[u] # NoCopy
      BY <2>2 DEF RegistrySound
    <3>1. CASE u = t
      BY <2>2, <2>3, <2>5, <3>1
    <3>2. CASE u # t
      BY <1>0, <2>2, <2>3, <2>5, <3>2 DEF RegistrySound
    <3>. QED
      BY <3>1, <3>2
  <2>7. MasksSet'
    BY <1>7, <2>2, <2>5 DEF MasksSet
  <2>8. BuffersHeld'
    BY <1>0, <1>7, <2>2, <2>3, <2>4, <2>5 DEF BuffersHeld
  <2>9. /\ \A r \in Registered \ {Tls(t)} : r.of # t /\ BufOf(r)' = BufOf(r)
        /\ BufOf(Copy(t))' = tls[t].buf
    BY <1>2, <1>3, <1>7, <2>3, RegisteredCases DEF BufOf
  <2>10. tls[t].buf # Null => owner[tls[t].buf] = t
    BY <2>1, <1>2 DEF RegisteredBuffersLive, BufOf
  <2>11. RegisteredBuffersLive'
    BY <1>2, <1>7, <2>2, <2>9, <2>10 DEF RegisteredBuffersLive
  <2>12. NoBufferLeaked'
    <3>. SUFFICES ASSUME NEW b \in Bufs, owner[b] # Null
                  PROVE  \/ phase'[owner[b]] = "allocated" /\ tls[owner[b]].buf = b
                         \/ \E r \in Registered' : r.of = owner[b] /\ BufOf(r)' = b
      BY <1>7 DEF NoBufferLeaked
    <3>1. CASE phase[owner[b]] = "allocated" /\ tls[owner[b]].buf = b
      BY <1>0, <1>4, <3>1
    <3>2. ASSUME NEW r \in Registered, r.of = owner[b], BufOf(r) = b
          PROVE  \E q \in Registered' : q.of = owner[b] /\ BufOf(q)' = b
      <4>1. CASE r = Tls(t)
        <5>1. b = tls[t].buf /\ owner[b] = t
          BY <1>2, <3>2, <4>1 DEF BufOf
        <5>. QED
          BY <1>2, <2>2, <2>9, <5>1
      <4>2. CASE r # Tls(t)
        BY <2>2, <2>9, <3>2, <4>2
      <4>. QED
        BY <4>1, <4>2
    <3>. QED
      BY <3>1, <3>2 DEF NoBufferLeaked
  <2>. QED
    BY <2>2, <2>3, <2>5, <2>6, <2>7, <2>8, <2>11, <2>12
<1>8. \/ At(t) = {} /\ UNCHANGED <<tls, thread_traces, copy, age, owner>>
      \/ \E i \in At(t) :
           \/ /\ owner' = Free(owner, tls[t].buf)
              /\ tls' = [tls EXCEPT ![t] = [buf |-> Null, on |-> FALSE]]
              /\ thread_traces' = SwapRemove(thread_traces, i)
              /\ UNCHANGED <<copy, age>>
           \/ /\ MaxAge # 0 /\ d
              /\ thread_traces' = [thread_traces EXCEPT ![i] = Copy(t)]
              /\ copy' = [copy EXCEPT ![t] = tls[t].buf]
              /\ age' = [age EXCEPT ![t] = 0]
              /\ UNCHANGED <<tls, owner>>
  BY DEF Unregister, FreeTrace, CopyTrace, Deferred
<1>. QED
  BY <1>0, <1>5, <1>6, <1>7, <1>8 DEF TypeOK

\* funtrace_ignore_this_thread() and funtrace_set_thread_log_buf_size(), the
\* end of a thread's function, and the main thread's destructor.
LEMMA UnregisterStep ==
  ASSUME IInv, NEW t \in All,
         \/ \E resize \in BOOLEAN : Ignore(t, resize) /\ (t = Main => exitpc = "running")
         \/ Exit(t) /\ t # Main
         \/ ExitUnregister /\ t = Main
  PROVE  IInv'
<1>. USE DEF IInv
<1>1. PICK d \in BOOLEAN, p \in {"starting", "running", "dying", "gone"} :
        /\ Unregister(t, d) /\ phase[t] = "running" /\ (d => p = "dying")
        /\ phase' = [phase EXCEPT ![t] = p]
        /\ UNCHANGED <<tracing_paused, exiting, lockVars, gcpc, gcmutex, reason, quit, markVars>>
        /\ exitpc' \in {"running", "notify", "join", "unregister", "done"}
        /\ exitpc' = exitpc \/ exitpc' = "done"
        /\ t = Main => exitpc' \in {"running", "done"}
  <2>1. CASE \E resize \in BOOLEAN : Ignore(t, resize) /\ (t = Main => exitpc = "running")
    <3>. PICK resize \in BOOLEAN : Ignore(t, resize) /\ (t = Main => exitpc = "running")
      BY <2>1
    <3>. DEFINE p == IF resize THEN "starting" ELSE "running"
    <3>1. p \in {"starting", "running", "dying", "gone"} /\ FALSE \in BOOLEAN
      OBVIOUS
    <3>2. /\ Unregister(t, FALSE) /\ phase[t] = "running"
          /\ phase' = [phase EXCEPT ![t] = p]
          /\ UNCHANGED <<tracing_paused, exiting, lockVars, gcVars, markVars>>
      BY DEF Ignore
    <3>. HIDE DEF p
    <3>. QED
      BY <3>1, <3>2 DEF TypeOK, gcVars
  <2>2. CASE Exit(t) /\ t # Main
    BY <2>2 DEF Exit, TypeOK, gcVars
  <2>3. CASE ExitUnregister /\ t = Main
    BY <2>3 DEF ExitUnregister, MainStays
  <2>. QED
    BY <2>1, <2>2, <2>3
<1>2. /\ phase' \in [All -> Phases]
      /\ tls' \in [All -> [buf : Bufs \cup {Null}, on : BOOLEAN]]
      /\ thread_traces' \in Seq(Ref)
      /\ copy' \in [All -> Bufs \cup {Null, NoCopy}]
      /\ age' \in [All -> 0 .. MaxAge]
      /\ owner' \in [Bufs -> All \cup {Null}]
      /\ RegistrySound' /\ RegisteredBuffersLive' /\ NoBufferLeaked'
      /\ BuffersHeld' /\ MasksSet'
  BY <1>1, UnregisterKeeps
<1>3. TypeOK'
  BY <1>1, <1>2 DEF TypeOK, lockVars
<1>4. MainStays'
  BY <1>1 DEF MainStays, TypeOK
<1>. QED
  BY <1>2, <1>3, <1>4

------------------------------------------------------------------------------
(* The collector frees a finished thread's trace.                           *)

LEMMA GcFreeStep == ASSUME IInv, GcFree PROVE IInv'
<1>. USE DEF IInv
<1>. DEFINE t == thread_traces[next].of
<1>1. /\ next \in DOMAIN thread_traces /\ thread_traces[next].copied
      /\ owner' = Free(owner, copy[t])
      /\ copy' = [copy EXCEPT ![t] = NoCopy]
      /\ age' = [age EXCEPT ![t] = 0]
      /\ thread_traces' = SwapRemove(thread_traces, next)
      /\ UNCHANGED <<phase, tls, tracing_paused, exiting, lockVars, gcVars, markVars>>
  BY DEF GcFree, Collectable, TypeOK
<1>2. thread_traces[next] \in Registered
  BY <1>1 DEF Registered, Range
<1>3. /\ t \in All /\ thread_traces[next] = Copy(t)
  BY <1>1, <1>2, RegisteredCases
<1>. HIDE DEF t
<1>4. /\ Copy(t) \in Registered /\ copy[t] # NoCopy /\ phase[t] \in {"dying", "gone"}
      /\ Tls(t) \notin Registered
  BY <1>2, <1>3 DEF RegistrySound, BuffersHeld
<1>5. /\ thread_traces' \in Seq(Ref) /\ IsInjective(thread_traces')
      /\ Registered' = Registered \ {Copy(t)}
  BY <1>1, <1>3, SwapRemoveElems DEF TypeOK, RegistrySound, Registered
<1>6. /\ owner' \in [Bufs -> All \cup {Null}]
      /\ \A b \in Bufs : owner'[b] = IF b = copy[t] THEN Null ELSE owner[b]
  BY <1>1 DEF TypeOK, Free
<1>7. /\ copy' \in [All -> Bufs \cup {Null, NoCopy}] /\ copy'[t] = NoCopy
      /\ \A u \in All : u # t => copy'[u] = copy[u]
      /\ age' \in [All -> 0 .. MaxAge]
  BY <1>1, <1>3 DEF TypeOK
<1>8. \A u \in All : Tls(u) # Copy(t) /\ (u # t => Copy(u) # Copy(t))
  BY DEF Tls, Copy
<1>9. copy[t] # Null => copy[t] \in Bufs /\ owner[copy[t]] = t
  BY <1>3, <1>4 DEF RegisteredBuffersLive, BufOf, Copy, TypeOK
<1>10. TypeOK'
  BY <1>1, <1>5, <1>6, <1>7 DEF TypeOK, lockVars, gcVars
<1>11. RegistrySound'
  <2>. SUFFICES ASSUME NEW u \in All
                PROVE  /\ Tls(u) \in Registered' => phase[u] = "running"
                       /\ Copy(u) \in Registered' <=> copy'[u] # NoCopy
    BY <1>1, <1>5 DEF RegistrySound
  <2>1. CASE u = t
    BY <1>4, <1>5, <1>7, <2>1
  <2>2. CASE u # t
    BY <1>5, <1>7, <1>8, <2>2 DEF RegistrySound
  <2>. QED
    BY <2>1, <2>2
<1>12. MasksSet' /\ MainStays'
  BY <1>1, <1>5, <1>8 DEF MasksSet, MainStays, gcVars
<1>13. BuffersHeld'
  <2>. SUFFICES ASSUME NEW u \in All
                PROVE  /\ phase[u] \in {"unborn", "starting"} => tls[u].buf = Null
                       /\ phase[u] = "running" /\ Tls(u) \notin Registered' => tls[u].buf = Null
                       /\ phase[u] = "allocated" /\ tls[u].buf # Null =>
                            owner'[tls[u].buf] = u /\ tls[u].on
                       /\ copy'[u] # NoCopy => phase[u] \in {"dying", "gone"}
    BY <1>1 DEF BuffersHeld
  <2>1. phase[u] = "allocated" /\ tls[u].buf # Null => tls[u].buf # copy[t] /\ tls[u].buf \in Bufs
    BY <1>4, <1>9 DEF BuffersHeld, TypeOK
  <2>2. copy'[u] # NoCopy => copy[u] # NoCopy
    BY <1>7
  <2>. QED
    BY <1>5, <1>6, <1>8, <2>1, <2>2 DEF BuffersHeld
<1>14. \A r \in Registered' : r.of # t /\ BufOf(r)' = BufOf(r)
  BY <1>1, <1>4, <1>5, <1>7, RegisteredCases DEF BufOf
<1>15. RegisteredBuffersLive'
  <2>. SUFFICES ASSUME NEW r \in Registered', BufOf(r) # Null PROVE owner'[BufOf(r)] = r.of
    BY <1>14 DEF RegisteredBuffersLive
  <2>1. r \in Registered /\ owner[BufOf(r)] = r.of /\ r.of # t
    BY <1>5, <1>14 DEF RegisteredBuffersLive
  <2>2. BufOf(r) \in Bufs
    BY <2>1, RegisteredCases DEF BufOf, TypeOK, RegistrySound
  <2>. QED
    BY <1>6, <1>9, <2>1, <2>2
<1>16. NoBufferLeaked'
  <2>. SUFFICES ASSUME NEW b \in Bufs, owner'[b] # Null
                PROVE  \/ phase[owner'[b]] = "allocated" /\ tls[owner'[b]].buf = b
                       \/ \E r \in Registered' : r.of = owner'[b] /\ BufOf(r)' = b
    BY <1>1 DEF NoBufferLeaked
  <2>1. b # copy[t] /\ owner'[b] = owner[b]
    BY <1>6
  <2>2. BufOf(Copy(t)) = copy[t]
    BY DEF BufOf, Copy
  <2>. QED
    BY <1>5, <1>14, <2>1, <2>2 DEF NoBufferLeaked
<1>. QED
  BY <1>10, <1>11, <1>12, <1>13, <1>15, <1>16

------------------------------------------------------------------------------
(* The theorems.                                                            *)

LEMMA InitIInv == Init => IInv
<1>. SUFFICES ASSUME Init PROVE IInv
  OBVIOUS
<1>1. TypeOK
  <2>1. /\ phase \in [All -> Phases]
        /\ tls \in [All -> [buf : Bufs \cup {Null}, on : BOOLEAN]]
        /\ thread_traces \in Seq(Ref)
        /\ copy \in [All -> Bufs \cup {Null, NoCopy}]
    BY DEF Init, Phases
  <2>2. /\ age \in [All -> 0 .. MaxAge]
        /\ owner \in [Bufs -> All \cup {Null}]
    <3>1. 0 \in 0 .. MaxAge
      BY MaxAgeAssumption DEF MaxAgeAssumption
    <3>. QED
      BY <3>1 DEF Init
  <2>3. /\ holder \in All \cup {Null}
        /\ next \in Nat \ {0}
        /\ expired \subseteq All
        /\ kind \in {"none", "full", "since"}
    BY DEF Init
  <2>4. /\ gcpc \in {"lock", "wait", "relock", "collect", "collecting", "lastcollect", "left"}
        /\ gcmutex \in {Gc, Null}
        /\ reason \in {"timeout", "woken"}
        /\ exitpc \in {"running", "notify", "join", "unregister", "done"}
    BY DEF Init
  <2>5. /\ tracing_paused \in BOOLEAN /\ exiting \in BOOLEAN
        /\ quit \in BOOLEAN /\ crashed \in BOOLEAN /\ disabled \in BOOLEAN
    BY Zenon DEF Init
  <2>. QED
    BY <2>1, <2>2, <2>3, <2>4, <2>5, Zenon DEF TypeOK
<1>2. Registered = {}
  BY DEF Init, Registered, Range
<1>3. IsInjective(thread_traces)
  BY DEF Init, IsInjective
<1>. QED
  BY <1>1, <1>2, <1>3 DEF Init, IInv, RegistrySound, RegisteredBuffersLive, NoBufferLeaked,
                          BuffersHeld, MainStays, MasksSet

LEMMA NextIInv == ASSUME ~AbruptExits, IInv, [Next]_vars PROVE IInv'
<1>1. CASE Lifecycle
  <2>1. ASSUME NEW t \in Threads \cup {Gc}, Create(t) \/ Vanish(t) PROVE IInv'
    <3>1. t \in All
      BY DEF All
    <3>. QED
      BY <2>1, <3>1, CreateStep, VanishStep
  <2>2. ASSUME NEW t \in All, Allocate(t) \/ Register(t) PROVE IInv'
    BY <2>2, AllocateStep, RegisterStep
  <2>3. ASSUME NEW t \in Threads \cup {Gc}, Exit(t) PROVE IInv'
    <3>1. t \in All /\ t # Main
      BY DEF All
    <3>. QED
      BY <2>3, <3>1, UnregisterStep
  <2>. QED
    BY <1>1, <2>1, <2>2, <2>3 DEF Lifecycle, AbruptExit
<1>2. CASE Calls
  <2>1. ASSUME NEW t \in All, Disable(t) \/ Enable(t) \/ SnapshotBegin(t) PROVE IInv'
    BY <2>1, MaskStep
  <2>2. ASSUME NEW t \in All, NEW resize \in BOOLEAN, Caller(t), Ignore(t, resize) PROVE IInv'
    BY <2>2, UnregisterStep DEF Caller
  <2>3. CASE Ignore(Gc, FALSE)
    <3>1. Gc \in All /\ Gc # Main /\ FALSE \in BOOLEAN
      BY DEF All
    <3>. QED
      BY <2>3, <3>1, UnregisterStep
  <2>4. CASE SnapshotCopy
    BY <2>4, QuietStep
  <2>5. CASE SnapshotEnd
    <3>1. Main \in All
      BY DEF All
    <3>. QED
      BY <2>5, <3>1, MaskStep
  <2>. QED
    BY <1>2, <2>1, <2>2, <2>3, <2>4, <2>5 DEF Calls
<1>3. CASE Tick
  BY <1>3, QuietStep
<1>4. CASE Collector
  BY <1>4, QuietStep, GcFreeStep DEF Collector
<1>5. CASE Ending
  <2>1. Main \in All
    BY DEF All
  <2>. QED
    BY <1>5, <2>1, QuietStep, UnregisterStep DEF Ending
<1>6. CASE UNCHANGED vars
  <2>1. TypeOK' /\ MainStays'
    BY <1>6 DEF vars, regVars, lockVars, gcVars, IInv, TypeOK, MainStays
  <2>. QED
    BY <1>6, <2>1, QuietKeeps DEF vars
<1>. QED
  BY <1>1, <1>2, <1>3, <1>4, <1>5, <1>6 DEF Next

\* The invariant holds in every state of every execution.
THEOREM Invariance == ASSUME ~AbruptExits PROVE Spec => []IInv
<1>1. Init => IInv
  BY InitIInv
<1>2. IInv /\ [Next]_vars => IInv'
  BY NextIInv
<1>. QED
  BY <1>1, <1>2, PTL DEF Spec

\* Type correctness.
THEOREM TypeCorrect == ASSUME ~AbruptExits PROVE Spec => []TypeOK
<1>1. IInv => TypeOK
  BY DEF IInv
<1>. QED
  BY <1>1, Invariance, PTL

\* The registry holds each existing trace once, and nothing else.
THEOREM RegistryIsSound == ASSUME ~AbruptExits PROVE Spec => []RegistrySound
<1>1. IInv => RegistrySound
  BY DEF IInv
<1>. QED
  BY <1>1, Invariance, PTL

\* A snapshot reads no buffer that was freed, or freed and given to another
\* thread: the one read it gets wrong is that of the last entry, for a snapshot
\* since a time, of a trace that has no buffer at all.
THEOREM SnapshotsReadOwnBuffers ==
  ASSUME ~AbruptExits PROVE Spec => []SnapshotsReadLive
<1>1. Init => SnapshotsReadLive
  BY DEF Init, SnapshotsReadLive
<1>2. ASSUME IInv, SnapshotsReadLive, [Next]_vars PROVE SnapshotsReadLive'
  <2>1. CASE crashed \/ UNCHANGED vars
    <3>1. UNCHANGED vars
      BY <1>2, <2>1 DEF Next
    <3>. QED
      BY <1>2, <3>1 DEF vars, regVars, lockVars, SnapshotsReadLive, BufOf
  <2>2. CASE ~crashed /\ SnapshotCopy
    <3>1. /\ UNCHANGED <<thread_traces, tls, copy, kind>>
          /\ crashed' => /\ next' = next /\ next \in DOMAIN thread_traces
                         /\ ~ReadsOwnBuffer(thread_traces[next])
      BY <1>2, <2>2 DEF SnapshotCopy, regVars, IInv, TypeOK
    <3>. DEFINE r == thread_traces[next]
    <3>2. ASSUME crashed' PROVE kind' = "since" /\ BufOf(r) = Null
      <4>1. r \in Registered /\ ~ReadsOwnBuffer(r)
        BY <3>1, <3>2 DEF Registered, Range
      <4>2. BufOf(r) # Null => owner[BufOf(r)] = r.of
        BY <1>2, <4>1 DEF IInv, RegisteredBuffersLive
      <4>. QED
        BY <3>1, <4>1, <4>2 DEF ReadsOwnBuffer
    <3>. QED
      BY <3>1, <3>2 DEF SnapshotsReadLive, BufOf
  <2>3. CASE ~crashed /\ Next /\ ~SnapshotCopy
    <3>1. crashed' = crashed
      BY <2>3 DEF Next, Lifecycle, Calls, Collector, Ending, Create, Vanish, Allocate, Register,
                  Exit, AbruptExit, Disable, Enable, SnapshotBegin, Ignore, SnapshotEnd, Tick,
                  GcWait, GcWake, GcRelock, GcBegin, GcKeep, GcFree, GcEnd, GcNothing,
                  ExitQuit, ExitNotify, ExitJoin, ExitUnregister
    <3>. QED
      BY <2>3, <3>1 DEF SnapshotsReadLive
  <2>. QED
    BY <1>2, <2>1, <2>2, <2>3
<1>. QED
  BY <1>1, <1>2, Invariance, PTL DEF Spec

\* Every buffer not freed can still be freed.
THEOREM BuffersStayReachable == ASSUME ~AbruptExits PROVE Spec => []NoBufferLeaked
<1>1. IInv => NoBufferLeaked
  BY DEF IInv
<1>. QED
  BY <1>1, Invariance, PTL

\* A thread records only into a buffer that is its own, provided that it
\* records nothing after its function returned.
THEOREM NoStoreAfterFree ==
  ASSUME ~AbruptExits, ~TlsDestructors PROVE Spec => []StoresIntoOwnBuffer
<1>1. IInv => StoresIntoOwnBuffer
  <2>. SUFFICES ASSUME IInv, NEW t \in All, phase[t] = "running", tls[t].buf # Null
                PROVE  owner[tls[t].buf] = t
    BY DEF StoresIntoOwnBuffer, CanRecord
  <2>1. Tls(t) \in Registered
    BY DEF IInv, BuffersHeld
  <2>. QED
    BY <2>1 DEF IInv, RegisteredBuffersLive, BufOf, Tls
<1>. QED
  BY <1>1, Invariance, PTL

\* While tracing is paused no thread records, those that start meanwhile
\* included; the same proviso.
THEOREM PauseCoversAll ==
  ASSUME ~AbruptExits, ~TlsDestructors PROVE Spec => []PausedMeansPaused
<1>1. IInv => PausedMeansPaused
  <2>. SUFFICES ASSUME IInv, tracing_paused, NEW t \in All, phase[t] = "running",
                       tls[t].buf # Null
                PROVE  ~tls[t].on
    BY DEF PausedMeansPaused, CanRecord
  <2>1. Tls(t) \in Registered
    BY DEF IInv, BuffersHeld
  <2>. QED
    BY <2>1 DEF IInv, MasksSet
<1>. QED
  BY <1>1, Invariance, PTL

\* Resuming leaves no registered thread paused.
THEOREM ResumeCoversAll == ASSUME ~AbruptExits PROVE Spec => []ResumedMeansResumed
<1>1. IInv => ResumedMeansResumed
  BY DEF IInv, ResumedMeansResumed, MasksSet
<1>. QED
  BY <1>1, Invariance, PTL

\* The lock keeps threads from entering and leaving the registry under a
\* snapshot's loop.
THEOREM SnapshotFreezesRegistry == Spec => FrozenUnderSnapshot
<1>1. [Next]_vars => [Snapshotting => thread_traces' = thread_traces]_vars
  <2>. SUFFICES ASSUME [Next]_vars, Snapshotting PROVE thread_traces' = thread_traces
    OBVIOUS
  <2>. USE DEF Snapshotting, vars, regVars
  <2>1. CASE Lifecycle
    BY <2>1 DEF Lifecycle, Create, Vanish, Allocate, Register, Exit, AbruptExit,
                Unregister, FreeTrace, CopyTrace, Deferred
  <2>2. CASE Calls
    BY <2>2 DEF Calls, Disable, Enable, SnapshotBegin, Ignore, SnapshotCopy, SnapshotEnd,
                Unregister, FreeTrace, CopyTrace, Deferred
  <2>3. CASE Tick
    BY <2>3 DEF Tick
  <2>4. CASE Collector
    BY <2>4 DEF Collector, GcWait, GcWake, GcRelock, GcBegin, GcKeep, GcFree, GcEnd, GcNothing,
                Collecting
  <2>5. CASE Ending
    BY <2>5 DEF Ending, ExitQuit, ExitNotify, ExitJoin, ExitUnregister,
                Unregister, FreeTrace, CopyTrace, Deferred
  <2>6. CASE UNCHANGED vars
    BY <2>6
  <2>. QED
    BY <2>1, <2>2, <2>3, <2>4, <2>5, <2>6 DEF Next
<1>. QED
  BY <1>1, PTL DEF Spec, FrozenUnderSnapshot

------------------------------------------------------------------------------
(* Nothing is left to collect once the program exits.                       *)

\* The collector's last round has freed what it has passed.
CollectedSoFar ==
  exiting /\ holder = Gc =>
    \A i \in DOMAIN thread_traces : i < next => ~thread_traces[i].copied

\* Without the collector in its loop, the pointers to copies in the registry
\* are those that were there.
LEMMA ExitingStep ==
  ASSUME IInv, IInv', CollectedSoFar, NothingLeftAtExit, [Next]_vars
  PROVE  CollectedSoFar' /\ NothingLeftAtExit'
<1>. USE DEF CollectedSoFar, NothingLeftAtExit, Registered, Range
<1>1. thread_traces \in Seq(Ref) /\ thread_traces' \in Seq(Ref) /\ next \in Nat \ {0}
  BY DEF IInv, TypeOK
<1>2. ASSUME UNCHANGED <<thread_traces, exiting, holder, next>>
      PROVE  CollectedSoFar' /\ NothingLeftAtExit'
  BY <1>2
<1>3. ASSUME holder = Null, holder' = Null, UNCHANGED exiting,
             exiting => \A r \in Registered' : r \in Registered \/ ~r.copied
      PROVE  CollectedSoFar' /\ NothingLeftAtExit'
  BY <1>3, NullAssumption DEF All
<1>4. ASSUME NEW t \in All, NEW d \in BOOLEAN, Unregister(t, d), UNCHANGED <<exiting, holder>>
      PROVE  CollectedSoFar' /\ NothingLeftAtExit'
  <2>1. holder = Null
    BY <1>4 DEF Unregister, FreeTrace, CopyTrace, Deferred
  <2>2. exiting => \A r \in Registered' : r \in Registered
    <3>1. CASE UNCHANGED thread_traces
      BY <3>1
    <3>2. ASSUME NEW i \in At(t), thread_traces' = SwapRemove(thread_traces, i)
          PROVE  \A r \in Registered' : r \in Registered
      <4>1. i \in DOMAIN thread_traces /\ IsInjective(thread_traces)
        BY <3>2 DEF At, IInv, RegistrySound
      <4>. HIDE DEF Registered, Range, CollectedSoFar, NothingLeftAtExit
      <4>2. Range(thread_traces') = Range(thread_traces) \ {thread_traces[i]}
        BY <1>1, <3>2, <4>1, SwapRemoveElems
      <4>. QED
        BY <4>2 DEF Registered
    <3>. QED
      BY <1>4, <3>1, <3>2 DEF Unregister, FreeTrace, CopyTrace, Deferred
  <2>. QED
    BY <1>3, <1>4, <2>1, <2>2
<1>5. CASE Lifecycle
  <2>1. ASSUME NEW t \in All, Create(t) \/ Vanish(t) \/ Allocate(t) \/ AbruptExit(t)
        PROVE  CollectedSoFar' /\ NothingLeftAtExit'
    BY <2>1, <1>2 DEF Create, Vanish, Allocate, AbruptExit, lockVars
  <2>2. ASSUME NEW t \in All, Register(t) PROVE CollectedSoFar' /\ NothingLeftAtExit'
    <3>1. holder = Null /\ holder' = Null /\ UNCHANGED exiting
      BY <2>2 DEF Register, lockVars
    <3>2. Registered' = Registered \cup {Tls(t)}
      <4>1. Tls(t) \in Ref
        BY DEF Tls, Ref
      <4>2. Tls(t) \notin Range(thread_traces) /\ IsInjective(thread_traces)
        BY <2>2 DEF Register, IInv, RegistrySound
      <4>. QED
        BY <1>1, <2>2, <4>1, <4>2, AppendElems, SMTT(30) DEF Register
    <3>3. ~Tls(t).copied
      BY DEF Tls
    <3>. QED
      BY <1>3, <3>1, <3>2, <3>3
  <2>3. ASSUME NEW t \in All, Exit(t) PROVE CollectedSoFar' /\ NothingLeftAtExit'
    BY <2>3, <1>4 DEF Exit, lockVars
  <2>. QED
    BY <1>5, <2>1, <2>2, <2>3 DEF Lifecycle, All
<1>6. CASE Calls
  <2>1. ASSUME NEW t \in All, Disable(t) \/ Enable(t)
        PROVE  CollectedSoFar' /\ NothingLeftAtExit'
    BY <2>1, <1>2 DEF Disable, Enable, lockVars
  <2>2. ASSUME NEW t \in All, Caller(t), SnapshotBegin(t)
        PROVE  CollectedSoFar' /\ NothingLeftAtExit'
    <3>1. holder = Null /\ holder' = t /\ UNCHANGED <<thread_traces, exiting>>
      BY <2>2 DEF SnapshotBegin
    <3>2. t # Gc /\ Null # Gc
      BY <2>2, NullAssumption DEF Caller, All
    <3>. QED
      BY <3>1, <3>2
  <2>3. ASSUME NEW t \in All, NEW resize \in BOOLEAN, Ignore(t, resize)
        PROVE  CollectedSoFar' /\ NothingLeftAtExit'
    BY <2>3, <1>4 DEF Ignore, lockVars
  <2>4. CASE SnapshotCopy \/ SnapshotEnd
    BY <2>4 DEF SnapshotCopy, SnapshotEnd, Snapshotting, regVars
  <2>5. Gc \in All
    BY DEF All
  <2>. QED
    BY <1>6, <2>1, <2>2, <2>3, <2>4, <2>5 DEF Calls
<1>7. CASE Tick
  BY <1>2, <1>7 DEF Tick, regVars, lockVars
<1>8. CASE Collector
  <2>1. CASE GcWait \/ (\E r \in {"timeout", "woken"} : GcWake(r)) \/ GcRelock \/ GcNothing
    BY <1>2, <2>1 DEF GcWait, GcWake, GcRelock, GcNothing, regVars, lockVars
  <2>2. CASE GcBegin
    BY <1>1, <2>2 DEF GcBegin, regVars
  <2>3. CASE GcKeep
    BY <1>1, <2>3 DEF GcKeep, Collecting, Collectable, regVars
  <2>4. CASE GcEnd
    BY <1>1, <2>4 DEF GcEnd, Collecting, regVars
  <2>5. CASE GcFree
    <3>1. /\ thread_traces' = SwapRemove(thread_traces, next)
          /\ next \in DOMAIN thread_traces /\ UNCHANGED <<exiting, holder, next>>
          /\ holder = Gc
      BY <1>1, <2>5 DEF GcFree, Collecting, lockVars
    <3>2. \A i \in DOMAIN thread_traces' : i < next =>
             i \in DOMAIN thread_traces /\ thread_traces'[i] = thread_traces[i]
      BY <1>1, <3>1 DEF SwapRemove
    <3>. QED
      BY <3>1, <3>2
  <2>. QED
    BY <1>8, <2>1, <2>2, <2>3, <2>4, <2>5 DEF Collector
<1>9. CASE Ending
  <2>1. CASE ExitQuit \/ ExitNotify \/ ExitJoin
    BY <1>2, <2>1 DEF ExitQuit, ExitNotify, ExitJoin, regVars, lockVars
  <2>2. CASE ExitUnregister
    <3>1. Main \in All /\ FALSE \in BOOLEAN
      BY DEF All
    <3>. QED
      BY <1>4, <2>2, <3>1 DEF ExitUnregister, lockVars
  <2>. QED
    BY <1>9, <2>1, <2>2 DEF Ending
<1>10. CASE UNCHANGED vars
  BY <1>2, <1>10 DEF vars, regVars, lockVars
<1>. QED
  BY <1>5, <1>6, <1>7, <1>8, <1>9, <1>10 DEF Next

\* After the collector's last round no finished thread's trace is left, and
\* none comes back: later threads free theirs at once.
THEOREM AllCollectedAtExit == ASSUME ~AbruptExits PROVE Spec => []NothingLeftAtExit
<1>1. Init => CollectedSoFar /\ NothingLeftAtExit
  BY DEF Init, CollectedSoFar, NothingLeftAtExit
<1>2. IInv /\ IInv' /\ CollectedSoFar /\ NothingLeftAtExit /\ [Next]_vars
        => CollectedSoFar' /\ NothingLeftAtExit'
  BY ExitingStep
<1>. QED
  BY <1>1, <1>2, Invariance, PTL DEF Spec


------------------------------------------------------------------------------
(* The collector frees young traces only when the program exits.            *)

\* What the collector has concluded it may still conclude: that the program
\* exits, and that the traces it found old enough are.
QuitKnown == (reason = "woken" \/ exiting \/ exitpc # "running") => quit
StillOld ==
  holder = Gc => \A t \in expired : copy[t] # NoCopy => age[t] >= MaxAge

\* The copies and their ages do not change, and nobody takes the lock.
LEMMA SameAges ==
  ASSUME StillOld, UNCHANGED <<copy, age, expired>>, holder' = Gc => holder = Gc
  PROVE  StillOld'
BY DEF StillOld

LEMMA QuitKnownStep ==
  ASSUME ~SpuriousWakeups, TypeOK, QuitKnown, [Next]_vars
  PROVE  QuitKnown'
<1>. USE DEF QuitKnown, gcVars
<1>1. ASSUME UNCHANGED <<exiting, gcVars>> PROVE QuitKnown'
  BY <1>1
<1>2. CASE Lifecycle
  BY <1>1, <1>2 DEF Lifecycle, Create, Vanish, Allocate, Register, Exit, AbruptExit
<1>3. CASE Calls
  BY <1>1, <1>3 DEF Calls, Disable, Enable, SnapshotBegin, Ignore, SnapshotCopy, SnapshotEnd
<1>4. CASE Tick
  BY <1>1, <1>4 DEF Tick
<1>5. CASE Collector
  <2>1. CASE GcWait \/ GcRelock \/ GcKeep \/ GcFree \/ GcEnd \/ GcNothing
    BY <2>1 DEF GcWait, GcRelock, GcKeep, GcFree, GcEnd, GcNothing
  <2>2. ASSUME NEW r \in {"timeout", "woken"}, GcWake(r) PROVE QuitKnown'
    BY <2>2 DEF GcWake
  <2>3. CASE GcBegin
    BY <2>3 DEF GcBegin, Leaving, TypeOK
  <2>. QED
    BY <1>5, <2>1, <2>2, <2>3 DEF Collector
<1>6. CASE Ending
  BY <1>6 DEF Ending, ExitQuit, ExitNotify, ExitJoin, ExitUnregister
<1>7. CASE UNCHANGED vars
  BY <1>1, <1>7 DEF vars
<1>. QED
  BY <1>2, <1>3, <1>4, <1>5, <1>6, <1>7 DEF Next

\* Unregistering needs the lock, and loses no copy.
LEMMA UnregisterAges ==
  ASSUME TypeOK, NEW t \in All, NEW d \in BOOLEAN, Unregister(t, d)
  PROVE  /\ holder = Null /\ holder # Gc
         /\ \A u \in All : copy[u] # NoCopy => copy'[u] # NoCopy
<1>1. holder = Null /\ Null # Gc
  BY NullAssumption DEF Unregister, All
<1>2. CASE UNCHANGED copy
  BY <1>1, <1>2
<1>3. CASE copy' = [copy EXCEPT ![t] = tls[t].buf]
  <2>1. tls[t].buf # NoCopy
    BY NullAssumption DEF TypeOK
  <2>. QED
    BY <1>1, <1>3, <2>1 DEF TypeOK
<1>. QED
  BY <1>2, <1>3 DEF Unregister, FreeTrace, CopyTrace

\* A step under which a copy disappears is the collector's, and it is either
\* of an old trace or at the exit.
LEMMA OldFreedStep ==
  ASSUME TypeOK, QuitKnown, StillOld, [Next]_vars
  PROVE  /\ StillOld'
         /\ \A t \in All : copy[t] # NoCopy /\ copy'[t] = NoCopy => age[t] >= MaxAge \/ quit
<1>. DEFINE Freed == \A t \in All : copy[t] # NoCopy /\ copy'[t] = NoCopy => age[t] >= MaxAge \/ quit
<1>. USE DEF regVars, lockVars
<1>1. ASSUME UNCHANGED <<copy, age, expired>>, holder' = Gc => holder = Gc
      PROVE  StillOld' /\ Freed
  BY <1>1, SameAges
<1>2. ASSUME NEW t \in All, NEW d \in BOOLEAN, Unregister(t, d), UNCHANGED holder
      PROVE  StillOld' /\ Freed
  <2>1. /\ holder # Gc
        /\ \A u \in All : copy[u] # NoCopy => copy'[u] # NoCopy
    BY <1>2, UnregisterAges
  <2>. QED
    BY <1>2, <2>1 DEF StillOld
<1>3. CASE Lifecycle
  <2>1. ASSUME NEW t \in All, Create(t) \/ Vanish(t) \/ Allocate(t) \/ Register(t) \/ AbruptExit(t)
        PROVE  StillOld' /\ Freed
    <3>1. UNCHANGED <<copy, age, expired, holder>>
      BY <2>1 DEF Create, Vanish, Allocate, Register, AbruptExit
    <3>. QED
      BY <1>1, <3>1
  <2>2. ASSUME NEW t \in All, Exit(t) PROVE StillOld' /\ Freed
    BY <1>2, <2>2 DEF Exit
  <2>. QED
    BY <1>3, <2>1, <2>2 DEF Lifecycle, All
<1>4. CASE Calls
  <2>1. ASSUME NEW t \in All, Caller(t), Disable(t) \/ Enable(t) \/ SnapshotBegin(t)
        PROVE  StillOld' /\ Freed
    <3>1. UNCHANGED <<copy, age, expired>> /\ (holder' = Gc => holder = Gc)
      BY <2>1 DEF Disable, Enable, SnapshotBegin, Caller
    <3>. QED
      BY <1>1, <3>1
  <2>2. ASSUME NEW t \in All, NEW resize \in BOOLEAN, Ignore(t, resize)
        PROVE  StillOld' /\ Freed
    BY <1>2, <2>2 DEF Ignore
  <2>3. CASE SnapshotCopy \/ SnapshotEnd
    <3>1. UNCHANGED <<copy, age, expired>> /\ (holder' = Gc => holder = Gc)
      BY <2>3, NullAssumption DEF SnapshotCopy, SnapshotEnd, All
    <3>. QED
      BY <1>1, <3>1
  <2>4. Gc \in All
    BY DEF All
  <2>. QED
    BY <1>4, <2>1, <2>2, <2>3, <2>4 DEF Calls
<1>5. CASE Tick
  <2>1. \A t \in All : age[t] \in 0 .. MaxAge
    BY DEF TypeOK
  <2>2. UNCHANGED <<copy, expired, holder>> /\ \A t \in All : age'[t] >= age[t] /\ age'[t] \in Nat
    BY <1>5, <2>1, MaxAgeAssumption DEF Tick
  <2>3. expired \subseteq All
    BY DEF TypeOK
  <2>4. StillOld'
    BY <2>1, <2>2, <2>3, MaxAgeAssumption DEF StillOld
  <2>. QED
    BY <2>2, <2>4
<1>6. CASE Collector
  <2>1. CASE GcWait \/ (\E r \in {"timeout", "woken"} : GcWake(r)) \/ GcRelock \/ GcKeep \/ GcNothing
    <3>1. UNCHANGED <<copy, age, expired, holder>>
      BY <2>1 DEF GcWait, GcWake, GcRelock, GcKeep, GcNothing
    <3>. QED
      BY <1>1, <3>1
  <2>2. CASE GcBegin
    BY <2>2 DEF GcBegin, StillOld
  <2>3. CASE GcEnd
    BY <2>3, NullAssumption DEF GcEnd, StillOld, All
  <2>4. CASE GcFree
    <3>. DEFINE t == thread_traces[next].of
    <3>1. /\ holder = Gc /\ UNCHANGED <<holder, expired>>
          /\ exiting \/ t \in expired
          /\ copy' = [copy EXCEPT ![t] = NoCopy] /\ age' = [age EXCEPT ![t] = 0]
      BY <2>4 DEF GcFree, Collecting, Collectable
    <3>. HIDE DEF t
    <3>2. \A u \in All : u # t => copy'[u] = copy[u] /\ age'[u] = age[u]
      BY <3>1 DEF TypeOK
    <3>3. t \in All => copy'[t] = NoCopy
      BY <3>1 DEF TypeOK
    <3>4. expired \subseteq All
      BY DEF TypeOK
    <3>5. StillOld'
      BY <3>1, <3>2, <3>3, <3>4 DEF StillOld
    <3>6. Freed
      BY <3>1, <3>2 DEF StillOld, QuitKnown
    <3>. QED
      BY <3>5, <3>6
  <2>. QED
    BY <1>6, <2>1, <2>2, <2>3, <2>4 DEF Collector
<1>7. CASE Ending
  <2>1. CASE ExitQuit \/ ExitNotify \/ ExitJoin
    <3>1. UNCHANGED <<copy, age, expired, holder>>
      BY <2>1 DEF ExitQuit, ExitNotify, ExitJoin
    <3>. QED
      BY <1>1, <3>1
  <2>2. CASE ExitUnregister
    <3>1. Main \in All /\ FALSE \in BOOLEAN
      BY DEF All
    <3>. QED
      BY <1>2, <2>2, <3>1 DEF ExitUnregister
  <2>. QED
    BY <1>7, <2>1, <2>2 DEF Ending
<1>8. CASE UNCHANGED vars
  BY <1>1, <1>8 DEF vars
<1>. QED
  BY <1>3, <1>4, <1>5, <1>6, <1>7, <1>8 DEF Next

\* "Only buffers with age exceeding FUNTRACE_GC_MAX_AGE_MS are freed" until
\* the program exits, provided that no wait returns unasked: the collector
\* takes any return but a timeout's for the notification of the exit.
THEOREM YoungOnesKept ==
  ASSUME ~AbruptExits, ~SpuriousWakeups PROVE Spec => OnlyOldFreed
<1>1. Init => QuitKnown /\ StillOld
  BY NullAssumption DEF Init, QuitKnown, StillOld, All
<1>2. TypeOK /\ QuitKnown /\ StillOld /\ [Next]_vars => QuitKnown' /\ StillOld'
  BY QuitKnownStep, OldFreedStep
<1>3. TypeOK /\ QuitKnown /\ StillOld /\ [Next]_vars
        => [\A t \in All : copy[t] # NoCopy /\ copy'[t] = NoCopy => age[t] >= MaxAge \/ quit]_vars
  BY OldFreedStep
<1>. QED
  BY <1>1, <1>2, <1>3, TypeCorrect, PTL DEF Spec, OnlyOldFreed
==============================================================================
