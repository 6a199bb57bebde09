---------------------------- MODULE EventWindow ------------------------------
(***************************************************************************)
(* What funtrace promises of the scheduling events it collects: it keeps    *)
(* the last N of them, and a snapshot holds, in the order of time, those    *)
(* of the last N that are recent enough.                                   *)
(***************************************************************************)
EXTENDS Integers, Sequences, SequencesExt

CONSTANT N   \* the capacity, a positive number

VARIABLES
  window,   \* the last N events, oldest first
  answer    \* the last snapshot: the earliest time asked for, the events

vars == <<window, answer>>

Init ==
  /\ window = <<>>
  /\ answer = [since |-> 0, events |-> <<>>]

Add(event) ==
  /\ window' = IF Len(window) = N THEN Append(Tail(window), event)
                                  ELSE Append(window, event)
  /\ UNCHANGED answer

\* The events are in the order of time: those recent enough are the last ones.
Snapshot(since) ==
  /\ \E first \in 1 .. Len(window) + 1 :
       /\ \A i \in DOMAIN window : i >= first <=> window[i].timestamp >= since
       /\ answer' = [since |-> since, events |-> SubSeq(window, first, Len(window))]
  /\ UNCHANGED window

\* An event's time is positive, and no earlier than the events' before.
Next ==
  \/ \E event \in ToSet(window') :
       /\ event.timestamp > 0
       /\ \A i \in DOMAIN window : window[i].timestamp <= event.timestamp
       /\ Add(event)
  \/ Snapshot(answer'.since)

Spec == Init /\ [][Next]_vars
==============================================================================
