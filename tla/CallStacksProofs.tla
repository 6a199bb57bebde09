-------------------------- MODULE CallStacksProofs --------------------------
(***************************************************************************)
(* That what is called stays on the decoder's stack until it returns, for   *)
(* any functions, depth and number of calls.                               *)
(***************************************************************************)
EXTENDS CallStacks, FiniteSetTheorems, TLAPS

\* The trace tells all that is needed.
Told == odd \cap {"gap", "untraced"} = {}

------------------------------------------------------------------------------
(* The inductive invariant.                                                 *)

\* Calls are numbered from the outermost; before the trace begins, none is.
Rising ==
  /\ tracing = "before" => \A i \in 1 .. Depth : frames[i].call = 0
  /\ \A i \in 1 .. Depth : frames[i].call <= calls
  /\ \A i, j \in 1 .. Depth :
       i < j /\ frames[i].call # 0 /\ frames[j].call # 0 => frames[i].call < frames[j].call

\* What is called from a call in the trace is in the trace.
Contiguous ==
  /\ \A i \in 1 .. Depth : frames[i].call # 0 => IsTraced(frames[i].func)
  /\ "gap" \notin odd =>
       \A i, j \in 1 .. Depth :
         i < j /\ frames[i].call # 0 /\ IsTraced(frames[j].func) => frames[j].call # 0

\* Hooks call nothing, and end and begin handlers that there are or may be.
HooksOnTop ==
  /\ \A i \in 1 .. Depth - 1 : frames[i].func \notin Hooks
  /\ state = "landed" => Depth > 0 /\ (Top.func \notin Hooks => Top.handling < MaxNested)
  /\ Depth > 1 /\ Top.func = "__cxa_begin_catch" => frames[Depth - 1].handling < MaxNested
  /\ Depth > 1 /\ Top.func = "__cxa_end_catch" => frames[Depth - 1].handling > 0

Kept == Told => \A i \in 1 .. Depth : frames[i].call # 0 => Entry(frames[i]) \in stack

IInv ==
  /\ TypeOK
  /\ IsFiniteSet(stack)
  /\ Rising
  /\ Contiguous
  /\ HooksOnTop
  /\ Kept

------------------------------------------------------------------------------
(* What the operators of the decoder do.                                    *)

LEMMA WriteTypes ==
  ASSUME written \in [Calls -> Nat], NEW S, NEW T, IsFiniteSet(S), IsFiniteSet(T), Write(S, T)
  PROVE  written' \in [Calls -> Nat]
<1>. DEFINE Times(c, U) == Cardinality({x \in U : x.call = c})
<1>1. \A c : Times(c, S) \in Nat /\ Times(c, T) \in Nat
  <2>. TAKE c
  <2>1. IsFiniteSet({x \in S : x.call = c}) /\ IsFiniteSet({x \in T : x.call = c})
    BY FS_Subset
  <2>. QED
    BY <2>1, FS_CardinalityType
<1>2. written' = [c \in Calls |-> written[c] + Times(c, S) + Times(c, T)]
  BY DEF Write
<1>. HIDE DEF Times
<1>3. \A c \in Calls : written[c] + Times(c, S) + Times(c, T) \in Nat
  BY <1>1
<1>. QED
  BY <1>2, <1>3

\* They take entries off the stack.
LEMMA PopsShrink ==
  ASSUME IInv, NEW f, PopReturned(f) \/ PopReturnedInto(f) \/ PopCaught(f)
  PROVE  /\ stack' \subseteq stack
         /\ IsFiniteSet(stack')
         /\ written' \in [Calls -> Nat]
<1>1. stack' \subseteq stack
  BY DEF PopReturned, PopReturnedInto, PopCaught, UpTo
<1>2. IsFiniteSet(stack') /\ IsFiniteSet(stack \ stack') /\ IsFiniteSet({})
      /\ IsFiniteSet(AtBottom(stack))
  BY <1>1, FS_Subset, FS_EmptySet DEF IInv, AtBottom
<1>3. \/ Write(stack \ stack', {})
      \/ Write(stack \ stack', AtBottom(stack))
  BY DEF PopReturned, PopReturnedInto, PopCaught
<1>4. written' \in [Calls -> Nat]
  BY <1>2, <1>3, WriteTypes DEF IInv, TypeOK
<1>. QED
  BY <1>1, <1>2, <1>4

\* The callers of the function on top that are in the trace.
LEMMA CallersBelow ==
  ASSUME IInv, "gap" \notin odd, Depth > 0, IsTraced(Top.func),
         NEW i \in 1 .. Depth - 1, frames[i].call # 0
  PROVE  /\ Top.call # 0
         /\ frames[i].call < Top.call
         /\ frames[i].call \in Int /\ Top.call \in Int
<1>1. i \in 1 .. Depth /\ Depth \in 1 .. Depth /\ i < Depth
  BY DEF IInv, TypeOK, Depth
<1>2. frames[i] \in Frame /\ Top \in Frame
  BY <1>1 DEF IInv, TypeOK, Top, Depth
<1>3. Top.call # 0
  BY <1>1 DEF IInv, Contiguous, Top
<1>4. frames[i].call < Top.call
  BY <1>1, <1>3 DEF IInv, Rising, Top
<1>. QED
  BY <1>2, <1>3, <1>4, BoundsAssumption DEF Frame, BoundsAssumption

\* A return takes no call off that is still under way.
LEMMA ReturnKeeps ==
  ASSUME IInv, Depth > 0, LogReturn(Top.func, Caller),
         Told', UNCHANGED mode,
         NEW i \in 1 .. Depth - 1, frames[i].call # 0
  PROVE  Entry(frames[i]) \in stack'
<1>. DEFINE f == Top.func
            e == Entry(frames[i])
<1>1. i \in 1 .. Depth /\ Depth \in 1 .. Depth /\ frames[i] \in Frame /\ Top \in Frame
  BY DEF IInv, TypeOK, Top, Depth
<1>2. Told
  BY DEF LogReturn, Missed, Told
<1>3. e \in stack
  BY <1>1, <1>2 DEF IInv, Kept
<1>4. CASE ~IsTraced(f) \/ tracing # "on"
  BY <1>3, <1>4 DEF LogReturn, Missed, decoderVars
<1>5. CASE IsTraced(f) /\ tracing = "on"
  <2>. DEFINE top == Entry(Top)
  <2>1. "gap" \notin odd
    BY <1>2 DEF Told
  <2>2. Top.call # 0 /\ e.call < top.call /\ e.call \in Int /\ top.call \in Int
    BY <1>5, <2>1, CallersBelow DEF Entry
  <2>3. top \in stack
    BY <1>1, <1>2, <2>2 DEF IInv, Kept, Top
  <2>4. CASE PopReturned(f)
    <3>1. top \in Named(stack, f)
      BY <2>3 DEF Named, Entry
    <3>2. e \in UpTo(stack, Named(stack, f))
      BY <1>3, <2>2, <3>1 DEF UpTo
    <3>3. e \notin OnTop(Named(stack, f))
      BY <2>2, <3>1 DEF OnTop
    <3>. QED
      BY <2>4, <3>2, <3>3 DEF PopReturned
  <2>5. CASE PopReturnedInto(Caller)
    <3>. DEFINE below == stack \ OnTop(stack)
    <3>1. e \in below
      BY <1>3, <2>2, <2>3 DEF OnTop
    <3>2. CASE Named(below, Caller) = {}
      BY <2>5, <3>1, <3>2 DEF PopReturnedInto
    <3>3. CASE Named(below, Caller) # {}
      <4>1. Depth > 1 /\ Depth - 1 \in 1 .. Depth /\ Depth - 1 \in 1 .. Depth - 1
        BY <1>1 DEF IInv, TypeOK, Depth
      <4>2. Caller = frames[Depth - 1].func /\ frames[Depth - 1] \in Frame
        <5>1. Depth # 1
          BY <4>1
        <5>2. frames[Depth - 1] \in Frame
          BY <4>1 DEF IInv, TypeOK, Depth
        <5>. QED
          BY <5>1, <5>2 DEF Caller
      <4>3. IsTraced(Caller)
        BY <3>3 DEF Named, IInv, TypeOK, IsTraced
      <4>. DEFINE c == Entry(frames[Depth - 1])
      <4>4. frames[Depth - 1].call # 0
        <5>1. CASE i = Depth - 1
          BY <5>1
        <5>2. CASE i # Depth - 1
          BY <1>1, <2>1, <4>1, <4>2, <4>3, <5>2 DEF IInv, Contiguous
        <5>. QED
          BY <5>1, <5>2
      <4>5. c \in stack
        BY <1>2, <4>1, <4>4 DEF IInv, Kept
      <4>6. c.call < top.call /\ c.call \in Int
        BY <1>5, <2>1, <4>1, <4>4, CallersBelow DEF Entry
      <4>7. c \in Named(below, Caller)
        BY <2>2, <2>3, <4>2, <4>5, <4>6 DEF OnTop, Named, Entry
      <4>8. e.call <= c.call
        <5>1. CASE i = Depth - 1
          BY <5>1, <4>6
        <5>2. CASE i # Depth - 1
          BY <1>1, <4>1, <4>4, <4>6, <2>2, <5>2 DEF IInv, Rising, Entry
        <5>. QED
          BY <5>1, <5>2
      <4>9. e \in UpTo(below, Named(below, Caller))
        BY <3>1, <4>7, <4>8 DEF UpTo
      <4>. QED
        BY <2>5, <3>3, <4>9 DEF PopReturnedInto
    <3>. QED
      BY <3>2, <3>3
  <2>6. CASE stack = {}
    BY <1>3, <2>6
  <2>7. stack # {} => PopReturned(f) \/ PopReturnedInto(Caller)
    BY <1>5 DEF LogReturn
  <2>. QED
    BY <2>4, <2>5, <2>6, <2>7
<1>. QED
  BY <1>4, <1>5

\* Nor does a catch event, when its function is traced or builds log returns.
LEMMA CatchKeeps ==
  ASSUME IInv, OwnOnTop, PopCaught(Top.func), Told,
         mode = "gcc" \/ Top.func \in Traced, UNCHANGED mode,
         NEW i \in 1 .. Depth, frames[i].call # 0
  PROVE  Entry(frames[i]) \in stack'
<1>. DEFINE e == Entry(frames[i])
            T == {x \in stack : x.returns \/ x.func = Top.func}
<1>1. Depth > 0 /\ Depth \in 1 .. Depth /\ frames[i] \in Frame /\ Top \in Frame
  BY DEF OwnOnTop, IInv, TypeOK, Top, Depth
<1>2. e \in stack /\ e.call \in Int
  BY <1>1 DEF IInv, Kept, Entry, Frame
<1>3. CASE mode = "gcc"
  <2>1. frames[i].func \notin Hooks
    BY <1>1 DEF OwnOnTop, IInv, HooksOnTop, Top, Depth, TypeOK
  <2>2. e.returns
    BY <1>3, <2>1 DEF Entry, Returns
  <2>3. e \in UpTo(stack, T)
    BY <1>2, <2>2 DEF UpTo
  <2>. QED
    BY <2>3 DEF PopCaught
<1>4. CASE Top.func \in Traced
  <2>. DEFINE top == Entry(Top)
  <2>1. Top.call # 0 /\ e.call <= top.call
    <3>1. CASE i = Depth
      BY <1>2, <3>1 DEF Top
    <3>2. CASE i # Depth
      <4>1. i \in 1 .. Depth - 1 /\ IsTraced(Top.func) /\ "gap" \notin odd
        BY <1>1, <1>4, <3>2 DEF IsTraced, Told
      <4>. QED
        BY <1>1, <4>1, CallersBelow DEF Entry
    <3>. QED
      BY <3>1, <3>2
  <2>2. top \in stack
    BY <1>1, <2>1 DEF IInv, Kept, Top
  <2>3. e \in UpTo(stack, T)
    BY <1>2, <2>1, <2>2 DEF UpTo, Entry
  <2>. QED
    BY <2>3 DEF PopCaught
<1>. QED
  BY <1>3, <1>4

------------------------------------------------------------------------------
(* What the program's steps have in common.                                 *)

\* The decoder's variables keep their types.
DecoderTypes ==
  /\ calls \in 0 .. MaxCalls
  /\ stack \subseteq [func : Traced \cup Hooks, call : Calls, returns : BOOLEAN]
  /\ IsFiniteSet(stack)
  /\ expecting \in Funcs \cup Hooks \cup {Nowhere, Outside}
  /\ written \in [Calls -> Nat]
  /\ misnamed \in BOOLEAN
  /\ odd \subseteq Oddities

LEMMA TypesSplit ==
  TypeOK /\ IsFiniteSet(stack) <=>
    /\ mode \in {"gcc", "pg", "xray"} /\ tracing \in {"before", "on", "paused"}
    /\ frames \in Seq(Frame) /\ state \in {"running", "unwinding", "landed"}
    /\ unwound \subseteq Funcs
    /\ DecoderTypes
BY DEF TypeOK, DecoderTypes

LEMMA Decodes == IInv => DecoderTypes
BY TypesSplit DEF IInv

\* The first n frames stay.
Stay(n) ==
  /\ frames' \in Seq(Frame) /\ Len(frames') = n
  /\ \A i \in 1 .. n : frames'[i].func = frames[i].func /\ frames'[i].call = frames[i].call

LEMMA StayInOrder ==
  ASSUME IInv, NEW n \in 0 .. Depth, Stay(n), UNCHANGED <<mode, calls>>,
         tracing' = "before" => tracing = "before", odd \subseteq odd'
  PROVE  /\ Rising' /\ Contiguous'
         /\ \A i \in 1 .. n : Entry(frames[i])' = Entry(frames[i])
<1>1. Depth \in Nat /\ Depth' = n
  BY DEF IInv, TypeOK, Depth, Stay
<1>2. 1 .. n \subseteq 1 .. Depth
  BY <1>1
<1>3. Rising'
  BY <1>1, <1>2 DEF IInv, Rising, Stay
<1>4. Contiguous'
  BY <1>1, <1>2 DEF IInv, Contiguous, Stay, IsTraced
<1>5. \A i \in 1 .. n : Entry(frames[i])' = Entry(frames[i])
  BY DEF Stay, Entry, Returns
<1>. QED
  BY <1>3, <1>4, <1>5

\* Some frames go and nothing is logged.
LEMMA Unlogged ==
  ASSUME IInv, NEW n \in 0 .. Depth, Stay(n), UNCHANGED <<mode, calls, decoderVars>>,
         tracing' = "before" => tracing = "before", odd \subseteq odd', odd' \subseteq Oddities
  PROVE  Rising' /\ Contiguous' /\ Kept' /\ DecoderTypes'
<1>1. Rising' /\ Contiguous'
  BY StayInOrder
<1>2. Depth \in Nat /\ Depth' = n
  BY DEF IInv, TypeOK, Depth, Stay
<1>3. Told' => Told
  BY DEF Told
<1>4. Kept'
  <2>. SUFFICES ASSUME Told', NEW i \in 1 .. n, frames'[i].call # 0
                PROVE  Entry(frames[i])' \in stack'
    BY <1>2 DEF Kept
  <2>1. i \in 1 .. Depth /\ frames[i].call # 0
    BY <1>2 DEF Stay
  <2>2. Entry(frames[i]) \in stack
    BY <1>3, <2>1 DEF IInv, Kept
  <2>. QED
    BY <2>2, StayInOrder DEF decoderVars
<1>5. DecoderTypes'
  BY Decodes DEF DecoderTypes, decoderVars
<1>. QED
  BY <1>1, <1>4, <1>5

\* The function on top returns.
LEMMA Returned ==
  ASSUME IInv, Depth > 0, LogReturn(Top.func, Caller), Stay(Depth - 1),
         UNCHANGED <<mode, tracing>>
  PROVE  Rising' /\ Contiguous' /\ Kept' /\ DecoderTypes'
<1>. DEFINE f == Top.func
            into == IF mode = "xray" /\ f \notin Hooks THEN Caller ELSE Nowhere
<1>1. Depth \in Nat /\ Depth - 1 \in 0 .. Depth /\ Depth' = Depth - 1
  BY DEF IInv, TypeOK, Depth, Stay
<1>2. /\ calls' = calls
      /\ odd \subseteq odd' /\ odd' \subseteq Oddities
  BY DEF LogReturn, Missed, IInv, TypeOK, Oddities
<1>3. Rising' /\ Contiguous'
  BY <1>1, <1>2, StayInOrder
<1>4. Kept'
  <2>. SUFFICES ASSUME Told', NEW i \in 1 .. Depth - 1, frames'[i].call # 0
                PROVE  Entry(frames[i])' \in stack'
    BY <1>1 DEF Kept
  <2>1. frames[i].call # 0
    BY DEF Stay
  <2>2. Entry(frames[i]) \in stack'
    BY <2>1, ReturnKeeps
  <2>. QED
    BY <1>1, <1>2, <2>2, StayInOrder
<1>5. CASE ~IsTraced(f) \/ tracing # "on"
  <2>1. UNCHANGED <<calls, decoderVars>>
    BY <1>5 DEF LogReturn, Missed
  <2>. QED
    BY <1>2, <2>1, Decodes, <1>3, <1>4 DEF DecoderTypes, decoderVars
<1>6. CASE IsTraced(f) /\ tracing = "on"
  <2>1. Caller \in Funcs \cup Hooks \cup {Outside}
    <3>1. Depth # 1 => frames[Depth - 1] \in Frame
      BY <1>1 DEF IInv, TypeOK, Depth
    <3>. QED
      BY <3>1 DEF Caller, Frame
  <2>2. expecting' = (IF into = Nowhere THEN expecting ELSE into)
    BY <1>6 DEF LogReturn
  <2>3. expecting' \in Funcs \cup Hooks \cup {Nowhere, Outside}
    BY <2>1, <2>2 DEF IInv, TypeOK
  <2>4. CASE stack = {}
    <3>1. WriteOrphan(f, into)
      BY <1>6, <2>4 DEF LogReturn
    <3>2. misnamed' \in BOOLEAN /\ stack' = stack /\ written' = written
      BY <3>1 DEF WriteOrphan, IInv, TypeOK
    <3>. QED
      BY <1>2, <1>3, <1>4, <2>3, <3>2, Decodes DEF DecoderTypes
  <2>5. CASE stack # {}
    <3>1. PopReturned(f) \/ PopReturnedInto(into)
      BY <1>6, <2>5 DEF LogReturn
    <3>2. misnamed' = misnamed
      BY <1>6, <2>5 DEF LogReturn
    <3>. HIDE DEF into
    <3>3. stack' \subseteq stack /\ IsFiniteSet(stack') /\ written' \in [Calls -> Nat]
      BY <3>1, PopsShrink
    <3>. QED
      BY <1>2, <1>3, <1>4, <2>3, <3>2, <3>3, Decodes DEF DecoderTypes
  <2>. QED
    BY <2>4, <2>5
<1>. QED
  BY <1>3, <1>4, <1>5, <1>6

\* A function is called.
LEMMA Called ==
  ASSUME IInv, NEW f \in Funcs \cup Hooks, LogCall(f), UNCHANGED <<mode, tracing>>
  PROVE  /\ Rising' /\ Contiguous' /\ Kept' /\ DecoderTypes'
         /\ frames' \in Seq(Frame) /\ Depth' = Depth + 1
         /\ \A i \in 1 .. Depth : frames'[i] = frames[i]
         /\ frames'[Depth'].func = f
<1>. DEFINE logged == IsTraced(f) /\ tracing = "on"
            n == IF logged THEN calls + 1 ELSE 0
            new == [func |-> f, call |-> n, handling |-> 0]
<1>1. frames' = Append(frames, new)
  BY DEF LogCall
<1>2. calls \in Nat /\ MaxCalls \in Nat /\ Depth \in Nat
  BY BoundsAssumption DEF IInv, TypeOK, BoundsAssumption, Depth
<1>3. logged => calls < MaxCalls /\ calls' = calls + 1
  BY DEF LogCall
<1>4. ~logged => UNCHANGED <<calls, decoderVars>>
  BY DEF LogCall, Missed
<1>5. new \in Frame
  BY <1>2, <1>3, BoundsAssumption DEF Frame, BoundsAssumption
<1>. HIDE DEF new
<1>6. /\ frames' \in Seq(Frame) /\ Depth' = Depth + 1
      /\ \A i \in 1 .. Depth : frames'[i] = frames[i]
      /\ frames'[Depth + 1] = new
  BY <1>1, <1>5 DEF IInv, TypeOK, Depth
<1>7. new.func = f /\ new.call = n
  BY DEF new
<1>8. odd \subseteq odd' /\ odd' \subseteq Oddities /\ calls <= calls' /\ calls' \in 0 .. MaxCalls
      /\ n <= calls' /\ (n # 0 => logged /\ n = calls + 1) /\ n \in Nat
  <2>1. CASE logged
    BY <1>2, <1>3, <2>1 DEF LogCall, IInv, TypeOK
  <2>2. CASE ~logged
    <3>1. odd \subseteq odd' /\ odd' \subseteq Oddities
      BY <2>2, Decodes DEF LogCall, Missed, DecoderTypes, Oddities
    <3>2. calls' = calls /\ n = 0
      BY <1>4, <2>2
    <3>3. calls \in 0 .. MaxCalls
      BY Decodes DEF DecoderTypes
    <3>. QED
      BY <1>2, <2>2, <3>1, <3>2, <3>3
  <2>. QED
    BY <2>1, <2>2
<1>9. \A i \in 1 .. Depth : frames[i] \in Frame /\ frames[i].call \in Int
  <2>1. \A i \in 1 .. Depth : frames[i] \in Frame
    BY DEF IInv, TypeOK, Depth
  <2>. QED
    BY <2>1 DEF Frame
<1>10. \A i \in 1 .. Depth' : i \in 1 .. Depth \/ i = Depth + 1
  BY <1>2, <1>6
<1>. HIDE DEF n, logged
<1>11. Rising'
  <2>1. tracing' = "before" => \A i \in 1 .. Depth' : frames'[i].call = 0
    BY <1>6, <1>7, <1>8, <1>10 DEF IInv, Rising, logged
  <2>2. \A i \in 1 .. Depth' : frames'[i].call <= calls'
    BY <1>2, <1>6, <1>7, <1>8, <1>9, <1>10 DEF IInv, Rising
  <2>3. \A i, j \in 1 .. Depth' :
          i < j /\ frames'[i].call # 0 /\ frames'[j].call # 0 => frames'[i].call < frames'[j].call
    <3>. TAKE i, j \in 1 .. Depth'
    <3>1. CASE j \in 1 .. Depth
      BY <1>2, <1>6, <1>10, <3>1 DEF IInv, Rising
    <3>2. CASE j = Depth + 1 /\ i \in 1 .. Depth
      BY <1>2, <1>6, <1>7, <1>8, <1>9, <3>2 DEF IInv, Rising
    <3>. QED
      BY <1>2, <1>10, <3>1, <3>2
  <2>. QED
    BY <2>1, <2>2, <2>3 DEF Rising
<1>12. Contiguous'
  <2>1. \A i \in 1 .. Depth' : frames'[i].call # 0 => IsTraced(frames'[i].func)
    BY <1>6, <1>7, <1>8, <1>10 DEF IInv, Contiguous, logged
  <2>2. ASSUME "gap" \notin odd', IsTraced(f), n = 0
        PROVE  tracing = "before"
    BY <1>2, <2>2 DEF n, logged, LogCall, Missed, IInv, TypeOK
  <2>3. ASSUME "gap" \notin odd', NEW i \in 1 .. Depth', NEW j \in 1 .. Depth',
               i < j, frames'[i].call # 0, IsTraced(frames'[j].func)
        PROVE  frames'[j].call # 0
    <3>1. "gap" \notin odd
      BY <1>8, <2>3
    <3>2. CASE j \in 1 .. Depth
      BY <1>2, <1>6, <1>10, <2>3, <3>1, <3>2 DEF IInv, Contiguous
    <3>3. CASE j = Depth + 1
      <4>1. i \in 1 .. Depth
        BY <1>2, <1>10, <2>3, <3>3
      <4>2. tracing # "before"
        BY <1>6, <2>3, <4>1 DEF IInv, Rising
      <4>. QED
        BY <1>6, <1>7, <2>2, <2>3, <3>3, <4>2
    <3>. QED
      BY <1>10, <3>2, <3>3
  <2>. QED
    BY <2>1, <2>3 DEF Contiguous, IsTraced
<1>13. DecoderTypes'
  <2>1. CASE logged
    <3>1. IsFiniteSet(stack \cup {[func |-> f, call |-> calls + 1, returns |-> Returns(f)]})
      BY FS_AddElement DEF IInv
    <3>2. calls + 1 \in Calls /\ f \in Traced \cup Hooks /\ Returns(f) \in BOOLEAN
      BY <1>2, <1>3, <2>1, NamesAssumption DEF Calls, logged, IsTraced, Returns, NamesAssumption
    <3>. QED
      <4>. DEFINE e == [func |-> f, call |-> calls + 1, returns |-> Returns(f)]
      <4>1. /\ stack' = stack \cup {e}
            /\ UNCHANGED <<expecting, written, misnamed>>
        BY <2>1 DEF LogCall, logged
      <4>2. e \in [func : Traced \cup Hooks, call : Calls, returns : BOOLEAN]
        BY <3>2
      <4>3. IsFiniteSet(stack')
        BY <3>1, <4>1
      <4>. HIDE DEF e
      <4>. QED
        BY <1>8, <4>1, <4>2, <4>3, Decodes DEF DecoderTypes
  <2>2. CASE ~logged
    BY <1>4, <1>8, <2>2, Decodes DEF DecoderTypes, decoderVars
  <2>. QED
    BY <2>1, <2>2
<1>14. Kept'
  <2>. SUFFICES ASSUME Told', NEW i \in 1 .. Depth', frames'[i].call # 0
                PROVE  Entry(frames[i])' \in stack'
    BY DEF Kept
  <2>1. Told
    BY <1>8 DEF Told
  <2>2. stack \subseteq stack'
    BY <1>4 DEF LogCall, logged, decoderVars
  <2>3. CASE i \in 1 .. Depth
    <3>1. Entry(frames[i]) \in stack
      BY <1>6, <2>1, <2>3 DEF IInv, Kept
    <3>2. Entry(frames[i])' = Entry(frames[i])
      BY <1>6, <2>3 DEF Entry, Returns
    <3>. QED
      BY <2>2, <3>1, <3>2
  <2>4. CASE i = Depth + 1
    <3>1. Entry(frames[i])' = [func |-> f, call |-> calls + 1, returns |-> Returns(f)]
      BY <1>6, <1>7, <1>8, <2>4 DEF Entry, Returns
    <3>. QED
      BY <1>6, <1>7, <1>8, <2>4, <3>1 DEF LogCall, logged
  <2>. QED
    BY <1>10, <2>3, <2>4
<1>. QED
  BY <1>6, <1>7, <1>11, <1>12, <1>13, <1>14

------------------------------------------------------------------------------
(* The steps.                                                               *)

LEMMA InitHolds == Init => IInv
<1>. SUFFICES ASSUME Init PROVE IInv
  OBVIOUS
<1>1. Depth = 0 /\ frames = <<>>
  BY DEF Init, Depth
<1>2. TypeOK
  <2>1. frames \in Seq(Frame) /\ calls \in 0 .. MaxCalls
    BY <1>1, BoundsAssumption DEF Init, BoundsAssumption
  <2>2. written \in [Calls -> Nat] /\ stack = {} /\ unwound = {} /\ odd = {}
    BY DEF Init
  <2>3. /\ expecting \in Funcs \cup Hooks \cup {Nowhere, Outside} /\ misnamed \in BOOLEAN
        /\ mode \in {"gcc", "pg", "xray"} /\ tracing \in {"before", "on", "paused"}
        /\ state \in {"running", "unwinding", "landed"}
    BY DEF Init
  <2>. QED
    BY <2>1, <2>2, <2>3 DEF TypeOK
<1>3. IsFiniteSet(stack)
  BY FS_EmptySet DEF Init
<1>4. Rising /\ Contiguous /\ Kept
  BY <1>1 DEF Rising, Contiguous, Kept
<1>5. HooksOnTop
  BY <1>1 DEF HooksOnTop, Init
<1>. QED
  BY <1>2, <1>3, <1>4, <1>5 DEF IInv

\* Depth and what is on top, in their types.
LEMMA TopIs ==
  ASSUME IInv, Depth > 0
  PROVE  /\ Depth \in Nat /\ Depth = Len(frames) /\ Depth \in 1 .. Depth
         /\ Top \in Frame /\ Top = frames[Depth]
         /\ \A i \in 1 .. Depth : frames[i] \in Frame
         /\ Top.func \in Funcs \cup Hooks
<1>1. frames \in Seq(Frame)
  BY DEF IInv, TypeOK
<1>2. Depth \in Nat /\ Depth = Len(frames) /\ Depth \in 1 .. Depth
  BY <1>1 DEF Depth
<1>3. \A i \in 1 .. Depth : frames[i] \in Frame
  BY <1>1 DEF Depth
<1>. QED
  BY <1>2, <1>3 DEF Top, Frame

\* What is below.
LEMMA BelowStays ==
  ASSUME IInv, NEW k \in 1 .. Depth, frames' = SubSeq(frames, 1, k - 1)
  PROVE  Stay(k - 1) /\ \A i \in 1 .. k - 1 : frames'[i] = frames[i]
BY DEF IInv, TypeOK, Stay, Depth

LEMMA CallStep ==
  ASSUME IInv, NEW f \in Funcs, Call(f)
  PROVE  IInv'
<1>1. /\ state = "running" /\ (Depth > 0 => OwnOnTop)
      /\ LogCall(f) /\ UNCHANGED <<mode, tracing, state, unwound>>
  BY DEF Call
<1>2. Rising' /\ Contiguous' /\ Kept' /\ DecoderTypes'
  BY <1>1, Called
<1>3. TypeOK' /\ IsFiniteSet(stack')
  BY <1>1, <1>2, Called, TypesSplit DEF IInv, TypeOK, DecoderTypes
<1>4. HooksOnTop'
  <2>1. /\ Depth \in Nat /\ Depth' = Depth + 1 /\ frames'[Depth'].func = f
        /\ \A i \in 1 .. Depth : frames'[i] = frames[i]
    BY <1>1, Called DEF IInv, TypeOK, Depth
  <2>2. f \notin Hooks
    BY NamesAssumption DEF NamesAssumption
  <2>3. \A i \in 1 .. Depth : frames[i].func \notin Hooks
    BY <1>1, <2>1 DEF IInv, HooksOnTop, OwnOnTop, Top
  <2>. QED
    BY <1>1, <2>1, <2>2, <2>3 DEF HooksOnTop, Top, Hooks
<1>. QED
  BY <1>2, <1>3, <1>4 DEF IInv

LEMMA ReturnStep == IInv /\ Return => IInv'
<1>. SUFFICES ASSUME IInv, Return PROVE IInv'
  OBVIOUS
<1>1. /\ state = "running" /\ Depth > 0 /\ Top.func \notin Hooks
      /\ frames' = SubSeq(frames, 1, Depth - 1)
      /\ LogReturn(Top.func, Caller) /\ UNCHANGED <<mode, tracing, state, unwound>>
  BY DEF Return, OwnOnTop, Below
<1>2. Stay(Depth - 1) /\ \A i \in 1 .. Depth - 1 : frames'[i] = frames[i]
  BY <1>1, TopIs, BelowStays
<1>3. Rising' /\ Contiguous' /\ Kept' /\ DecoderTypes'
  BY <1>1, <1>2, Returned
<1>4. TypeOK' /\ IsFiniteSet(stack')
  BY <1>1, <1>2, <1>3, TypesSplit DEF IInv, TypeOK, DecoderTypes, Stay
<1>5. HooksOnTop'
  <2>1. Depth \in Nat /\ Depth' = Depth - 1
    BY <1>1, <1>2, TopIs DEF Stay, Depth
  <2>2. \A i \in 1 .. Depth' : frames'[i].func \notin Hooks
    BY <1>2, <2>1 DEF IInv, HooksOnTop
  <2>. QED
    BY <1>1, <2>1, <2>2 DEF HooksOnTop, Top, Hooks
<1>. QED
  BY <1>3, <1>4, <1>5 DEF IInv

LEMMA LongjmpStep ==
  ASSUME IInv, NEW k \in Nat, Longjmp(k)
  PROVE  IInv'
<1>1. /\ state = "running" /\ Depth > 0 /\ k \in 1 .. Depth - 1
      /\ frames' = SubSeq(frames, 1, k) /\ Odd({"jump"})
      /\ UNCHANGED <<mode, tracing, state, unwound, calls, decoderVars>>
  BY DEF Longjmp, OwnOnTop
<1>2. Depth \in Nat /\ k \in 0 .. Depth /\ k + 1 \in 1 .. Depth /\ (k + 1) - 1 = k
  BY <1>1, TopIs
<1>3. Stay(k) /\ \A i \in 1 .. k : frames'[i] = frames[i]
  BY <1>1, <1>2, BelowStays
<1>4. odd \subseteq odd' /\ odd' \subseteq Oddities
  BY <1>1 DEF Odd, IInv, TypeOK, Oddities
<1>5. Rising' /\ Contiguous' /\ Kept' /\ DecoderTypes'
  BY <1>1, <1>2, <1>3, <1>4, Unlogged
<1>6. TypeOK' /\ IsFiniteSet(stack')
  BY <1>1, <1>3, <1>5, TypesSplit DEF IInv, TypeOK, DecoderTypes, Stay
<1>7. HooksOnTop'
  <2>1. Depth' = k
    BY <1>3 DEF Stay, Depth
  <2>2. \A i \in 1 .. k : frames'[i].func \notin Hooks
    BY <1>1, <1>2, <1>3 DEF IInv, HooksOnTop
  <2>. QED
    BY <1>1, <1>2, <2>1, <2>2 DEF HooksOnTop, Top, Hooks
<1>. QED
  BY <1>5, <1>6, <1>7 DEF IInv

\* A hook is called: nothing but the state of the handlers is at stake.
LEMMA HookCalled ==
  ASSUME IInv, NEW h \in Hooks, OwnOnTop, LogCall(h),
         UNCHANGED <<mode, tracing, state, unwound>>,
         h = "__cxa_begin_catch" => Top.handling < MaxNested,
         h = "__cxa_end_catch" => Top.handling > 0
  PROVE  IInv'
<1>1. Rising' /\ Contiguous' /\ Kept' /\ DecoderTypes'
  BY Called
<1>2. TypeOK' /\ IsFiniteSet(stack')
  BY <1>1, Called, TypesSplit DEF IInv, TypeOK, DecoderTypes
<1>3. HooksOnTop'
  <2>1. /\ Depth \in Nat /\ Depth > 0 /\ Depth' = Depth + 1 /\ frames'[Depth'].func = h
        /\ \A i \in 1 .. Depth : frames'[i] = frames[i]
    BY Called, TopIs DEF OwnOnTop
  <2>2. \A i \in 1 .. Depth : frames[i].func \notin Hooks
    BY <2>1 DEF IInv, HooksOnTop, OwnOnTop, Top
  <2>3. frames'[Depth' - 1] = Top
    BY <2>1 DEF Top
  <2>4. Top' = frames'[Depth']
    BY DEF Top
  <2>5. \A i \in 1 .. Depth' - 1 : frames'[i].func \notin Hooks
    BY <2>1, <2>2
  <2>. QED
    BY <2>1, <2>3, <2>4, <2>5 DEF HooksOnTop
<1>. QED
  BY <1>1, <1>2, <1>3 DEF IInv

LEMMA HookStep == IInv /\ (Throw \/ BeginCatch \/ EndCatch) => IInv'
<1>. SUFFICES ASSUME IInv, Throw \/ BeginCatch \/ EndCatch PROVE IInv'
  OBVIOUS
<1>1. CASE Throw
  BY <1>1, HookCalled DEF Throw, Hooks
<1>2. CASE BeginCatch
  <2>1. Top.handling < MaxNested
    BY <1>2 DEF BeginCatch, OwnOnTop, IInv, HooksOnTop
  <2>. QED
    BY <1>2, <2>1, HookCalled DEF BeginCatch, Hooks
<1>3. CASE EndCatch
  BY <1>3, HookCalled DEF EndCatch, Hooks
<1>. QED
  BY <1>1, <1>2, <1>3

\* The function on top is gone, and an exception may be under way.
LEMMA Gone ==
  ASSUME IInv, Depth > 0, frames' = Below, LogReturn(Top.func, Caller),
         state' \in {"running", "unwinding"}, unwound' \subseteq Funcs, UNCHANGED <<mode, tracing>>
  PROVE  IInv'
<1>1. Stay(Depth - 1) /\ \A i \in 1 .. Depth - 1 : frames'[i] = frames[i]
  BY TopIs, BelowStays DEF Below
<1>2. Rising' /\ Contiguous' /\ Kept' /\ DecoderTypes'
  BY <1>1, Returned
<1>3. TypeOK' /\ IsFiniteSet(stack')
  BY <1>1, <1>2, TypesSplit DEF IInv, TypeOK, DecoderTypes, Stay
<1>4. HooksOnTop'
  <2>1. Depth \in Nat /\ Depth' = Depth - 1
    BY <1>1, TopIs DEF Stay, Depth
  <2>2. \A i \in 1 .. Depth' : frames'[i].func \notin Hooks
    BY <1>1, <2>1 DEF IInv, HooksOnTop
  <2>. QED
    BY <2>1, <2>2 DEF HooksOnTop, Top, Hooks
<1>. QED
  BY <1>2, <1>3, <1>4 DEF IInv

LEMMA ThrownStep == IInv /\ Thrown => IInv'
BY Gone DEF Thrown, IInv, TypeOK

LEMMA UnwindStep == IInv /\ Unwind => IInv'
<1>. SUFFICES ASSUME IInv, Unwind PROVE IInv'
  OBVIOUS
<1>1. /\ state = "unwinding" /\ Depth > 0 /\ Top.func \notin Hooks
      /\ frames' = Below /\ unwound' = unwound \cup {Top.func}
      /\ UNCHANGED <<mode, tracing, state>>
  BY DEF Unwind, OwnOnTop
<1>2. unwound' \subseteq Funcs
  BY <1>1, TopIs DEF IInv, TypeOK
<1>3. CASE LogReturn(Top.func, Caller)
  BY <1>1, <1>2, <1>3, Gone
<1>4. CASE UNCHANGED <<calls, decoderVars, odd>>
  <2>1. Stay(Depth - 1) /\ \A i \in 1 .. Depth - 1 : frames'[i] = frames[i]
    BY <1>1, TopIs, BelowStays DEF Below
  <2>2. Depth \in Nat /\ Depth - 1 \in 0 .. Depth /\ Depth' = Depth - 1
    BY <1>1, <2>1, TopIs DEF Stay, Depth
  <2>3. odd' \subseteq Oddities /\ odd \subseteq odd'
    BY <1>4 DEF IInv, TypeOK
  <2>4. Rising' /\ Contiguous' /\ Kept' /\ DecoderTypes'
    BY <1>1, <1>4, <2>1, <2>2, <2>3, Unlogged
  <2>5. TypeOK' /\ IsFiniteSet(stack')
    BY <1>1, <1>2, <2>1, <2>4, TypesSplit DEF IInv, TypeOK, DecoderTypes, Stay
  <2>6. \A i \in 1 .. Depth' : frames'[i].func \notin Hooks
    BY <2>1, <2>2 DEF IInv, HooksOnTop
  <2>7. HooksOnTop'
    BY <1>1, <2>2, <2>6 DEF HooksOnTop, Top, Hooks
  <2>. QED
    BY <2>4, <2>5, <2>7 DEF IInv
<1>. QED
  BY <1>3, <1>4 DEF Unwind

LEMMA CatchStep == IInv /\ Catch => IInv'
<1>. SUFFICES ASSUME IInv, Catch PROVE IInv'
  OBVIOUS
<1>. DEFINE f == Top.func
<1>1. /\ OwnOnTop /\ Top.handling < MaxNested /\ state' = "landed" /\ LogCatch(f)
      /\ unwound' = {} /\ UNCHANGED <<mode, tracing, frames>>
  BY DEF Catch
<1>2. /\ calls' = calls /\ expecting' = expecting /\ misnamed' = misnamed
      /\ odd \subseteq odd' /\ odd' \subseteq Oddities
  BY <1>1 DEF Catch, LogCatch, Odd, IInv, TypeOK, Oddities, decoderVars
<1>3. Depth' = Depth /\ Top' = Top /\ Stay(Depth)
  BY <1>1 DEF Depth, Top, Stay, IInv, TypeOK
<1>4. Depth \in Nat /\ Depth \in 0 .. Depth /\ Depth > 0
  BY <1>1, TopIs DEF OwnOnTop
<1>5. Rising' /\ Contiguous'
  BY <1>1, <1>2, <1>3, <1>4, StayInOrder
<1>6. DecoderTypes'
  <2>1. CASE tracing # "on"
    BY <1>1, <1>2, <2>1, Decodes DEF LogCatch, decoderVars, DecoderTypes
  <2>2. CASE tracing = "on"
    <3>1. PopCaught(f)
      BY <1>1, <2>2 DEF LogCatch
    <3>2. stack' \subseteq stack /\ IsFiniteSet(stack') /\ written' \in [Calls -> Nat]
      BY <3>1, PopsShrink
    <3>. QED
      BY <1>2, <3>2, Decodes DEF DecoderTypes
  <2>. QED
    BY <2>1, <2>2
<1>7. Kept'
  <2>. SUFFICES ASSUME Told', NEW i \in 1 .. Depth, frames[i].call # 0
                PROVE  Entry(frames[i]) \in stack'
    BY <1>1, <1>3 DEF Kept, Entry, Returns
  <2>1. Told
    BY <1>2 DEF Told
  <2>2. CASE tracing # "on"
    BY <1>1, <2>1, <2>2 DEF IInv, Kept, LogCatch, decoderVars
  <2>3. CASE tracing = "on"
    <3>1. PopCaught(f)
      BY <1>1, <2>3 DEF LogCatch
    <3>2. mode = "gcc" \/ f \in Traced
      BY <2>3 DEF Catch, Odd, Told
    <3>. QED
      BY <1>1, <2>1, <3>1, <3>2, CatchKeeps
  <2>. QED
    BY <2>2, <2>3
<1>8. HooksOnTop'
  <2>1. f \notin Hooks
    BY <1>1 DEF OwnOnTop
  <2>2. \A i \in 1 .. Depth - 1 : frames[i].func \notin Hooks
    BY DEF IInv, HooksOnTop
  <2>. QED
    BY <1>1, <1>3, <1>4, <2>1, <2>2 DEF HooksOnTop, Hooks
<1>9. TypeOK' /\ IsFiniteSet(stack')
  BY <1>1, <1>6, TypesSplit DEF IInv, TypeOK, DecoderTypes
<1>. QED
  BY <1>5, <1>6, <1>7, <1>8, <1>9 DEF IInv

\* Its frame is gone, the handler's function's is there with one handler more
\* or less.
LEMMA HookReturnStays ==
  ASSUME IInv, HookReturns
  PROVE  Stay(Depth - 1) /\ Depth > 1 /\ Depth \in Nat
<1>. DEFINE more == IF Top.func = "__cxa_begin_catch" THEN 1 ELSE -1
            b == frames[Depth - 1]
<1>1. /\ Depth > 1 /\ Top.func \in {"__cxa_begin_catch", "__cxa_end_catch"}
      /\ frames' = [Below EXCEPT ![Depth - 1].handling = @ + more]
      /\ state' = IF state = "landed" THEN "running" ELSE state
      /\ LogReturn(Top.func, Caller) /\ UNCHANGED <<mode, tracing, unwound>>
  BY DEF HookReturns, Hooks
<1>2. /\ frames \in Seq(Frame) /\ Depth \in Nat /\ Depth = Len(frames)
      /\ Depth > 0 /\ Depth - 1 \in 1 .. Depth /\ b \in Frame
  <2>1. frames \in Seq(Frame) /\ Depth \in Nat /\ Depth = Len(frames)
    BY DEF IInv, TypeOK, Depth
  <2>2. Depth > 0 /\ Depth - 1 \in 1 .. Depth
    BY <1>1, <2>1
  <2>. QED
    BY <2>1, <2>2, TopIs
<1>3. /\ Below \in Seq(Frame) /\ Len(Below) = Depth - 1
      /\ \A i \in 1 .. Depth - 1 : Below[i] = frames[i]
  BY <1>1, <1>2 DEF Below
<1>4. b.handling + more \in 0 .. MaxNested
  <2>1. b.handling \in 0 .. MaxNested
    BY <1>2 DEF Frame
  <2>2. CASE Top.func = "__cxa_begin_catch"
    BY <1>1, <2>1, <2>2, BoundsAssumption DEF IInv, HooksOnTop, BoundsAssumption
  <2>3. CASE Top.func = "__cxa_end_catch"
    BY <1>1, <2>1, <2>3, BoundsAssumption DEF IInv, HooksOnTop, BoundsAssumption
  <2>. QED
    BY <1>1, <2>2, <2>3
<1>. DEFINE new == [func |-> b.func, call |-> b.call, handling |-> b.handling + more]
<1>. HIDE DEF more
<1>5. new \in Frame
  BY <1>2, <1>4 DEF Frame
<1>6. frames' = [Below EXCEPT ![Depth - 1] = new]
  <2>1. Depth - 1 \in 1 .. Depth - 1
    BY <1>2
  <2>2. Below[Depth - 1] = b
    BY <1>3, <2>1
  <2>3. [b EXCEPT !.handling = @ + more] = new
    BY <1>2 DEF Frame
  <2>. QED
    BY <1>1, <2>2, <2>3
<1>7. Stay(Depth - 1) /\ Depth > 1 /\ Depth \in Nat
  <2>1. frames' \in Seq(Frame) /\ Len(frames') = Depth - 1
    BY <1>2, <1>3, <1>5, <1>6
  <2>2. \A i \in 1 .. Depth - 1 : frames'[i] = IF i = Depth - 1 THEN new ELSE frames[i]
    BY <1>2, <1>3, <1>6
  <2>. QED
    BY <1>1, <1>2, <2>1, <2>2 DEF Stay
<1>. QED
  BY <1>7

LEMMA HookReturnsStep == IInv /\ HookReturns => IInv'
<1>. SUFFICES ASSUME IInv, HookReturns PROVE IInv'
  OBVIOUS
<1>1. /\ Depth > 1 /\ state' = IF state = "landed" THEN "running" ELSE state
      /\ LogReturn(Top.func, Caller) /\ UNCHANGED <<mode, tracing, unwound>>
  BY DEF HookReturns
<1>2. Depth \in Nat /\ Depth > 0
  BY <1>1, HookReturnStays
<1>3. Stay(Depth - 1)
  BY HookReturnStays
<1>4. Rising' /\ Contiguous' /\ Kept' /\ DecoderTypes'
  BY <1>1, <1>2, <1>3, Returned
<1>5. TypeOK' /\ IsFiniteSet(stack')
  BY <1>1, <1>3, <1>4, TypesSplit DEF IInv, TypeOK, DecoderTypes, Stay
<1>6. HooksOnTop'
  <2>1. Depth' = Depth - 1
    BY <1>3 DEF Stay, Depth
  <2>2. \A i \in 1 .. Depth' : frames'[i].func \notin Hooks
    BY <1>3, <2>1 DEF IInv, HooksOnTop, Stay
  <2>3. state' # "landed" /\ Depth' > 0
    BY <1>1, <1>2, <2>1
  <2>. QED
    BY <1>2, <2>1, <2>2, <2>3 DEF HooksOnTop, Top, Hooks
<1>. QED
  BY <1>4, <1>5, <1>6 DEF IInv

LEMMA TracingStep == IInv /\ (Start \/ Pause \/ Resume \/ UNCHANGED vars) => IInv'
<1>. SUFFICES ASSUME IInv, Start \/ Pause \/ Resume \/ UNCHANGED vars PROVE IInv'
  OBVIOUS
<1>1. /\ UNCHANGED <<mode, frames, state, unwound, calls, decoderVars, odd>>
      /\ tracing' \in {"before", "on", "paused"}
      /\ tracing' = "before" => tracing = "before"
  BY DEF Start, Pause, Resume, vars, programVars, IInv, TypeOK
<1>2. Depth \in Nat /\ Depth \in 0 .. Depth /\ Depth' = Depth /\ Top' = Top /\ Stay(Depth)
  BY <1>1 DEF IInv, TypeOK, Depth, Top, Stay
<1>3. odd \subseteq odd' /\ odd' \subseteq Oddities
  BY <1>1 DEF IInv, TypeOK
<1>4. Rising' /\ Contiguous' /\ Kept' /\ DecoderTypes'
  BY <1>1, <1>2, <1>3, Unlogged
<1>5. TypeOK' /\ IsFiniteSet(stack')
  BY <1>1, <1>4, TypesSplit DEF IInv, TypeOK, DecoderTypes
<1>6. HooksOnTop'
  BY <1>1, <1>2 DEF IInv, HooksOnTop
<1>. QED
  BY <1>4, <1>5, <1>6 DEF IInv

------------------------------------------------------------------------------
\* The invariant is inductive.
THEOREM Inductive == Spec => []IInv
<1>1. IInv /\ [Next]_vars => IInv'
  <2>. SUFFICES ASSUME IInv, [Next]_vars PROVE IInv'
    OBVIOUS
  <2>1. ASSUME NEW f \in Funcs, Call(f) PROVE IInv'
    BY <2>1, CallStep
  <2>2. ASSUME NEW k \in 1 .. MaxDepth, Longjmp(k) PROVE IInv'
    BY <2>2, LongjmpStep, BoundsAssumption DEF BoundsAssumption
  <2>. QED
    BY <2>1, <2>2, ReturnStep, HookStep, ThrownStep, UnwindStep, CatchStep, HookReturnsStep,
       TracingStep DEF Next
<1>. QED
  BY <1>1, InitHolds, PTL DEF Spec

\* The decoder's and the program's variables keep their types: nothing is
\* written that is no call of the trace, handlers end as often as they begin.
THEOREM Types == Spec => []TypeOK
<1>1. IInv => TypeOK
  BY DEF IInv
<1>. QED
  BY <1>1, Inductive, PTL

\* write_sample_to_json() never pops a call that is still under way, whatever
\* the build, unless events are missing or a catcher is not traced.
THEOREM StillOnStack == Spec => []ActiveKept
<1>1. IInv => ActiveKept
  BY DEF IInv, Kept, Told, ActiveKept, Active
<1>. QED
  BY <1>1, Inductive, PTL

------------------------------------------------------------------------------
(* What the trace tells when it tells all: what is on the stack beside the   *)
(* calls under way, and how often each call is shown.                       *)

\* Nothing is logged before the trace begins; a catch is noted as such.
Quiet ==
  /\ tracing = "before" =>
       stack = {} /\ calls = 0 /\ odd = {} /\ expecting = Nowhere /\ ~misnamed
  /\ state # "unwinding" => unwound = {}
  /\ odd \cap {"untraced", "recursion"} # {} => "catch" \in odd
  /\ \A x \in stack : x.returns => mode = "gcc"

\* Of a hook that is not in the trace the trace begins with the return.
HookLogged ==
  "gap" \notin odd /\ Depth > 0 /\ Top.func \in Hooks /\ Top.call = 0 => stack = {}

\* What is on the stack and not under way is what an exception has left, above
\* all that it has not.
Clear == odd \cap {"gap", "untraced", "jump", "recursion"} = {}

Leaving ==
  Clear => \A x \in stack \ Active :
             /\ mode # "gcc" /\ x.func \in unwound
             /\ \A i \in 1 .. Depth : frames[i].func \notin Hooks => frames[i].call < x.call

\* Every call of the trace is on the stack or was written, and not both as long
\* as exceptions are all that happens.
OnStack(c) == \E x \in stack : x.call = c

Once ==
  /\ \A x \in stack : x.call <= calls
  /\ \A x, y \in stack : x.call = y.call => x = y
  /\ \A c \in 1 .. calls : written[c] >= 1 \/ OnStack(c)
  /\ \A c \in Calls : c > calls => written[c] = 0
  /\ odd \subseteq {"catch"} =>
       \A c \in 1 .. calls : written[c] <= 1 /\ (OnStack(c) => written[c] = 0)

\* Under XRay, once only the callers remain that called before the trace began:
\* the one last returned into is the innermost traced one, or not traced.
OnlyCallers ==
  /\ mode = "xray" /\ odd \cap {"gap", "jump", "catch"} = {} /\ state # "unwinding"
  /\ \A i \in 1 .. Depth : frames[i].func \notin Hooks => frames[i].call = 0

Innermost(j) ==
  frames[j].func \in Traced /\ \A i \in j + 1 .. Depth : frames[i].func \notin Traced

Expected ==
  OnlyCallers => \A j \in 1 .. Depth : Innermost(j) => expecting \in Fitting(frames[j].func)

Named1 == odd \cap {"gap", "jump", "catch"} = {} => ~misnamed

CInv == Quiet /\ HookLogged /\ Leaving /\ Once /\ Expected /\ Named1

------------------------------------------------------------------------------
(* How often a call is shown.                                               *)

\* Of the entries of a set, those of one call are one or none.
LEMMA TimesOne ==
  ASSUME NEW S, NEW c, \A x, y \in S : x.call = y.call => x = y
  PROVE  Cardinality({x \in S : x.call = c}) = IF \E x \in S : x.call = c THEN 1 ELSE 0
<1>1. CASE \E x \in S : x.call = c
  <2>1. PICK x \in S : x.call = c
    BY <1>1
  <2>2. {y \in S : y.call = c} = {x}
    BY <2>1
  <2>. QED
    BY <1>1, <2>2, FS_Singleton
<1>2. CASE ~ \E x \in S : x.call = c
  <2>1. {x \in S : x.call = c} = {}
    BY <1>2
  <2>. QED
    BY <1>2, <2>1, FS_EmptySet
<1>. QED
  BY <1>1, <1>2

\* Entries leave the stack and are written, some maybe once more.
LEMMA PopsOnce ==
  ASSUME IInv, Once, NEW T \in SUBSET stack, stack' \subseteq stack, Write(stack \ stack', T),
         calls' = calls, odd \subseteq odd', odd' \subseteq {"catch"} => T = {}
  PROVE  Once'
<1>1. /\ calls \in Nat /\ written \in [Calls -> Nat] /\ 1 .. calls \subseteq Calls
      /\ \A x \in stack : x.call \in Calls
  BY BoundsAssumption DEF IInv, TypeOK, BoundsAssumption, Calls
<1>. DEFINE Popped(c) == \E x \in stack \ stack' : x.call = c
            Again(c) == \E x \in T : x.call = c
<1>2. ASSUME NEW c \in Calls
      PROVE  written'[c] = written[c] + (IF Popped(c) THEN 1 ELSE 0) + (IF Again(c) THEN 1 ELSE 0)
  <2>. DEFINE S == stack \ stack'
  <2>1. Cardinality({x \in S : x.call = c}) = IF \E x \in S : x.call = c THEN 1 ELSE 0
    <3>1. \A x, y \in S : x.call = y.call => x = y
      BY DEF Once
    <3>. HIDE DEF S
    <3>. QED
      BY <3>1, TimesOne
  <2>2. Cardinality({x \in T : x.call = c}) = IF \E x \in T : x.call = c THEN 1 ELSE 0
    <3>1. \A x, y \in T : x.call = y.call => x = y
      BY DEF Once
    <3>. QED
      BY <3>1, TimesOne
  <2>. QED
    BY <2>1, <2>2 DEF Write
<1>3. \A c : OnStack(c) <=> OnStack(c)' \/ Popped(c)
  BY DEF OnStack
<1>4. \A c : ~(OnStack(c)' /\ Popped(c))
  BY DEF OnStack, Once
<1>5. \A c : Again(c) => OnStack(c)
  BY DEF OnStack
<1>. HIDE DEF Popped, Again
<1>6. ASSUME NEW c \in 1 .. calls' PROVE written'[c] >= 1 \/ OnStack(c)'
  <2>1. c \in Calls /\ written[c] \in Nat /\ (written[c] >= 1 \/ OnStack(c))
    BY <1>1 DEF Once
  <2>. QED
    BY <1>2, <1>3, <2>1
<1>7. ASSUME NEW c \in Calls, c > calls' PROVE written'[c] = 0
  <2>1. ~OnStack(c) /\ written[c] = 0
    <3>1. c \in Nat /\ c > calls
      BY <1>7 DEF Calls
    <3>2. \A x \in stack : x.call <= calls /\ x.call \in Nat
      BY <1>1 DEF Once, Calls
    <3>3. ~OnStack(c)
      BY <1>1, <3>1, <3>2 DEF OnStack
    <3>. QED
      BY <3>1, <3>3 DEF Once
  <2>. QED
    BY <1>2, <1>3, <1>5, <2>1
<1>8. ASSUME odd' \subseteq {"catch"}, NEW c \in 1 .. calls'
      PROVE  written'[c] <= 1 /\ (OnStack(c)' => written'[c] = 0)
  <2>1. /\ c \in Calls /\ written[c] \in Nat
        /\ written[c] <= 1 /\ (OnStack(c) => written[c] = 0)
    BY <1>1, <1>8 DEF Once
  <2>2. ~Again(c)
    BY <1>8 DEF Again
  <2>3. written'[c] = written[c] + (IF Popped(c) THEN 1 ELSE 0)
    BY <1>2, <2>1, <2>2
  <2>. QED
    BY <1>3, <1>4, <2>1, <2>3
<1>9. /\ \A x \in stack' : x.call <= calls'
      /\ \A x, y \in stack' : x.call = y.call => x = y
  BY DEF Once
<1>. QED
  BY <1>6, <1>7, <1>8, <1>9 DEF Once

\* Nothing is logged.
LEMMA UnloggedOnce ==
  ASSUME Once, UNCHANGED <<calls, stack, written>>, odd \subseteq odd'
  PROVE  Once'
BY DEF Once, OnStack

------------------------------------------------------------------------------
(* Returns.                                                                 *)

\* The steps whose return, if it is logged, is of the function whose call is on
\* top: all but the unwinding of builds that log no return then.
ReturnTold == state # "unwinding" \/ mode = "gcc" \/ Top.func \in Hooks

\* The numbers of calls are numbers.
LEMMA CallNumbers ==
  ASSUME IInv
  PROVE  /\ Depth \in Nat
         /\ \A i \in 1 .. Depth : frames[i].call \in Nat
         /\ \A x \in stack : x.call \in Nat /\ x.call >= 1 /\ x.func \in Funcs \cup Hooks
<1>1. Depth \in Nat /\ \A i \in 1 .. Depth : frames[i] \in Frame
  BY DEF IInv, TypeOK, Depth
<1>2. stack \subseteq [func : Traced \cup Hooks, call : Calls, returns : BOOLEAN]
  BY DEF IInv, TypeOK
<1>. QED
  BY <1>1, <1>2, NamesAssumption, BoundsAssumption DEF Frame, Calls, NamesAssumption, BoundsAssumption

\* Once an entry is on the stack, the function that returns has one, too.
LEMMA TopLogged ==
  ASSUME IInv, Quiet, HookLogged, Leaving, Clear, Depth > 0, IsTraced(Top.func), ReturnTold,
         stack # {}
  PROVE  Top.call # 0 /\ Entry(Top) \in stack
<1>1. "gap" \notin odd /\ Told
  BY DEF Clear, Told
<1>2. Top.call # 0
  <2>1. CASE Top.func \in Hooks
    BY <1>1, <2>1 DEF HookLogged
  <2>2. CASE Top.func \notin Hooks
    <3>1. stack \ Active = {}
      BY <2>2 DEF Leaving, Quiet, ReturnTold
    <3>2. PICK i \in 1 .. Depth : frames[i].call # 0
      BY <3>1 DEF Active
    <3>3. CASE i = Depth
      BY <3>2, <3>3 DEF Top
    <3>4. CASE i # Depth
      <4>1. i < Depth /\ Depth \in 1 .. Depth
        BY <3>4, CallNumbers
      <4>. QED
        BY <1>1, <3>2, <4>1 DEF IInv, Contiguous, Top
    <3>. QED
      BY <3>3, <3>4
  <2>. QED
    BY <2>1, <2>2
<1>3. Depth \in 1 .. Depth
  BY CallNumbers
<1>. QED
  BY <1>1, <1>2, <1>3 DEF IInv, Kept, Top

\* Of the calls of the function that returns, its own is the latest.
LEMMA TopLatest ==
  ASSUME IInv, Quiet, Leaving, Clear, Depth > 0, ReturnTold, Top.call # 0,
         NEW y \in stack, y.func = Top.func \/ Top.func \notin Hooks
  PROVE  y.call <= Top.call
<1>1. Depth \in Nat /\ Depth \in 1 .. Depth /\ Top = frames[Depth] /\ Top.call \in Nat
  BY CallNumbers DEF Top
<1>2. CASE y \in Active
  <2>1. PICK i \in 1 .. Depth : frames[i].call # 0 /\ y = Entry(frames[i])
    BY <1>2 DEF Active
  <2>2. y.call = frames[i].call
    BY <2>1 DEF Entry
  <2>3. CASE i = Depth
    BY <1>1, <2>2, <2>3
  <2>4. CASE i # Depth
    <3>1. i < Depth
      BY <1>1, <2>4
    <3>2. frames[i].call < Top.call
      BY <1>1, <2>1, <3>1 DEF IInv, Rising
    <3>. QED
      BY <1>1, <2>2, <3>2, CallNumbers
  <2>. QED
    BY <2>3, <2>4
<1>3. CASE y \notin Active
  <2>1. mode # "gcc" /\ y.func \in unwound /\ unwound \subseteq Funcs
    BY <1>3 DEF Leaving, IInv, TypeOK
  <2>2. y.func \notin Hooks /\ state = "unwinding"
    BY <2>1, NamesAssumption DEF NamesAssumption, Quiet
  <2>. QED
    BY <2>1, <2>2 DEF ReturnTold
<1>. QED
  BY <1>2, <1>3

\* Its return takes its call off the stack.
LEMMA TopGone ==
  ASSUME IInv, Quiet, HookLogged, Leaving, Clear, Depth > 0, IsTraced(Top.func), ReturnTold,
         tracing = "on", LogReturn(Top.func, Caller), Top.call # 0
  PROVE  Entry(Top) \notin stack'
<1>. DEFINE f == Top.func
            into == IF mode = "xray" /\ f \notin Hooks THEN Caller ELSE Nowhere
            e == Entry(Top)
<1>0. e.call = Top.call /\ e.func = f
  BY DEF Entry
<1>1. CASE stack = {}
  BY <1>1 DEF LogReturn, WriteOrphan
<1>2. CASE stack # {} /\ into = Nowhere
  <2>1. PopReturned(f)
    BY <1>2 DEF LogReturn
  <2>2. \A y \in Named(stack, f) : y.call <= Top.call
    BY TopLatest DEF Named
  <2>3. e \in Named(stack, f) => e \in OnTop(Named(stack, f))
    BY <1>0, <2>2 DEF OnTop
  <2>4. e \in stack => e \in Named(stack, f)
    BY <1>0 DEF Named
  <2>5. stack' = UpTo(stack, Named(stack, f)) \ OnTop(Named(stack, f))
    BY <2>1 DEF PopReturned
  <2>. QED
    BY <2>3, <2>4, <2>5 DEF UpTo
<1>3. CASE stack # {} /\ into # Nowhere
  <2>1. PopReturnedInto(into) /\ f \notin Hooks
    BY <1>3 DEF LogReturn
  <2>2. \A y \in stack : y.call <= Top.call
    BY <2>1, TopLatest
  <2>3. e \in stack => e \in OnTop(stack)
    BY <1>0, <2>2 DEF OnTop
  <2>4. stack' \subseteq stack \ OnTop(stack)
    BY <2>1 DEF PopReturnedInto, UpTo
  <2>. QED
    BY <2>3, <2>4
<1>. QED
  BY <1>1, <1>2, <1>3

\* The frames that stay keep their entries.
LEMMA ActiveThen ==
  ASSUME IInv, NEW n \in 0 .. Depth, Stay(n), UNCHANGED mode, NEW x
  PROVE  x \in Active' <=> \E i \in 1 .. n : frames[i].call # 0 /\ x = Entry(frames[i])
<1>1. Depth' = n /\ 1 .. Depth' = 1 .. n
  BY DEF Stay, Depth
<1>2. \A i \in 1 .. n : frames'[i].call = frames[i].call /\ Entry(frames[i])' = Entry(frames[i])
  BY DEF Stay, Entry, Returns
<1>3. Active' = {Entry(frames[i])' : i \in {j \in 1 .. Depth' : frames'[j].call # 0}}
  BY DEF Active
<1>. QED
  BY <1>1, <1>2, <1>3

\* A function returns, an exception maybe passing through it.
LEMMA ReturnCleared ==
  ASSUME IInv, CInv, Depth > 0, LogReturn(Top.func, Caller), Stay(Depth - 1),
         UNCHANGED <<mode, tracing>>, unwound \subseteq unwound', ReturnTold
  PROVE  Leaving' /\ HookLogged'
<1>0. Depth \in Nat /\ Depth - 1 \in 0 .. Depth /\ Depth \in 1 .. Depth /\ Depth' = Depth - 1
  BY CallNumbers DEF Stay, Depth
<1>1. odd \subseteq odd' /\ stack' \subseteq stack
  BY PopsShrink DEF LogReturn, Missed, WriteOrphan, decoderVars
<1>2. HookLogged'
  <2>1. Depth' > 0 => Top' = frames'[Depth - 1] /\ Depth - 1 \in 1 .. Depth - 1
    BY <1>0 DEF Top
  <2>2. \A i \in 1 .. Depth - 1 : frames'[i].func \notin Hooks
    BY DEF Stay, IInv, HooksOnTop
  <2>. QED
    BY <2>1, <2>2 DEF HookLogged
<1>3. Leaving'
  <2>. SUFFICES ASSUME Clear', NEW x \in stack' \ Active'
                PROVE  /\ mode # "gcc" /\ x.func \in unwound'
                       /\ \A i \in 1 .. Depth - 1 : frames[i].func \notin Hooks => frames[i].call < x.call
    BY <1>0 DEF Leaving, Stay
  <2>1. Clear /\ x \in stack
    BY <1>1 DEF Clear
  <2>2. CASE x \in Active
    <3>1. PICK i \in 1 .. Depth : frames[i].call # 0 /\ x = Entry(frames[i])
      BY <2>2 DEF Active
    <3>2. i \notin 1 .. Depth - 1
      BY <1>0, <3>1, ActiveThen
    <3>3. i = Depth
      BY <1>0, <3>2
    <3>4. x = Entry(Top) /\ Top.call # 0 /\ IsTraced(Top.func) /\ tracing # "before"
      BY <1>0, <3>1, <3>3 DEF Top, IInv, Contiguous, Rising
    <3>5. tracing = "on"
      BY <3>4 DEF LogReturn, Missed, Clear, IInv, TypeOK
    <3>. QED
      BY <2>1, <3>4, <3>5, TopGone DEF CInv
  <2>3. CASE x \notin Active
    <3>1. /\ mode # "gcc" /\ x.func \in unwound
          /\ \A i \in 1 .. Depth : frames[i].func \notin Hooks => frames[i].call < x.call
      BY <2>1, <2>3 DEF CInv, Leaving
    <3>. QED
      BY <1>0, <3>1
  <2>. QED
    BY <2>2, <2>3
<1>. QED
  BY <1>2, <1>3

LEMMA ReturnOnce ==
  ASSUME IInv, CInv, Depth > 0, LogReturn(Top.func, Caller), ReturnTold
  PROVE  Once'
<1>. DEFINE f == Top.func
            into == IF mode = "xray" /\ f \notin Hooks THEN Caller ELSE Nowhere
<1>1. calls' = calls /\ odd \subseteq odd' /\ Once
  BY DEF LogReturn, Missed, CInv
<1>2. CASE ~IsTraced(f) \/ tracing # "on" \/ stack = {}
  BY <1>1, <1>2, UnloggedOnce DEF LogReturn, Missed, WriteOrphan, decoderVars
<1>3. CASE IsTraced(f) /\ tracing = "on" /\ stack # {}
  <2>1. odd' = odd
    BY <1>3 DEF LogReturn
  <2>2. CASE into = Nowhere
    <3>. DEFINE T == IF Named(stack, f) = {} THEN AtBottom(stack) ELSE {}
    <3>1. PopReturned(f)
      BY <1>3, <2>2 DEF LogReturn
    <3>2. stack' \subseteq stack /\ Write(stack \ stack', T) /\ T \in SUBSET stack
      BY <3>1 DEF PopReturned, UpTo, AtBottom
    <3>3. odd' \subseteq {"catch"} => Named(stack, f) # {}
      <4>1. odd' \subseteq {"catch"} => Clear
        BY <2>1 DEF Clear
      <4>2. Clear => Entry(Top) \in Named(stack, f)
        BY <1>3, TopLogged DEF CInv, Named, Entry
      <4>. QED
        BY <4>1, <4>2
    <3>. HIDE DEF T
    <3>4. odd' \subseteq {"catch"} => T = {}
      BY <3>3 DEF T
    <3>. QED
      BY <1>1, <3>2, <3>4, PopsOnce
  <2>3. CASE into # Nowhere
    <3>1. PopReturnedInto(into)
      BY <1>3, <2>3 DEF LogReturn
    <3>2. stack' \subseteq stack /\ Write(stack \ stack', {})
      BY <3>1 DEF PopReturnedInto, UpTo
    <3>. QED
      BY <1>1, <3>2, PopsOnce
  <2>. QED
    BY <2>2, <2>3
<1>. QED
  BY <1>2, <1>3

\* An orphan return is named after its function, or its function's caller is
\* the one that the last return came back to.
LEMMA ReturnNamed ==
  ASSUME IInv, CInv, Depth > 0, LogReturn(Top.func, Caller), ReturnTold
  PROVE  Named1'
<1>. SUFFICES ASSUME odd' \cap {"gap", "jump", "catch"} = {} PROVE ~misnamed'
  BY DEF Named1
<1>. DEFINE f == Top.func
            into == IF mode = "xray" /\ f \notin Hooks THEN Caller ELSE Nowhere
<1>1. odd \cap {"gap", "jump", "catch"} = {} /\ ~misnamed /\ Told
  BY DEF LogReturn, Missed, CInv, Named1, Quiet, Told
<1>2. CASE ~IsTraced(f) \/ tracing # "on" \/ stack # {}
  BY <1>1, <1>2 DEF LogReturn, Missed, decoderVars
<1>3. CASE IsTraced(f) /\ tracing = "on" /\ stack = {}
  <2>1. WriteOrphan(f, into)
    BY <1>3 DEF LogReturn
  <2>2. CASE into = Nowhere
    BY <1>1, <2>1, <2>2 DEF WriteOrphan, Fitting
  <2>3. CASE into # Nowhere
    <3>1. mode = "xray" /\ f \notin Hooks /\ state # "unwinding" /\ f \in Traced
      BY <1>3, <2>3, NamesAssumption DEF ReturnTold, IsTraced
    <3>2. \A i \in 1 .. Depth : frames[i].call = 0
      BY <1>1, <1>3 DEF IInv, Kept
    <3>3. Depth \in 1 .. Depth /\ Innermost(Depth) /\ OnlyCallers
      BY <1>1, <3>1, <3>2, CallNumbers DEF Innermost, OnlyCallers, Top
    <3>4. expecting \in Fitting(f)
      BY <3>3 DEF CInv, Expected, Top
    <3>. QED
      BY <1>1, <2>1, <2>3, <3>4 DEF WriteOrphan
  <2>. QED
    BY <2>2, <2>3
<1>. QED
  BY <1>2, <1>3

LEMMA ReturnExpected ==
  ASSUME IInv, CInv, Depth > 0, LogReturn(Top.func, Caller), Stay(Depth - 1),
         UNCHANGED <<mode, tracing>>, ReturnTold, state' # "unwinding" => state # "unwinding"
  PROVE  Expected'
<1>. DEFINE f == Top.func
<1>0. Depth \in Nat /\ Depth \in 1 .. Depth /\ Depth' = Depth - 1 /\ Top = frames[Depth]
      /\ Top \in Frame
  BY CallNumbers, TopIs DEF Stay, Depth, Top
<1>1. /\ \A i \in 1 .. Depth - 1 : frames'[i].func = frames[i].func /\ frames'[i].call = frames[i].call
      /\ 1 .. Depth' = 1 .. Depth - 1
      /\ \A i \in 1 .. Depth - 1 : frames[i].func \notin Hooks
  BY <1>0 DEF Stay, IInv, HooksOnTop
<1>. SUFFICES ASSUME OnlyCallers', NEW j \in 1 .. Depth - 1, Innermost(j)'
              PROVE  expecting' \in Fitting(frames[j].func)
  BY <1>0, <1>1 DEF Expected, Fitting
<1>2. /\ mode = "xray" /\ odd \cap {"gap", "jump", "catch"} = {} /\ state # "unwinding"
      /\ "gap" \notin odd' /\ \A i \in 1 .. Depth - 1 : frames[i].call = 0
  BY <1>0, <1>1 DEF OnlyCallers, LogReturn, Missed
<1>3. /\ frames[j].func \in Traced
      /\ \A i \in j + 1 .. Depth - 1 : frames[i].func \notin Traced
  <2>1. \A i \in j + 1 .. Depth - 1 : i \in 1 .. Depth - 1
    BY <1>0
  <2>. QED
    BY <1>0, <1>1, <2>1 DEF Innermost
<1>4. CASE tracing = "before"
  BY <1>4 DEF CInv, Quiet, LogReturn, Missed, decoderVars, Fitting
<1>5. CASE tracing # "before" /\ f \in Traced
  <2>1. tracing = "on" /\ f \notin Hooks /\ IsTraced(f)
    BY <1>2, <1>5, NamesAssumption DEF LogReturn, Missed, IsTraced, IInv, TypeOK, NamesAssumption
  <2>2. Caller = frames[Depth - 1].func /\ Depth - 1 \in 1 .. Depth - 1 /\ frames[Depth - 1] \in Frame
    <3>1. Depth # 1 /\ Depth - 1 \in 1 .. Depth /\ Depth - 1 \in 1 .. Depth - 1
      BY <1>0
    <3>. QED
      BY <3>1, TopIs DEF Caller
  <2>3. Caller \in Funcs /\ Caller # Nowhere
    BY <1>1, <2>2, NamesAssumption DEF Frame, NamesAssumption
  <2>4. expecting' = Caller
    BY <1>2, <2>1, <2>3 DEF LogReturn
  <2>5. CASE j = Depth - 1
    BY <2>2, <2>4, <2>5 DEF Fitting
  <2>6. CASE j # Depth - 1
    <3>1. Depth - 1 \in j + 1 .. Depth - 1
      BY <1>0, <2>6
    <3>. QED
      BY <1>3, <2>2, <2>3, <2>4, <3>1 DEF Fitting
  <2>. QED
    BY <2>5, <2>6
<1>6. CASE f \notin Traced
  <2>1. Innermost(j)
    <3>1. \A i \in j + 1 .. Depth : i \in j + 1 .. Depth - 1 \/ i = Depth
      BY <1>0
    <3>. QED
      BY <1>0, <1>3, <1>6, <3>1 DEF Innermost
  <2>2. \A i \in 1 .. Depth : frames[i].func \notin Hooks => frames[i].call = 0
    <3>1. f \notin Hooks => Top.call = 0
      BY <1>0, <1>6 DEF IInv, Contiguous, IsTraced
    <3>2. \A i \in 1 .. Depth : i \in 1 .. Depth - 1 \/ i = Depth
      BY <1>0
    <3>. QED
      BY <1>0, <1>2, <3>1, <3>2
  <2>3. expecting' = expecting
    BY <1>6 DEF LogReturn, Missed, IsTraced, decoderVars
  <2>4. OnlyCallers /\ j \in 1 .. Depth
    BY <1>0, <1>2, <2>2 DEF OnlyCallers
  <2>. QED
    BY <2>1, <2>3, <2>4 DEF CInv, Expected
<1>. QED
  BY <1>4, <1>5, <1>6

LEMMA ReturnedClear ==
  ASSUME IInv, CInv, Depth > 0, LogReturn(Top.func, Caller), Stay(Depth - 1),
         UNCHANGED <<mode, tracing>>, ReturnTold, unwound \subseteq unwound',
         state' # "unwinding" => state # "unwinding" /\ unwound' = unwound
  PROVE  CInv'
<1>1. Quiet'
  <2>1. stack' \subseteq stack
    BY PopsShrink DEF LogReturn, Missed, WriteOrphan, decoderVars
  <2>2. tracing = "before" => UNCHANGED <<calls, decoderVars, odd>>
    BY DEF LogReturn, Missed, decoderVars
  <2>3. odd' \cap {"untraced", "recursion"} = odd \cap {"untraced", "recursion"} /\ odd \subseteq odd'
    BY DEF LogReturn, Missed
  <2>. QED
    BY <2>1, <2>2, <2>3 DEF CInv, Quiet, decoderVars
<1>2. state' # "unwinding" => state # "unwinding"
  OBVIOUS
<1>. QED
  BY <1>1, <1>2, ReturnCleared, ReturnOnce, ReturnNamed, ReturnExpected DEF CInv

------------------------------------------------------------------------------
(* Calls.                                                                   *)

LEMMA CalledClear ==
  ASSUME IInv, CInv, NEW f \in Funcs \cup Hooks, LogCall(f),
         UNCHANGED <<mode, tracing, state, unwound>>,
         f \in Hooks \/ state = "running"
  PROVE  CInv'
<1>. DEFINE logged == IsTraced(f) /\ tracing = "on"
            e == [func |-> f, call |-> calls + 1, returns |-> Returns(f)]
<1>0. /\ Depth \in Nat /\ Depth' = Depth + 1 /\ frames'[Depth + 1].func = f
      /\ \A i \in 1 .. Depth : frames'[i] = frames[i]
      /\ \A i \in 1 .. Depth' : i \in 1 .. Depth \/ i = Depth + 1
      /\ calls \in Nat
  <2>1. Depth \in Nat /\ Depth' = Depth + 1 /\ frames'[Depth'].func = f
        /\ \A i \in 1 .. Depth : frames'[i] = frames[i]
    BY Called, CallNumbers
  <2>2. calls \in Nat
    BY DEF IInv, TypeOK
  <2>. QED
    BY <2>1, <2>2
<1>1. frames'[Depth + 1].call = IF logged THEN calls + 1 ELSE 0
  <2>. DEFINE new == [func |-> f, call |-> IF logged THEN calls + 1 ELSE 0, handling |-> 0]
  <2>1. frames' = Append(frames, new)
    BY DEF LogCall
  <2>. HIDE DEF new
  <2>2. frames'[Depth + 1] = new
    BY <2>1 DEF Depth, IInv, TypeOK
  <2>. QED
    BY <2>2 DEF new
<1>2. logged => /\ calls < MaxCalls /\ calls' = calls + 1 /\ stack' = stack \cup {e}
                /\ UNCHANGED <<expecting, written, misnamed, odd>>
  BY DEF LogCall
<1>3. ~logged => UNCHANGED <<calls, decoderVars>>
  BY DEF LogCall, Missed
<1>4. /\ odd \subseteq odd' /\ odd' \subseteq odd \cup {"gap"}
      /\ ~logged /\ "gap" \notin odd' => ~IsTraced(f) \/ tracing = "before"
      /\ tracing = "before" => odd' = odd
  BY DEF LogCall, Missed, IInv, TypeOK
<1>5. \A x \in stack : x.call \in Nat /\ x.call <= calls
  BY CallNumbers DEF CInv, Once
<1>6. e.call = calls + 1 /\ e.func = f /\ (e.returns => mode = "gcc")
  BY DEF Returns
<1>. HIDE DEF e, logged
<1>7. Quiet'
  <2>1. logged => tracing = "on"
    BY DEF logged
  <2>2. CASE logged
    BY <1>2, <1>6, <2>1, <2>2 DEF CInv, Quiet
  <2>3. CASE ~logged
    BY <1>3, <1>4, <2>3 DEF CInv, Quiet, decoderVars
  <2>. QED
    BY <2>2, <2>3
<1>8. HookLogged'
  <2>. SUFFICES ASSUME "gap" \notin odd', f \in Hooks, frames'[Depth + 1].call = 0 PROVE stack' = {}
    BY <1>0 DEF HookLogged, Top
  <2>1. ~logged
    BY <1>0, <1>1
  <2>2. tracing = "before"
    BY <1>4, <2>1 DEF IsTraced
  <2>. QED
    BY <1>3, <2>1, <2>2 DEF CInv, Quiet, decoderVars
<1>9. Leaving'
  <2>. SUFFICES ASSUME Clear', NEW x \in stack' \ Active'
                PROVE  /\ mode # "gcc" /\ x.func \in unwound
                       /\ \A i \in 1 .. Depth' : frames'[i].func \notin Hooks => frames'[i].call < x.call
    BY DEF Leaving
  <2>1. Clear
    BY <1>4 DEF Clear
  <2>2. Active' = {Entry(frames[i])' : i \in {j \in 1 .. Depth' : frames'[j].call # 0}}
    BY DEF Active
  <2>3. \A i \in 1 .. Depth : Entry(frames[i])' = Entry(frames[i])
    BY <1>0 DEF Entry, Returns
  <2>4. x # e
    <3>1. CASE logged
      <4>1. PICK k \in 1 .. Depth' : k = Depth + 1 /\ frames'[k].call # 0
        BY <1>0, <1>1, <3>1
      <4>2. Entry(frames[k])' = e
        BY <1>0, <1>1, <3>1, <4>1 DEF Entry, Returns, e
      <4>. QED
        BY <2>2, <4>1, <4>2
    <3>2. CASE ~logged
      BY <1>3, <1>5, <1>6, <3>2, <1>0 DEF decoderVars
    <3>. QED
      BY <3>1, <3>2
  <2>5. x \in stack
    BY <1>2, <1>3, <2>4 DEF decoderVars
  <2>6. x \notin Active
    <3>1. ASSUME x \in Active PROVE FALSE
      <4>1. PICK i \in 1 .. Depth : frames[i].call # 0 /\ x = Entry(frames[i])
        BY <3>1 DEF Active
      <4>2. i \in 1 .. Depth' /\ frames'[i].call # 0 /\ x = Entry(frames[i])'
        BY <1>0, <2>3, <4>1
      <4>. QED
        BY <2>2, <4>2
    <3>. QED
      BY <3>1
  <2>7. /\ mode # "gcc" /\ x.func \in unwound
        /\ \A i \in 1 .. Depth : frames[i].func \notin Hooks => frames[i].call < x.call
    BY <2>1, <2>5, <2>6 DEF CInv, Leaving
  <2>8. f \in Hooks
    BY <2>7 DEF CInv, Quiet
  <2>. QED
    BY <1>0, <2>7, <2>8
<1>10. Once'
  <2>1. CASE ~logged
    BY <1>3, <1>4, <2>1, UnloggedOnce DEF CInv, decoderVars
  <2>2. CASE logged
    <3>1. /\ stack' = stack \cup {e} /\ calls' = calls + 1 /\ written' = written /\ odd' = odd
          /\ Once /\ calls + 1 \in Calls
      BY <1>0, <1>2, <2>2, BoundsAssumption DEF CInv, Calls, BoundsAssumption
    <3>2. \A c \in 1 .. calls : OnStack(c)' <=> OnStack(c)
      BY <1>0, <1>6, <3>1 DEF OnStack
    <3>3. \A c : c = calls + 1 => OnStack(c)' /\ written[c] = 0
      BY <1>0, <1>6, <3>1 DEF OnStack, Once
    <3>4. \A c \in 1 .. calls' : c \in 1 .. calls \/ c = calls + 1
      BY <1>0, <3>1
    <3>5. /\ \A x \in stack' : x.call <= calls'
          /\ \A x, y \in stack' : x.call = y.call => x = y
      BY <1>0, <1>5, <1>6, <3>1 DEF Once
    <3>6. \A c \in 1 .. calls' : written'[c] >= 1 \/ OnStack(c)'
      <4>1. ASSUME NEW c \in 1 .. calls PROVE written'[c] >= 1 \/ OnStack(c)'
        BY <3>1, <3>2 DEF Once
      <4>. QED
        BY <3>3, <3>4, <4>1
    <3>7. \A c \in Calls : c > calls' => written'[c] = 0
      BY <1>0, <3>1 DEF Once, Calls
    <3>8. odd' \subseteq {"catch"} =>
            \A c \in 1 .. calls' : written'[c] <= 1 /\ (OnStack(c)' => written'[c] = 0)
      <4>1. ASSUME odd \subseteq {"catch"}, NEW c \in 1 .. calls
            PROVE  written'[c] <= 1 /\ (OnStack(c)' => written'[c] = 0)
        BY <3>1, <3>2, <4>1 DEF Once
      <4>. QED
        BY <3>1, <3>3, <3>4, <4>1
    <3>. QED
      BY <3>5, <3>6, <3>7, <3>8 DEF Once
  <2>. QED
    BY <2>1, <2>2
<1>11. Expected'
  <2>. SUFFICES ASSUME OnlyCallers', NEW j \in 1 .. Depth', Innermost(j)'
                PROVE  expecting' \in Fitting(frames'[j].func)
    BY DEF Expected, Fitting
  <2>1. tracing = "before" => expecting' = Nowhere
    <3>1. tracing = "before" => ~logged
      BY DEF logged
    <3>. QED
      BY <1>3, <3>1 DEF CInv, Quiet, decoderVars
  <2>2. /\ mode = "xray" /\ odd \cap {"gap", "jump", "catch"} = {} /\ state # "unwinding"
        /\ "gap" \notin odd' /\ \A i \in 1 .. Depth' : frames'[i].func \notin Hooks => frames'[i].call = 0
    BY <1>4 DEF OnlyCallers
  <2>3. CASE tracing # "before"
    <3>1. f \notin Traced
      <4>1. ASSUME f \in Traced PROVE FALSE
        <5>1. Depth + 1 \in 1 .. Depth' /\ f \notin Hooks /\ IsTraced(f)
          BY <1>0, <4>1, NamesAssumption DEF NamesAssumption, IsTraced
        <5>2. ~logged
          BY <1>0, <1>1, <2>2, <5>1
        <5>. QED
          BY <1>4, <2>2, <2>3, <5>1, <5>2
      <4>. QED
        BY <4>1
    <3>2. j \in 1 .. Depth
      BY <1>0, <3>1 DEF Innermost
    <3>3. Innermost(j)
      <4>1. \A i \in j + 1 .. Depth : i \in j + 1 .. Depth' /\ i \in 1 .. Depth
        BY <1>0
      <4>. QED
        BY <1>0, <3>2, <4>1 DEF Innermost
    <3>4. OnlyCallers
      <4>1. \A i \in 1 .. Depth : i \in 1 .. Depth'
        BY <1>0
      <4>. QED
        BY <1>0, <2>2, <4>1 DEF OnlyCallers
    <3>5. expecting' = expecting
      BY <1>2, <1>3 DEF decoderVars
    <3>. QED
      BY <1>0, <3>2, <3>3, <3>4, <3>5 DEF CInv, Expected
  <2>. QED
    BY <2>1, <2>3 DEF Fitting
<1>12. Named1'
  BY <1>2, <1>3, <1>4 DEF CInv, Named1, decoderVars
<1>. QED
  BY <1>7, <1>8, <1>9, <1>10, <1>11, <1>12 DEF CInv

------------------------------------------------------------------------------
(* Exceptions, longjmps and the rest.                                       *)

\* Before the trace begins, nothing of the decoder's is at stake.
LEMMA BeforeTrace ==
  ASSUME CInv, Quiet', tracing' = "before", UNCHANGED <<calls, written>>
  PROVE  CInv'
<1>1. HookLogged' /\ Leaving' /\ Named1'
  BY DEF Quiet, HookLogged, Leaving, Named1
<1>2. Expected'
  BY DEF Quiet, Expected, Fitting
<1>3. Once'
  <2>1. stack' = {} /\ calls' = 0 /\ calls = 0 /\ 1 .. calls' = {}
    BY DEF Quiet
  <2>2. \A c \in Calls : c > calls => written'[c] = 0
    BY DEF CInv, Once
  <2>. QED
    BY <2>1, <2>2 DEF Once
<1>. QED
  BY <1>1, <1>2, <1>3 DEF CInv

\* An exception is caught.
LEMMA CatchClear == IInv /\ CInv /\ Catch => CInv'
<1>. SUFFICES ASSUME IInv, CInv, Catch PROVE CInv'
  OBVIOUS
<1>. DEFINE f == Top.func
<1>1. /\ OwnOnTop /\ state = "unwinding" /\ state' = "landed" /\ LogCatch(f)
      /\ unwound' = {} /\ UNCHANGED <<mode, tracing, frames>>
  BY DEF Catch
<1>2. /\ calls' = calls /\ expecting' = expecting /\ misnamed' = misnamed
      /\ odd \subseteq odd' /\ stack' \subseteq stack
      /\ tracing = "before" => odd' = odd /\ UNCHANGED <<stack, written>>
      /\ tracing # "before" => "catch" \in odd'
  BY <1>1, PopsShrink DEF Catch, LogCatch, Odd, decoderVars
<1>3. Depth' = Depth /\ Top' = Top /\ Active' = Active /\ f \notin Hooks
  BY <1>1 DEF Depth, Top, Active, Entry, Returns, OwnOnTop
<1>4. Quiet'
  BY <1>1, <1>2 DEF CInv, Quiet
<1>5. CASE tracing = "before"
  BY <1>1, <1>2, <1>4, <1>5, BeforeTrace
<1>6. CASE tracing # "before"
  <2>1. HookLogged'
    BY <1>3 DEF HookLogged
  <2>2. Expected' /\ Named1'
    BY <1>2, <1>6 DEF Expected, OnlyCallers, Named1
  <2>3. Once'
    <3>1. CASE tracing = "on"
      <4>1. PopCaught(f)
        BY <1>1, <3>1 DEF LogCatch
      <4>2. Write(stack \ stack', {})
        BY <4>1 DEF PopCaught
      <4>. QED
        BY <1>2, <4>2, PopsOnce DEF CInv
    <3>2. CASE tracing # "on"
      BY <1>1, <1>2, <3>2, UnloggedOnce DEF LogCatch, decoderVars, CInv
    <3>. QED
      BY <3>1, <3>2
  <2>4. Leaving'
    <3>. SUFFICES ASSUME Clear', NEW x \in stack' \ Active PROVE FALSE
      BY <1>3 DEF Leaving
    <3>1. Clear /\ x \in stack
      BY <1>2 DEF Clear
    <3>2. /\ mode # "gcc" /\ x.func \in unwound
          /\ \A i \in 1 .. Depth : frames[i].func \notin Hooks => frames[i].call < x.call
      BY <3>1 DEF CInv, Leaving
    <3>3. f \in Traced /\ f \notin unwound /\ tracing = "on"
      BY <1>6, <3>2 DEF Catch, Odd, Clear, IInv, TypeOK
    <3>4. PopCaught(f)
      BY <1>1, <3>3 DEF LogCatch
    <3>5. PICK y \in stack : (y.returns \/ y.func = f) /\ x.call <= y.call
      BY <3>4 DEF PopCaught, UpTo
    <3>6. y.func = f
      BY <3>2, <3>5 DEF CInv, Quiet
    <3>7. y \in Active
      BY <3>1, <3>3, <3>6 DEF CInv, Leaving
    <3>8. PICK i \in 1 .. Depth : y = Entry(frames[i])
      BY <3>7 DEF Active
    <3>9. frames[i].func = f /\ frames[i].call = y.call
      BY <3>6, <3>8 DEF Entry
    <3>. QED
      BY <1>3, <3>1, <3>2, <3>5, <3>9, CallNumbers
  <2>. QED
    BY <1>4, <2>1, <2>2, <2>3, <2>4 DEF CInv
<1>. QED
  BY <1>5, <1>6

\* An exception leaves a function that logs no return then.
LEMMA UnwindClear == IInv /\ CInv /\ Unwind => CInv'
<1>. SUFFICES ASSUME IInv, CInv, Unwind PROVE CInv'
  OBVIOUS
<1>1. /\ state = "unwinding" /\ Depth > 0 /\ Top.func \notin Hooks
      /\ frames' = Below /\ unwound' = unwound \cup {Top.func}
      /\ UNCHANGED <<mode, tracing, state>>
  BY DEF Unwind, OwnOnTop
<1>2. Depth \in Nat /\ Depth - 1 \in 0 .. Depth /\ Depth \in 1 .. Depth /\ Top = frames[Depth]
      /\ \A i \in 1 .. Depth : i \in 1 .. Depth - 1 \/ i = Depth
  BY <1>1, CallNumbers DEF Top
<1>3. Stay(Depth - 1) /\ Depth' = Depth - 1
  BY <1>1, TopIs, BelowStays DEF Below, Stay, Depth
<1>4. CASE mode = "gcc"
  <2>1. LogReturn(Top.func, Caller) /\ ReturnTold
    BY <1>4 DEF Unwind, ReturnTold
  <2>. QED
    BY <1>1, <1>3, <2>1, ReturnedClear
<1>5. CASE mode # "gcc"
  <2>1. UNCHANGED <<calls, decoderVars, odd>>
    BY <1>5 DEF Unwind
  <2>2. Quiet' /\ Expected' /\ Named1'
    BY <1>1, <2>1 DEF CInv, Quiet, decoderVars, Expected, OnlyCallers, Named1
  <2>3. Once'
    BY <2>1, UnloggedOnce DEF CInv, decoderVars
  <2>4. HookLogged'
    <3>1. Depth' > 0 => Top' = frames'[Depth - 1] /\ Depth - 1 \in 1 .. Depth - 1
      BY <1>2, <1>3 DEF Top
    <3>2. \A i \in 1 .. Depth - 1 : frames'[i].func \notin Hooks
      BY <1>3 DEF Stay, IInv, HooksOnTop
    <3>. QED
      BY <3>1, <3>2 DEF HookLogged
  <2>5. Leaving'
    <3>. SUFFICES ASSUME Clear, NEW x \in stack, x \notin Active'
                  PROVE  /\ x.func \in unwound'
                         /\ \A i \in 1 .. Depth - 1 : frames[i].func \notin Hooks => frames[i].call < x.call
      BY <1>1, <1>3, <1>5, <2>1 DEF Leaving, Clear, Stay, decoderVars
    <3>1. CASE x \in Active
      <4>1. PICK k \in 1 .. Depth : frames[k].call # 0 /\ x = Entry(frames[k])
        BY <3>1 DEF Active
      <4>2. k = Depth
        BY <1>1, <1>2, <1>3, <4>1, ActiveThen
      <4>3. x.func = Top.func /\ x.call = Top.call /\ Top.call # 0
        BY <1>2, <4>1, <4>2 DEF Entry
      <4>4. ASSUME NEW i \in 1 .. Depth - 1 PROVE frames[i].call < x.call
        <5>1. i \in 1 .. Depth /\ i < Depth /\ frames[i].call \in Nat /\ Top.call \in Nat
          BY <1>2, CallNumbers
        <5>2. frames[i].call # 0 => frames[i].call < Top.call
          BY <1>2, <4>3, <5>1 DEF IInv, Rising
        <5>. QED
          BY <4>3, <5>1, <5>2
      <4>. QED
        BY <1>1, <4>3, <4>4
    <3>2. CASE x \notin Active
      BY <1>1, <1>2, <3>2 DEF CInv, Leaving
    <3>. QED
      BY <3>1, <3>2
  <2>. QED
    BY <2>2, <2>3, <2>4, <2>5 DEF CInv
<1>. QED
  BY <1>4, <1>5

\* A longjmp, of which the trace tells nothing.
LEMMA LongjmpClear ==
  ASSUME IInv, CInv, NEW k \in Nat, Longjmp(k)
  PROVE  CInv'
<1>1. /\ state = "running" /\ k \in 1 .. Depth - 1 /\ frames' = SubSeq(frames, 1, k)
      /\ Odd({"jump"}) /\ UNCHANGED <<mode, tracing, state, unwound, calls, decoderVars>>
  BY DEF Longjmp
<1>2. odd' = odd \cup (IF tracing = "before" THEN {} ELSE {"jump"})
  BY <1>1 DEF Odd
<1>3. Quiet'
  BY <1>1, <1>2 DEF CInv, Quiet, decoderVars
<1>4. CASE tracing = "before"
  BY <1>1, <1>3, <1>4, BeforeTrace DEF decoderVars
<1>5. CASE tracing # "before"
  <2>1. Leaving' /\ Expected' /\ Named1'
    BY <1>2, <1>5 DEF Leaving, Clear, Expected, OnlyCallers, Named1
  <2>2. Once'
    BY <1>1, <1>2, UnloggedOnce DEF CInv, decoderVars
  <2>3. HookLogged'
    <3>1. Depth \in Nat /\ k + 1 \in 1 .. Depth /\ (k + 1) - 1 = k
      BY <1>1, CallNumbers
    <3>2. Depth' = k /\ \A i \in 1 .. k : frames'[i] = frames[i]
      BY <1>1, <3>1, BelowStays DEF Stay, Depth
    <3>3. k \in 1 .. Depth - 1 /\ k \in 1 .. k /\ Top' = frames[k]
      BY <1>1, <3>1, <3>2 DEF Top
    <3>4. Top'.func \notin Hooks
      BY <3>3 DEF IInv, HooksOnTop
    <3>. QED
      BY <3>4 DEF HookLogged
  <2>. QED
    BY <1>3, <2>1, <2>2, <2>3 DEF CInv
<1>. QED
  BY <1>4, <1>5

\* The trace begins, stops and goes on.
LEMMA TracingClear == IInv /\ CInv /\ (Start \/ Pause \/ Resume \/ UNCHANGED vars) => CInv'
<1>. SUFFICES ASSUME IInv, CInv, Start \/ Pause \/ Resume \/ UNCHANGED vars PROVE CInv'
  OBVIOUS
<1>1. /\ UNCHANGED <<mode, frames, state, unwound, calls, decoderVars, odd>>
      /\ tracing' = "before" => tracing = "before"
  BY DEF Start, Pause, Resume, vars, programVars
<1>2. Quiet' /\ Named1'
  BY <1>1 DEF CInv, Quiet, Named1, decoderVars
<1>3. HookLogged' /\ Leaving'
  BY <1>1 DEF CInv, HookLogged, Leaving, Clear, Active, Entry, Returns, Top, Depth, decoderVars
<1>4. Once'
  BY <1>1, UnloggedOnce DEF CInv, decoderVars
<1>5. Expected'
  BY <1>1 DEF CInv, Expected, OnlyCallers, Innermost, Fitting, Depth, decoderVars
<1>. QED
  BY <1>2, <1>3, <1>4, <1>5 DEF CInv

\* The program's own calls and returns, and the hooks'.
LEMMA CallsClear ==
  ASSUME IInv, CInv,
         (\E f \in Funcs : Call(f)) \/ Return \/ Throw \/ Thrown \/ BeginCatch \/ EndCatch \/ HookReturns
  PROVE  CInv'
<1>1. ASSUME NEW f \in Funcs, Call(f) PROVE CInv'
  BY <1>1, CalledClear DEF Call
<1>2. ASSUME Return PROVE CInv'
  <2>1. /\ Depth > 0 /\ LogReturn(Top.func, Caller) /\ ReturnTold /\ state = "running"
        /\ UNCHANGED <<mode, tracing, state, unwound>>
    BY <1>2 DEF Return, OwnOnTop, ReturnTold
  <2>2. Stay(Depth - 1)
    BY <1>2, <2>1, TopIs, BelowStays DEF Return, Below
  <2>. QED
    BY <2>1, <2>2, ReturnedClear
<1>3. ASSUME NEW h \in Hooks, LogCall(h), UNCHANGED <<mode, tracing, state, unwound>> PROVE CInv'
  BY <1>3, CalledClear
<1>4. ASSUME Thrown PROVE CInv'
  <2>1. /\ Depth > 0 /\ LogReturn(Top.func, Caller) /\ ReturnTold /\ state' = "unwinding"
        /\ UNCHANGED <<mode, tracing, unwound>>
    BY <1>4 DEF Thrown, ReturnTold, Hooks
  <2>2. Stay(Depth - 1)
    BY <1>4, <2>1, TopIs, BelowStays DEF Thrown, Below
  <2>. QED
    BY <2>1, <2>2, ReturnedClear
<1>5. ASSUME HookReturns PROVE CInv'
  <2>1. /\ LogReturn(Top.func, Caller) /\ ReturnTold
        /\ state' = IF state = "landed" THEN "running" ELSE state
        /\ UNCHANGED <<mode, tracing, unwound>>
    BY <1>5 DEF HookReturns, ReturnTold
  <2>2. Stay(Depth - 1) /\ Depth > 0
    BY <1>5, HookReturnStays
  <2>3. state' # "unwinding" => state # "unwinding"
    BY <2>1
  <2>. QED
    BY <2>1, <2>2, <2>3, ReturnedClear
<1>. QED
  BY <1>1, <1>2, <1>3, <1>4, <1>5 DEF Throw, BeginCatch, EndCatch, Hooks

LEMMA ClearInductive == Spec => []CInv
<1>1. Init => CInv
  <2>. SUFFICES ASSUME Init PROVE CInv
    OBVIOUS
  <2>1. Depth = 0 /\ stack = {} /\ calls = 0 /\ odd = {} /\ ~misnamed
    BY DEF Init, Depth
  <2>2. Quiet
    BY <2>1 DEF Quiet, Init
  <2>3. HookLogged /\ Leaving /\ Expected /\ Named1
    BY <2>1 DEF HookLogged, Leaving, Expected, Named1
  <2>4. Once
    BY <2>1 DEF Once, OnStack, Init
  <2>. QED
    BY <2>2, <2>3, <2>4 DEF CInv
<1>2. IInv /\ CInv /\ [Next]_vars => CInv'
  <2>. SUFFICES ASSUME IInv, CInv, [Next]_vars PROVE CInv'
    OBVIOUS
  <2>1. ASSUME NEW k \in 1 .. MaxDepth, Longjmp(k) PROVE CInv'
    BY <2>1, LongjmpClear, BoundsAssumption DEF BoundsAssumption
  <2>. QED
    BY <2>1, CallsClear, UnwindClear, CatchClear, TracingClear DEF Next
<1>. QED
  BY <1>1, <1>2, Inductive, PTL DEF Spec

\* Nothing but the calls under way is on the decoder's stack, and what an
\* exception is leaving in a build that logs no return then: every pop of
\* write_sample_to_json() goes far enough, past what exceptions skipped and
\* past callers whose calls are not in the trace.
THEOREM StackExact == Spec => []NothingElse
<1>1. CInv => NothingElse
  <2>. SUFFICES ASSUME CInv, Clear, mode # "gcc" => state # "unwinding", NEW x \in stack, x \notin Active
                PROVE  FALSE
    BY DEF NothingElse, Clear
  <2>. QED
    BY DEF CInv, Leaving, Quiet
<1>. QED
  BY <1>1, ClearInductive, PTL

\* Before any gap, jump or catch an orphan return is not shown as another
\* function's, also under XRay, where its name is guessed from the return before
\* it: whatever traced, untraced and recursive functions the trace begins in the
\* middle of.
THEOREM OrphansNamed == Spec => []OrphanNamed
<1>1. CInv => OrphanNamed
  BY DEF CInv, Named1, OrphanNamed
<1>. QED
  BY <1>1, ClearInductive, PTL

\* Every call of the trace is shown, and shown once as long as no call's end
\* goes unlogged but by exceptions.
THEOREM CallsShown == Spec => []CallsListed
<1>1. IInv /\ CInv => CallsListed
  <2>. SUFFICES ASSUME IInv, CInv, NEW c \in 1 .. calls
                PROVE  Listed(c) >= 1 /\ (odd \subseteq {"catch"} => Listed(c) = 1)
    BY DEF CallsListed
  <2>1. \A x, y \in stack : x.call = y.call => x = y
    BY DEF CInv, Once
  <2>2. Cardinality({x \in stack : x.call = c}) = IF OnStack(c) THEN 1 ELSE 0
    BY <2>1, TimesOne DEF OnStack
  <2>3. written[c] \in Nat /\ (written[c] >= 1 \/ OnStack(c))
        /\ (odd \subseteq {"catch"} => written[c] <= 1 /\ (OnStack(c) => written[c] = 0))
    BY BoundsAssumption DEF CInv, Once, IInv, TypeOK, Calls, BoundsAssumption
  <2>. QED
    BY <2>2, <2>3 DEF Listed
<1>. QED
  BY <1>1, Inductive, ClearInductive, PTL
==============================================================================
