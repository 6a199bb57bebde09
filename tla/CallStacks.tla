----------------------------- MODULE CallStacks -----------------------------
(***************************************************************************)
(* One thread's calls, returns, exceptions and longjmps; the events that the *)
(* instrumentation logs of them; and the call stack that funtrace2viz makes *)
(* of those events.  The decoder reads the events in their order, after the *)
(* fact: here it reads each when it is logged.                             *)
(*                                                                         *)
(* An entry of the decoder's stack is a call, known by its number in the    *)
(* trace, which stands for its time.  The stack is the set of its entries;   *)
(* the latest call is on top.                                              *)
(***************************************************************************)
EXTENDS Integers, Sequences, FiniteSets

CONSTANTS
  Funcs,     \* the program's functions (their names, without "[clone]")
  Traced,    \* those compiled with instrumentation
  Outside,   \* the caller of the thread's first function
  Nowhere,   \* unknown_symbol()
  MaxDepth,  \* bound: how deep calls nest
  MaxNested, \* bound: how many handlers of a function nest
  MaxCalls   \* bound: how many calls are in the trace

\* What funtrace interposes and logs itself.
Hooks == {"__cxa_throw", "__cxa_begin_catch", "__cxa_end_catch"}

ASSUME NamesAssumption ==
  /\ Traced \subseteq Funcs /\ Hooks \cap Funcs = {}
  /\ Outside \notin Funcs \cup Hooks /\ Nowhere \notin Funcs \cup Hooks
ASSUME BoundsAssumption == MaxDepth \in Nat /\ MaxNested \in Nat /\ MaxCalls \in Nat

VARIABLES
  mode,       \* "gcc" (-finstrument-functions), "pg" (or clang's), "xray"
  tracing,    \* "before" the oldest event left in the buffer, "on", "paused"
  frames,     \* the functions under way, the outermost first
  state,      \* "running", "unwinding", "landed" in a handler
  unwound,    \* the functions that the exception has left so far
  calls,      \* how many calls are in the trace
  stack,      \* the decoder's stack
  expecting,  \* expecting_to_return_into_sym
  written,    \* how often each call was written to the JSON
  misnamed,   \* history: whether an orphan return was shown as another's
  odd         \* history: what happened since that the trace does not tell

programVars == <<mode, frames, state, unwound>>
decoderVars == <<stack, expecting, written, misnamed>>
vars == <<programVars, tracing, calls, decoderVars, odd>>

Calls == 1 .. MaxCalls

Init ==
  /\ mode \in {"gcc", "pg", "xray"}
  /\ tracing = "before"
  /\ frames = <<>> /\ state = "running" /\ unwound = {}
  /\ calls = 0
  /\ stack = {} /\ expecting = Nowhere
  /\ written = [c \in Calls |-> 0]
  /\ misnamed = FALSE
  /\ odd = {}

------------------------------------------------------------------------------
(* The decoder: the loop of write_sample_to_json() over a thread's entries.  *)

\* The entries of S that nothing of S is above, or under.
OnTop(S)    == {x \in S : \A y \in S : y.call <= x.call}
AtBottom(S) == {x \in S : \A y \in S : x.call <= y.call}

\* What is left of S once all that is above each of T is popped.
UpTo(S, T) == {x \in S : \E y \in T : x.call <= y.call}

Named(S, f) == {x \in S : x.func = f}

\* What is popped is written, what is in again once more.
Write(popped, again) ==
  written' = [c \in Calls |-> written[c] + Cardinality({x \in popped : x.call = c})
                                         + Cardinality({x \in again : x.call = c})]

\* A return of f pops up to its latest call.  When there is none, all is popped
\* and the last one written twice.
PopReturned(f) ==
  LET called == Named(stack, f)
      rest == UpTo(stack, called) \ OnTop(called)
  IN  /\ stack' = rest
      /\ Write(stack \ rest, IF called = {} THEN AtBottom(stack) ELSE {})

\* A mutant of PopReturnedInto: it looks for the caller in vain, too.
PopAllReturned(f) ==
  LET rest == UpTo(stack \ OnTop(stack), Named(stack \ OnTop(stack), f))
  IN  stack' = rest /\ Write(stack \ rest, {})

\* A return into f pops the latest call, and up to f's when f has one.
PopReturnedInto(f) ==
  LET below == stack \ OnTop(stack)
      rest == IF Named(below, f) = {} THEN below ELSE UpTo(below, Named(below, f))
  IN  stack' = rest /\ Write(stack \ rest, {})

\* Mutants of PopCaught: it pops one entry at most; it forgets to write.
PopOneCaught(f) ==
  LET rest == IF \E x \in OnTop(stack) : x.returns \/ x.func = f THEN stack
                                                                 ELSE stack \ OnTop(stack)
  IN  stack' = rest /\ Write(stack \ rest, {})
PopCaughtUnwritten(f) ==
  /\ stack' = UpTo(stack, {x \in stack : x.returns \/ x.func = f})
  /\ UNCHANGED written

\* A catch event of f pops up to f's latest call or to one whose function would
\* have logged its return.
PopCaught(f) ==
  LET rest == UpTo(stack, {x \in stack : x.returns \/ x.func = f})
  IN  stack' = rest /\ Write(stack \ rest, {})

\* What a traced function's return may be shown as: not as another's.
Fitting(func) == {func, Nowhere} \cup (Funcs \ Traced)

\* A mutant of WriteOrphan: a return into a function is taken for one of it.
NameInto(func, into) ==
  /\ misnamed' = (misnamed \/ (IF into = Nowhere THEN func ELSE into) \notin Fitting(func))
  /\ UNCHANGED <<stack, written>>

\* A return on an empty stack.  The event of a return into a function does not
\* say of which: it is taken for the one last returned into.
WriteOrphan(func, into) ==
  /\ misnamed' = (misnamed \/ (IF into = Nowhere THEN func ELSE expecting) \notin Fitting(func))
  /\ UNCHANGED <<stack, written>>

------------------------------------------------------------------------------
(* The events: trace().                                                     *)

Missed == /\ odd' = odd \cup (IF tracing = "paused" THEN {"gap"} ELSE {})
          /\ UNCHANGED <<calls, decoderVars>>

\* What the trace does not tell matters once it has begun.
Odd(what) == odd' = odd \cup (IF tracing = "before" THEN {} ELSE what)

\* Whose calls are logged with CALL_RETURNING_UPON_THROW.
Returns(f) == mode = "gcc" /\ f \notin Hooks

IsTraced(f) == f \in Traced \cup Hooks

\* A call of f, which gets a frame.
LogCall(f) ==
  IF ~IsTraced(f) \/ tracing # "on"
    THEN /\ frames' = Append(frames, [func |-> f, call |-> 0, handling |-> 0])
         /\ IF IsTraced(f) THEN Missed ELSE UNCHANGED <<calls, decoderVars, odd>>
    ELSE /\ calls < MaxCalls
         /\ calls' = calls + 1
         /\ frames' = Append(frames, [func |-> f, call |-> calls + 1, handling |-> 0])
         /\ stack' = stack \cup {[func |-> f, call |-> calls + 1, returns |-> Returns(f)]}
         /\ UNCHANGED <<expecting, written, misnamed, odd>>

\* A return of f into a function of the program: under XRay, only the latter is
\* logged, but for the hooks.
LogReturn(f, caller) ==
  LET into == IF mode = "xray" /\ f \notin Hooks THEN caller ELSE Nowhere IN
  CASE ~IsTraced(f) -> UNCHANGED <<calls, decoderVars, odd>>
    [] IsTraced(f) /\ tracing # "on" -> Missed
    [] OTHER -> /\ IF stack = {}
                     THEN WriteOrphan(f, into)
                     ELSE /\ IF into = Nowhere THEN PopReturned(f) ELSE PopReturnedInto(into)
                          /\ UNCHANGED misnamed
                /\ expecting' = IF into = Nowhere THEN expecting ELSE into
                /\ UNCHANGED <<calls, odd>>

LogCatch(f) ==
  IF tracing # "on" THEN UNCHANGED <<calls, decoderVars>>
                    ELSE PopCaught(f) /\ UNCHANGED <<calls, expecting, misnamed>>

------------------------------------------------------------------------------
(* The program.                                                             *)

Depth == Len(frames)

Top == frames[Depth]

Caller == IF Depth = 1 THEN Outside ELSE frames[Depth - 1].func

Below == SubSeq(frames, 1, Depth - 1)

\* The program's own function is on top.
OwnOnTop == Depth > 0 /\ Top.func \notin Hooks

Call(f) ==
  /\ state = "running" /\ (Depth > 0 => OwnOnTop)
  /\ Depth < MaxDepth
  /\ LogCall(f)
  /\ UNCHANGED <<mode, tracing, state, unwound>>

\* A tail call is a return and a call by the caller.
Return ==
  /\ state = "running" /\ OwnOnTop /\ Top.handling = 0
  /\ frames' = Below
  /\ LogReturn(Top.func, Caller)
  /\ UNCHANGED <<mode, tracing, state, unwound>>

\* longjmp(), to a function that is still under way, logs nothing.
Longjmp(k) ==
  /\ state = "running" /\ OwnOnTop
  /\ k \in 1 .. Depth - 1
  /\ frames' = SubSeq(frames, 1, k)
  /\ Odd({"jump"})
  /\ UNCHANGED <<mode, tracing, state, unwound, calls, decoderVars>>

\* __cxa_throw(): a call and a return are logged before the unwinding.
Throw ==
  /\ state = "running" /\ OwnOnTop
  /\ LogCall("__cxa_throw")
  /\ UNCHANGED <<mode, tracing, state, unwound>>

Thrown ==
  /\ Depth > 0 /\ Top.func = "__cxa_throw"
  /\ frames' = Below
  /\ LogReturn(Top.func, Caller)
  /\ state' = "unwinding"
  /\ UNCHANGED <<mode, tracing, unwound>>

\* The exception leaves a function, whose cleanup logs a return in a gcc build.
Unwind ==
  /\ state = "unwinding" /\ OwnOnTop /\ Depth > 1 /\ Top.handling = 0
  /\ frames' = Below
  /\ IF mode = "gcc" THEN LogReturn(Top.func, Caller)
                     ELSE UNCHANGED <<calls, decoderVars, odd>>
  /\ unwound' = unwound \cup {Top.func}
  /\ UNCHANGED <<mode, tracing, state>>

\* __cxa_begin_catch(): the catch event, a call and a return.  The trace does
\* not tell a catcher that is not traced, nor which call of a recursive one.
Catch ==
  /\ state = "unwinding" /\ OwnOnTop /\ Top.handling < MaxNested
  /\ state' = "landed"
  /\ LogCatch(Top.func)
  /\ Odd({"catch"} \cup (IF mode # "gcc" /\ Top.func \notin Traced THEN {"untraced"} ELSE {})
                   \cup (IF mode # "gcc" /\ Top.func \in unwound THEN {"recursion"} ELSE {})
                   \cup (IF tracing = "paused" THEN {"gap"} ELSE {}))
  /\ unwound' = {}
  /\ UNCHANGED <<mode, tracing, frames>>

BeginCatch ==
  /\ state = "landed" /\ OwnOnTop
  /\ LogCall("__cxa_begin_catch")
  /\ UNCHANGED <<mode, tracing, state, unwound>>

\* __cxa_end_catch(): at the handler's end, also when another exception leaves it.
EndCatch ==
  /\ state # "landed" /\ OwnOnTop /\ Top.handling > 0
  /\ LogCall("__cxa_end_catch")
  /\ UNCHANGED <<mode, tracing, state, unwound>>

\* Either returns to the handler's function.
HookReturns ==
  /\ Depth > 1 /\ Top.func \in Hooks \ {"__cxa_throw"}
  /\ LET more == IF Top.func = "__cxa_begin_catch" THEN 1 ELSE -1
     IN  frames' = [Below EXCEPT ![Depth - 1].handling = @ + more]
  /\ state' = IF state = "landed" THEN "running" ELSE state
  /\ LogReturn(Top.func, Caller)
  /\ UNCHANGED <<mode, tracing, unwound>>

\* The buffer's oldest event comes next.
Start == /\ tracing = "before" /\ tracing' = "on"
         /\ UNCHANGED <<programVars, calls, decoderVars, odd>>

\* pause_tracing() and resume_tracing(), as every snapshot calls them.
Pause  == /\ tracing = "on" /\ tracing' = "paused"
          /\ UNCHANGED <<programVars, calls, decoderVars, odd>>
Resume == /\ tracing = "paused" /\ tracing' = "on"
          /\ UNCHANGED <<programVars, calls, decoderVars, odd>>

Next ==
  \/ \E f \in Funcs : Call(f)
  \/ Return
  \/ \E k \in 1 .. MaxDepth : Longjmp(k)
  \/ Throw \/ Thrown \/ Unwind \/ Catch \/ BeginCatch \/ EndCatch \/ HookReturns
  \/ Start \/ Pause \/ Resume

Spec == Init /\ [][Next]_vars

------------------------------------------------------------------------------
(* What is promised.                                                        *)

Frame == [func : Funcs \cup Hooks, call : 0 .. MaxCalls, handling : 0 .. MaxNested]

Oddities == {"gap", "jump", "catch", "untraced", "recursion"}

\* Every variable stays in the set of values the code can give it.
TypeOK ==
  /\ mode \in {"gcc", "pg", "xray"}
  /\ tracing \in {"before", "on", "paused"}
  /\ frames \in Seq(Frame)
  /\ state \in {"running", "unwinding", "landed"}
  /\ unwound \subseteq Funcs
  /\ calls \in 0 .. MaxCalls
  /\ stack \subseteq [func : Traced \cup Hooks, call : Calls, returns : BOOLEAN]
  /\ expecting \in Funcs \cup Hooks \cup {Nowhere, Outside}
  /\ written \in [Calls -> Nat]
  /\ misnamed \in BOOLEAN
  /\ odd \subseteq Oddities

\* The decoder's entry of a frame's call.
Entry(frame) == [func |-> frame.func, call |-> frame.call, returns |-> Returns(frame.func)]

Active == {Entry(frames[i]) : i \in {j \in 1 .. Depth : frames[j].call # 0}}

\* A call that is in the trace is on the decoder's stack as long as it is under
\* way - in spite of longjmps, exceptions and recursion, and of callers that are
\* not traced or whose call is not in the trace any more - unless events are
\* missing or the catcher of an exception was not traced (README.md, line 335).
ActiveKept == odd \cap {"gap", "untraced"} = {} => Active \subseteq stack

\* Nothing else is on it, but what an exception is leaving, unless a longjmp or
\* the catching by a recursive function cannot be seen in the trace.
NothingElse ==
  /\ odd \cap {"gap", "untraced", "jump", "recursion"} = {}
  /\ mode # "gcc" => state # "unwinding"
  => stack \subseteq Active

\* "an orphan return - the call wasn't in the trace" (main.rs, line 403): it is
\* shown as a return of the function that returned, or - under XRay - of an
\* unknown or an untraced one, as long as no event is missing, no longjmp()
\* and no catch came before: after those it can be given another's name.
OrphanNamed ==
  odd \cap {"gap", "jump", "catch"} = {} => ~misnamed

\* How often a call is in the JSON when the trace ends here: what is still on
\* the stack is written with a fake return.
Listed(c) == written[c] + Cardinality({x \in stack : x.call = c})

\* Every call of the trace is shown, and shown once as long as the trace tells
\* what happens.
CallsListed ==
  \A c \in 1 .. calls : Listed(c) >= 1 /\ (odd \subseteq {"catch"} => Listed(c) = 1)

\* Every call of the trace is shown once: funtrace2viz "defends" against "a
\* return without a call or a call without a return" (README.md, line 349).
ListedOnce == \A c \in 1 .. calls : Listed(c) = 1

\* Orphan returns are named as they are after exceptions, too: "XRay
\* instrumentation loses the address of the first orphan return" (tests.py,
\* line 221) only.
OrphanNamedOnceCaught ==
  odd \cap {"gap", "jump"} = {} => ~misnamed
=============================================================================
