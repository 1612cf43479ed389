------------------------------ MODULE EvalRun -------------------------------
(***************************************************************************)
(* One evaluation: Eval or EvalExports on top of runTop, the activations   *)
(* of runFunction they nest, and the cancellation of their context, which  *)
(* reaches the evaluator through a goroutine of its own.                   *)
(*                                                                         *)
(* The code a document runs is abstracted to what control sees of it: an   *)
(* activation runs at most Work instructions, then repeats a loop, as      *)
(* often as it likes, or returns.  An instruction may call a closure, or a *)
(* builtin that applies a callback to each of a few elements.              *)
(***************************************************************************)
EXTENDS Integers, Sequences, SequencesExt

CONSTANTS
  Documents,     \* the documents evaluated: whether they parse
  Libraries,     \* the libraries evaluated: whether they parse
  MaxCallDepth,  \* maxCallDepth: closure calls that may nest
  Work,          \* bound: instructions from one loop back edge to the next
  MaxNest,       \* bound: activations nested, callbacks included
  MaxNodes       \* bound: document nodes a show rule transforms

ASSUME EvalRunAssumption ==
  /\ Documents \subseteq BOOLEAN /\ Libraries \subseteq BOOLEAN
  /\ MaxCallDepth \in Nat \ {0} /\ MaxNest \in Nat \ {0}
  /\ Work \in Nat /\ MaxNodes \in Nat

Input(kind, parses) == [kind |-> kind, parses |-> parses]
Inputs ==
  {Input("document", parses) : parses \in Documents}
    \cup {Input("exports", parses) : parses \in Libraries}

VARIABLES
  input,      \* a document (Eval) or a library (EvalExports), and if it parses
  phase,      \* where the evaluating goroutine is
  cancelled,  \* the host cancelled the context
  watch,      \* the context.AfterFunc registration and its goroutine
  stopped,    \* session.stopped
  halted,     \* session.halted
  frames,     \* the activations in progress, outermost first
  stack,      \* session.stack: for each entry, the activation it was pushed for
  nodes,      \* nodes the realization has still to transform
  outcome,    \* what the evaluation returned, "none" before
  cut         \* history: some activation was unwound before its end

ctxVars == <<cancelled, watch, stopped>>
vars == <<input, phase, ctxVars, halted, frames, stack, nodes, outcome, cut>>

Init ==
  /\ input \in Inputs
  /\ phase = "start"
  /\ cancelled \in BOOLEAN
  /\ watch = "off" /\ stopped = FALSE /\ halted = FALSE
  /\ frames = <<>> /\ stack = <<>>
  /\ nodes \in IF input.kind = "document" /\ input.parses THEN 0 .. MaxNodes ELSE {0}
  /\ outcome = "none" /\ cut = FALSE

-----------------------------------------------------------------------------
(* The context.                                                            *)

\* The host cancels; a registered callback is started on its own goroutine.
Cancel ==
  /\ ~cancelled /\ cancelled' = TRUE
  /\ watch' = IF watch = "registered" THEN "started" ELSE watch
  /\ UNCHANGED <<input, phase, stopped, halted, frames, stack, nodes, outcome, cut>>

\* That goroutine runs, however long after.
SetStopped ==
  /\ watch = "started" /\ watch' = "done"
  /\ stopped' = TRUE
  /\ UNCHANGED <<input, phase, cancelled, halted, frames, stack, nodes, outcome, cut>>

-----------------------------------------------------------------------------
(* runTop.                                                                 *)

Return(result) == phase' = "returned" /\ outcome' = result

\* Eval goes on to realize what ran; EvalExports takes the exports out of it.
AfterTop ==
  IF input.kind = "document" THEN phase' = "realizing" /\ UNCHANGED outcome
                             ELSE Return("exports")

\* A module that does not parse is not run: none stands for what it made.  Eval
\* realizes that to an empty document, and EvalExports, which finds neither an
\* error nor the pair of exports and body in it, panics.
ReportParseErrors ==
  /\ phase = "start" /\ ~input.parses
  /\ IF input.kind = "document" THEN phase' = "realizing" /\ UNCHANGED outcome
                                ELSE Return("panic")
  /\ UNCHANGED <<input, ctxVars, halted, frames, stack, nodes, cut>>

CheckContext ==
  /\ phase = "start" /\ input.parses
  /\ IF cancelled THEN Return("cause") ELSE phase' = "register" /\ UNCHANGED outcome
  /\ UNCHANGED <<input, ctxVars, halted, frames, stack, nodes, cut>>

\* Variant: the callback is started, not registered.
RegisterStarted ==
  /\ phase = "register" /\ phase' = "enter"
  /\ watch' = "started"
  /\ UNCHANGED <<input, cancelled, stopped, halted, frames, stack, nodes, outcome, cut>>

\* AfterFunc on a context cancelled in the meantime starts at once.
Register ==
  /\ phase = "register" /\ phase' = "enter"
  /\ watch' = IF cancelled THEN "started" ELSE "registered"
  /\ UNCHANGED <<input, cancelled, stopped, halted, frames, stack, nodes, outcome, cut>>

\* The deferred stop function: no effect on a callback that has started.
Deregister == watch' = IF watch = "registered" THEN "off" ELSE watch

\* runFunction has returned from the top-level function.
FinishTop ==
  /\ phase = "running" /\ frames = <<>>
  /\ IF halted THEN Return("cause") ELSE AfterTop
  /\ Deregister
  /\ UNCHANGED <<input, cancelled, stopped, halted, frames, stack, nodes, cut>>

-----------------------------------------------------------------------------
(* runFunction and the calls it makes.                                     *)

Frame(kind, counted) == [kind |-> kind, counted |-> counted, left |-> Work]
Top == Last(frames)
In(kind) == frames # <<>> /\ Top.kind = kind

(***************************************************************************)
(* runFunction's entry, on top of the activations below.  If stopped is    *)
(* set it unwinds at once, and evalCall's deferred pop takes back what it  *)
(* had pushed.                                                             *)
(***************************************************************************)
Activate(below, counted) ==
  IF stopped
  THEN /\ halted' = TRUE /\ cut' = TRUE
       /\ frames' = below /\ UNCHANGED stack
  ELSE /\ frames' = Append(below, Frame("closure", counted))
       /\ stack' = IF counted THEN Append(stack, Len(below) + 1) ELSE stack
       /\ UNCHANGED <<halted, cut>>

EnterTop ==
  /\ phase = "enter" /\ phase' = "running"
  /\ Activate(<<>>, FALSE)
  /\ UNCHANGED <<input, ctxVars, nodes, outcome>>

Evaluating == phase \in {"running", "realizing"}

\* The activations once the running one has spent an instruction, or a builtin
\* an element.
Spent == [frames EXCEPT ![Len(frames)].left = @ - 1]

\* Variant: nothing bounds the elements.
CanSpendAlways(kind) == Evaluating /\ In(kind)

CanSpend(kind) == Evaluating /\ In(kind) /\ Top.left > 0

\* Room for n more activations; a builtin needs one for its callback as well.
Room(n) == Len(frames) + n <= MaxNest

\* evalCall on a closure.
CallClosure ==
  /\ CanSpend("closure") /\ Room(1)
  /\ Len(stack) < MaxCallDepth
  /\ Activate(Spent, TRUE)
  /\ UNCHANGED <<input, phase, ctxVars, nodes, outcome>>

\* Any other instruction, a call that is nested too deep among them: it leaves
\* an error and no activation.
Execute ==
  /\ CanSpend("closure")
  /\ frames' = Spent
  /\ UNCHANGED <<input, phase, ctxVars, halted, stack, nodes, outcome, cut>>

\* evalCall on a builtin that takes a callback: nothing is checked or pushed.
CallBuiltin ==
  /\ CanSpend("closure") /\ Room(2)
  /\ frames' = Append(Spent, Frame("builtin", FALSE))
  /\ UNCHANGED <<input, phase, ctxVars, halted, stack, nodes, outcome, cut>>

\* applyCallback: the builtin's next element.
ApplyCallback ==
  /\ CanSpend("builtin")
  /\ Activate(Spent, FALSE)
  /\ UNCHANGED <<input, phase, ctxVars, nodes, outcome>>

\* Variant: an unwinding activation leaves its entry on the stack.
PopUnlessHalted ==
  /\ frames' = Front(frames)
  /\ stack' = IF Top.counted /\ ~stopped THEN Front(stack) ELSE stack

\* The innermost activation returns, and evalCall's deferred pop runs.
Pop ==
  /\ frames' = Front(frames)
  /\ stack' = IF Top.counted THEN Front(stack) ELSE stack

\* Variant: the back edge does not look at stopped.
LoopAlways ==
  /\ Evaluating /\ In("closure")
  /\ frames' = [frames EXCEPT ![Len(frames)].left = Work]
  /\ UNCHANGED <<halted, cut, stack>>
  /\ UNCHANGED <<input, phase, ctxVars, nodes, outcome>>

\* Variant: an activation unwinds without recording that it did.
LoopUnnoticed ==
  /\ Evaluating /\ In("closure")
  /\ IF stopped
     THEN cut' = TRUE /\ Pop /\ UNCHANGED halted
     ELSE /\ frames' = [frames EXCEPT ![Len(frames)].left = Work]
          /\ UNCHANGED <<halted, cut, stack>>
  /\ UNCHANGED <<input, phase, ctxVars, nodes, outcome>>

\* A loop's back edge.
Loop ==
  /\ Evaluating /\ In("closure")
  /\ IF stopped
     THEN halted' = TRUE /\ cut' = TRUE /\ Pop
     ELSE /\ frames' = [frames EXCEPT ![Len(frames)].left = Work]
          /\ UNCHANGED <<halted, cut, stack>>
  /\ UNCHANGED <<input, phase, ctxVars, nodes, outcome>>

\* A return.  A builtin may leave elements out, after an error for one.
ReturnFrom ==
  /\ Evaluating /\ frames # <<>>
  /\ Pop
  /\ UNCHANGED <<input, phase, ctxVars, halted, nodes, outcome, cut>>

-----------------------------------------------------------------------------
(* Realization.                                                            *)

\* callTransform: a show rule's closure is applied to a node.
CallTransform ==
  /\ phase = "realizing" /\ frames = <<>>
  /\ nodes > 0 /\ nodes' = nodes - 1
  /\ Activate(<<>>, FALSE)
  /\ UNCHANGED <<input, phase, ctxVars, outcome>>

FinishRealizing ==
  /\ phase = "realizing" /\ frames = <<>> /\ nodes = 0
  /\ Return("document")
  /\ UNCHANGED <<input, ctxVars, halted, frames, stack, nodes, cut>>

-----------------------------------------------------------------------------
Evaluate ==
  \/ ReportParseErrors \/ CheckContext \/ Register \/ EnterTop \/ FinishTop
  \/ CallClosure \/ Execute \/ CallBuiltin \/ ApplyCallback \/ Loop \/ ReturnFrom
  \/ CallTransform \/ FinishRealizing

Next == Cancel \/ SetStopped \/ Evaluate

\* The evaluating goroutine and a started callback are scheduled; nobody has to
\* cancel.
Fairness == WF_vars(Evaluate) /\ WF_vars(SetStopped)

Spec == Init /\ [][Next]_vars /\ Fairness

-----------------------------------------------------------------------------
(* Properties.                                                             *)

\* The type of every variable.
TypeOK ==
  /\ input \in Inputs
  /\ phase \in {"start", "register", "enter", "running", "realizing", "returned"}
  /\ cancelled \in BOOLEAN /\ stopped \in BOOLEAN
  /\ halted \in BOOLEAN /\ cut \in BOOLEAN
  /\ watch \in {"off", "registered", "started", "done"}
  /\ frames \in Seq([kind : {"closure", "builtin"}, counted : BOOLEAN, left : 0 .. Work])
  /\ stack \in Seq(Nat)
  /\ nodes \in 0 .. MaxNodes
  /\ outcome \in {"none", "document", "exports", "cause", "panic"}

\* st lists the counted activations among fs, outermost first.
Mirrors(fs, st) ==
  /\ \A k \in DOMAIN st : st[k] \in DOMAIN fs /\ fs[st[k]].counted
  /\ \A j, k \in DOMAIN st : j < k => st[j] < st[k]
  /\ \A i \in DOMAIN fs : fs[i].counted => \E k \in DOMAIN st : st[k] = i

\* session.stack holds exactly the closure calls in progress, outermost first,
\* through halts, callbacks and calls that were refused: it bounds the depth,
\* and a diagnostic's trace is read from it.
StackMirrorsCalls == Mirrors(frames, stack) /\ Len(stack) <= MaxCallDepth

\* An evaluation ends once, and with the context's cause only if the context
\* was cancelled: otherwise the host gets neither a result nor an error.
Promise == INSTANCE Evaluation
KeepsPromise == Promise!Spec

\* Exports are handed out only if every activation behind them ran to its end:
\* the cancellation that cuts one short is always reported.
ExportsAreWhole == outcome = "exports" => ~cut

\* A cancellation while the module runs ends the run, whatever loops and calls
\* it is in (Eval, eval.go:79-83).
CancelEndsRun == (cancelled /\ phase = "running") ~> (phase # "running")
=============================================================================
