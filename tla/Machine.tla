------------------------------ MODULE Machine ------------------------------
(***************************************************************************)
(* The evaluator running a module: a call has a function, a place in it    *)
(* and a slot for each of its Refs; an instruction reads the slots of its  *)
(* operands and fills its own.  An operand that is an error is handed on,  *)
(* so that a mistake is reported once and the rest still runs.             *)
(*                                                                         *)
(* Messages are kinds of messages, and a message is reported once however  *)
(* often it arises; errorSeq counts every time.                            *)
(***************************************************************************)
EXTENDS Lowering

CONSTANT MaxCallDepth \* calls of closures in progress

ASSUME MaxCallDepthAssumption == MaxCallDepth \in Nat

VARIABLES
  module,   \* what runs: its functions and constants, the document's last
  calls,    \* the calls in progress, innermost last
  heap,     \* the accumulators of loops, which joins extend in place
  errors,   \* the messages reported
  errorSeq, \* how many errors arose
  result    \* what the document gave, as <<value>>

machine == <<module, calls, heap, errors, errorSeq, result>>

FunctionValue(fn, captures) == Value("function", [fn |-> fn, captures |-> captures])

-----------------------------------------------------------------------------
(* The current instruction.                                                *)

Running == calls # <<>>
Top == Last(calls)
CodeOf(call) == module.funcs[call.fn].blocks[call.block].code
TermOf(call) == module.funcs[call.fn].blocks[call.block].term
AtEnd == Top.index > Len(CodeOf(Top))
Item == CodeOf(Top)[Top.index]

GetIn(slots, r) ==
  IF r = NoRef THEN None ELSE IF IsModConst(r) THEN module.consts[NoRef - r] ELSE slots[r]
Get(r) == GetIn(Top.slots, r)
Inputs == [i \in DOMAIN Item.args |-> Get(Item.args[i])]

WithTop(call) == [calls EXCEPT ![Len(calls)] = call]
Filled(call, r, v) == IF r = NoRef THEN call ELSE [call EXCEPT !.slots = (r :> v) @@ @]
Past(call, r, v) == [Filled(call, r, v) EXCEPT !.index = @ + 1]

Propagates(op) ==
  op \notin {"ContentResult", "CodeJoin", "JoinAdd", "MakeArray", "MakeDict", "ErrorSince"}
Poisoned == Propagates(Item.op) /\ \E i \in DOMAIN Inputs : IsError(Inputs[i])

Step(ops) == Running /\ ~AtEnd /\ Item.op \in ops /\ ~Poisoned

Report(msgs) == errors' = errors \cup msgs /\ errorSeq' = errorSeq + Cardinality(msgs)
Yield(v) ==
  /\ calls' = WithTop(Past(Top, Item.res, v))
  /\ UNCHANGED <<module, heap, errors, errorSeq, result>>
Settle(outcome) ==
  /\ calls' = WithTop(Past(Top, Item.res, outcome.value))
  /\ Report(IF outcome.ok THEN {} ELSE {outcome.msg})
  /\ UNCHANGED <<module, heap, result>>

HandOn ==
  /\ Running /\ ~AtEnd /\ Poisoned
  /\ Yield(ErrorValue)

Constant == Step({"Const"}) /\ Yield(Item.data.value)
UnaryStep == Step({"Unary"}) /\ Settle(OutcomeOr(UnaryOp(Item.data.op, Inputs[1]), Item.data.op))
BinaryStep == Step({"Binary"}) /\ Settle(Compute(Item.data.op, Inputs[1], Inputs[2]))
ErrorStep == Step({"Error"}) /\ Settle(Bad(Item.data.msg))

MakeArrayStep ==
  /\ Step({"MakeArray"})
  /\ Settle(IF Spreadable(Inputs, Item.data.spreads, "array")
            THEN Good(ArrayOf(Inputs, Item.data.spreads)) ELSE Bad("spread"))
MakeDictStep ==
  /\ Step({"MakeDict"})
  /\ Settle(IF Spreadable(Inputs, Item.data.spreads, "dictionary")
            THEN Good(DictOf(Inputs, Item.data.spreads, Item.data.keys)) ELSE Bad("spread"))

DestructStep ==
  \/ Step({"DestructArray"}) /\ Settle(DestructArray(Inputs[1], Item.data))
  \/ Step({"ArrayElem"}) /\ Settle(ArrayElem(Inputs[1], Item.data))
  \/ Step({"ArraySlice"}) /\ Settle(ArraySlice(Inputs[1], Item.data))
  \/ Step({"DestructDict"}) /\ Settle(DestructDict(Inputs[1]))
  \/ Step({"DictField"}) /\ Settle(DictField(Inputs[1], Item.data))
  \/ Step({"DictRest"}) /\ Settle(DictRest(Inputs[1], Item.data))

\* Iterators live beside the slots, under the Ref that opened them.
IterOpenStep ==
  LET items == Iterated(Inputs[1], Item.data.destructuring)
  IN  /\ Step({"IterOpen"})
      /\ calls' = WithTop([Past(Top, Item.res, IF items.ok THEN None ELSE ErrorValue) EXCEPT
                             !.iters = IF items.ok
                                       THEN (Item.res :> [items |-> items.value.v, next |-> 1]) @@ @
                                       ELSE @])
      /\ Report(IF items.ok THEN {} ELSE {items.msg})
      /\ UNCHANGED <<module, heap, result>>
IterHasNextStep ==
  LET iter == Top.iters[Item.args[1]]
  IN  Step({"IterHasNext"}) /\ Yield(Bool(iter.next <= Len(iter.items)))
IterAdvanceStep ==
  LET iter == Top.iters[Item.args[1]]
  IN  /\ Step({"IterAdvance"})
      /\ calls' = WithTop([Past(Top, Item.res, iter.items[iter.next]) EXCEPT
                             !.iters[Item.args[1]].next = @ + 1])
      /\ UNCHANGED <<module, heap, errors, errorSeq, result>>

ContentResultStep == Step({"ContentResult"}) /\ Yield(ContentOf(Inputs))
CodeJoinStep == Step({"CodeJoin"}) /\ Settle(JoinOutcome(Inputs, FALSE))

Accumulator(i) == Value("accumulator", i)
JoinBeginStep ==
  /\ Step({"JoinBegin"})
  /\ heap' = Append(heap, <<>>)
  /\ calls' = WithTop(Past(Top, Item.res, Accumulator(Len(heap) + 1)))
  /\ UNCHANGED <<module, errors, errorSeq, result>>
JoinAddStep ==
  /\ Step({"JoinAdd"})
  /\ heap' = [heap EXCEPT ![Inputs[1].v] = Append(@, Inputs[2])]
  /\ calls' = WithTop(Past(Top, Item.res, Inputs[1]))
  /\ UNCHANGED <<module, errors, errorSeq, result>>
JoinResultStep == Step({"JoinResult"}) /\ Settle(JoinOutcome(heap[Inputs[1].v], TRUE))

ErrorMarkStep == Step({"ErrorMark"}) /\ Yield(Integer(errorSeq))
ErrorSinceStep == Step({"ErrorSince"}) /\ Yield(Bool(errorSeq # Inputs[1].v))

\* A warning, which is no error.
DiscardCheckStep ==
  /\ Step({"DiscardCheck"})
  /\ calls' = WithTop(Past(Top, NoRef, None))
  /\ errors' = IF Inputs[1].type = "content" THEN errors \cup {"discarded"} ELSE errors
  /\ UNCHANGED <<module, heap, errorSeq, result>>

-----------------------------------------------------------------------------
(* Calls.                                                                  *)

MakeClosureStep == Step({"MakeClosure"}) /\ Yield(FunctionValue(Item.data.fn, Inputs))

\* A default is one of the captures.
DefaultOf(fn, p, captures) ==
  LET i == SelectInSeq(fn.captures, LAMBDA c : c.ref = p.default)
  IN  IF p.default = NoRef THEN None ELSE captures[i]

\* The slots a call starts with: parameters, captures and the function itself.
CallSlots(f, fn, args) ==
  [r \in {fn.params[i].ref : i \in DOMAIN fn.params} |->
     LET i == CHOOSE i \in DOMAIN fn.params : fn.params[i].ref = r
     IN  Passed(fn.params, args, i, DefaultOf(fn, fn.params[i], f.v.captures))]
  @@ [r \in {fn.captures[i].ref : i \in DOMAIN fn.captures} |->
        f.v.captures[CHOOSE i \in DOMAIN fn.captures : fn.captures[i].ref = r]]
  @@ (fn.self :> f)
CallAt(fn, slots) == [fn |-> fn, block |-> 1, index |-> 1, slots |-> slots, iters |-> <<>>]

Arguments == CallArguments(Tail(Inputs), Item.data.kinds, Item.data.keys)
CallFault ==
  CASE Inputs[1].type # "function" -> "expected function"
    [] Unspreadable(Tail(Inputs), Item.data.kinds) -> "spread"
    [] IsBuiltin(Inputs[1]) -> ArgumentFault(Inputs[1].v.params, Arguments)
    [] Len(calls) > MaxCallDepth -> "call depth"
    [] OTHER -> ArgumentFault(module.funcs[Inputs[1].v.fn].params, Arguments)

CallFails == Step({"Call"}) /\ CallFault # "" /\ Settle(Bad(CallFault))
CallBuiltin ==
  /\ Step({"Call"}) /\ CallFault = "" /\ IsBuiltin(Inputs[1])
  /\ Yield(Repr(Arguments.pos[1]))
CallStep ==
  /\ Step({"Call"}) /\ CallFault = "" /\ ~IsBuiltin(Inputs[1])
  /\ calls' = Append(calls, CallAt(Inputs[1].v.fn,
                                   CallSlots(Inputs[1], module.funcs[Inputs[1].v.fn], Arguments)))
  /\ UNCHANGED <<module, heap, errors, errorSeq, result>>

\* The caller gets the value where its call stands.
Caller == calls[Len(calls) - 1]
ReturnStep ==
  /\ Running /\ AtEnd /\ TermOf(Top).kind = "return"
  /\ calls' = IF Len(calls) = 1 THEN <<>>
              ELSE Append(SubSeq(calls, 1, Len(calls) - 2),
                          Past(Caller, CodeOf(Caller)[Caller.index].res, Get(TermOf(Top).cond)))
  /\ result' = IF Len(calls) = 1 THEN <<Get(TermOf(Top).cond)>> ELSE result
  /\ UNCHANGED <<module, heap, errors, errorSeq>>

-----------------------------------------------------------------------------
(* Edges.                                                                  *)

\* bindArgs: each parameter of the target in its turn, in the slots the
\* arguments are read from.
BindArgs(call, target, args) ==
  LET params == module.funcs[call.fn].blocks[target].params
  IN  FoldLeft(LAMBDA slots, i : (params[i].ref :> GetIn(slots, args[i])) @@ slots, call.slots,
               [i \in DOMAIN args |-> i])
Follow(k) ==
  calls' = WithTop([Top EXCEPT !.block = TermOf(Top).targets[k], !.index = 1,
                               !.slots = BindArgs(Top, TermOf(Top).targets[k], TermOf(Top).args[k])])

JumpStep ==
  /\ Running /\ AtEnd /\ TermOf(Top).kind = "jump"
  /\ Follow(1)
  /\ UNCHANGED <<module, heap, errors, errorSeq, result>>

\* Whatever is not true takes the else edge; what is no boolean is an error.
BranchStep ==
  LET cond == Get(TermOf(Top).cond)
  IN  /\ Running /\ AtEnd /\ TermOf(Top).kind = "branch"
      /\ Follow(IF cond.type = "boolean" /\ cond.v THEN 1 ELSE 2)
      /\ Report(IF cond.type \in {"boolean", "error"} THEN {} ELSE {"expected boolean"})
      /\ UNCHANGED <<module, heap, result>>

MachineInit ==
  /\ calls = <<>> /\ heap = <<>> /\ errors = {} /\ errorSeq = 0 /\ result = <<>>
  /\ module = [funcs |-> <<>>, consts |-> <<>>]

\* The document's function runs without arguments.
Start(compiled) ==
  /\ module' = compiled
  /\ calls' = <<CallAt(Len(compiled.funcs), <<>>)>>
  /\ UNCHANGED <<heap, errors, errorSeq, result>>

MachineNext ==
  \/ HandOn \/ Constant \/ UnaryStep \/ BinaryStep \/ ErrorStep
  \/ MakeArrayStep \/ MakeDictStep \/ DestructStep
  \/ IterOpenStep \/ IterHasNextStep \/ IterAdvanceStep
  \/ ContentResultStep \/ CodeJoinStep \/ JoinBeginStep \/ JoinAddStep \/ JoinResultStep
  \/ ErrorMarkStep \/ ErrorSinceStep \/ DiscardCheckStep
  \/ MakeClosureStep \/ CallFails \/ CallBuiltin \/ CallStep \/ ReturnStep
  \/ JumpStep \/ BranchStep
=============================================================================
