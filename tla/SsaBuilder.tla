----------------------------- MODULE SsaBuilder -----------------------------
(***************************************************************************)
(* expr.Builder: SSA construction in Braun's style, the one place where a  *)
(* document's variables turn into the slots the evaluator reads.  A reader *)
(* of a variable gets the Ref of its value; where paths meet, a block gets *)
(* a param and every edge into it an arg.                                  *)
(*                                                                         *)
(* The operators below are the builder's methods.  Each takes the builder  *)
(* state s and returns the new one; those that also return a Ref return a  *)
(* pair, called a read below: the state after it and the Ref.  The module  *)
(* declares no variables: Ssa drives it.                                   *)
(*                                                                         *)
(* A Ref is an integer: >= 0 names a slot of the function, NoRef nothing,  *)
(* and anything below NoRef an entry of the module's constant pool.        *)
(*                                                                         *)
(* An item of a block's code has an operation op, its operands args and    *)
(* the slot res of its result, NoRef if it has none; what else it has is   *)
(* for those who emit and run it.                                          *)
(***************************************************************************)
EXTENDS Integers, Sequences, SequencesExt, FiniteSets, TLC

NoRef == -1
IsLocal(r) == r >= 0

NoTerm == [kind |-> "none", cond |-> NoRef, targets |-> <<>>, args |-> <<>>]
EmptyBlock == [preds |-> <<>>, params |-> <<>>, code |-> <<>>, term |-> NoTerm]

(***************************************************************************)
(* A fresh builder: block 1 exists, is sealed and is current.              *)
(***************************************************************************)
NewBuilder ==
  [blocks     |-> <<EmptyBlock>>,
   sealed     |-> {1},
   cur        |-> 1,
   def        |-> <<>>,   \* currentDef: <<var, block>> -> Ref
   incomplete |-> {},     \* incompleteParams, as a set of <<block, var>>
   users      |-> <<>>,   \* paramUsers: Ref -> params, as recorded
   redirects  |-> <<>>,   \* removed param -> the one value it stood for
   live       |-> {},     \* liveWrites
   params     |-> <<>>,   \* the function's Params
   captures   |-> <<>>,   \* the names it captures and the slots for them
   self       |-> NoRef,  \* SelfRef
   next       |-> 0]      \* NumRefs

-----------------------------------------------------------------------------
(* Blocks, edges and params.                                               *)

Preds(s, b) == s.blocks[b].preds

\* edgeArgs: which of the terminator's arg lists belongs to target.
Edge(s, pred, target) ==
  CHOOSE k \in DOMAIN s.blocks[pred].term.targets :
    s.blocks[pred].term.targets[k] = target

EdgeArgs(s, pred, target) == s.blocks[pred].term.args[Edge(s, pred, target)]

BlockOf(s, p) ==
  CHOOSE b \in DOMAIN s.blocks :
    \E i \in DOMAIN s.blocks[b].params : s.blocks[b].params[i].ref = p

ParamIndex(s, p) ==
  LET params == s.blocks[BlockOf(s, p)].params
  IN  CHOOSE i \in DOMAIN params : params[i].ref = p

NewBlock(s) == [s EXCEPT !.blocks = Append(@, EmptyBlock)]

SetDef(s, v, b, r) == [s EXCEPT !.def = (<<v, b>> :> r) @@ @]

UsersOf(s, r) == IF r \in DOMAIN s.users THEN s.users[r] ELSE <<>>

RecordParamUser(s, r, p) ==
  IF IsLocal(r) /\ p \notin ToSet(UsersOf(s, r))
  THEN [s EXCEPT !.users = (r :> Append(UsersOf(s, r), p)) @@ @]
  ELSE s

AllocateParam(s, b, v) ==
  [s EXCEPT !.blocks[b].params = Append(@, [ref |-> s.next, var |-> v]),
            !.next = @ + 1]

\* What was read in pred becomes the arg its edge to b passes to param p.
AppendArg(read, pred, b, p) ==
  LET s == read[1]
  IN  RecordParamUser(
        [s EXCEPT !.blocks[pred].term.args[Edge(s, pred, b)] = Append(@, read[2])],
        read[2], p)

\* What was read becomes v's definition in b.
Define(read, v, b) == <<SetDef(read[1], v, b, read[2]), read[2]>>

-----------------------------------------------------------------------------
(* Reading variables.                                                      *)

(***************************************************************************)
(* The values flowing into a param, in predecessor order.  A predecessor   *)
(* whose arg has not been filled in yet contributes nothing.               *)
(***************************************************************************)
Operands(s, p) ==
  LET b == BlockOf(s, p)
      i == ParamIndex(s, p)
      filled(pred) == i <= Len(EdgeArgs(s, pred, b))
      arg(seq, pred) == Append(seq, EdgeArgs(s, pred, b)[i])
  IN  FoldLeft(arg, <<>>, SelectSeq(Preds(s, b), filled))

\* Variant: the last value seen wins, whatever came before it.
SameOperandLast(s, p) ==
  LET ops == SelectSeq(Operands(s, p), LAMBDA r : r \notin {p, NoRef})
  IN  IF ops = <<>> THEN NoRef ELSE Last(ops)

(***************************************************************************)
(* The one value a trivial param stands for, NoRef if there is none or     *)
(* several.  The param itself is skipped, and so is NoRef until a value    *)
(* has been seen.                                                          *)
(***************************************************************************)
OnlyValue(ops) ==
  LET seen == SelectInSeq(ops, LAMBDA r : r # NoRef)
  IN  IF seen # 0 /\ \A k \in seen .. Len(ops) : ops[k] = ops[seen]
      THEN ops[seen] ELSE NoRef

SameOperand(s, p) == OnlyValue(SelectSeq(Operands(s, p), LAMBDA r : r # p))

(***************************************************************************)
(* replaceUses.  Its caller has already emptied the param's use chain, so  *)
(* the loop over that chain finds nothing and only currentDef is rewritten *)
(* (arg slots keep the old Ref; Finalize closes redirects over them).      *)
(***************************************************************************)
ReplaceUses(s, old, new) ==
  [s EXCEPT !.def = [k \in DOMAIN @ |-> IF @[k] = old THEN new ELSE @[k]]]

\* The cascade over the param's users follows the order they were recorded in
\* (Go's map iteration takes any).
RECURSIVE TryRemoveTrivialParam(_, _), RemoveTrivialParams(_, _)

\* The param goes, and same takes its place.
RemoveParam(s, p, same) ==
  LET users == SelectSeq(UsersOf(s, p), LAMBDA u : u # p)
      freed == [s EXCEPT !.users = (p :> <<>>) @@ @]
      gone  == [ReplaceUses(freed, p, same) EXCEPT
                  !.redirects = (p :> same) @@ @]
  IN  IF same = NoRef THEN <<s, p>> ELSE <<RemoveTrivialParams(gone, users), same>>

TryRemoveTrivialParam(s, p) ==
  IF p \in DOMAIN s.redirects THEN <<s, s.redirects[p]>>
  ELSE RemoveParam(s, p, SameOperand(s, p))

RemoveTrivialParams(s, params) ==
  FoldLeft(LAMBDA t, p : TryRemoveTrivialParam(t, p)[1], s, params)

RECURSIVE ReadVar(_, _, _)

\* readVarRecursive on a sealed block where paths meet.
ReadAtMerge(s, v, b) ==
  LET p == s.next
      fillEdge(t, pred) == AppendArg(ReadVar(t, v, pred), pred, b, p)
      filled == FoldLeft(fillEdge, SetDef(AllocateParam(s, b, v), v, b, p), Preds(s, b))
  IN  Define(TryRemoveTrivialParam(filled, p), v, b)

\* readVarRecursive on a block that may still get predecessors.
ReadAtUnsealed(s, v, b) ==
  LET p == s.next
      t == [AllocateParam(s, b, v) EXCEPT !.incomplete = @ \cup {<<b, v>>}]
  IN  <<SetDef(t, v, b, p), p>>

ReadVar(s, v, b) ==
  IF <<v, b>> \in DOMAIN s.def THEN <<s, s.def[<<v, b>>]>>
  ELSE IF b \notin s.sealed THEN ReadAtUnsealed(s, v, b)
  ELSE IF Len(Preds(s, b)) = 0 THEN <<s, NoRef>>
  ELSE IF Len(Preds(s, b)) = 1
       THEN Define(ReadVar(s, v, Preds(s, b)[1]), v, b)
  ELSE ReadAtMerge(s, v, b)

\* WriteVar, which also keeps the value alive through Finalize.
WriteVar(s, v, r) ==
  [SetDef(s, v, s.cur, r) EXCEPT !.live = IF IsLocal(r) THEN @ \cup {r} ELSE @]

-----------------------------------------------------------------------------
(* Sealing and terminators.                                                *)

\* Variant: the last edge, a loop's back edge, is forgotten.
EdgesWithoutBackedge(s, b) ==
  SubSeq(Preds(s, b), 1, IF Len(Preds(s, b)) > 1 THEN Len(Preds(s, b)) - 1 ELSE 1)

\* The edges whose args SealBlock fills in.
EdgesToFill(s, b) == Preds(s, b)

(***************************************************************************)
(* SealBlock: for each predecessor, and each param in declaration order    *)
(* that is still incomplete, the arg is the variable's value there; when   *)
(* every edge is complete, the trivial params go.                          *)
(***************************************************************************)
SealBlock(s, b) ==
  LET incomplete(p) == <<b, p.var>> \in s.incomplete
      pending == SelectSeq(s.blocks[b].params, incomplete)
      opened == [s EXCEPT !.sealed = @ \cup {b},
                          !.incomplete = {x \in @ : x[1] # b}]
      fillEdge(t, pred) ==
        FoldLeft(LAMBDA u, p : AppendArg(ReadVar(u, p.var, pred), pred, b, p.ref),
                 t, pending)
  IN  RemoveTrivialParams(FoldLeft(fillEdge, opened, EdgesToFill(s, b)),
                          [i \in DOMAIN pending |-> pending[i].ref])

Collect(seq, read) == <<read[1], Append(seq, read[2])>>

\* synthesizeArgs: nothing yet for a target that SealBlock will fill.
SynthesizeArgs(s, target) ==
  IF target \notin s.sealed THEN <<s, <<>>>>
  ELSE FoldLeft(LAMBDA acc, p : Collect(acc[2], ReadVar(acc[1], p.var, s.cur)),
                <<s, <<>>>>, s.blocks[target].params)

\* The args of every target, one target after the other.
SynthesizeAll(s, targets) ==
  FoldLeft(LAMBDA acc, t : Collect(acc[2], SynthesizeArgs(acc[1], t)),
           <<s, <<>>>>, targets)

\* The current block becomes a predecessor of target and passes it args.
LinkEdge(s, target, args) ==
  LET linked == [s EXCEPT !.blocks[target].preds = Append(@, s.cur)]
      params == s.blocks[target].params
  IN  FoldLeft(LAMBDA t, i : RecordParamUser(t, args[i], params[i].ref),
               linked, [i \in DOMAIN args |-> i])

\* The current block's terminator; all is the state and the args read for it.
Terminate(all, kind, cond, targets) ==
  LET term == [kind |-> kind, cond |-> cond, targets |-> targets, args |-> all[2]]
      s == all[1]
  IN  FoldLeft(LAMBDA t, k : LinkEdge(t, targets[k], all[2][k]),
               [s EXCEPT !.blocks[s.cur].term = term], [k \in DOMAIN targets |-> k])

Jump(s, target) ==
  Terminate(SynthesizeAll(s, <<target>>), "jump", NoRef, <<target>>)

Branch(s, cond, then, else) ==
  Terminate(SynthesizeAll(s, <<then, else>>), "branch", cond, <<then, else>>)

\* The value returned stands where a branch has its condition.
Return(s, v) ==
  [s EXCEPT !.blocks[s.cur].term = [NoTerm EXCEPT !.kind = "return", !.cond = v]]

-----------------------------------------------------------------------------
(* Finalize.                                                               *)

\* The rename map, closed transitively.
RECURSIVE Terminal(_, _)
Terminal(redirects, r) ==
  IF r \in DOMAIN redirects THEN Terminal(redirects, redirects[r]) ELSE r

\* The arg slots that feed param i of block b.
ArgsOf(s, b, i) ==
  {EdgeArgs(s, pred, b)[i] :
     pred \in {q \in ToSet(Preds(s, b)) : i <= Len(EdgeArgs(s, q, b))}}

Code(s, b) == s.blocks[b].code

\* Variant: the check that a value fits a pattern counts as pure.
PureOpsAndChecks ==
  {"Const", "Unary", "Binary", "MakeArray", "MakeDict", "ArrayElem", "ArraySlice",
   "DictField", "DictRest", "MakeClosure", "ContentResult", "CodeJoin",
   "JoinBegin", "JoinResult", "ErrorMark", "ErrorSince", "DestructArray"}

\* IsPure: what does nothing but make its result.
PureOps ==
  {"Const", "Unary", "Binary", "MakeArray", "MakeDict", "ArrayElem", "ArraySlice",
   "DictField", "DictRest", "MakeClosure", "ContentResult", "CodeJoin",
   "JoinBegin", "JoinResult", "ErrorMark", "ErrorSince"}
IsPure(item) == item.op \in PureOps

\* Refs used by what stays whatever happens: writes, defaults and terminators.
RootUses(s) ==
  s.live \cup {s.params[i].default : i \in DOMAIN s.params}
         \cup {s.blocks[b].term.cond : b \in DOMAIN s.blocks}

\* Refs used by the instructions whose results have not gone.
CodeUses(s, gone) ==
  UNION {UNION {ToSet(Code(s, b)[i].args) :
                  i \in {j \in DOMAIN Code(s, b) : Code(s, b)[j].res \notin gone}}
         : b \in DOMAIN s.blocks}

AllParams(s) ==
  UNION {{<<b, i>> : i \in DOMAIN s.blocks[b].params} : b \in DOMAIN s.blocks}

ParamRef(s, x) == s.blocks[x[1]].params[x[2]].ref

\* A call of a constant that is a function without effects.
CallsEffectless(item, effectless) == item.op = "Call" /\ item.args[1] \in effectless

\* Droppable: block params, and the results of pure instructions and of calls
\* of functions that are constants and have no effects.
Droppable(s, effectless) ==
  {ParamRef(s, x) : x \in AllParams(s)}
    \cup UNION {{Code(s, b)[i].res :
                   i \in {j \in DOMAIN Code(s, b) : \/ IsPure(Code(s, b)[j])
                                                   \/ CallsEffectless(Code(s, b)[j], effectless)}}
                : b \in DOMAIN s.blocks}

(***************************************************************************)
(* Worklist DCE: a value goes when all that use it went before, as a       *)
(* param's arg slots do with the param.                                    *)
(***************************************************************************)
RECURSIVE DroppedRefs(_, _, _)
DroppedRefs(s, droppable, gone) ==
  LET fed == {x \in AllParams(s) : ParamRef(s, x) \notin gone}
      used == {Terminal(s.redirects, r) :
                 r \in RootUses(s) \cup CodeUses(s, gone)
                         \cup UNION {ArgsOf(s, x[1], x[2]) : x \in fed}}
      more == droppable \ (gone \cup used)
  IN  IF more = {} THEN gone ELSE DroppedRefs(s, droppable, gone \cup more)

(***************************************************************************)
(* The block as the evaluator sees it: dropped params are gone, with the   *)
(* arg slots of every edge in step with them, dropped instructions are     *)
(* gone, and every remaining Ref goes through the rename map.  none is the *)
(* Ref of the constant none: joins leave it out, and a DiscardCheck of it  *)
(* is pointless.  Dense renumbering, a bijection, is left out.             *)
(***************************************************************************)
Rename(s, args) == [i \in DOMAIN args |-> Terminal(s.redirects, args[i])]

JoinedArgs(item, none) ==
  IF item.op \in {"ContentResult", "CodeJoin"}
  THEN SelectSeq(item.args, LAMBDA r : r # none) ELSE item.args

FinalCode(s, gone, none, code) ==
  LET kept == SelectSeq(code, LAMBDA item : /\ item.res \notin gone
                                            /\ ~(item.op = "DiscardCheck" /\ item.args = <<none>>))
  IN  [i \in DOMAIN kept |-> [kept[i] EXCEPT !.args = Rename(s, JoinedArgs(kept[i], none))]]

Kept(s, gone, b) ==
  LET params == s.blocks[b].params
  IN  SelectSeq([i \in DOMAIN params |-> i], LAMBDA i : params[i].ref \notin gone)

\* Variant: arg slots are dropped in step but not renamed.
FinalArgsAsBuilt(s, gone, target, args) ==
  LET kept == SelectSeq(Kept(s, gone, target), LAMBDA i : i <= Len(args))
  IN  [i \in DOMAIN kept |-> args[kept[i]]]

FinalArgs(s, gone, target, args) ==
  LET kept == SelectSeq(Kept(s, gone, target), LAMBDA i : i <= Len(args))
  IN  [i \in DOMAIN kept |-> Terminal(s.redirects, args[kept[i]])]

FinalBlock(s, gone, none, b) ==
  LET block == s.blocks[b]
      kept == Kept(s, gone, b)
      targets == block.term.targets
  IN  [preds  |-> block.preds,
       params |-> [i \in DOMAIN kept |-> block.params[kept[i]]],
       code   |-> FinalCode(s, gone, none, block.code),
       term   |-> [kind    |-> block.term.kind,
                   cond    |-> Terminal(s.redirects, block.term.cond),
                   targets |-> targets,
                   args    |-> [k \in DOMAIN targets |->
                     FinalArgs(s, gone, targets[k], block.term.args[k])]]]

Finalize(s, none, effectless) ==
  LET gone == DroppedRefs(s, Droppable(s, effectless), {})
  IN  [s EXCEPT !.blocks = [b \in DOMAIN @ |-> FinalBlock(s, gone, none, b)],
                !.redirects = <<>>]
=============================================================================
