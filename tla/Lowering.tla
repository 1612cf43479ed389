------------------------------ MODULE Lowering ------------------------------
(***************************************************************************)
(* The analyzer, which turns a program into the functions of a module, one *)
(* per closure and one for the document: what a name means to it, how it   *)
(* emits instructions through the SSA builder, and what each kind of       *)
(* expression or statement becomes.  Escapes (break, continue, return) are *)
(* recorded where they stand and fired where a construct that catches them *)
(* ends, with what was joined so far.                                      *)
(*                                                                         *)
(* An operator takes the analyzer a first and returns it, or, where it     *)
(* lowers something to a value, a read: the analyzer and the Ref, NoRef    *)
(* for a statement that has no value.  a has the module's constants and    *)
(* finished functions, the frames of the functions in progress, innermost  *)
(* last, and the lexical scopes, innermost last, which belong to the frame *)
(* whose base they are at or above.                                        *)
(***************************************************************************)
EXTENDS SsaBuilder, Language

NewFrame(base, isFn) ==
  [b        |-> NewBuilder,
   base     |-> base,
   captured |-> <<>>,  \* name -> capture Ref
   versions |-> <<>>,  \* name -> variables of that name so far
   isFn     |-> isFn,
   joins    |-> <<>>,  \* the open join scopes
   loops    |-> <<>>,  \* the enclosing loops
   pending  |-> <<>>]  \* at most one escape

VarBinding(v) == [kind |-> "var", v |-> v]
ValueBinding(value) == [kind |-> "value", v |-> value]
SelfBinding == [kind |-> "self", v |-> 0]

\* The first scope is the universe's, the second the document's.
NewAnalyzer(universe) ==
  [consts |-> <<>>, funcs |-> <<>>, frames |-> <<NewFrame(2, FALSE)>>,
   scopes |-> <<[n \in DOMAIN universe |-> ValueBinding(universe[n])], <<>>>>,
   seen |-> {}]  \* the names bound by the pattern being compiled

Frame(a) == Last(a.frames)
B(a) == Frame(a).b
WithB(a, b) == [a EXCEPT !.frames[Len(a.frames)].b = b]
Bare(a) == <<a, NoRef>>

-----------------------------------------------------------------------------
(* Emitting: constants are interned in the module's pool, an operator on   *)
(* two of them is computed here and now if it can be.                      *)

ModConst(i) == NoRef - i
IsModConst(r) == r < NoRef
ConstantOf(a, r) == a.consts[NoRef - r]

NewRef(b) == [b EXCEPT !.next = @ + 1]
Inst(op, args, res, data) == [op |-> op, args |-> args, res |-> res, data |-> data]
AddCode(b, item) == [b EXCEPT !.blocks[b.cur].code = Append(@, item)]

Emit(a, op, args, data) ==
  <<WithB(a, NewRef(AddCode(B(a), Inst(op, args, B(a).next, data)))), B(a).next>>
EmitVoid(a, op, args, data) == WithB(a, AddCode(B(a), Inst(op, args, NoRef, data)))

\* Content carries a label, so the pool cannot hold it.
Internable(v) == v.type \notin {"content", "array", "dictionary", "arguments"}
Interned(a, v) ==
  SelectInSeq(a.consts, LAMBDA c : c.type = v.type /\ c.v = v.v)

Const(a, v) ==
  IF ~Internable(v) THEN Emit(a, "Const", <<>>, [value |-> v])
  ELSE IF Interned(a, v) # 0 THEN <<a, ModConst(Interned(a, v))>>
  ELSE <<[a EXCEPT !.consts = Append(@, v)], ModConst(Len(a.consts) + 1)>>

NoneRef(consts) ==
  LET i == SelectInSeq(consts, LAMBDA c : c.type = "none")
  IN  IF i = 0 THEN NoRef ELSE ModConst(i)

\* The constants that are functions not marked as impure.
Effectless(consts) ==
  {ModConst(i) : i \in {j \in DOMAIN consts : consts[j].type = "function" /\ ~consts[j].v.impure}}

FoldedOr(a, result, op, args, data) ==
  IF result.ok THEN Const(a, result.value) ELSE Emit(a, op, args, data)

Unary(a, op, x) ==
  FoldedOr(a, IF IsModConst(x) THEN UnaryOp(op, ConstantOf(a, x)) ELSE Fails,
           "Unary", <<x>>, [op |-> op])
BinaryFolded(a, op, l, r) ==
  IF IsModConst(l) /\ IsModConst(r) THEN BinaryOp(op, ConstantOf(a, l), ConstantOf(a, r))
  ELSE Fails
Binary(a, op, l, r) ==
  FoldedOr(a, BinaryFolded(a, op, l, r), "Binary", <<l, r>>, [op |-> op])

Error(a, msg) == Emit(a, "Error", <<>>, [msg |-> msg])

(***************************************************************************)
(* One constructor for each instruction the modelled programs need.  The   *)
(* operands are Refs; what else the instruction carries is its data.       *)
(***************************************************************************)
Flags(n) == [i \in 1 .. n |-> FALSE]
MakeArray(a, items, spreads) == Emit(a, "MakeArray", items, [spreads |-> spreads])
MakeDict(a, items, keys, spreads) == Emit(a, "MakeDict", items, [keys |-> keys, spreads |-> spreads])
EmitCall(a, callee, args, kinds, keys, blocks) ==
  Emit(a, "Call", <<callee>> \o args \o blocks,
       [kinds |-> kinds \o [i \in DOMAIN blocks |-> "elem"],
        keys |-> keys \o [i \in DOMAIN blocks |-> ""]])
MakeClosure(a, fn, captures) == Emit(a, "MakeClosure", captures, [fn |-> fn])
DiscardCheck(a, value) == EmitVoid(a, "DiscardCheck", <<value>>, <<>>)

\* Patterns.
EmitDestructArray(a, source, before, after, sink, hybrid) ==
  Emit(a, "DestructArray", <<source>>,
       [before |-> before, after |-> after, sink |-> sink, hybrid |-> hybrid])
EmitArrayElem(a, source, index, fromEnd, key) ==
  Emit(a, "ArrayElem", <<source>>, [index |-> index, fromEnd |-> fromEnd, key |-> key])
EmitArraySlice(a, source, before, after, hybrid, exclude) ==
  Emit(a, "ArraySlice", <<source>>,
       [before |-> before, after |-> after, hybrid |-> hybrid, exclude |-> exclude])
EmitDestructDict(a, source, consumed, sink) ==
  Emit(a, "DestructDict", <<source>>, [consumed |-> consumed, sink |-> sink])
EmitDictField(a, source, key) == Emit(a, "DictField", <<source>>, [key |-> key])
EmitDictRest(a, source, exclude) == Emit(a, "DictRest", <<source>>, [exclude |-> exclude])

\* Loops and joins.
IterOpen(a, iterable, destructuring) ==
  Emit(a, "IterOpen", <<iterable>>, [destructuring |-> destructuring])
IterHasNext(a, iter) == Emit(a, "IterHasNext", <<iter>>, <<>>)
IterAdvance(a, iter) == Emit(a, "IterAdvance", <<iter>>, <<>>)
ErrorMark(a) == Emit(a, "ErrorMark", <<>>, <<>>)
ErrorSince(a, mark) == Emit(a, "ErrorSince", <<mark>>, <<>>)
ContentResult(a, items) == Emit(a, "ContentResult", items, <<>>)
CodeJoin(a, items) == Emit(a, "CodeJoin", items, <<>>)
JoinBegin(a) == Emit(a, "JoinBegin", <<>>, <<>>)
JoinAdd(a, acc, item) == Emit(a, "JoinAdd", <<acc, item>>, <<>>)
JoinResult(a, acc) == Emit(a, "JoinResult", <<acc>>, <<>>)

\* Variables, blocks and terminators of the current function.
CurrentRead(a, read) == <<WithB(a, read[1]), read[2]>>
Read(a, v) == CurrentRead(a, ReadVar(B(a), v, B(a).cur))
Write(a, v, r) == WithB(a, WriteVar(B(a), v, r))
FreshBlock(a) == WithB(a, NewBlock(B(a)))
LastBlock(a) == Len(B(a).blocks)
SetBlock(a, b) == WithB(a, [B(a) EXCEPT !.cur = b])
Seal(a, b) == WithB(a, SealBlock(B(a), b))
JumpTo(a, b) == WithB(a, Jump(B(a), b))
BranchTo(a, cond, then, else) == WithB(a, Branch(B(a), cond, then, else))
ReturnOf(a, r) == WithB(a, Return(B(a), r))

-----------------------------------------------------------------------------
(* Scopes and names.                                                       *)

OpenScope(a) == [a EXCEPT !.scopes = Append(@, <<>>)]
CloseScope(a) == [a EXCEPT !.scopes = Front(@)]
CloseScopeOf(read) == <<CloseScope(read[1]), read[2]>>

Bind(a, n, binding) == [a EXCEPT !.scopes[Len(a.scopes)] = (n :> binding) @@ @]

\* NewVar: the next version of the name in this function.
Version(a, n) == IF n \in DOMAIN Frame(a).versions THEN Frame(a).versions[n] + 1 ELSE 1
NewVar(a, n) ==
  <<[a EXCEPT !.frames[Len(a.frames)].versions = (n :> Version(a, n)) @@ @],
    <<n, Version(a, n)>>>>
BoundTo(read, n, r) == Write(Bind(read[1], n, VarBinding(read[2])), read[2], r)
\* allocVar, and the write of its first value.
BindVar(a, n, r) == BoundTo(NewVar(a, n), n, r)

ScopesOf(a, n) == {i \in DOMAIN a.scopes : n \in DOMAIN a.scopes[i]}
Known(a, n) == ScopesOf(a, n) # {}
ScopeOf(a, n) == Max(ScopesOf(a, n))
Lookup(a, n) == a.scopes[ScopeOf(a, n)][n]
Local(a, n) == ScopeOf(a, n) >= Frame(a).base

\* The function a scope belongs to, and what its builder would read from the
\* variable without looking further than the block it is at.
OwnerOf(a, scope) == a.frames[Max({i \in DOMAIN a.frames : a.frames[i].base <= scope})]
PeekVar(b, v) == IF <<v, b.cur>> \in DOMAIN b.def THEN b.def[<<v, b.cur>>] ELSE NoRef

AddCapture(b, n) ==
  NewRef([b EXCEPT !.captures = Append(@, [name |-> n, ref |-> b.next])])

CaptureRef(a, n) ==
  IF n \in DOMAIN Frame(a).captured THEN <<a, Frame(a).captured[n]>>
  ELSE <<[WithB(a, AddCapture(B(a), n))
            EXCEPT !.frames[Len(a.frames)].captured = (n :> B(a).next) @@ @], B(a).next>>

Self(a) ==
  IF B(a).self # NoRef THEN <<a, B(a).self>>
  ELSE <<WithB(a, NewRef([B(a) EXCEPT !.self = B(a).next])), B(a).next>>

OuterConstant(a, n, v) == PeekVar(OwnerOf(a, ScopeOf(a, n)).b, v)

\* A constant of an outer function needs no capture.
ReadOuter(a, n, r) == IF IsModConst(r) THEN <<a, r>> ELSE CaptureRef(a, n)

ResolveBinding(a, n, binding) ==
  CASE binding.kind = "value" -> Const(a, binding.v)
    [] binding.kind = "self" -> IF Local(a, n) THEN Self(a) ELSE CaptureRef(a, n)
    [] binding.kind = "var" ->
         IF Local(a, n) THEN Read(a, binding.v)
         ELSE ReadOuter(a, n, OuterConstant(a, n, binding.v))
ResolveName(a, n) == ResolveBinding(a, n, Lookup(a, n))

LowerIdent(a, n) ==
  IF Known(a, n) THEN ResolveName(a, n) ELSE Error(a, "unknown variable")

\* An assignment to a name, the value being there.
AssignName(a, n, r) ==
  IF ~Known(a, n) THEN Error(a, "unknown variable")
  ELSE IF Lookup(a, n).kind # "var" THEN Error(a, "cannot mutate a constant")
  ELSE Const(Write(a, Lookup(a, n).v, r), None)

-----------------------------------------------------------------------------
(* lowerExpr: several expressions from left to right give their Refs, and  *)
(* the state after.                                                        *)

RECURSIVE LowerExpr(_, _)

AddRead(acc, read) == [refs |-> Append(acc.refs, read[2]), a |-> read[1]]
LowerEach(a, nodes) ==
  FoldLeft(LAMBDA acc, n : AddRead(acc, LowerExpr(acc.a, n)), [refs |-> <<>>, a |-> a], nodes)

NoneOf(a) == Const(a, None)

-----------------------------------------------------------------------------
(* Operators and collections.                                              *)

LowerUnaryOf(x, op) == Unary(x[1], op, x[2])
LowerBinaryOf(xs, op) == Binary(xs.a, op, xs.refs[1], xs.refs[2])

\* The right operand has a block of its own, and both ways meet in a join.
ShortJoin(a, var, join) == Read(Seal(SetBlock(a, join), join), var)
ShortRight(a, n, var, left, right, join) ==
  LET x == LowerExpr(Seal(SetBlock(a, right), right), n.r)
      both == Binary(x[1], n.op, left, x[2])
  IN  ShortJoin(JumpTo(Write(both[1], var, both[2]), join), var, join)
ShortBranch(a, n, var, left) ==
  LET right == LastBlock(a) - 1
      join == LastBlock(a)
      b == IF n.op = "and" THEN BranchTo(a, left, right, join) ELSE BranchTo(a, left, join, right)
  IN  ShortRight(b, n, var, left, right, join)
ShortVar(named, n, left) ==
  ShortBranch(FreshBlock(FreshBlock(Write(named[1], named[2], left))), n, named[2], left)
LowerShort(left, n) == ShortVar(NewVar(left[1], "$sc"), n, left[2])

\* An item that is a statement without a value is no element; a spread stays.
AddElem(acc, read, item) ==
  IF item.kind # "spread" /\ read[2] = NoRef THEN [acc EXCEPT !.a = read[1]]
  ELSE [a |-> read[1], refs |-> Append(acc.refs, read[2]),
        spreads |-> Append(acc.spreads, item.kind = "spread")]
MakeArrayOf(acc) == MakeArray(acc.a, acc.refs, acc.spreads)
LowerArray(a, items) ==
  MakeArrayOf(FoldLeft(LAMBDA acc, item : AddElem(acc, LowerExpr(acc.a, item.x), item),
                       [a |-> a, refs |-> <<>>, spreads |-> <<>>], items))

\* A key may come once; the second is an error and still an entry.
CheckKey(a, keys, key, msg) == IF key \in ToSet(keys) THEN Error(a, msg)[1] ELSE a
AddEntry(acc, read, item) ==
  IF item.kind # "spread" /\ read[2] = NoRef THEN [acc EXCEPT !.a = read[1]]
  ELSE [a |-> read[1], refs |-> Append(acc.refs, read[2]), keys |-> Append(acc.keys, item.key),
        spreads |-> Append(acc.spreads, item.kind = "spread")]
LowerEntry(acc, item) ==
  AddEntry(acc, LowerExpr(IF item.kind = "spread" THEN acc.a
                          ELSE CheckKey(acc.a, acc.keys, item.key, "duplicate key"), item.x), item)
MakeDictOf(acc) == MakeDict(acc.a, acc.refs, acc.keys, acc.spreads)
LowerDict(a, items) ==
  MakeDictOf(FoldLeft(LowerEntry, [a |-> a, refs |-> <<>>, keys |-> <<>>, spreads |-> <<>>], items))

(***************************************************************************)
(* A call: the callee, the arguments from left to right, trailing content  *)
(* blocks.  An argument's value is lowered before its name is found to be  *)
(* a duplicate.                                                            *)
(***************************************************************************)
AddArg(acc, read, item) ==
  [refs |-> Append(acc.refs, read[2]), keys |-> Append(acc.keys, item.key),
   kinds |-> Append(acc.kinds, item.kind),
   a |-> IF item.kind = "named" THEN CheckKey(read[1], acc.keys, item.key, "duplicate argument")
         ELSE read[1]]
LowerArgs(a, items) ==
  FoldLeft(LAMBDA acc, item : AddArg(acc, LowerExpr(acc.a, item.x), item),
           [a |-> a, refs |-> <<>>, keys |-> <<>>, kinds |-> <<>>], items)
CallWithBlocks(callee, args, blocks) ==
  EmitCall(blocks.a, callee, args.refs, args.kinds, args.keys, blocks.refs)
CallWithArgs(callee, args, n) == CallWithBlocks(callee, args, LowerEach(args.a, n.blocks))
LowerCall(callee, n) == CallWithArgs(callee[2], LowerArgs(callee[1], n.items), n)

-----------------------------------------------------------------------------
(* Patterns.                                                               *)

\* A leaf: in a binding pattern a new variable, unless the pattern has bound
\* the name before; in an assignment the variable the name stands for.
BindLeaf(a, n, r, assign) ==
  IF assign THEN AssignName(a, n, r)[1]
  ELSE IF n \in a.seen THEN Error(a, "duplicate binding")[1]
  ELSE BindVar([a EXCEPT !.seen = @ \cup {n}], n, r)

RECURSIVE CompilePattern(_, _, _, _)

IsSink(item) == item.k = "sink"
KeyOf(item) ==
  CASE item.k = "ident" -> item.n [] item.k = "field" -> item.key [] OTHER -> ""

\* Only the first sink counts.
SinkAt(items) == SelectInSeq(items, IsSink)
WithoutMoreSinks(items) ==
  LET kept == SelectSeq([i \in DOMAIN items |-> i],
                        LAMBDA i : ~IsSink(items[i]) \/ i = SinkAt(items))
  IN  [i \in DOMAIN kept |-> items[kept[i]]]

\* A pattern of names alone takes a dictionary as well as an array.
Hybrid(items) ==
  \A i \in DOMAIN items :
    \/ items[i].k = "ident"
    \/ IsSink(items[i]) /\ (items[i].target = <<>> \/ items[i].target[1].k \in {"ident", "hole"})

\* What the item of an array pattern is given.
ArrayPart(a, items, i, source) ==
  LET sink == SinkAt(items)
      after == Len(items) - sink
      hybrid == Hybrid(items)
      fromEnd == sink # 0 /\ i > sink
  IN  IF i = sink
      THEN EmitArraySlice(a, source, sink - 1, after, hybrid,
                          {KeyOf(items[j]) : j \in DOMAIN items})
      ELSE EmitArrayElem(a, source, IF fromEnd THEN Len(items) - i ELSE i - 1, fromEnd,
                         IF hybrid THEN KeyOf(items[i]) ELSE "")

CompilePart(read, pat, assign) == CompilePattern(read[1], pat, read[2], assign)

\* A sink without a target takes nothing.
ArrayItem(a, items, i, source, assign) ==
  IF IsSink(items[i])
  THEN IF items[i].target = <<>> THEN a
       ELSE CompilePart(ArrayPart(a, items, i, source), items[i].target[1], assign)
  ELSE CompilePart(ArrayPart(a, items, i, source), items[i], assign)

ArrayItems(read, items, assign) ==
  FoldLeft(LAMBDA t, i : ArrayItem(t, items, i, read[2], assign), read[1],
           [i \in DOMAIN items |-> i])
ArrayPattern(a, items, r, assign) ==
  LET before == IF SinkAt(items) = 0 THEN Len(items) ELSE SinkAt(items) - 1
      after == IF SinkAt(items) = 0 THEN 0 ELSE Len(items) - SinkAt(items)
  IN  ArrayItems(EmitDestructArray(a, r, before, after, SinkAt(items) # 0, Hybrid(items)),
                 items, assign)

\* The item of a dictionary pattern: a name, `key: pattern`, or the rest.
Consumed(items) == {KeyOf(items[i]) : i \in {j \in DOMAIN items : items[j].k \in {"ident", "field"}}}
DictItem(a, items, item, source, assign) ==
  LET field(key) == EmitDictField(a, source, key)
  IN  CASE item.k = "ident" -> BindLeaf(field(item.n)[1], item.n, field(item.n)[2], assign)
        [] item.k = "field" -> CompilePart(field(item.key), item.sub, assign)
        [] IsSink(item) /\ item.target # <<>> ->
             CompilePart(EmitDictRest(a, source, Consumed(items)), item.target[1], assign)
        [] OTHER -> a
DictItems(read, items, assign) ==
  FoldLeft(LAMBDA t, item : DictItem(t, items, item, read[2], assign), read[1], items)
DictPattern(a, items, r, assign) ==
  DictItems(EmitDestructDict(a, r, Consumed(items), SinkAt(items) # 0), items, assign)

CompileItems(a, items, r, assign) ==
  IF \E i \in DOMAIN items : items[i].k = "field"
  THEN DictPattern(a, items, r, assign) ELSE ArrayPattern(a, items, r, assign)

\* Every sink after the first is an error.
MoreSinks(a, items) ==
  FoldLeft(LAMBDA t, item : Error(t, "only one destructuring sink is allowed")[1], a,
           SelectSeq(SubSeq(items, SinkAt(items) + 1, Len(items)), IsSink))
CompileDestructure(a, items, r, assign) ==
  CompileItems(IF SinkAt(items) = 0 THEN a ELSE MoreSinks(a, items),
               WithoutMoreSinks(items), r, assign)

CompilePattern(a, pat, r, assign) ==
  CASE pat.k = "ident" -> BindLeaf(a, pat.n, r, assign)
    [] pat.k = "hole" -> a
    [] pat.k = "destruct" -> CompileDestructure(a, pat.items, r, assign)
    [] OTHER -> Error(a, IF assign THEN "cannot mutate a temporary value" ELSE "expected pattern")[1]

DestructPattern(read, pat) == CompilePattern([read[1] EXCEPT !.seen = {}], pat, read[2], FALSE)
AssignPattern(read, pat) == CompilePattern(read[1], pat, read[2], TRUE)

-----------------------------------------------------------------------------
(* Join scopes and escapes.                                                *)

BlockScope(content) == [acc |-> <<>>, content |-> content, items |-> <<>>]
LoopScope(var) == [acc |-> <<var>>, content |-> FALSE, items |-> <<>>]

InFrame(a, frame) == [a EXCEPT !.frames[Len(a.frames)] = frame]
PushJoin(a, scope) == InFrame(a, [Frame(a) EXCEPT !.joins = Append(@, scope)])
PopJoin(a) == InFrame(a, [Frame(a) EXCEPT !.joins = Front(@)])
AddJoinItem(a, r) ==
  IF r = NoRef THEN a
  ELSE InFrame(a, [Frame(a) EXCEPT !.joins[Len(Frame(a).joins)].items = Append(@, r)])

JoinItems(a, items, content) ==
  IF content THEN ContentResult(a, items)
  ELSE CASE Len(items) = 0 -> NoneOf(a)
         [] Len(items) = 1 -> <<a, items[1]>>
         [] OTHER -> CodeJoin(a, items)
ScopeValue(a, scope) == JoinItems(a, scope.items, scope.content)

\* One more value for a loop's accumulator.
AppendJoinTo(prev, var, r) ==
  LET next == JoinAdd(prev[1], prev[2], r) IN Write(next[1], var, next[2])
AppendJoin(a, var, r) == AppendJoinTo(Read(a, var), var, r)

JoinResultOf(acc) == JoinResult(acc[1], acc[2])
AddPart(part, read) == [part EXCEPT !.a = read[1], !.items = Append(@, read[2])]
JoinPart(part, scope) ==
  IF scope.acc # <<>> THEN AddPart(part, JoinResultOf(Read(part.a, scope.acc[1])))
  ELSE IF part.first
       THEN [a |-> part.a, items |-> part.items \o scope.items,
             content |-> scope.content, first |-> FALSE]
  ELSE AddPart(part, ScopeValue(part.a, scope))

(***************************************************************************)
(* partialJoin: what the open join scopes from the given one upward have   *)
(* so far, then extra.  The first block scope's items are spread and its   *)
(* kind is the kind of the join; every other entry is one value.           *)
(***************************************************************************)
PartialJoinOf(part, extra) ==
  IF part.first /\ part.items = <<>> /\ extra = NoRef THEN NoneOf(part.a)
  ELSE JoinItems(part.a, IF extra = NoRef THEN part.items ELSE Append(part.items, extra),
                 part.content)
PartialJoin(a, from, extra) ==
  PartialJoinOf(FoldLeft(JoinPart, [a |-> a, items |-> <<>>, content |-> FALSE, first |-> TRUE],
                         SubSeq(Frame(a).joins, from, Len(Frame(a).joins))),
                extra)

\* Out through the exit if an error came up since the mark, else round again.
BackedgeIf(failed, loop) == BranchTo(failed[1], failed[2], loop.exit, loop.header)
Backedge(a, loop) == BackedgeIf(ErrorSince(a, loop.mark), loop)

\* The first escape wins.
SetPending(a, kind, r) ==
  IF Frame(a).pending # <<>> THEN a
  ELSE InFrame(a, [Frame(a) EXCEPT !.pending = <<[kind |-> kind, val |-> r]>>])

ToDeadBlock(a) == Seal(SetBlock(FreshBlock(a), LastBlock(a) + 1), LastBlock(a) + 1)

EscapeLoop(joined, kind, loop) ==
  LET a == AppendJoin(joined[1], loop.acc, joined[2])
  IN  IF kind = "break" THEN JumpTo(a, loop.exit) ELSE Backedge(a, loop)
ReturnRead(read) == ReturnOf(read[1], read[2])

\* firePending; body is the value of the construct that ends here, whose join
\* scope is closed already.
FirePending(a, p, body, warn) ==
  CASE p.kind # "return" ->
         EscapeLoop(PartialJoin(a, Last(Frame(a).loops).scope, body), p.kind, Last(Frame(a).loops))
    [] p.kind = "return" /\ p.val = NoRef -> ReturnRead(PartialJoin(a, 1, body))
    [] p.kind = "return" /\ p.val # NoRef ->
         ReturnOf(IF warn THEN DiscardCheck(a, body) ELSE a, p.val)
Fired(a, p, body, warn) ==
  <<ToDeadBlock(FirePending(InFrame(a, [Frame(a) EXCEPT !.pending = <<>>]), p, body, warn)), body>>

\* Variant: escapes pass through the end of a branch.
CatchNothing(entry, read, warn) == read

(***************************************************************************)
(* catchEscapes: an escape that came up inside the construct leaves here;  *)
(* one that was pending before it passes through.                          *)
(***************************************************************************)
CatchEscapes(entry, read, warn) ==
  IF Frame(read[1]).pending = entry THEN read
  ELSE Fired(read[1], Frame(read[1]).pending[1], read[2], warn)

LowerEscape(a, kind) ==
  IF Frame(a).loops = <<>> THEN Error(a, kind) ELSE NoneOf(SetPending(a, kind, NoRef))

LowerReturn(a, n) ==
  IF ~Frame(a).isFn THEN Error(a, "cannot return outside of function")
  ELSE IF n.x = <<>> THEN NoneOf(SetPending(a, "return", NoRef))
  ELSE LET x == LowerExpr(a, n.x[1]) IN NoneOf(SetPending(x[1], "return", x[2]))

-----------------------------------------------------------------------------
(* Blocks, conditionals and loops.                                         *)

\* What follows an escape in its sequence is not lowered.
LowerItems(a, body) ==
  FoldLeft(LAMBDA t, n : IF Frame(t).pending # Frame(a).pending THEN t
                         ELSE LET x == LowerExpr(t, n) IN AddJoinItem(x[1], x[2]),
           a, body)
EndBlock(a) == CloseScopeOf(ScopeValue(PopJoin(a), Last(Frame(a).joins)))
LowerBlock(a, n) ==
  EndBlock(LowerItems(PushJoin(OpenScope(a), BlockScope(n.k = "contentblock")), n.body))

RECURSIVE LowerArms(_, _, _, _)

JoinNone(a, var, join) == LET none == NoneOf(a) IN JumpTo(Write(none[1], var, none[2]), join)
JoinArm(read, var, join) == JumpTo(Write(read[1], var, read[2]), join)
LowerArm(a, n, var, join) ==
  JoinArm(CatchEscapes(Frame(a).pending, LowerBlock(a, n), FALSE), var, join)
LowerElse(a, n, var, join) ==
  IF n.else = <<>> THEN JoinNone(a, var, join)
  ELSE IF n.else[1].k = "if" THEN LowerArms(a, n.else[1], var, join)
  ELSE LowerArm(a, n.else[1], var, join)
BranchArms(cond, n, var, join) ==
  LET then == LastBlock(cond[1]) + 1
      a == BranchTo(FreshBlock(FreshBlock(cond[1])), cond[2], then, then + 1)
      armed == LowerArm(Seal(SetBlock(a, then), then), n.then, var, join)
  IN  LowerElse(Seal(SetBlock(armed, then + 1), then + 1), n, var, join)
LowerArmsIf(cond, n, var, join) ==
  IF cond[2] = NoRef THEN JoinNone(cond[1], var, join) ELSE BranchArms(cond, n, var, join)
LowerArms(a, n, var, join) == LowerArmsIf(LowerExpr(a, n.c), n, var, join)

IfJoin(a, var, join) == Read(Seal(SetBlock(a, join), join), var)
IfVar(named, n, join) == IfJoin(LowerArms(named[1], n, named[2], join), named[2], join)
LowerIf(a, n) == IfVar(NewVar(FreshBlock(a), "$cond"), n, LastBlock(a) + 1)

\* What the header tests and what an iteration does; iter is a for loop's.
LoopCond(a, n, iter) ==
  IF n.k = "while" THEN LowerExpr(a, n.c) ELSE IterHasNext(a, iter)
LoopBody(a, n, iter) ==
  IF n.k = "while" THEN LowerBlock(a, n.body)
  ELSE CloseScopeOf(LowerBlock(
         DestructPattern(IterAdvance(OpenScope(a), iter), n.pat), n.body))

PushLoop(a, loop) ==
  LET scoped == PushJoin(a, LoopScope(loop.acc))
  IN  InFrame(scoped, [Frame(scoped) EXCEPT
        !.loops = Append(@, loop @@ [scope |-> Len(Frame(scoped).joins) + 1])])
PopLoop(a) == LET b == PopJoin(a) IN InFrame(b, [Frame(b) EXCEPT !.loops = Front(@)])

LoopExit(a, loop) ==
  JoinResultOf(Read(Seal(SetBlock(Seal(a, loop.header), loop.exit), loop.exit), loop.acc))
LoopEnd(body, loop) ==
  LoopExit(Backedge(AppendJoin(PopLoop(body[1]), loop.acc, body[2]), loop), loop)
LoopOver(a, n, iter, loop) ==
  LoopEnd(CatchEscapes(Frame(a).pending, LoopBody(a, n, iter), FALSE), loop)
LoopHeader(cond, n, iter, loop) ==
  LoopOver(PushLoop(Seal(SetBlock(BranchTo(cond[1], cond[2], loop.body, loop.exit), loop.body),
                         loop.body), loop), n, iter, loop)
LoopFrom(mark, n, iter, var) ==
  LET header == LastBlock(mark[1]) + 1
      a == JumpTo(FreshBlock(FreshBlock(FreshBlock(mark[1]))), header)
      loop == [header |-> header, body |-> header + 1, exit |-> header + 2,
               acc |-> var, mark |-> mark[2]]
  IN  LoopHeader(LoopCond(SetBlock(a, header), n, iter), n, iter, loop)
LoopMark(a, n, iter, var) == LoopFrom(ErrorMark(a), n, iter, var)
LoopAcc(acc, n, iter, var) == LoopMark(Write(acc[1], var, acc[2]), n, iter, var)
LoopVar(named, n, iter) == LoopAcc(JoinBegin(named[1]), n, iter, named[2])
LowerLoop(iter, n) == LoopVar(NewVar(iter[1], "$acc"), n, iter[2])
LowerWhile(a, n) == LowerLoop(Bare(a), n)
LowerFor(x, n) == LowerLoop(IterOpen(x[1], x[2], n.pat.k = "destruct"), n)

-----------------------------------------------------------------------------
(* Closures.                                                               *)

\* A parameter may come once, and one sink.
Repeats(params, i) ==
  /\ params[i].pat.k = "ident"
  /\ \E j \in 1 .. i - 1 : params[j].pat = params[i].pat
SecondSink(params, i) ==
  params[i].kind = "sink" /\ \E j \in 1 .. i - 1 : params[j].kind = "sink"
CheckParam(a, params, i) ==
  LET b == IF SecondSink(params, i) THEN Error(a, "only one argument sink is allowed")[1] ELSE a
  IN  IF Repeats(params, i) THEN Error(b, "duplicate parameter")[1] ELSE b
CheckParams(a, params) ==
  FoldLeft(LAMBDA t, i : CheckParam(t, params, i), a, [i \in DOMAIN params |-> i])

\* The defaults are lowered outside, where the closure is made.
LowerDefaults(a, params) ==
  FoldLeft(LAMBDA acc, p : Collect(acc[2], IF p.default = <<>> THEN Bare(acc[1])
                                           ELSE LowerExpr(acc[1], p.default[1])),
           <<a, <<>>>>, params)

PushFrame(a, rec) ==
  LET n == Len(a.scopes) + 1
      pushed == [a EXCEPT !.scopes = Append(@, <<>>), !.frames = Append(@, NewFrame(n, TRUE))]
  IN  IF rec = "" THEN pushed ELSE Bind(pushed, rec, SelfBinding)

AddFnParam(b, kind, n, default) ==
  NewRef([b EXCEPT !.params = Append(@, [kind |-> kind, name |-> n, default |-> default,
                                         ref |-> b.next])])

\* A default is a capture of its own.
DefaultCapture(a, default) ==
  IF default = NoRef THEN Bare(a) ELSE <<WithB(a, AddCapture(B(a), "$default")), B(a).next>>
BindParam(a, pat, r) ==
  CASE pat.k = "ident" -> BindVar(a, pat.n, r)
    [] pat.k = "destruct" -> DestructPattern(<<a, r>>, pat)
    [] OTHER -> a
ParamName(p) == IF p.pat.k = "ident" THEN p.pat.n ELSE "_"
AddClosureParam(captured, p) ==
  LET b == B(captured[1])
  IN  BindParam(WithB(captured[1], AddFnParam(b, p.kind, ParamName(p), captured[2])),
                p.pat, b.next)
AddClosureParams(a, params, defaults) ==
  FoldLeft(LAMBDA t, i : AddClosureParam(DefaultCapture(t, defaults[i]), params[i]), a,
           [i \in DOMAIN params |-> i])

LowerBody(a, body) == IF IsBlock(body) THEN LowerBlock(a, body) ELSE LowerExpr(a, body)

\* The finished function leaves the analyzer's frames for the module.
PopFrame(a, b) ==
  [a EXCEPT !.frames = Front(@), !.scopes = SubSeq(@, 1, Frame(a).base - 1),
            !.funcs = Append(@, [blocks |-> b.blocks, params |-> b.params,
                                 captures |-> b.captures, self |-> b.self])]

\* What the closure captures, in the scope it is made in.
ResolveCaptures(a, captures) ==
  FoldLeft(LAMBDA acc, c : Collect(acc[2], ResolveName(acc[1], c.name)), <<a, <<>>>>, captures)
MakeClosureOf(captured, defaults) ==
  MakeClosure(captured[1], Len(captured[1].funcs), defaults \o captured[2])
CloseFunction(a, defaults) ==
  LET b == Finalize(B(a), NoneRef(a.consts), Effectless(a.consts))
  IN  MakeClosureOf(ResolveCaptures(PopFrame(a, b),
                      SubSeq(b.captures, Len(defaults) + 1, Len(b.captures))), defaults)

FunctionBody(a, body) ==
  ReturnRead(CatchEscapes(<<>>, LowerBody(a, body), body.k = "codeblock"))
LowerFunction(defaults, fn, rec) ==
  CloseFunction(FunctionBody(AddClosureParams(PushFrame(defaults[1], rec), fn.params, defaults[2]),
                             fn.body),
                SelectSeq(defaults[2], LAMBDA r : r # NoRef))
LowerClosure(a, fn, rec) == LowerFunction(LowerDefaults(CheckParams(a, fn.params), fn.params), fn, rec)

\* `let f(..) = body` binds the name after the closure is made.
LowerLetFn(closure, n) == BindVar(closure[1], n, closure[2])

-----------------------------------------------------------------------------
(* Expressions and statements.                                             *)

\* `n op= x`: the right side comes first, and n is looked up again after it.
AssignOld(old, n, op, x) ==
  LET new == Binary(old[1], op, old[2], x) IN AssignName(new[1], n, new[2])
AssignOp(x, n, op) ==
  IF Lookup(x[1], n).kind # "var" THEN Error(x[1], "cannot mutate a constant")
  ELSE AssignOld(Read(x[1], Lookup(x[1], n).v), n, op, x[2])
LowerAssign(a, n) ==
  IF n.op = "=" THEN LET x == LowerExpr(a, n.x) IN AssignName(x[1], n.n, x[2])
  ELSE IF ~Known(a, n.n) THEN Error(a, "unknown variable")
  ELSE AssignOp(LowerExpr(a, n.x), n.n, n.op)

LowerExpr(a, n) ==
  CASE n.k = "literal" -> Const(a, n.v)
    [] n.k = "ident" -> LowerIdent(a, n.n)
    [] n.k = "unary" -> LowerUnaryOf(LowerExpr(a, n.x), n.op)
    [] n.k = "binary" -> LowerBinaryOf(LowerEach(a, <<n.l, n.r>>), n.op)
    [] n.k = "short" -> LowerShort(LowerExpr(a, n.l), n)
    [] n.k = "array" -> LowerArray(a, n.items)
    [] n.k = "dict" -> LowerDict(a, n.items)
    [] n.k = "call" -> LowerCall(LowerExpr(a, n.f), n)
    [] n.k = "closure" -> LowerClosure(a, n, "")
    [] n.k = "assign" -> LowerAssign(a, n)
    [] n.k = "let" -> Bare(DestructPattern(LowerExpr(a, n.x), n.pat))
    [] n.k = "letfn" -> Bare(LowerLetFn(LowerClosure(a, n.fn, n.n), n.n))
    [] n.k = "destructassign" -> Bare(AssignPattern(LowerExpr(a, n.x), n.pat))
    [] IsBlock(n) -> LowerBlock(a, n)
    [] n.k = "if" -> LowerIf(a, n)
    [] n.k = "while" -> LowerWhile(a, n)
    [] n.k = "for" -> LowerFor(LowerExpr(a, n.x), n)
    [] n.k = "break" -> LowerEscape(a, "break")
    [] n.k = "continue" -> LowerEscape(a, "continue")
    [] n.k = "return" -> LowerReturn(a, n)

\* The document: its items, in the scope that is exported; nothing catches an
\* escape there, and none can be pending.
LowerMarkup(items) ==
  LET refs == SelectSeq(items.refs, LAMBDA r : r # NoRef)
  IN  IF refs = <<>> THEN NoneOf(items.a)
      ELSE IF Len(refs) = 1 THEN <<items.a, refs[1]>>
      ELSE ContentResult(items.a, refs)

\* The variables of the document's own scope, with their last values.
ExportDict(a) ==
  LET names == SetToSeq(DOMAIN a.scopes[2])
      reads == FoldLeft(LAMBDA acc, n : Collect(acc[2], Read(acc[1], a.scopes[2][n].v)),
                        <<a, <<>>>>, names)
  IN  MakeDict(reads[1], reads[2], names, Flags(Len(names)))
WithExports(result, exports) ==
  MakeArray(exports[1], <<result, exports[2]>>, Flags(2))
Exported(result) == WithExports(result[2], ExportDict(result[1]))

\* Analyze, with exports: the module's functions and constants, the document
\* last.
Finished(a) ==
  LET b == Finalize(B(a), NoneRef(a.consts), Effectless(a.consts))
  IN  [funcs |-> PopFrame(a, b).funcs, consts |-> a.consts]
Analyze(universe, program) ==
  Finished(ReturnRead(Exported(LowerMarkup(LowerEach(NewAnalyzer(universe), program)))))
=============================================================================
