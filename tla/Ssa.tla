-------------------------------- MODULE Ssa --------------------------------
(***************************************************************************)
(* One function of a document, from its statements to values.  While it is *)
(* being built, the analyzer lowers statements one at a time (assignments, *)
(* conditionals, loops, break, continue) by calls of the SSA builder; when *)
(* it is finished, runFunction's dispatch loop executes the blocks.        *)
(*                                                                         *)
(* env is what the document means: the variables as the statements assign  *)
(* them.  The slots are what the evaluator has.  The two must agree at     *)
(* every read.                                                             *)
(***************************************************************************)
EXTENDS SsaBuilder

CONSTANTS
  Vars,      \* the document's variables, all bound before the first statement
  MaxStmts,  \* bound: statements lowered
  MaxDepth,  \* bound: conditionals and loops open at once
  MaxSteps   \* bound: block transfers executed

ASSUME SsaAssumption ==
  /\ MaxStmts \in Nat /\ MaxDepth \in Nat /\ MaxSteps \in Nat
  /\ Vars \subseteq Nat \ {0} /\ IsFiniteSet(Vars)

VARIABLES
  phase,    \* "build" or "run"
  builder,  \* the builder's state, then the finished function
  open,     \* the constructs being lowered, innermost last
  stmts,    \* statements lowered so far
  pc,       \* <<block, instruction index>> of the dispatch loop
  slots,    \* frame.vals
  ideal,    \* history: frame.vals if edges bound their args simultaneously
  env,      \* history: the variables' values by the document's meaning
  steps,    \* history: transfers executed
  ticks     \* values made so far: each instruction yields a fresh one

buildVars == <<builder, open, stmts>>
runVars == <<pc, slots, ideal, env, steps, ticks>>
vars == <<phase, builder, open, stmts, pc, slots, ideal, env, steps, ticks>>

\* `let v = <literal>`: the literal is an entry of the constant pool.
Initial(v) == NoRef - v

Init ==
  /\ phase = "build"
  /\ builder = FoldLeft(LAMBDA s, v : WriteVar(s, v, Initial(v)),
                        NewBuilder, SetToSeq(Vars))
  /\ open = <<>> /\ stmts = 0
  /\ pc = <<1, 1>> /\ slots = <<>> /\ ideal = <<>> /\ steps = 0 /\ ticks = 0
  /\ env = [v \in Vars |-> Initial(v)]

-----------------------------------------------------------------------------
(* Lowering.                                                               *)

\* A statement that follows an escape in its sequence is not lowered.
Escaped == open # <<>> /\ Last(open).escaped

\* Lowers a statement, or the start of one.
Lower(s) ==
  /\ phase = "build" /\ ~Escaped
  /\ stmts < MaxStmts
  /\ stmts' = stmts + 1
  /\ builder' = s
  /\ UNCHANGED <<phase, runVars>>

\* Lowers the end of an arm or a body.
Close(s) == phase = "build" /\ builder' = s /\ UNCHANGED <<phase, stmts, runVars>>

\* An item of a block's code.  A copy is no instruction: its target simply
\* gets the Ref that was read, and the item only records the source's meaning.
Item(s, item) == [s EXCEPT !.blocks[s.cur].code = Append(@, item)]

\* `x = y`, y having been read.
Copy(read, x, y) ==
  WriteVar(Item(read[1], [op |-> "copy", dst |-> x, src |-> y,
                          args |-> <<read[2]>>, res |-> NoRef]),
           x, read[2])

\* `x = f(y)`: an instruction, whose result is x's new value.
Emit(read, x, y) ==
  LET s == read[1]
  IN  WriteVar([Item(s, [op |-> "Call", dst |-> x, src |-> y,
                         args |-> <<read[2]>>, res |-> s.next])
                  EXCEPT !.next = @ + 1], x, s.next)

LowerCopy(x, y) ==
  Lower(Copy(ReadVar(builder, y, builder.cur), x, y)) /\ UNCHANGED open

LowerOp(x, y) ==
  Lower(Emit(ReadVar(builder, y, builder.cur), x, y)) /\ UNCHANGED open

At(s, b) == [s EXCEPT !.cur = b]

\* Reads a condition's variable; the branch itself takes either arm.
Use(read, y) ==
  Item(read[1], [op |-> "use", dst |-> y, src |-> y, args |-> <<read[2]>>, res |-> NoRef])

ReadCond(s, y) == Use(ReadVar(s, y, s.cur), y)

Entered(construct) ==
  /\ Len(open) < MaxDepth
  /\ open' = Append(open, construct @@ [escaped |-> FALSE])

Closed == open' = Front(open)
Innermost(kind) == open # <<>> /\ Last(open).kind = kind

\* `if y {`: the join block is made first, then the arms.
LowerIf(y) ==
  LET join == Len(builder.blocks) + 1
      s == ReadCond(NewBlock(builder), y)
      b == Branch(NewBlock(NewBlock(s)), NoRef, join + 1, join + 2)
  IN  /\ Lower(SealBlock(At(b, join + 1), join + 1))
      /\ Entered([kind |-> "then", join |-> join, else |-> join + 2])

\* `} else {`: the then arm jumps to the join, and the else arm is begun.
LowerElse ==
  /\ Innermost("then")
  /\ LET c == Last(open)
         s == Jump(builder, c.join)
     IN  /\ Close(SealBlock(At(s, c.else), c.else))
         /\ open' = Append(Front(open), [c EXCEPT !.kind = "else", !.escaped = FALSE])

\* The end of a conditional; a missing else arm is empty.
LowerEndIf ==
  /\ Innermost("else")
  /\ LET c == Last(open)
         s == Jump(builder, c.join)
     IN  Close(SealBlock(At(s, c.join), c.join)) /\ Closed

\* `while y {`: the header stays unsealed until its back edge exists.
LowerWhile(y) ==
  LET header == Len(builder.blocks) + 1
      s == Jump(NewBlock(NewBlock(NewBlock(builder))), header)
      b == Branch(ReadCond(At(s, header), y), NoRef, header + 1, header + 2)
  IN  /\ Lower(SealBlock(At(b, header + 1), header + 1))
      /\ Entered([kind |-> "loop", header |-> header, exit |-> header + 2])

\* loopBackedge: out through the exit if the body failed, else round again.
LoopBackedge(s, loop) == Branch(s, NoRef, loop.exit, loop.header)

LowerEndWhile ==
  /\ Innermost("loop")
  /\ LET c == Last(open)
         s == SealBlock(LoopBackedge(builder, c), c.header)
     IN  Close(SealBlock(At(s, c.exit), c.exit)) /\ Closed

\* The loop an escape leaves or repeats.
Loops == {i \in DOMAIN open : open[i].kind = "loop"}
CurrentLoop == open[CHOOSE i \in Loops : \A j \in Loops : j <= i]

\* firePending switches emission to a fresh block that nothing reaches.
ToDeadBlock(s) ==
  LET dead == Len(s.blocks) + 1 IN SealBlock(At(NewBlock(s), dead), dead)

\* break and continue: the catch point of the construct they stand in fires
\* them once its sequence ends, and they end it.
Escape == open' = [open EXCEPT ![Len(open)].escaped = TRUE]

LowerBreak ==
  /\ Loops # {}
  /\ Lower(ToDeadBlock(Jump(builder, CurrentLoop.exit)))
  /\ Escape

LowerContinue ==
  /\ Loops # {}
  /\ Lower(ToDeadBlock(LoopBackedge(builder, CurrentLoop)))
  /\ Escape

\* The document's tail reads every variable; then the function is finished.
FinishFunction ==
  /\ phase = "build" /\ open = <<>>
  /\ builder' = Finalize(Return(FoldLeft(ReadCond, builder, SetToSeq(Vars)), NoRef), NoRef, {})
  /\ phase' = "run"
  /\ UNCHANGED <<open, stmts, runVars>>

-----------------------------------------------------------------------------
(* Execution: runFunction.                                                 *)

\* frame.get
Get(vals, r) == IF r \in DOMAIN vals THEN vals[r] ELSE r

\* bindArgs: one after the other, each read from the table being written.
BindArgs(vals, params, args) ==
  FoldLeft(LAMBDA t, i : (params[i].ref :> Get(t, args[i])) @@ t,
           vals, [i \in DOMAIN args |-> i])

\* What the edge means: every arg is read before any param is written.
BindTogether(vals, params, args) ==
  [r \in {params[i].ref : i \in DOMAIN args} |->
     Get(vals, args[CHOOSE i \in DOMAIN args : params[i].ref = r])] @@ vals

Running == phase = "run" /\ steps < MaxSteps
Block == builder.blocks[pc[1]]

\* A straight-line instruction, and the assignment it was lowered from.
ExecItem ==
  /\ Running
  /\ pc[2] <= Len(Block.code)
  /\ LET item == Block.code[pc[2]]
         made == item.res # NoRef
     IN  /\ slots' = IF made THEN (item.res :> ticks + 1) @@ slots ELSE slots
         /\ ideal' = IF made THEN (item.res :> ticks + 1) @@ ideal ELSE ideal
         /\ env' = [env EXCEPT ![item.dst] = IF made THEN ticks + 1 ELSE env[item.src]]
         /\ ticks' = IF made THEN ticks + 1 ELSE ticks
  /\ pc' = <<pc[1], pc[2] + 1>>
  /\ UNCHANGED <<phase, buildVars, steps>>

\* The terminator takes its k-th arm.
Transfer(k) ==
  LET target == Block.term.targets[k]
      args == Block.term.args[k]
      params == builder.blocks[target].params
  IN  /\ slots' = BindArgs(slots, params, args)
      /\ ideal' = BindTogether(ideal, params, args)
      /\ pc' = <<target, 1>>

ExecTerm ==
  /\ Running
  /\ pc[2] > Len(Block.code)
  /\ \E k \in DOMAIN Block.term.targets : Transfer(k)
  /\ steps' = steps + 1
  /\ UNCHANGED <<phase, buildVars, env, ticks>>

Next ==
  \/ \E x, y \in Vars : x # y /\ LowerCopy(x, y)
  \/ \E x, y \in Vars : LowerOp(x, y)
  \/ \E y \in Vars : LowerIf(y)
  \/ \E y \in Vars : LowerWhile(y)
  \/ LowerElse \/ LowerEndIf \/ LowerEndWhile \/ LowerBreak \/ LowerContinue
  \/ FinishFunction
  \/ ExecItem \/ ExecTerm

Spec == Init /\ [][Next]_vars

-----------------------------------------------------------------------------
(* Properties.                                                             *)

Blocks == DOMAIN builder.blocks
LocalRefs == 0 .. builder.next - 1
Edges == UNION {{<<b, k>> : k \in DOMAIN builder.blocks[b].term.targets} : b \in Blocks}
ArgsAt(e) == builder.blocks[e[1]].term.args[e[2]]
TargetAt(e) == builder.blocks[e[1]].term.targets[e[2]]

\* Every edge into a sealed block carries exactly one arg per param of the
\* block, and an edge into an unsealed block none yet: bindArgs indexes the
\* params by the args' positions and checks neither length.
ArgsMatchParams ==
  \A e \in Edges :
    Len(ArgsAt(e)) = IF TargetAt(e) \in builder.sealed
                     THEN Len(builder.blocks[TargetAt(e)].params) ELSE 0

\* In the finished function (which execution never changes: looked at where
\* it starts) every operand and arg names a constant
\* or a value some block still defines: a param that was dropped, or one that
\* only stood for another value, is named nowhere.
NoDanglingRef ==
  (phase = "run" /\ pc = <<1, 1>>) =>
    LET defined == {ParamRef(builder, x) : x \in AllParams(builder)}
          \cup UNION {{item.res : item \in ToSet(builder.blocks[b].code)} : b \in Blocks}
        used == UNION {ToSet(ArgsAt(e)) : e \in Edges}
          \cup CodeUses(builder, {})
    IN  \A r \in used : IsLocal(r) => r \in defined

\* Blocks stay connected: edges feed the params of their targets and nothing
\* else, while trivial params disappear and others learn of it.
BlocksConnected == ArgsMatchParams /\ NoDanglingRef

\* Where an instruction is about to run, the Ref it was given for a variable
\* holds that variable's value, however control came there: through joins,
\* back edges, breaks and continues.  Edges bind their args at once here.
OperandsHoldVariables ==
  (phase = "run" /\ pc[2] <= Len(Block.code)) =>
    LET item == Block.code[pc[2]] IN Get(ideal, item.args[1]) = env[item.src]

\* The same of the slots as bindArgs writes them, one after the other
\* (eval.go:636-640: "there is no parallel-copy hazard").
SlotsHoldVariables ==
  (phase = "run" /\ pc[2] <= Len(Block.code)) =>
    LET item == Block.code[pc[2]] IN Get(slots, item.args[1]) = env[item.src]
=============================================================================
