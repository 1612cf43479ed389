------------------------------ MODULE Meaning ------------------------------
(***************************************************************************)
(* What a program means, by walking over it: no blocks, no slots, no       *)
(* instructions.  Variables are in scopes, a closure keeps the values it   *)
(* saw when it was made, and an escape leaves what is around it with what  *)
(* was joined on the way.                                                  *)
(*                                                                         *)
(* A world w has what the walk changes.  An operator on a node gives the   *)
(* world after it, its value and its exit, which is empty unless control   *)
(* leaves: [kind, v], v being the value carried out.                       *)
(***************************************************************************)
EXTENDS Language

CONSTANTS
  Depth, \* calls of closures in progress
  Fuel   \* bound on the iterations of while loops

NewWorld(universe) ==
  [scopes  |-> <<<<>>>>, \* the variables of the function, innermost last
   outer   |-> universe, \* what it sees from outside: name -> value
   errs    |-> {},       \* the messages reported
   seq     |-> 0,        \* how many errors arose
   depth   |-> 0,        \* calls in progress
   fuel    |-> Fuel,
   isFn    |-> FALSE,
   loops   |-> 0,        \* enclosing loops of the function
   pending |-> <<>>]     \* an escape that waits for its statement to end

Gave(w, v) == [w |-> w, v |-> v, exit |-> <<>>]
Leaving(w, exit) == [w |-> w, v |-> None, exit |-> <<exit>>]
Complain(w, msg) == [w EXCEPT !.errs = @ \cup {msg}, !.seq = @ + 1]
ErrorIn(w, msg) == Gave(Complain(w, msg), ErrorValue)
Obtained(w, outcome) == IF outcome.ok THEN Gave(w, outcome.value) ELSE ErrorIn(w, outcome.msg)

\* Of operands one of which is an error there is no outcome.
Strictly(w, vs, outcome) ==
  IF \E i \in DOMAIN vs : IsError(vs[i]) THEN Gave(w, ErrorValue) ELSE Obtained(w, outcome)

-----------------------------------------------------------------------------
(* Variables and patterns.                                                 *)

Holding(w, n) == {i \in DOMAIN w.scopes : n \in DOMAIN w.scopes[i]}
Sees(w, n) == Holding(w, n) # {} \/ n \in DOMAIN w.outer
Recalled(w, n) ==
  IF Holding(w, n) # {} THEN w.scopes[Max(Holding(w, n))][n] ELSE w.outer[n]
Recall(w, n) == IF Sees(w, n) THEN Gave(w, Recalled(w, n)) ELSE ErrorIn(w, "unknown variable")
Visible(w) ==
  [n \in DOMAIN w.outer \cup UNION {DOMAIN w.scopes[i] : i \in DOMAIN w.scopes} |-> Recalled(w, n)]

Introduce(w, n, v) == [w EXCEPT !.scopes[Len(w.scopes)] = (n :> v) @@ @]
Enter(w) == [w EXCEPT !.scopes = Append(@, <<>>)]
Leave(w) == [w EXCEPT !.scopes = Front(@)]

Remember(w, n, v) ==
  IF ~Sees(w, n) THEN Complain(w, "unknown variable")
  ELSE IF Holding(w, n) = {} THEN Complain(w, "cannot mutate a constant")
  ELSE [w EXCEPT !.scopes[Max(Holding(w, n))] = (n :> v) @@ @]

\* A match gives the world and the names the pattern has bound so far.
Matched(w, names) == [w |-> w, names |-> names]
MatchName(m, n, v, assign) ==
  IF assign THEN Matched(Remember(m.w, n, v), m.names)
  ELSE IF n \in m.names THEN Matched(Complain(m.w, "duplicate binding"), m.names)
  ELSE Matched(Introduce(m.w, n, v), m.names \cup {n})

IsRest(item) == item.k = "sink"
RestAt(items) == SelectInSeq(items, IsRest)
ByName(items) == \E i \in DOMAIN items : items[i].k = "field"
NamesOnly(items) ==
  \A i \in DOMAIN items :
    \/ items[i].k = "ident"
    \/ IsRest(items[i]) /\ (items[i].target = <<>> \/ items[i].target[1].k \in {"ident", "hole"})
NameIn(item) == CASE item.k = "ident" -> item.n [] item.k = "field" -> item.key [] OTHER -> ""
Claimed(items) == {NameIn(items[i]) : i \in DOMAIN items}

\* What is wrong with giving the value to the items as a whole.
PatternFault(items, v) ==
  CASE v.type = "array" /\ ByName(items) -> "named pattern from an array"
    [] v.type = "array" /\ ~ByName(items) ->
         IF IF RestAt(items) # 0 THEN Len(v.v) >= Len(items) - 1 ELSE Len(v.v) = Len(items)
         THEN "" ELSE "elements to destructure"
    [] v.type = "dictionary" ->
         IF ByName(items) \/ NamesOnly(items) THEN "" ELSE "positional pattern"
    [] OTHER -> "cannot destructure"

\* The outcome for item i: elements by place, counted from the end behind the
\* rest, and entries by name.
Share(items, v, i) ==
  LET behind == Len(items) - i
      rest == RestAt(items)
  IN  CASE IsError(v) -> Good(v)
        [] IsRest(items[i]) /\ v.type = "array" -> Good(Array(SubSeq(v.v, i, Len(v.v) - behind)))
        [] IsRest(items[i]) /\ v.type = "dictionary" -> Good(Excluding(v.v, Claimed(items)))
        [] v.type = "array" -> Good(v.v[IF rest # 0 /\ i > rest THEN Len(v.v) - behind ELSE i])
        [] items[i].k = "hole" -> Good(None)
        [] OTHER -> FieldOf(v.v, NameIn(items[i]))

Target(item) ==
  CASE item.k = "field" -> item.sub
    [] IsRest(item) -> IF item.target = <<>> THEN Hole ELSE item.target[1]
    [] OTHER -> item

RECURSIVE Match(_, _, _, _)
MatchShare(m, item, outcome, assign) ==
  Match(Matched(IF outcome.ok THEN m.w ELSE Complain(m.w, outcome.msg), m.names),
        Target(item), outcome.value, assign)
MatchItems(m, items, v, assign) ==
  FoldLeft(LAMBDA t, i : MatchShare(t, items[i], Share(items, v, i), assign), m,
           [i \in DOMAIN items |-> i])
MatchAll(m, items, v, fault, assign) ==
  IF fault = "" THEN MatchItems(m, items, v, assign)
  ELSE MatchItems(Matched(Complain(m.w, fault), m.names), items, ErrorValue, assign)
Match(m, pat, v, assign) ==
  CASE pat.k = "ident" -> MatchName(m, pat.n, v, assign)
    [] pat.k = "hole" -> m
    [] pat.k = "destruct" ->
         MatchAll(m, pat.items, v, IF IsError(v) THEN "" ELSE PatternFault(pat.items, v), assign)

Destructured(w, pat, v, assign) == Match(Matched(w, {}), pat, v, assign).w

-----------------------------------------------------------------------------
(* Joins and escapes.                                                      *)

\* What items are joined to: the items of a content block make content, one
\* item is itself.
Joined(w, content, items) ==
  CASE content -> Gave(w, ContentOf(items))
    [] ~content /\ Len(items) = 0 -> Gave(w, None)
    [] ~content /\ Len(items) = 1 -> Gave(w, items[1])
    [] OTHER -> Obtained(w, JoinOutcome(items, FALSE))

\* Control leaves with what was joined; an explicit value is not joined to.
Carry(joined, exit) ==
  Leaving(joined.w, IF exit.kind \in {"return value", "out of fuel"} THEN exit
                    ELSE [exit EXCEPT !.v = joined.v])
CarriedOut(items, exit) ==
  IF exit = <<>> \/ exit[1].kind = "return value" THEN items ELSE Append(items, exit[1].v)

\* An escape that came up in a branch, a body or a function leaves there.
Caught(before, o, warns) ==
  LET p == o.w.pending[1]
      w == [o.w EXCEPT !.pending = <<>>]
  IN  CASE o.exit # <<>> \/ o.w.pending = before -> o
        [] o.exit = <<>> /\ o.w.pending # before /\ p.kind # "return value" ->
             Leaving(w, [kind |-> p.kind, v |-> o.v])
        [] OTHER -> Leaving(IF warns /\ o.v.type = "content"
                            THEN [w EXCEPT !.errs = @ \cup {"discarded"}] ELSE w, p)

\* Of two escapes in one statement the first counts.
Escape(w, kind, v) ==
  Gave(IF w.pending # <<>> THEN w ELSE [w EXCEPT !.pending = <<[kind |-> kind, v |-> v]>>], None)

-----------------------------------------------------------------------------
(* Blocks, branches and loops.                                             *)

RECURSIVE Means(_, _)

\* Values from left to right, until control leaves.
AddMeant(acc, o) ==
  IF o.exit # <<>> THEN [acc EXCEPT !.w = o.w, !.exit = o.exit]
  ELSE [acc EXCEPT !.w = o.w, !.vs = Append(@, o.v)]
MeansEach(w, nodes) ==
  FoldLeft(LAMBDA acc, n : IF acc.exit # <<>> THEN acc ELSE AddMeant(acc, Means(acc.w, n)),
           [w |-> w, vs |-> <<>>, exit |-> <<>>], nodes)

\* Nothing behind a statement with an escape is reached.
Statements(w, nodes) ==
  FoldLeft(LAMBDA acc, n : IF acc.exit # <<>> \/ acc.w.pending # w.pending THEN acc
                           ELSE AddMeant(acc, Means(acc.w, n)),
           [w |-> w, vs |-> <<>>, exit |-> <<>>], nodes)
EndOfBlock(acc, content) ==
  LET joined == Joined(Leave(acc.w), content, CarriedOut(acc.vs, acc.exit))
  IN  IF acc.exit = <<>> THEN joined ELSE Carry(joined, acc.exit[1])
MeansBlock(w, n) == EndOfBlock(Statements(Enter(w), n.body), n.k = "contentblock")

\* What is not true takes the other arm, what is no boolean with an error.
Judge(o) ==
  Strictly(o.w, <<o.v>>, GoodIf(o.v.type = "boolean", o.v, "expected boolean"))
Holds(o) == o.v.type = "boolean" /\ o.v.v

MeansArm(w, n) == Caught(w.pending, MeansBlock(w, n), FALSE)
MeansOther(w, else) ==
  IF else = <<>> THEN Gave(w, None)
  ELSE IF else[1].k = "if" THEN Means(w, else[1]) ELSE MeansArm(w, else[1])
MeansIf(cond, n) ==
  IF Holds(cond) THEN MeansArm(cond.w, n.then) ELSE MeansOther(Judge(cond).w, n.else)

\* A loop has gone round with the values so far; it ends when an error arose
\* in it, when it is left and when there is nothing more to do.
RECURSIVE Loop(_, _, _)
EndOfLoop(w, values) == Obtained([w EXCEPT !.loops = @ - 1], JoinOutcome(values, TRUE))
LeftLoop(joined, exit) ==
  IF exit.kind = "return"
  THEN Carry(Joined(joined.w, FALSE, <<joined.v, exit.v>>), exit)
  ELSE Leaving(joined.w, exit)
NextRound(w, n, loop, v) ==
  IF w.seq # loop.mark THEN EndOfLoop(w, Append(loop.values, v))
  ELSE Loop(w, n, [loop EXCEPT !.values = Append(@, v), !.round = @ + 1])
AfterRound(o, n, loop) ==
  IF o.exit = <<>> THEN NextRound(o.w, n, loop, o.v)
  ELSE CASE o.exit[1].kind = "break" -> EndOfLoop(o.w, Append(loop.values, o.exit[1].v))
         [] o.exit[1].kind = "continue" -> NextRound(o.w, n, loop, o.exit[1].v)
         [] o.exit[1].kind = "return" -> LeftLoop(EndOfLoop(o.w, loop.values), o.exit[1])
         [] OTHER -> Leaving([o.w EXCEPT !.loops = @ - 1], o.exit[1])
ForRound(w, n, loop) ==
  LET o == Caught(w.pending,
                  MeansBlock(Destructured(Enter(w), n.pat, loop.items[loop.round], FALSE), n.body),
                  FALSE)
  IN  AfterRound([o EXCEPT !.w = Leave(@)], n, loop)
WhileRound(cond, n, loop) ==
  IF Holds(cond)
  THEN IF cond.w.fuel = 0
       THEN Leaving(cond.w, [kind |-> "out of fuel", v |-> None])
       ELSE AfterRound(Caught(cond.w.pending,
                              MeansBlock([cond.w EXCEPT !.fuel = @ - 1], n.body), FALSE), n, loop)
  ELSE EndOfLoop(Judge(cond).w, loop.values)
Loop(w, n, loop) ==
  IF n.k = "while" THEN WhileRound(Means(w, n.c), n, loop)
  ELSE IF loop.round > Len(loop.items) THEN EndOfLoop(w, loop.values)
  ELSE ForRound(w, n, loop)
GoRound(w, n, items) ==
  Loop([w EXCEPT !.loops = @ + 1], n,
       [items |-> items, values |-> <<>>, round |-> 1, mark |-> w.seq])
IterateOver(items, n) == GoRound(items.w, n, IF IsError(items.v) THEN <<>> ELSE items.v.v)
MeansFor(x, n) ==
  IterateOver(Strictly(x.w, <<x.v>>, Iterated(x.v, n.pat.k = "destruct")), n)

-----------------------------------------------------------------------------
(* Functions.                                                              *)

ParamNameOf(p) == IF p.pat.k = "ident" THEN p.pat.n ELSE "_"
Signature(params) == [i \in DOMAIN params |-> [kind |-> params[i].kind, name |-> ParamNameOf(params[i])]]
DefaultNodes(params) == FlattenSeq([i \in DOMAIN params |-> params[i].default])

\* A parameter or a sink that is written again.
WrittenAgain(params) ==
  {"duplicate parameter" :
     i \in {j \in DOMAIN params : \E h \in 1 .. j - 1 :
             params[j].pat.k = "ident" /\ params[h].pat = params[j].pat}}
  \cup {"only one argument sink is allowed" :
         i \in {j \in DOMAIN params : \E h \in 1 .. j - 1 :
                 params[j].kind = "sink" /\ params[h].kind = "sink"}}
ComplainOf(w, msgs) == [w EXCEPT !.errs = @ \cup msgs, !.seq = @ + Cardinality(msgs)]

\* The k-th of the defaults belongs to the k-th parameter that has one.
DefaultAt(fn, defaults, i) ==
  IF fn.params[i].default = <<>> THEN None
  ELSE defaults[Cardinality({j \in 1 .. i : fn.params[j].default # <<>>})]
MakeFunction(w, fn, self, defaults) ==
  Strictly(ComplainOf(w, WrittenAgain(fn.params)), defaults,
           Good(Value("function", [fn |-> fn, self |-> self, sees |-> Visible(w),
                                   defaults |-> defaults])))

\* A call binds its parameters in a world of its own.
Inside(w, f, callee) ==
  [w EXCEPT !.scopes = <<<<>>>>, !.depth = @ + 1, !.isFn = TRUE, !.loops = 0, !.pending = <<>>,
            !.outer = IF f.self = "" THEN f.sees ELSE (f.self :> callee) @@ f.sees]
BindParams(w, f, args) ==
  FoldLeft(LAMBDA t, i : Destructured(t, f.fn.params[i].pat,
                                      Passed(Signature(f.fn.params), args, i, DefaultAt(f.fn, f.defaults, i)),
                                      FALSE),
           w, [i \in DOMAIN f.fn.params |-> i])
MeansBody(w, body) ==
  Caught(<<>>, Means(w, body), body.k = "codeblock")
Back(w, inner) ==
  [inner EXCEPT !.scopes = w.scopes, !.outer = w.outer, !.depth = w.depth, !.isFn = w.isFn,
                !.loops = w.loops, !.pending = w.pending]
Returned(w, o) ==
  IF o.exit = <<>> THEN Gave(Back(w, o.w), o.v)
  ELSE IF o.exit[1].kind = "out of fuel" THEN Leaving(Back(w, o.w), o.exit[1])
  ELSE Gave(Back(w, o.w), o.exit[1].v)
Invoke(w, callee, args) ==
  Returned(w, MeansBody(BindParams(Inside(w, callee.v, callee), callee.v, args), callee.v.fn.body))

KindsOf(n) == [i \in 1 .. Len(n.items) + Len(n.blocks) |-> IF i > Len(n.items) THEN "elem" ELSE n.items[i].kind]
KeysOf(n) == [i \in 1 .. Len(n.items) + Len(n.blocks) |-> IF i > Len(n.items) THEN "" ELSE n.items[i].key]
NamedTwice(items) ==
  \E i, j \in DOMAIN items : i < j /\ items[i].kind = "named" /\ items[j].kind = "named" /\ items[i].key = items[j].key

FaultOfCall(w, vs, n) ==
  CASE vs[1].type # "function" -> "expected function"
    [] Unspreadable(Tail(vs), KindsOf(n)) -> "spread"
    [] IsBuiltin(vs[1]) -> ArgumentFault(vs[1].v.params, CallArguments(Tail(vs), KindsOf(n), KeysOf(n)))
    [] w.depth >= Depth -> "call depth"
    [] OTHER -> ArgumentFault(Signature(vs[1].v.fn.params), CallArguments(Tail(vs), KindsOf(n), KeysOf(n)))
MeansCall(w, vs, n) ==
  IF (\E i \in DOMAIN vs : IsError(vs[i])) THEN Gave(w, ErrorValue)
  ELSE IF FaultOfCall(w, vs, n) # "" THEN ErrorIn(w, FaultOfCall(w, vs, n))
  ELSE IF IsBuiltin(vs[1]) THEN Gave(w, Repr(vs[2]))
  ELSE Invoke(w, vs[1], CallArguments(Tail(vs), KindsOf(n), KeysOf(n)))

-----------------------------------------------------------------------------
(* Expressions and statements.                                             *)

\* What is computed before the node itself, from left to right.
Parts(n) ==
  CASE n.k \in {"unary", "assign", "let", "destructassign"} -> <<n.x>>
    [] n.k = "binary" -> <<n.l, n.r>>
    [] n.k \in {"array", "dict"} -> [i \in DOMAIN n.items |-> n.items[i].x]
    [] n.k = "call" -> <<n.f>> \o [i \in DOMAIN n.items |-> n.items[i].x] \o n.blocks
    [] n.k = "closure" -> DefaultNodes(n.params)
    [] n.k = "letfn" -> DefaultNodes(n.fn.params)
    [] n.k = "return" -> n.x
    [] n.k = "if" -> <<n.c>>
    [] n.k = "for" -> <<n.x>>
    [] n.k = "short" -> <<n.l>>
    [] OTHER -> <<>>

Spreads(items) == [i \in DOMAIN items |-> items[i].kind = "spread"]
Done(w) == Gave(w, None)
OpAssigned(w, n, o) == Done(Remember(o.w, n, o.v))
AssignMeant(w, n, v) ==
  CASE ~Sees(w, n.n) -> ErrorIn(w, "unknown variable")
    [] Sees(w, n.n) /\ Holding(w, n.n) = {} -> ErrorIn(w, "cannot mutate a constant")
    [] n.op = "=" -> Done(Remember(w, n.n, v))
    [] OTHER -> OpAssigned(w, n.n, Strictly(w, <<Recalled(w, n.n), v>>, Compute(n.op, Recalled(w, n.n), v)))
BothMeant(o, left, op) ==
  IF o.exit # <<>> THEN o ELSE Strictly(o.w, <<left, o.v>>, Compute(op, left, o.v))
LetFnMeant(o, n) == Done(Introduce(o.w, n, o.v))
Once(w, items, msg) == IF NamedTwice(items) THEN Complain(w, msg) ELSE w

\* The node, its parts being computed.
Combine(w, n, vs) ==
  CASE n.k = "unary" -> Strictly(w, vs, OutcomeOr(UnaryOp(n.op, vs[1]), n.op))
    [] n.k = "binary" -> Strictly(w, vs, Compute(n.op, vs[1], vs[2]))
    [] n.k = "short" ->
         IF Decides(n.op, vs[1]) THEN Gave(w, vs[1]) ELSE BothMeant(Means(w, n.r), vs[1], n.op)
    [] n.k = "array" ->
         Obtained(w, GoodIf(Spreadable(vs, Spreads(n.items), "array"), ArrayOf(vs, Spreads(n.items)), "spread"))
    [] n.k = "dict" ->
         Obtained(Once(w, n.items, "duplicate key"),
                  GoodIf(Spreadable(vs, Spreads(n.items), "dictionary"),
                         DictOf(vs, Spreads(n.items), [i \in DOMAIN n.items |-> n.items[i].key]), "spread"))
    [] n.k = "call" -> MeansCall(Once(w, n.items, "duplicate argument"), vs, n)
    [] n.k = "closure" -> MakeFunction(w, n, "", vs)
    [] n.k = "letfn" -> LetFnMeant(MakeFunction(w, n.fn, n.n, vs), n.n)
    [] n.k = "assign" -> AssignMeant(w, n, vs[1])
    [] n.k = "let" -> Done(Destructured(w, n.pat, vs[1], FALSE))
    [] n.k = "destructassign" -> Done(Destructured(w, n.pat, vs[1], TRUE))
    [] n.k = "if" -> MeansIf(Gave(w, vs[1]), n)
    [] n.k = "for" -> MeansFor(Gave(w, vs[1]), n)
    [] n.k \in {"break", "continue"} ->
         IF w.loops = 0 THEN ErrorIn(w, n.k) ELSE Escape(w, n.k, None)
    [] n.k = "return" ->
         IF vs = <<>> THEN Escape(w, "return", None) ELSE Escape(w, "return value", vs[1])
CombineUnlessLeft(acc, n) ==
  IF acc.exit = <<>> THEN Combine(acc.w, n, acc.vs) ELSE Leaving(acc.w, acc.exit[1])

Means(w, n) ==
  CASE n.k = "literal" -> Gave(w, n.v)
    [] n.k = "ident" -> Recall(w, n.n)
    [] IsBlock(n) -> MeansBlock(w, n)
    [] n.k = "while" -> GoRound(w, n, <<>>)
    [] n.k = "return" /\ ~w.isFn -> ErrorIn(w, "cannot return outside of function")
    [] OTHER -> CombineUnlessLeft(MeansEach(w, Parts(n)), n)

\* A document: its content, the variables it exports and what it reported.
Document(acc) ==
  [content |-> ContentOf(acc.vs), exports |-> acc.w.scopes[1], errors |-> acc.w.errs,
   ended |-> acc.exit = <<>>]
Meant(universe, program) == Document(MeansEach(NewWorld(universe), program))
=============================================================================
