----------------------------- MODULE Computing -----------------------------
(***************************************************************************)
(* Expressions, computed operation by operation: values are operands of    *)
(* the operators, are joined, and arrays are asked for what their methods  *)
(* make of them.  Whatever fails ends the expression: its value is an      *)
(* error that every operation around it hands on.                          *)
(***************************************************************************)
EXTENDS Arrays

CONSTANTS
  Families,    \* what expressions are made of, in families that stay apart
  SpanParts,   \* arguments of duration: <<weeks, days, hours>>
  Elements,    \* what arrays are made of
  MethodCalls, \* methods of arrays with their arguments: <<name, ...>>
  RangeArgs,   \* arguments of range: <<start, end, step>>
  MaxLen,      \* bound on the arrays written out
  MaxStack,    \* bound on the operands that wait
  MaxOps       \* bound on the operations of an expression

VARIABLES
  stack, \* operands, the last computed last
  done,  \* the last operation: its name, operands and outcome
  ops    \* how many operations were done

vars == <<stack, done, ops>>

Nothing == [op |-> <<"none">>, operands |-> <<>>, outcome |-> Result(None)]

Init == stack = <<>> /\ done = Nothing /\ ops = 0

-----------------------------------------------------------------------------

Literal ==
  /\ ops < MaxOps /\ Len(stack) < MaxStack
  /\ \E family \in Families : \E v \in family :
       /\ \/ ToSet(stack) \subseteq family
          \/ Len(stack) = 1 /\ stack[1].type = "array"
       /\ stack' = Append(stack, v)
  /\ UNCHANGED <<done, ops>>

MakeArray ==
  /\ ops < MaxOps /\ stack = <<>>
  /\ \E n \in 0 .. MaxLen : \E elems \in [1 .. n -> Elements] : stack' = <<Array(elems)>>
  /\ UNCHANGED <<done, ops>>

\* An operation replaces its operands by what it gives.
Perform(op, operands, rest, outcome) ==
  /\ ops' = ops + 1
  /\ done' = [op |-> op, operands |-> operands, outcome |-> outcome]
  /\ stack' = IF outcome.how = "value" THEN Append(rest, outcome.value) ELSE <<>>

Unary ==
  /\ ops < MaxOps /\ stack # <<>>
  /\ \E op \in {"not", "+", "-"} :
       Perform(<<op>>, <<Last(stack)>>, Front(stack), OutcomeOf(UnaryOp(op, Last(stack))))

Operators ==
  {"+", "-", "*", "/", "==", "!=", "<", "<=", ">", ">=", "in", "not in", "and", "or"}
Below(s) == s[Len(s) - 1]

\* `and` and `or` are decided by their left operand where it decides.
Decides(op, x) == x.type = "boolean" /\ ((op = "and" /\ ~x.v) \/ (op = "or" /\ x.v))
Evaluated(op, x, y) == IF Decides(op, x) THEN Gives(x) ELSE BinaryOp(op, x, y)
Binary ==
  /\ ops < MaxOps /\ Len(stack) > 1
  /\ \E op \in Operators :
       Perform(<<op>>, <<Below(stack), Last(stack)>>, Front(Front(stack)),
               OutcomeOf(Evaluated(op, Below(stack), Last(stack))))

Join ==
  /\ ops < MaxOps /\ Len(stack) > 1
  /\ Perform(<<"join">>, stack, <<>>, OutcomeOf(JoinValues(stack)))

\* An array has no room behind its elements unless it was made longer before.
Answer(m, elems) ==
  CASE m[1] = "at" -> At(elems, m[2], m[3])
    [] m[1] = "first" -> First(elems, m[2])
    [] m[1] = "last" -> LastOf(elems, m[2])
    [] m[1] = "slice" -> Slice(elems, 0, m[2], m[3], m[4])
    [] m[1] = "rev" -> Rev(elems)
    [] m[1] = "intersperse" -> Intersperse(elems, m[2])
    [] m[1] = "windows" -> Windows(elems, m[2])
    [] m[1] = "chunks" -> Chunks(elems, m[2], m[3])
    [] m[1] = "zip" -> Zip2(elems, m[2], m[3])
    [] m[1] = "enumerate" -> Enumerate(elems, m[2])
    [] m[1] = "to-dict" -> ToDict(elems)
    [] m[1] = "sum" -> Sum2(elems, m[2])
    [] m[1] = "product" -> Product2(elems, m[2])
    [] m[1] = "join" -> JoinElems(elems, m[2], m[3], m[4])
    [] m[1] = "filter" -> Filter(elems, m[2])
    [] m[1] = "map" -> MapElems(elems, m[2])
    [] m[1] = "position" -> Position(elems, m[2])
    [] m[1] = "fold" -> Fold(elems, m[2], m[3])
    [] m[1] = "reduce" -> ReduceElems(elems, m[2])
    [] m[1] = "sorted" -> Sorted(elems, m[2], m[3])
    [] m[1] = "dedup" -> Dedup(elems, m[2])

CallMethod ==
  /\ ops < MaxOps /\ Len(stack) = 1 /\ stack[1].type = "array"
  /\ \E m \in MethodCalls : Perform(m, stack, <<>>, Answer(m, stack[1].v))

Pairs2 ==
  /\ ops < MaxOps /\ Len(stack) = 1 /\ stack[1].type = "dictionary"
  /\ Perform(<<"pairs">>, stack, <<>>, DictPairs(stack[1].v))

Range2 ==
  /\ ops < MaxOps /\ stack = <<>>
  /\ \E args \in RangeArgs :
       Perform(<<"range">>, args, <<>>, RangeOf(args[1], args[2], args[3]))

MakeSpan ==
  /\ ops < MaxOps /\ stack = <<>>
  /\ \E parts \in SpanParts :
       Perform(<<"duration">>, parts, <<>>,
               OutcomeOf(SpanOf(NewDuration(parts[1], parts[2], parts[3]))))

Next ==
  Literal \/ MakeArray \/ Unary \/ Binary \/ Join \/ CallMethod \/ Pairs2 \/ Range2 \/ MakeSpan

Spec == Init /\ [][Next]_vars

-----------------------------------------------------------------------------

(* Properties.                                                             *)

Gave == done.outcome.how = "value"
Subject == done.operands[1].v
Made == done.outcome.value.v
Types == [i \in DOMAIN done.operands |-> done.operands[i].type]
OfTypes(type) == Types = <<type, type>>
Exact(a, b) == IF done.op = <<"+">> THEN a + b ELSE a - b
The(type) == done.operands[CHOOSE i \in 1 .. 2 : Types[i] = type].v
IsSpan(hours) == Gave => Canonical(Made) /\ Hours(Made) = hours

\* A date and a span: the part of the span that fits its grain counts.
MovesExactly ==
  LET at == The("datetime")
      by == Toward(Hours(The("duration")), Grain) * Grain
      exact == Exact(at.t, by)
  IN  /\ Gave => /\ Made.t = IF at.kind = "time" THEN exact % Day ELSE exact
                /\ (Made.kind = "date") = (at.kind = "date" /\ exact % Day = 0)
                /\ (Made.kind = "time") = (at.kind = "time")
      /\ exact \in Clock /\ by \in -MaxShiftDays * Day .. MaxShiftDays * Day => Gave

\* Sums and differences of integers, and what spans, dates and times of day are
\* added, taken away, scaled and divided to, are exact or refused: nothing wraps,
\* no unit is dropped, and no span leaves its canonical form.  Integers are
\* refused only if the sum is none, spans only beyond MaxDays days, times only
\* beyond what can be held.  Products and negations of integers are not meant.
ArithmeticExact ==
  /\ done.op \in {<<"+">>, <<"-">>} =>
       /\ OfTypes("integer") =>
            LET exact == Exact(Subject, done.operands[2].v)
            IN  Gave = (exact \in Ints) /\ (Gave => Made = exact)
       /\ OfTypes("duration") =>
            LET exact == Exact(Hours(Subject), Hours(done.operands[2].v))
            IN  IsSpan(exact) /\ (exact \in -MaxDays * Day .. MaxDays * Day => Gave)
       /\ OfTypes("datetime") =>
            LET from == done.operands[2].v
            IN  /\ Gave => done.op = <<"-">> /\ from.kind = Subject.kind
                /\ IsSpan(Subject.t - from.t)
                /\ done.op = <<"-">> /\ from.kind = Subject.kind /\ Subject.t - from.t \in Clock => Gave
       /\ Types = <<"datetime", "duration">> => MovesExactly
       /\ Types = <<"duration", "datetime">> /\ done.op = <<"+">> => MovesExactly
  /\ \A number \in {"integer", "float"} :
       /\ done.op = <<"*">> /\ Types \in {<<"duration", number>>, <<number, "duration">>} =>
            IsSpan(Hours(The("duration")) * The(number))
       /\ done.op = <<"/">> /\ Types = <<"duration", number>> =>
            LET n == The(number)
            IN  IsSpan(IF n > 0 THEN Toward(Hours(Subject), n) ELSE Toward(-Hours(Subject), -n))
  /\ done.op = <<"duration">> =>
       IsSpan((done.operands[1] * 7 + done.operands[2]) * Day + done.operands[3])

\* The comparisons of the last operands agree with each other, with equality,
\* and along three operands; what they refuse they refuse both ways.  What is
\* not a number is left out: it is not equal to itself, yet not ordered.
RECURSIVE Numbers(_)
NumbersIn(x) == Numbers(x)
Numbers(x) ==
  CASE x.type \in {"float", "ratio"} -> {x.v}
    [] x.type = "length" -> {x.v.pt, x.v.em}
    [] x.type = "relative" -> {x.v.ratio, x.v.pt, x.v.em}
    [] x.type = "array" -> UNION {NumbersIn(x.v[i]) : i \in DOMAIN x.v}
    [] OTHER -> {}
Comparisons == {"<", "<=", ">", ">=", "=="}
Known == {i \in DOMAIN stack : NaN \notin Numbers(stack[i])}
Agree(order) ==
  LET Answers(i, j) == \A op \in Comparisons : order[op, i, j].ok
      Holds(op, i, j) == order[op, i, j] = Gives(Bool(TRUE))
  IN  \A i, j \in Known : order["<", i, j].ok =>
        /\ Answers(i, j) /\ Answers(j, i)
        /\ Holds("<", i, j) = Holds(">", j, i)
        /\ Holds("<=", i, j) = ~Holds(">", i, j)
        /\ (Holds("<=", i, j) /\ Holds(">=", i, j)) = Holds("==", i, j)
        /\ \A k \in Known : Holds("<", i, k) /\ Holds("<", k, j) => Holds("<", i, j)
OrderAgrees ==
  Len(stack) > 1 =>
    Agree([op \in Comparisons, i \in DOMAIN stack, j \in DOMAIN stack |->
             BinaryOp(op, stack[i], stack[j])])

\* Sorting gives a permutation in which no element is before its predecessor
\* and equal ones keep their order, by key and by comparison function; leaving
\* out duplicates keeps the first element of every key, in order.
Orders == {"none", "smaller", "greater"}
KeyOrder(key, by, x, y) == OrderOf(key, by, KeyOf(key, x), KeyOf(key, y))
IsStableSort(made, given, key, by) ==
  \E p \in [DOMAIN made -> DOMAIN given] :
    /\ Len(made) = Len(given)
    /\ \A i \in DOMAIN made : made[i] = given[p[i]]
    /\ \A i, j \in DOMAIN made :
         i < j => \/ KeyOrder(key, by, made[i], made[j]) = -1
                  \/ KeyOrder(key, by, made[i], made[j]) = 0 /\ p[i] < p[j]
Firsts(elems, key) ==
  {i \in DOMAIN elems : \A j \in 1 .. i - 1 : KeyOrder(key, NoFunction, elems[i], elems[j]) # 0}
SortedAndDeduped ==
  Gave =>
    /\ done.op[1] = "sorted" /\ done.op[3] \in Orders =>
         IsStableSort(Made, Subject, done.op[2], done.op[3])
    /\ done.op[1] = "dedup" => Made = Picked(Subject, Firsts(Subject, done.op[2]))

\* Pieces of an array are runs of its elements at the places asked for, and
\* what is cut up or woven together can be put together or taken apart again.
\* A count that leads past the integers is left out: it gives no elements.
StartsAt(piece, i) == piece # <<>> => At(Subject, i, <<>>) = Result(piece[1])
EndsBefore(piece, start, i) ==
  piece # <<>> /\ Within(Subject, i) => Index(Subject, start) + Len(piece) = Index(Subject, i)
IsRun(piece) == \E i \in 0 .. Len(Subject) : SubSeq(Subject, i + 1, i + Len(piece)) = piece
Column(k) == [i \in DOMAIN Made |-> Made[i].v[k]]
PiecesInOrder ==
  Gave =>
    /\ done.op[1] = "slice" =>
         /\ IsRun(Made)
         /\ StartsAt(Made, done.op[2])
         /\ done.op[3] # <<>> => EndsBefore(Made, done.op[2], done.op[3][1])
         /\ done.op[4] # <<>> /\ Index(Subject, done.op[2]) + done.op[4][1] \in Ints =>
              Len(Made) = done.op[4][1]
    /\ done.op[1] = "windows" =>
         \A i \in DOMAIN Made : /\ Len(Made[i].v) = done.op[2]
                                /\ IsRun(Made[i].v) /\ StartsAt(Made[i].v, i - 1)
    /\ done.op[1] = "chunks" =>
         LET whole == FlattenSeq([i \in DOMAIN Made |-> Made[i].v])
         IN  /\ IsPrefix(whole, Subject)
             /\ Len(Subject) - Len(whole) < IF done.op[3] THEN done.op[2] ELSE 1
             /\ \A i \in DOMAIN Made : Len(Made[i].v) = done.op[2] \/ (i = Len(Made) /\ ~done.op[3])
    /\ done.op[1] = "intersperse" =>
         [i \in 1 .. (Len(Made) + 1) \div 2 |-> Made[2 * i - 1]] = Subject
    /\ done.op[1] = "zip" =>
         /\ IsPrefix(Column(1), Subject)
         /\ \A k \in DOMAIN done.op[2] : IsPrefix(Column(k + 1), done.op[2][k].v)

\* map, filter, dedup and sorted by a key make an array only if every callback it
\* rests on answered, and a method is poisoned only if one of them was.
Asked(f) == {ApplyFunction(f, <<Subject[i]>>) : i \in DOMAIN Subject}
RestsOn ==
  CASE done.op[1] \in {"map", "filter", "dedup"} /\ done.op[2] # NoFunction -> Asked(done.op[2])
    [] done.op[1] = "sorted" /\ Len(Subject) > 1 /\ done.op[2] # NoFunction -> Asked(done.op[2])
    [] OTHER -> {}
NoFailureHidden ==
  /\ Gave => \A o \in RestsOn : ~Stops(o)
  /\ done.outcome = Poison /\ done.op[1] \in {"map", "filter", "dedup"} => Poison \in RestsOn

\* Joining some of the values first makes no difference to what is read,
\* unless arrays are joined, which nest; and joining two values of a type is adding them up.
RECURSIVE Flat(_)
FlatOf(x) == Flat(x)
Flat(x) ==
  CASE x.type = "content" /\ x.v.kind = "sequence" ->
         FlattenSeq([i \in DOMAIN x.v.children |-> FlatOf(x.v.children[i])])
    [] x.type = "content" /\ x.v.kind = "text" -> x.v.text
    [] OTHER -> <<x>>
SameJoin(r, s) == r.ok = s.ok /\ (r.ok => Flat(r.value) = Flat(s.value))
Rejoined(first, rest) == IF first.ok THEN JoinValues(rest[1] \o <<first.value>> \o rest[2]) ELSE Fails
JoinIsFlat ==
  done.op = <<"join">> /\ (\A i \in DOMAIN done.operands : done.operands[i].type # "array") =>
    /\ \A i \in DOMAIN done.operands, j \in DOMAIN done.operands :
         i <= j => SameJoin(JoinValues(done.operands),
                            Rejoined(JoinValues(SubSeq(done.operands, i, j)),
                                     <<SubSeq(done.operands, 1, i - 1),
                                       SubSeq(done.operands, j + 1, Len(done.operands))>>))
    /\ Len(done.operands) = 2 /\ done.operands[1].type = done.operands[2].type
         /\ JoinValues(done.operands).ok
       => SameJoin(JoinValues(done.operands), BinaryOp("+", done.operands[1], done.operands[2]))
=============================================================================
