------------------------------- MODULE Values -------------------------------
(***************************************************************************)
(* Values, their operators, equality and order, and the joining of several *)
(* into one.                                                               *)
(*                                                                         *)
(* A value is a type and what it holds.  Integers have a width.  Floats    *)
(* and decimals are whole numbers here, their quotients rounded, and one   *)
(* marker stands for what is not a number.  A ratio stands for angles and  *)
(* fractions as well, which have the same operators.                       *)
(***************************************************************************)
EXTENDS Integers, Sequences, SequencesExt, FiniteSetsExt, Pairs, Durations

CONSTANTS
  MaxInt,   \* the largest integer, math.MaxInt64 in the code
  MaxRepeat \* bound on what repeating a string or an array may make

ASSUME MaxIntAssumption == MaxInt \in Nat \ {0} /\ MaxRepeat \in Nat

Value(type, v) == [type |-> type, v |-> v]
None == Value("none", 0)
Bool(b) == Value("boolean", b)
Integer(n) == Value("integer", n)
Float(n) == Value("float", n)
Ratio(n) == Value("ratio", n)
Length(pt, em) == Value("length", [pt |-> pt, em |-> em])
Relative(ratio, pt, em) == Value("relative", [ratio |-> ratio, pt |-> pt, em |-> em])
Str(letters) == Value("string", letters)
Array(elems) == Value("array", elems)
Dict(pairs) == Value("dictionary", pairs)
ArgumentsOf(pos, named) == Value("arguments", [pos |-> pos, named |-> named])
Text(letters) == Value("content", [kind |-> "text", text |-> letters, children |-> <<>>])
Sequence(children) == Value("content", [kind |-> "sequence", text |-> <<>>, children |-> children])
Span(d) == Value("duration", d)
Moment(d) == Value("datetime", d)

\* An operation gives a value or fails.
Gives(value) == [ok |-> TRUE, value |-> value]
Fails == [ok |-> FALSE, value |-> None]
GivesIf(fits, value) == IF fits THEN Gives(value) ELSE Fails

Ints == -MaxInt - 1 .. MaxInt
Wrap(n) == ((n + MaxInt + 1) % (2 * (MaxInt + 1))) - (MaxInt + 1)

NaN == 1000000
Plus(a, b) == IF NaN \in {a, b} THEN NaN ELSE a + b
Times(a, b) == IF NaN \in {a, b} THEN NaN ELSE a * b
Opposite(a) == IF a = NaN THEN NaN ELSE -a
Over(a, b) ==
  IF NaN \in {a, b} \/ b = 0 THEN NaN
  ELSE IF b > 0 THEN a \div b ELSE (-a) \div (-b)

-----------------------------------------------------------------------------
(* Promotion of two operands to one type.                                  *)

PromotionOrd(type) ==
  CASE type = "boolean" -> 1
    [] type = "integer" -> 2
    [] type = "float" -> 3
    [] type \in {"length", "ratio"} -> 4
    [] type = "relative" -> 5
    [] OTHER -> -1

PromotesInt == {"float", "length", "relative", "ratio"}

Promote0(op, x, target) ==
  CASE op # "/" /\ x.type = "length" /\ target = "relative" -> Relative(0, x.v.pt, x.v.em)
    [] op # "/" /\ x.type = "ratio" /\ target = "relative" -> Relative(x.v, 0, 0)
    [] OTHER -> x

Promote(op, x, y) ==
  IF x.type = "integer" /\ y.type \in PromotesInt THEN <<Float(x.v), y>>
  ELSE IF y.type = "integer" /\ x.type \in PromotesInt THEN <<x, Float(y.v)>>
  ELSE IF PromotionOrd(x.type) < PromotionOrd(y.type) THEN <<Promote0(op, x, y.type), y>>
  ELSE <<x, Promote0(op, y, x.type)>>

-----------------------------------------------------------------------------
(* Equality and order.                                                     *)

\* Equality of values of one type; elements of containers are promoted, the
\* arguments of calls are not unless they are compared with an array.
RECURSIVE SameValue(_, _)
SameElement(p) == SameValue(p[1], p[2])
SameElements(s, t) ==
  Len(s) = Len(t) /\ \A i \in DOMAIN s : SameElement(Promote("==", s[i], t[i]))
SameValue(x, y) ==
  CASE x.type = "arguments" /\ y.type = "array" ->
         x.v.named = <<>> /\ SameElements(x.v.pos, y.v)
    [] x.type = "array" /\ y.type = "arguments" ->
         y.v.named = <<>> /\ SameElements(y.v.pos, x.v)
    [] x.type = y.type /\ x.type \in {"float", "ratio"} -> x.v = y.v /\ x.v # NaN
    [] x.type = y.type /\ x.type = "array" -> SameElements(x.v, y.v)
    [] x.type = y.type /\ x.type = "dictionary" ->
         /\ Len(x.v) = Len(y.v)
         /\ \A k \in Names(x.v) :
              k \in Names(y.v) /\ SameElement(Promote("==", Named(x.v, k), Named(y.v, k)))
    [] x.type = y.type /\ x.type = "arguments" ->
         /\ Len(x.v.pos) = Len(y.v.pos)
         /\ \A i \in DOMAIN x.v.pos : SameValue(x.v.pos[i], y.v.pos[i])
         /\ Len(x.v.named) = Len(y.v.named)
         /\ \A k \in Names(x.v.named) :
              k \in Names(y.v.named) /\ SameValue(Named(x.v.named, k), Named(y.v.named, k))
    [] x.type = y.type /\ x.type = "length" ->
         x.v = y.v /\ NaN \notin {x.v.pt, x.v.em}
    [] x.type = y.type /\ x.type = "relative" ->
         x.v = y.v /\ NaN \notin {x.v.ratio, x.v.pt, x.v.em}
    [] OTHER -> x.type = y.type /\ x.v = y.v

Equal(a, b) == SameElement(Promote("==", a, b))

Incomparable == 2
Before(a, b) == IF a = b THEN 0 ELSE IF a < b THEN -1 ELSE 1
BeforeOrNaN(a, b) ==
  CASE a = NaN /\ b = NaN -> 0 [] a = NaN /\ b # NaN -> -1
    [] a # NaN /\ b = NaN -> 1 [] OTHER -> Before(a, b)

\* Letters are ordered as the code points of strings are.
LetterOrder == <<"a", "b", "c">>
Rank(letter) == CHOOSE i \in DOMAIN LetterOrder : LetterOrder[i] = letter
FirstDifference(s, t) == {i \in DOMAIN s \cap DOMAIN t : s[i] # t[i]}
CompareStr(s, t) ==
  IF FirstDifference(s, t) = {} THEN Before(Len(s), Len(t))
  ELSE Before(Rank(s[Min(FirstDifference(s, t))]), Rank(t[Min(FirstDifference(s, t))]))

\* Lengths are comparable if both have one unit, the same, and it is not zero.
CompareLengths(a, b) ==
  CASE a.pt # 0 /\ a.em = 0 /\ b.pt # 0 /\ b.em = 0 -> BeforeOrNaN(a.pt, b.pt)
    [] a.pt = 0 /\ a.em # 0 /\ b.pt = 0 /\ b.em # 0 -> BeforeOrNaN(a.em, b.em)
    [] OTHER -> Incomparable
CompareRelatives(a, b) ==
  IF {a.pt, a.em, b.pt, b.em} = {0} THEN BeforeOrNaN(a.ratio, b.ratio)
  ELSE IF {a.ratio, a.em, b.ratio, b.em} = {0} THEN BeforeOrNaN(a.pt, b.pt)
  ELSE IF {a.ratio, a.pt, b.ratio, b.pt} = {0} THEN BeforeOrNaN(a.em, b.em)
  ELSE Incomparable

RECURSIVE Compare(_, _)
ComparePair(p) == Compare(p[1], p[2])
\* Which of two arrays is shorter is forgotten.
CompareFirstOnly(orders, shorter) ==
  IF \A i \in DOMAIN orders : orders[i] = 0 THEN 0
  ELSE orders[Min({i \in DOMAIN orders : orders[i] # 0})]

CompareFirst(orders, shorter) ==
  IF \A i \in DOMAIN orders : orders[i] = 0 THEN shorter
  ELSE orders[Min({i \in DOMAIN orders : orders[i] # 0})]

Compare(x, y) ==
  CASE x.type # y.type -> Incomparable
    [] x.type = y.type /\ x.type = "boolean" ->
         IF x.v = y.v THEN 0 ELSE IF y.v THEN -1 ELSE 1
    [] x.type = y.type /\ x.type = "integer" -> Before(x.v, y.v)
    [] x.type = y.type /\ x.type = "float" ->
         IF NaN \in {x.v, y.v} THEN Incomparable ELSE Before(x.v, y.v)
    [] x.type = y.type /\ x.type = "ratio" -> BeforeOrNaN(x.v, y.v)
    [] x.type = y.type /\ x.type = "length" -> CompareLengths(x.v, y.v)
    [] x.type = y.type /\ x.type = "relative" -> CompareRelatives(x.v, y.v)
    [] x.type = y.type /\ x.type = "string" -> CompareStr(x.v, y.v)
    [] x.type = y.type /\ x.type = "duration" -> CompareDurations(x.v, y.v)
    [] x.type = y.type /\ x.type = "datetime" ->
         IF x.v.kind = y.v.kind THEN CompareInts(x.v.t, y.v.t) ELSE Incomparable
    [] x.type = y.type /\ x.type = "array" ->
         CompareFirst([i \in 1 .. Min({Len(x.v), Len(y.v)}) |->
                         ComparePair(Promote("==", x.v[i], y.v[i]))],
                      Before(Len(x.v), Len(y.v)))
    [] OTHER -> Incomparable

-----------------------------------------------------------------------------
(* Operators.                                                              *)

SpanOf(result) == GivesIf(result.ok, Span(result.span))
MomentOf(result) == GivesIf(result.ok, Moment(result.span))

UnaryOp(op, x) ==
  CASE op = "not" -> IF x.type = "boolean" THEN Gives(Bool(~x.v)) ELSE Fails
    [] op = "+" -> GivesIf(x.type \in PromotesInt \cup {"integer", "duration"}, x)
    [] op = "-" /\ x.type = "integer" -> Gives(Integer(Wrap(-x.v)))
    [] op = "-" /\ x.type \in {"float", "ratio"} -> Gives(Value(x.type, Opposite(x.v)))
    [] op = "-" /\ x.type = "length" -> Gives(Length(Opposite(x.v.pt), Opposite(x.v.em)))
    [] op = "-" /\ x.type = "relative" ->
         Gives(Relative(Opposite(x.v.ratio), Opposite(x.v.pt), Opposite(x.v.em)))
    [] op = "-" /\ x.type = "duration" -> SpanOf(NegDuration(x.v))
    [] OTHER -> Fails

\* A sum past the range wraps, as a product does.
AddIntsWrapping(op, a, b) == Gives(Integer(Wrap(IF op = "+" THEN a + b ELSE a - b)))

\* A sum or a difference past the range is refused.
AddInts(op, a, b) ==
  LET exact == IF op = "+" THEN a + b ELSE a - b
  IN  GivesIf(exact \in Ints, Integer(exact))

AddDurationsOp(op, a, b) == SpanOf(IF op = "+" THEN AddDurations(a, b) ELSE SubDurations(a, b))

\* A date or time moved by a span, or back by it.
MoveOp(op, d, by) ==
  IF op = "+" THEN MomentOf(ShiftDatetime(d, by))
  ELSE IF NegDuration(by).ok THEN MomentOf(ShiftDatetime(d, NegDuration(by).span)) ELSE Fails

RepeatFits(size, times) == size = 0 \/ times = 0 \/ times <= MaxRepeat \div size
Repeated(s, times) == FlattenSeq([i \in 1 .. times |-> s])
Occurs(s, t) == \E i \in 0 .. Len(t) - Len(s) : SubSeq(t, i + 1, i + Len(s)) = s

\* Arguments are merged: the named ones of the right operand win.
MergeArguments(a, b) == ArgumentsOf(a.pos \o b.pos, PutAll(a.named, b.named))

\* + and -, of operands of one type.
Signed(op, b) == IF op = "+" THEN b ELSE Opposite(b)
AddSame(op, x, y) ==
  CASE x.type = "integer" -> AddInts(op, x.v, y.v)
    [] x.type \in {"float", "ratio"} -> Gives(Value(x.type, Plus(x.v, Signed(op, y.v))))
    [] x.type = "length" ->
         Gives(Length(Plus(x.v.pt, Signed(op, y.v.pt)), Plus(x.v.em, Signed(op, y.v.em))))
    [] x.type = "relative" ->
         Gives(Relative(Plus(x.v.ratio, Signed(op, y.v.ratio)),
                        Plus(x.v.pt, Signed(op, y.v.pt)), Plus(x.v.em, Signed(op, y.v.em))))
    [] x.type = "duration" -> AddDurationsOp(op, x.v, y.v)
    [] op = "-" /\ x.type = "datetime" -> SpanOf(DatetimeDifference(x.v, y.v))
    [] op = "+" /\ x.type \in {"string", "array"} -> Gives(Value(x.type, x.v \o y.v))
    [] op = "+" /\ x.type = "dictionary" -> Gives(Dict(PutAll(x.v, y.v)))
    [] op = "+" /\ x.type = "arguments" -> Gives(MergeArguments(x.v, y.v))
    [] op = "+" /\ x.type = "content" -> Gives(Sequence(<<x, y>>))
    [] OTHER -> Fails

AddOp(op, x, y) ==
  CASE x.type = y.type -> AddSame(op, x, y)
    [] x.type = "length" /\ y.type = "ratio" -> Gives(Relative(Signed(op, y.v), x.v.pt, x.v.em))
    [] op = "-" /\ x.type = "ratio" /\ y.type = "length" ->
         Gives(Relative(x.v, Opposite(y.v.pt), Opposite(y.v.em)))
    [] op = "+" /\ x.type = "content" /\ y.type = "string" -> Gives(Sequence(<<x, Text(y.v)>>))
    [] x.type = "datetime" /\ y.type = "duration" -> MoveOp(op, x.v, y.v)
    [] op = "+" /\ x.type = "duration" /\ y.type = "datetime" -> MoveOp(op, y.v, x.v)
    [] OTHER -> Fails

\* A length of one unit is scaled in that unit alone.
Scaled(n, l) ==
  IF l.pt # 0 /\ l.em = 0 THEN Length(Times(n, l.pt), 0)
  ELSE IF l.pt = 0 /\ l.em # 0 THEN Length(0, Times(n, l.em))
  ELSE Length(Times(n, l.pt), Times(n, l.em))

Numeric(x) == x.type \in {"integer", "float"}
ScaledSpan(d, n) == IF n = NaN THEN Fails ELSE SpanOf(ScaleDuration(d, n))
DividedSpan(d, n) == IF n \in {0, NaN} THEN Fails ELSE SpanOf(DivideDuration(d, n))

MulOp(x, y) ==
  CASE x.type = "integer" /\ y.type = "integer" -> Gives(Integer(Wrap(x.v * y.v)))
    [] x.type = "float" /\ y.type \in {"float", "ratio"} -> Gives(Value(y.type, Times(x.v, y.v)))
    [] x.type = "ratio" /\ y.type = "ratio" -> Gives(Ratio(Times(x.v, y.v)))
    [] x.type = "float" /\ y.type = "length" -> Gives(Scaled(x.v, y.v))
    [] x.type = "float" /\ y.type = "relative" ->
         Gives(Relative(Times(x.v, y.v.ratio), Times(x.v, y.v.pt), Times(x.v, y.v.em)))
    [] x.type = "integer" /\ y.type = "string" ->
         IF x.v < 0 \/ ~RepeatFits(Len(y.v), x.v) THEN Fails ELSE Gives(Str(Repeated(y.v, x.v)))
    [] x.type = "array" /\ y.type = "integer" ->
         IF y.v < 0 \/ ~RepeatFits(Len(x.v), y.v) THEN Fails ELSE Gives(Array(Repeated(x.v, y.v)))
    [] x.type = "content" /\ y.type = "integer" ->
         IF y.v < 0 THEN Fails ELSE Gives(Sequence([i \in 1 .. y.v |-> x]))
    [] x.type = "duration" /\ Numeric(y) -> ScaledSpan(x.v, y.v)
    [] Numeric(x) /\ y.type = "duration" -> ScaledSpan(y.v, x.v)
    [] OTHER -> Fails

\* A length over a relative one and the like: both must have the same single
\* component, and it must not be zero in the divisor.
AsRelative(x) ==
  CASE x.type = "length" -> [ratio |-> 0, pt |-> x.v.pt, em |-> x.v.em]
    [] x.type = "ratio" -> [ratio |-> x.v, pt |-> 0, em |-> 0]
    [] OTHER -> x.v
OverComponent(a, b) == GivesIf(b # 0, Float(Over(a, b)))
DivRelatives(a, b) ==
  IF {a.pt, a.em, b.pt, b.em} = {0} THEN OverComponent(a.ratio, b.ratio)
  ELSE IF {a.ratio, a.em, b.ratio, b.em} = {0} THEN OverComponent(a.pt, b.pt)
  ELSE IF {a.ratio, a.pt, b.ratio, b.pt} = {0} THEN OverComponent(a.em, b.em)
  ELSE Fails

\* Lengths alone divide by zero.
DivLengths(a, b) ==
  IF b.em = 0 /\ a.em = 0 THEN Gives(Float(Over(a.pt, b.pt)))
  ELSE IF b.pt = 0 /\ a.pt = 0 THEN Gives(Float(Over(a.em, b.em)))
  ELSE Fails

Divided(l, n) ==
  IF l.pt # 0 /\ l.em = 0 THEN Length(Over(l.pt, n), 0)
  ELSE IF l.pt = 0 /\ l.em # 0 THEN Length(0, Over(l.em, n))
  ELSE Length(Over(l.pt, n), Over(l.em, n))

Relatives == {"length", "relative", "ratio"}
DivOp(x, y) ==
  CASE x.type = y.type /\ x.type \in {"integer", "float", "ratio"} -> OverComponent(x.v, y.v)
    [] x.type = y.type /\ x.type = "length" -> DivLengths(x.v, y.v)
    [] x.type = "length" /\ y.type = "float" -> GivesIf(y.v # 0, Divided(x.v, y.v))
    [] x.type = "ratio" /\ y.type = "float" -> Gives(Ratio(Over(x.v, y.v)))
    [] x.type = y.type /\ x.type = "duration" -> OverComponent(Hours(x.v), Hours(y.v))
    [] x.type = "duration" /\ Numeric(y) -> DividedSpan(x.v, y.v)
    [] x.type = "relative" /\ y.type = "float" ->
         Gives(Relative(Over(x.v.ratio, y.v), Over(x.v.pt, y.v), Over(x.v.em, y.v)))
    [] y.type = "relative" /\ x.type \in Relatives ->
         IF \/ x.type = "length" /\ y.v.ratio # 0
            \/ x.type = "ratio" /\ {y.v.pt, y.v.em} # {0}
         THEN Fails ELSE DivRelatives(AsRelative(x), y.v)
    [] x.type = "relative" /\ y.type \in {"length", "ratio"} ->
         DivRelatives(x.v, AsRelative(y))
    [] OTHER -> Fails

InOp(x, y) ==
  CASE x.type = "string" /\ y.type = "string" -> Gives(Bool(Occurs(x.v, y.v)))
    [] x.type = "string" /\ y.type = "dictionary" -> Gives(Bool(x.v \in Names(y.v)))
    [] OTHER -> Fails

LogicOp(op, x, y) ==
  IF x.type = "boolean" /\ y.type = "boolean"
  THEN Gives(Bool(IF op = "and" THEN x.v /\ y.v ELSE x.v \/ y.v))
  ELSE Fails

\* Of an order: -1, 0 or 1.
OrderOp(op, order) ==
  IF order = Incomparable THEN Fails
  ELSE Gives(Bool(CASE op = "<" -> order < 0 [] op = ">" -> order > 0
                    [] op = "<=" -> order <= 0 [] op = ">=" -> order >= 0))

PromotedOp(op, x, y) ==
  CASE op = "==" -> Gives(Bool(SameValue(x, y)))
    [] op = "!=" -> Gives(Bool(~SameValue(x, y)))
    [] op \in {"<", ">", "<=", ">="} -> OrderOp(op, Compare(x, y))
    [] op \in {"+", "-"} -> AddOp(op, x, y)
    [] op = "*" -> MulOp(x, y)
    [] op = "/" -> DivOp(x, y)
    [] op = "in" -> InOp(x, y)
    [] OTHER -> LogicOp(op, x, y)
PromotedPair(op, p) == PromotedOp(op, p[1], p[2])

\* Operands that are written the other way round than the table has them.
Swapped(op, x, y) ==
  \/ op = "+" /\ x.type = "ratio" /\ y.type = "length"
  \/ op = "*" /\ x.type \in {"length", "relative", "ratio"} /\ y.type \in {"integer", "float"}

\* An array contains what is equal to an element without promotion.
InElements(x, elems) == Gives(Bool(\E i \in DOMAIN elems : SameValue(x, elems[i])))
Negated(result) == IF result.ok THEN Gives(Bool(~result.value.v)) ELSE Fails

Operate(op, x, y) ==
  IF op = "+" /\ x.type = "none" THEN Gives(y)
  ELSE IF op = "+" /\ y.type = "none" THEN Gives(x)
  ELSE IF op = "in" /\ y.type = "array" THEN InElements(x, y.v)
  ELSE IF Swapped(op, x, y) THEN PromotedPair(op, Promote(op, y, x))
  ELSE PromotedPair(op, Promote(op, x, y))

BinaryOp(op, x, y) == IF op = "not in" THEN Negated(Operate("in", x, y)) ELSE Operate(op, x, y)

-----------------------------------------------------------------------------
(* Joining.                                                                *)

\* The type that joining values of two types makes; "none" is the identity.
Unjoinable == "unjoinable"
JoinResultType(s, t) ==
  CASE t = "none" -> s
    [] s = "none" -> t
    [] s = t /\ t \in {"string", "array", "dictionary", "content", "arguments"} -> t
    [] {s, t} = {"string", "content"} -> "content"
    [] OTHER -> Unjoinable
Selected(types) ==
  FoldLeft(LAMBDA s, t : IF s = Unjoinable THEN s ELSE JoinResultType(s, t), "none", types)

Joinable(values) == SelectSeq(values, LAMBDA v : v.type # "none")
ToContent(v) == IF v.type = "string" THEN Text(v.v) ELSE v
ContentsOf(values) == [i \in DOMAIN values |-> ToContent(values[i])]

\* Strings are put in front of the content.
JoinedContentsSorted(contents) ==
  IF Len(contents) = 1 THEN contents[1]
  ELSE Sequence(SelectSeq(contents, LAMBDA c : c.v.kind = "text")
                \o SelectSeq(contents, LAMBDA c : c.v.kind # "text"))

JoinedContents(contents) == IF Len(contents) = 1 THEN contents[1] ELSE Sequence(contents)

\* An array of the arrays, not of their elements.
JoinedAs(type, values) ==
  CASE type = "string" -> Str(FlattenSeq([i \in DOMAIN values |-> values[i].v]))
    [] type = "content" -> JoinedContents(ContentsOf(values))
    [] type = "array" -> Array(values)
    [] type = "dictionary" -> Dict(FoldLeft(LAMBDA d, v : PutAll(d, v.v), <<>>, values))
    [] type = "arguments" ->
         FoldLeft(LAMBDA a, v : MergeArguments(a.v, v.v), ArgumentsOf(<<>>, <<>>), values)
    [] OTHER -> IF values = <<>> THEN None ELSE values[1]
JoinTyped(type, values) == IF type = Unjoinable THEN Fails ELSE Gives(JoinedAs(type, Joinable(values)))

JoinValues(values) == JoinTyped(Selected([i \in DOMAIN values |-> values[i].type]), values)
=============================================================================
