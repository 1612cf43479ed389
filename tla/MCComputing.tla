---------------------------- MODULE MCComputing ----------------------------
(***************************************************************************)
(* Integers of three bits, spans of at most two days, times of two days    *)
(* around a midnight, and the callbacks that decide, fail and are          *)
(* poisoned.                                                               *)
(***************************************************************************)
EXTENDS Computing

A == Str(<<"a">>)
B == Str(<<"b">>)
Word == Text(<<"a">>)
One == Integer(1)
Two == Integer(2)
SomeLiterals ==
  {None, Bool(TRUE), A, B, Word,
   Integer(-4), Two, Integer(3), Float(1),
   Length(1, 0), Relative(1, 1, 0), Ratio(1),
   Array(<<One>>), Array(<<One, Two>>), Array(<<Float(1), Two>>),
   Dict(<<<<<<"b">>, Two>>, <<<<"a">>, Two>>>>),
   ArgumentsOf(<<One>>, <<<<<<"a">>, Two>>>>),
   Span(Duration(1, 12)), Span(Duration(0, -18)), Span(Duration(-2, -1))}
\* What adds up to times: some fit no range, some no grain, one no midnight.
SomeTimes ==
  {Integer(-4), Two, Float(1), Float(-3),
   Span(Duration(1, 12)), Span(Duration(0, -18)), Span(Duration(0, 5)),
   Span(Duration(2, 0)), Span(Duration(-2, -1)),
   Moment(Datetime("date", 24)), Moment(Datetime("date", -48)), Moment(Datetime("time", 18)),
   Moment(Datetime("datetime", 40)), Moment(Datetime("datetime", 0))}
SomeFamilies == {SomeLiterals, SomeTimes}

SomeSpanParts == {<<w, d, h>> : w \in -1 .. 1, d \in -7 .. 3, h \in {-49, -1, 0, 30}}

SomeElements == {One, Two, Float(1), A}

\* Callbacks: those of one argument, and those of two.
Operator == [smaller |-> "<", greater |-> ">", add |-> "+"]
Callback(f, args) ==
  CASE f = "parity" -> IF args[1].type = "integer" THEN Result(Integer(args[1].v % 2)) ELSE Failure
    [] f = "even" -> IF args[1].type = "integer" THEN Result(Bool(args[1].v % 2 = 0)) ELSE Poison
    [] f = "same" -> Result(Integer(0))
    [] f = "is-one" -> Result(Bool(args[1] = One))
    [] f = "failing" -> IF args[1] = Two THEN Failure ELSE IF args[1] = A THEN Poison ELSE Result(Bool(TRUE))
    [] f \in DOMAIN Operator -> OutcomeOf(BinaryOp(Operator[f], args[1], args[2]))
    [] OTHER -> Result(args[Len(args)])

Defaults == {<<>>, <<None>>}
Places == {<<>>, <<-2>>, <<1>>, <<3>>}
SomeMethodCalls ==
  {<<"at", i, d>> : i \in -2 .. 2, d \in Defaults}
  \cup {<<"first", d>> : d \in Defaults} \cup {<<"last", d>> : d \in Defaults}
  \cup {<<"slice", start, end, count>> : start \in -2 .. 2, end \in Places, count \in Places}
  \cup {<<"rev">>, <<"to-dict">>, <<"intersperse", None>>}
  \cup {<<"windows", size>> : size \in 0 .. 3}
  \cup {<<"chunks", size, exact>> : size \in 0 .. 3, exact \in BOOLEAN}
  \cup {<<"zip", others, exact>> : others \in {<<>>, <<Array(<<One, Two>>)>>, <<Array(<<Two>>), None>>},
                                   exact \in BOOLEAN}
  \cup {<<"enumerate", start>> : start \in {0, MaxInt}}
  \cup {<<"sum", d>> : d \in Defaults} \cup {<<"product", d>> : d \in Defaults}
  \cup {<<"join", sep, last, d>> : sep \in {None, B}, last \in {None, Word}, d \in Defaults}
  \cup {<<m, f>> : m \in {"filter", "map", "position"}, f \in {"even", "is-one", "failing", "parity"}}
  \cup {<<"fold", One, f>> : f \in {"add", "last"}} \cup {<<"reduce", f>> : f \in {"add", "last"}}
  \cup {<<"sorted", key, by>> : key \in {"none", "parity", "same", "failing"},
                                by \in {"none", "smaller", "greater", "failing"}}
  \cup {<<"dedup", key>> : key \in {"none", "parity", "same", "failing"}}

SomeRangeArgs == {<<s, e, n>> : s \in {0, 2}, e \in {-1, 3}, n \in {-2, 0, 1, 3}}
=============================================================================
