------------------------------ MODULE MCCalls ------------------------------
(***************************************************************************)
(* Functions of every shape that builtins and closures have.               *)
(***************************************************************************)
EXTENDS Calls

SomeNames == STRING

Val(type, id) == [type |-> type, id |-> id]
One == Val("integer", "1")
Text == Val("string", "x")
Two == Val("integer", "2")
Bar == Val("string", "|")
True == Val("boolean", "true")
StrType == Val("type", "str")
List == Val("array", "()")
Body == Val("content", "[]")
Anything == {"integer", "string", "boolean", "type", "function", "array", "content"}

Required(name, types) == Parameter(name, types, TRUE)
Optional(name, types) == Parameter(name, types, FALSE)

Builtin(params, sink, named, refused) ==
  [params |-> params, sink |-> sink, named |-> named, refused |-> refused,
   closure |-> <<>>, withArgs |-> NoArguments]
NoNames == [n \in {} |-> {}]

ClosureOf(params) ==
  LET positional == SelectSeq(params, LAMBDA p : p.kind # "named")
      sinks == {j \in DOMAIN positional : positional[j].kind = "sink"}
  IN  [params |-> [j \in DOMAIN positional |-> Required(positional[j].name, Anything)],
       sink |-> IF sinks = {} THEN 0 ELSE Min(sinks),
       named |-> [n \in {params[i].name : i \in {k \in DOMAIN params : params[k].kind = "named"}}
                    |-> Anything],
       refused |-> {}, closure |-> params, withArgs |-> NoArguments]
Param(kind, name) == [kind |-> kind, name |-> name]

RangeFn ==
  Builtin(<<Optional("start", {"integer"}), Required("end", {"integer"})>>, 0,
          [n \in {"step"} |-> {"integer"}], {})
JoinFn ==
  Builtin(<<Required("self", {"array"}), Optional("separator", Anything)>>, 0,
          [n \in {"last"} |-> Anything], {})
FoldFn ==
  Builtin(<<Required("self", {"array"}), Required("init", Anything),
            Required("folder", {"function"})>>, 0, NoNames, {})
ZipFn ==
  Builtin(<<Required("self", {"array"}), Required("others", {"arguments"})>>, 2,
          [n \in {"exact"} |-> {"boolean"}], {})
ElemFn ==
  Builtin(<<Required("tag", {"string"}), Optional("body", {"content"})>>, 0,
          [n \in {"block"} |-> {"boolean"}], {})
VecFn ==
  Builtin(<<Required("children", {"content"})>>, 1,
          [n \in {"delim"} |-> {"string"}], {<<"delim", Text>>})
AroundFn ==
  ClosureOf(<<Param("positional", "a"), Param("named", "step"), Param("sink", "rest"),
              Param("positional", "b"), Param("named", "exact")>>)
KeyedFn ==
  ClosureOf(<<Param("named", "last"), Param("positional", "a"), Param("positional", "b")>>)

SomeFunctions == {RangeFn, JoinFn, FoldFn, ZipFn, ElemFn, VecFn, AroundFn, KeyedFn}
ASSUME ShapesAssumption == \A f \in SomeFunctions : Steady(f) /\ OptionalTogether(f)

Positional(v) == [kind |-> "positional", name |-> "", args |-> [pos |-> <<v>>, named |-> <<>>]]
ByName(n, v) == [kind |-> "named", name |-> n, args |-> [pos |-> <<>>, named |-> <<<<n, v>>>>]]
Spread(pos, named) == [kind |-> "spread", name |-> "", args |-> [pos |-> pos, named |-> named]]
Unspread == [kind |-> "unspreadable", name |-> "", args |-> NoArguments]

SomeSpellings(f) ==
  CASE f = RangeFn -> { Positional(One), Positional(Text), ByName("step", One), ByName("step", Text),
                      ByName("end", One), Spread(<<Two, One>>, <<>>), Unspread }
    [] f = JoinFn -> { Positional(List), Positional(StrType), ByName("last", Text), ByName("x", One),
                     Spread(<<>>, << <<"last", One>> >>) }
    [] f = FoldFn -> { Positional(List), Positional(StrType), Positional(One),
                     Spread(<<>>, <<>>), Spread(<<List, StrType>>, <<>>) }
    [] f = ZipFn -> { Positional(List), Positional(One), ByName("exact", True), ByName("exact", One),
                    ByName("x", One), Spread(<<List, Two>>, << <<"exact", True>>, <<"y", Two>> >>) }
    [] f = ElemFn -> { Positional(Text), Positional(Body), ByName("block", True),
                     Spread(<<>>, << <<"block", One>> >>) }
    [] f = VecFn -> { Positional(Body), ByName("delim", Text), ByName("delim", Bar),
                    Spread(<<Body, Two>>, << <<"x", One>> >>), Unspread }
    [] f = AroundFn -> { Positional(One), Positional(Text), ByName("step", One), ByName("x", One),
                       Spread(<<Two, Bar>>, <<>>),
                       Spread(<<>>, << <<"step", Two>>, <<"x", Two>>, <<"exact", True>> >>) }
    [] OTHER -> { Positional(One), Positional(Text), ByName("last", One), ByName("a", One),
                  Spread(<<Two, Bar>>, << <<"last", Two>> >>) }
SomeBlocks == {<<>>, <<Body>>}
=============================================================================
