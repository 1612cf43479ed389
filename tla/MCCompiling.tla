---------------------------- MODULE MCCompiling ----------------------------
(***************************************************************************)
(* Short programs on a theme each: escapes out of loops and out of         *)
(* functions, variables where paths meet, closures, patterns, calls and    *)
(* mistakes.                                                               *)
(***************************************************************************)
EXTENDS Compiling

L(letter) == Lit(Str(<<letter>>))
N(n) == Lit(Integer(n))
T(letter) == Lit(Text(<<letter>>))
Grow(n, x) == Assign("+", n, x)
Is(n, x) == Bin("==", Id(n), x)
Call(f, args) == CallOf(Id(f), [i \in DOMAIN args |-> Elem(args[i])])

Construct(node) == [node |-> node, content |-> FALSE, bind |-> <<>>]
Bracketed(node) == [node |-> node, content |-> TRUE, bind |-> <<>>]
Binding(n, node) == [node |-> node, content |-> FALSE, bind |-> <<Id(n)>>]
IfHead(c) == If(c, Hole, <<>>)
BlockHead == [k |-> "block"]

Theme(prelude, start, leaves, heads, coda, max, depth) ==
  [prelude |-> prelude, start |-> start, leaves |-> leaves, heads |-> heads, coda |-> coda,
   max |-> max, depth |-> depth]

\* What a loop has joined when it is left or goes on.
InLoop == Construct(For(Id("x"), Lit(Str(<<"a", "b">>)), Hole))
Escapes ==
  Theme(<<>>, <<InLoop>>, <<L("c"), Id("x"), Break, Continue>>,
        <<InLoop, Construct(IfHead(Is("x", L("a")))), Bracketed(BlockHead)>>, <<>>, 3, 4)

\* What a function gives when it is left from a loop, a branch or content.
Fn(n, params, body) == LetFn(n, params, body)
InFunction == Construct(Fn("f", <<Param(Id("x"))>>, Hole))
Returns ==
  Theme(<<>>, <<InFunction>>, <<Id("x"), T("c"), Return0, Return1(L("d"))>>,
        <<Construct(For(Id("y"), Lit(Str(<<"a", "b">>)), Hole)), Construct(IfHead(Is("x", L("a")))),
          Bracketed(BlockHead), Binding("z", BlockHead)>>,
        <<Call("f", <<L("a")>>), Call("f", <<L("b")>>)>>, 3, 3)

\* Variables where paths meet.
Variables ==
  Theme(<<Let(Id("x"), L("a")), Let(Id("n"), N(0))>>, <<>>,
        <<Grow("x", L("b")), Assign("=", "x", L("c")), Grow("n", N(1)), Let(Id("x"), Bin("+", Id("x"), L("d"))),
          Short("or", Is("n", N(1)), Short("and", Is("x", L("c")), Is("n", N(2))))>>,
        <<Construct(While(Bin("<", Id("n"), N(2)), Hole)), Construct(IfHead(Is("n", N(1)))),
          Construct(For(Id("y"), Lit(Str(<<"a", "b">>)), Hole))>>,
        <<Id("x"), Id("n")>>, 3, 3)

\* What a closure has captured, at which moment.
LetF == Let(Id("f"), Closure(<<>>, Id("x")))
Closures ==
  Theme(<<Let(Id("x"), L("a")), LetF>>, <<>>,
        <<Assign("=", "x", L("b")), Grow("x", L("c")), LetF,
          Let(Id("g"), Closure(<<NamedParam("y", Id("x"))>>, Closure(<<>>, Bin("+", Id("x"), Id("y"))))),
          Assign("=", "x", Call("f", <<>>)),
          Let(Id("f"), CallOf(Closure(<<Param(Id("z"))>>, Closure(<<>>, Bin("+", Id("z"), Id("x")))), <<Elem(L("d"))>>))>>,
        <<Construct(IfHead(Is("x", L("a")))), Construct(For(Id("y"), Lit(Str(<<"a", "b">>)), Hole))>>,
        <<Id("x"), Call("f", <<>>)>>, 3, 2)

\* Patterns of names, places and keys.
Names2(m, n) == Destruct(<<Id(m), Id(n)>>)
Patterns ==
  Theme(<<Let(Id("x"), L("a")), Let(Id("y"), L("b")), Let(Id("r"), Arr(<<Elem(Id("x")), Elem(Id("y")), Elem(L("c"))>>)),
          Let(Id("d"), Dct(<<Entry("x", L("d")), Entry("y", L("e"))>>))>>, <<>>,
        <<DestructAssign(Names2("x", "y"), Arr(<<Elem(Id("y")), Elem(Id("x"))>>)),
          Let(Names2("y", "x"), Id("d")),
          Let(Destruct(<<Id("x"), Sink(<<Id("r")>>)>>), Id("r")),
          Let(Destruct(<<Sink(<<Id("r")>>), Id("y")>>), Id("r")),
          Let(Destruct(<<Field("x", Id("y")), Sink(<<Id("d")>>)>>), Id("d")),
          Let(Destruct(<<Hole, Destruct(<<Id("x"), Sink(<<>>)>>)>>), Arr(<<Elem(Id("d")), Elem(Id("r"))>>)),
          Let(Destruct(<<Id("x"), Sink(<<Id("d")>>)>>), Id("d")),
          DestructAssign(Destruct(<<Field("y", Id("x"))>>), Id("d"))>>,
        <<Construct(For(Names2("x", "y"), Id("d"), Hole)), Construct(IfHead(Is("x", L("a"))))>>,
        <<Id("x"), Id("y")>>, 3, 2)

\* Arguments and parameters, and a function that calls itself.
Function(n, params, body) == LetFn(n, params, Block(<<body>>))
Calling ==
  Theme(<<Function("f", <<Param(Id("x")), SinkParam("r"), Param(Id("y")), NamedParam("z", L("z"))>>,
                   Arr(<<Elem(Id("x")), Elem(Id("r")), Elem(Id("y")), Elem(Id("z"))>>)),
          Let(Id("v"), Arr(<<Elem(L("a")), Elem(L("b"))>>)),
          Function("g", <<Param(Names2("x", "y")), SinkParam("r")>>, CallOf(Id("f"), <<Spread(Id("r")), Elem(Id("x")), Elem(Id("y"))>>)),
          Function("h", <<Param(Id("x"))>>, If(Is("x", L("a")), Block(<<Call("h", <<L("b")>>)>>), <<Block(<<Call("k", <<Id("x")>>)>>)>>)),
          Function("k", <<Param(Id("x"))>>, Id("x"))>>, <<>>,
        <<Let(Id("v"), Call("f", <<L("a"), L("b"), L("c")>>)),
          Let(Id("v"), CallOf(Id("g"), <<Elem(Id("v")), Entry("z", L("c"))>>)),
          Let(Id("v"), CallOf(Id("f"), <<Spread(Id("v"))>>)),
          Let(Id("v"), CallOf(Id("g"), <<Elem(Id("v")), Spread(Id("v"))>>)),
          Let(Id("v"), Call("h", <<L("b")>>)), Let(Id("v"), Call("repr", <<Call("k", <<L("a")>>)>>)),
          Let(Id("v"), CallWith(Id("f"), <<Entry("z", L("a"))>>, <<Content(<<T("a")>>), Content(<<>>)>>))>>,
        <<Construct(IfHead(Bin("==", Call("k", <<L("a")>>), L("a"))))>>,
        <<Id("v")>>, 3, 2)

\* Mistakes: each is reported once, and the rest still means what it says.
Mistakes ==
  Theme(<<Let(Id("x"), L("a"))>>, <<>>,
        <<Id("u"), Let(Id("x"), Un("-", Id("x"))), Grow("x", N(1)), Assign("=", "u", L("b")), Break, Return0,
          Call("x", <<>>), Let(Names2("x", "x"), Arr(<<Elem(Id("x")), Elem(N(1))>>)),
          Let(Names2("x", "y"), Arr(<<Elem(Id("x"))>>)), Let(Destruct(<<Hole, Hole>>), Arr(<<Elem(Id("x"))>>)),
          Assign("=", "std", N(1)),
          Dct(<<Entry("k", Id("x")), Entry("k", N(2))>>),
          CallOf(Closure(<<Param(Id("z")), Param(Id("z"))>>, Id("z")), <<Elem(L("b")), Elem(Id("x"))>>),
          Let(Id("f"), Closure(<<SinkParam("r"), SinkParam("s")>>, Id("r"))),
          CallOf(Closure(<<NamedParam("z", N(1))>>, Id("z")), <<Entry("z", N(2)), Entry("z", Id("x"))>>)>>,
        <<Construct(IfHead(Id("x")))>>, <<Id("x")>>, 2, 2)

\* An error in the condition or in the body of a loop ends it.
Failures ==
  Theme(<<Let(Id("x"), L("a"))>>, <<>>,
        <<Id("u"), Grow("x", N(1)), Assign("=", "x", N(1)), Break, L("b")>>,
        <<Construct(IfHead(Is("x", L("a")))), Construct(For(Id("y"), Id("x"), Hole)), Construct(While(Id("x"), Hole)),
          Construct(For(Id("y"), Arr(<<Elem(N(1)), Elem(N(2))>>), Hole))>>,
        <<Id("x")>>, 3, 2)

SomeThemes == <<Escapes, Returns, Variables, Closures, Patterns, Calling, Mistakes, Failures>>

SomeUniverse == ("std" :> None) @@ ("repr" :> ReprFunction)
=============================================================================
