------------------------------- MODULE Parser -------------------------------
(***************************************************************************)
(* The parser.  Every operator takes the parser's state p and returns the  *)
(* state it leaves: the scanner s, the current token cur, the stack of     *)
(* nodes not wrapped yet, the newline mode nl.  A marker, as in the code,  *)
(* is the number of nodes before the one it marks.                         *)
(*                                                                         *)
(* What a function of the code returns is in a field of the state: ok,     *)
(* kind, count, marker, continuable.  The variables of a function that     *)
(* change in a loop are too (seen, group, chain, balance, more, atStart);  *)
(* the loop's body sets them from what they were before it called others.  *)
(*                                                                         *)
(* broken tells that the code would have panicked or hung.  nesting,       *)
(* deepest and tries are history: how deep the functions are nested, and   *)
(* how often each parenthesis was parsed.                                  *)
(***************************************************************************)
EXTENDS Scanner

-----------------------------------------------------------------------------
(* The syntax tree.  A leaf is a node without kids.                        *)

Leaf(kind, from, to) == [kind |-> kind, from |-> from, to |-> to, kids |-> <<>>]

\* An inner node spans from its first kid to its last; one without spans
\* nothing at an offset.
Inner(kind, kids) ==
  [kind |-> kind, from |-> kids[1].from, to |-> Last(kids).to, kids |-> kids]
EmptyInner(kind, pos) == Leaf(kind, pos, pos)

\* asErrorNode: an error takes the place of a node, with its span.
AsError(node) == IF node.kind = "Error" THEN node ELSE Leaf("Error", node.from, node.to)

\* Arena.Convert: the node under another kind.
Convert(node, kind) == [node EXCEPT !.kind = kind]

TextOf(src, node) == SubSeq(src, node.from + 1, node.to)

-----------------------------------------------------------------------------
(* Sets of kinds.                                                          *)

Trivia == {"Space", "Parbreak", "LineComment", "BlockComment"}
Stmts == {"let", "set", "show", "import", "include", "return"}
UnaryOps == {"Plus", "Minus", "not"}
BinaryOps == {"Plus", "Minus", "Star", "Slash", "and", "or", "EqEq", "ExclEq", "Lt", "LtEq",
              "Gt", "GtEq", "Eq", "in", "PlusEq", "HyphEq", "StarEq", "SlashEq"}
AtomicCodePrimary ==
  {"Ident", "LeftBrace", "LeftBracket", "LeftParen", "Dollar", "let", "set", "show", "context",
   "if", "while", "for", "import", "include", "break", "continue", "return", "none", "auto",
   "Int", "Float", "Bool", "Numeric", "Str", "Label", "Raw"}
CodeExpr == AtomicCodePrimary \cup {"Underscore"} \cup UnaryOps
ArrayOrDictItem == CodeExpr \cup {"Dots"}
Arg == CodeExpr \cup {"Dots"}
PatternLeaf == AtomicCodePrimary
Pattern == PatternLeaf \cup {"LeftParen", "Underscore"}
ParamStart == Pattern \cup {"Dots"}
DestructuringItem == Pattern \cup {"Dots"}
KeywordKinds == Keywords \ {"true"}
Terminator == {"End", "Semicolon", "RightBrace", "RightBracket", "RightParen"}
MathExpr ==
  {"Hash", "MathIdent", "FieldAccess", "Dot", "Comma", "Semicolon", "LeftBrace", "RightBrace",
   "LeftParen", "RightParen", "MathText", "MathShorthand", "Linebreak", "MathAlignPoint",
   "MathPrimes", "Escape", "Str", "Root", "Bang"}
OpenDelims == {"LeftParen", "LeftBracket", "LeftBrace"}
CloseDelims == {"RightParen", "RightBracket", "RightBrace"}

-----------------------------------------------------------------------------
(* Operators.  `not` is the prefix operator, `not in` an operator of two   *)
(* tokens.                                                                 *)

UnaryPrecedence(op) == IF op = "not" THEN 4 ELSE 7

Precedence(op) ==
  CASE op \in {"Star", "Slash"} -> 6
    [] op \in {"Plus", "Minus"} -> 5
    [] op \in {"EqEq", "ExclEq", "Lt", "LtEq", "Gt", "GtEq", "in", "not in"} -> 4
    [] op = "and" -> 3
    [] op = "or" -> 2
    [] op \in {"Eq", "PlusEq", "HyphEq", "StarEq", "SlashEq"} -> 1

\* Assignments group to the right.
AssocLeft(op) == Precedence(op) # 1

MathOperator(wrapper, assoc, prec) == [wrapper |-> wrapper, assoc |-> assoc, prec |-> prec]
NoMathOperator == MathOperator("Invalid", "none", -1)

MathOp(kind, hadTrivia) ==
  CASE kind = "Slash" -> MathOperator("MathFrac", "left", 1)
    [] kind \in {"Underscore", "Hat"} -> MathOperator("MathAttach", "right", 2)
    [] kind = "MathPrimes" /\ ~hadTrivia -> MathOperator("MathAttach", "none", 2)
    [] kind = "Bang" /\ ~hadTrivia -> MathOperator("Math", "none", 3)
    [] OTHER -> NoMathOperator

\* Which attachments may follow one in the same attachment.
AttachChain(op) ==
  CASE op = "Hat" -> {"Underscore"}
    [] op = "Underscore" -> {"Hat"}
    [] OTHER -> {"Hat", "Underscore"}

-----------------------------------------------------------------------------
(* The state of the parser.                                                *)

NoAnchor == -1
NewlineMode(kind) == [kind |-> kind, col |-> 0]
Continue == NewlineMode("Continue")
Stop == NewlineMode("Stop")
StopAtParBreak == NewlineMode("StopAtParBreak")
ContextualContinue == NewlineMode("ContextualContinue")
AtColumn(col) == IF col <= 0 THEN Stop ELSE [kind |-> "Column", col |-> col]

StopAt(nl, token) ==
  /\ token.newline
  /\ CASE nl.kind = "Continue" -> FALSE
       [] nl.kind = "Stop" -> TRUE
       [] nl.kind = "StopAtParBreak" -> token.parbreak
       [] nl.kind = "ContextualContinue" -> token.kind \notin {"else", "Dot"}
       [] nl.kind = "Column" -> token.indent <= nl.col

NoGroup == [count |-> 0, notJustParens |-> FALSE, kind |-> "Invalid"]

\* A parser calls by name what calls itself: the call's name and arguments.
Call(fn, args) == [fn |-> fn, args |-> args]
RECURSIVE Do(_, _)

Broken(p) == [p EXCEPT !.broken = TRUE, !.cur.kind = "End"]

At(p, kinds) == p.cur.kind \in kinds
DirectlyAt(p, kinds) == At(p, kinds) /\ p.cur.trivia = 0
AtEnd(p) == p.cur.node.kind = "End"

\* Where the nodes end but for the trivia in front of the current token.
Behind(p) == Len(p.nodes) - p.cur.trivia

\* An end that is no end of input makes the caller stop.
Stopped(p) == IF StopAt(p.nl, p.cur) THEN [p EXCEPT !.cur.kind = "End"] ELSE p

Next(p) ==
  IF p.broken THEN p
  ELSE Do(Call("next", <<>>),
          [p EXCEPT !.cur = [kind |-> "NoToken", node |-> Leaf("NoToken", 0, 0),
                             start |-> p.s.cur, prevEnd |-> p.s.cur, trivia |-> 0,
                             newline |-> FALSE, parbreak |-> FALSE, indent |-> 0]])

AsLeaves(parts) == [i \in DOMAIN parts |-> Leaf(parts[i].kind, parts[i].from, parts[i].to)]
NodeOf(p, token) ==
  [kind |-> token.kind, from |-> p.s.cur, to |-> token.s.cur, kids |-> AsLeaves(token.parts)]

\* Trivia is put on the stack, and the token behind it is the current one.
Take(p, token, s) ==
  IF token.kind \notin Trivia
  THEN Stopped([p EXCEPT !.s = token.s, !.cur.kind = token.kind,
                         !.cur.node = NodeOf(p, token)])
  ELSE Do(Call("next", <<>>),
          [p EXCEPT !.s = s,
                    !.nodes = Append(@, NodeOf(p, token)),
                    !.cur.start = s.cur,
                    !.cur.newline = @ \/ s.newline,
                    !.cur.parbreak = @ \/ token.kind = "Parbreak",
                    !.cur.indent = IF s.newline THEN s.col ELSE @,
                    !.cur.trivia = @ + 1])

TakeToken(p, token) ==
  Take(p, token, IF token.s.newline THEN WithColumn(token.s) ELSE token.s)

\* A look at the next token, which is put back.
Peeked(p, token) == [p EXCEPT !.kind = token.kind, !.s = Seek(token.s, p.s.cur)]

Consume(p) == Next([p EXCEPT !.nodes = Append(@, p.cur.node)])
ConsumeIf(p, kind) ==
  IF At(p, {kind}) THEN [Consume(p) EXCEPT !.ok = TRUE] ELSE [p EXCEPT !.ok = FALSE]

ConsumeAs(p, kind) ==
  IF At(p, {"Error"}) THEN Broken(p)
  ELSE Consume([p EXCEPT !.cur.node = Convert(@, kind)])

Must(p, kind) == IF At(p, {kind}) THEN Consume(p) ELSE Broken(p)

-----------------------------------------------------------------------------
(* Errors.                                                                 *)

Anchored(p) == [p EXCEPT !.anchor = Behind(p) - 1]

\* Errors that span nothing go, lest the next one is reported on top of them.
TrimErrors(p) ==
  LET solid == {i \in 1 .. Behind(p) :
                  p.nodes[i].kind # "Error" \/ p.nodes[i].from # p.nodes[i].to}
      start == IF solid = {} THEN 0 ELSE Max(solid)
  IN  [p EXCEPT !.nodes = SubSeq(@, 1, start) \o SubSeq(@, Behind(p) + 1, Len(@))]

EndBefore(p, at) == IF at > 0 THEN p.nodes[at].to ELSE 0

\* An error that spans nothing in front of the trivia, unless one is there.
InsertError(p, at) ==
  IF at > 0 /\ p.nodes[at].kind = "Error" THEN [p EXCEPT !.anchor = NoAnchor]
  ELSE [p EXCEPT !.nodes = InsertAt(@, at + 1, EmptyInner("Error", EndBefore(p, at))),
                 !.anchor = at]

Expected(p) ==
  IF At(p, {"Error"}) THEN Anchored(Consume(TrimErrors(p)))
  ELSE InsertError(p, Behind(p))

ErrorMarker(p, marker) == IF p.anchor = NoAnchor THEN marker ELSE p.anchor

ErrorHere(p) == Anchored(Next([p EXCEPT !.nodes = Append(@, AsError(p.cur.node))]))

\* Variant: what was not expected is not consumed.
UnexpectedStays(p) == InsertError(TrimErrors(p), Behind(TrimErrors(p)))

Unexpected(p) == ErrorHere(TrimErrors(p))

Expect(p, kind) ==
  IF At(p, {kind}) THEN [Consume(p) EXCEPT !.anchor = NoAnchor, !.ok = TRUE]
  ELSE IF kind = "Ident" /\ At(p, KeywordKinds)
  THEN [ErrorHere(TrimErrors(p)) EXCEPT !.ok = FALSE]
  ELSE [Expected(p) EXCEPT !.ok = FALSE]

\* The node a marker is before, if it is there.
MarkedKind(p, marker) ==
  IF marker \in 0 .. Len(p.nodes) - 1 THEN p.nodes[marker + 1].kind ELSE "Missing"

\* Variant: a missing delimiter is an error where it is missing.
ExpectClosingHere(p, open, kind) == IF At(p, {kind}) THEN Consume(p) ELSE ErrorHere(p)

ExpectedAt(p, marker) ==
  IF MarkedKind(p, marker) = "Missing" THEN Broken(p)
  ELSE [p EXCEPT !.nodes[marker + 1] = AsError(@)]

ExpectClosing(p, open, kind) == IF At(p, {kind}) THEN Consume(p) ELSE ExpectedAt(p, open)

-----------------------------------------------------------------------------
(* Nodes, modes, loops.                                                    *)

Flushed(p) == [p EXCEPT !.cur.trivia = 0, !.cur.prevEnd = p.cur.start]

WrapFrom(p, from, to, kind) ==
  IF from = to
  THEN [p EXCEPT !.nodes = InsertAt(@, from + 1, EmptyInner(kind, EndBefore(p, from)))]
  ELSE [p EXCEPT !.nodes = SubSeq(@, 1, from) \o <<Inner(kind, SubSeq(@, from + 1, to))>>
                             \o SubSeq(@, to + 1, Len(@))]

Wrap(p, start, kind) ==
  IF p.broken THEN p
  ELSE IF Behind(p) < 0 THEN Broken(p)
  ELSE WrapFrom(p, IF start < Behind(p) THEN start ELSE Behind(p), Behind(p), kind)

LeaveNewlineMode(p, prev, mode) ==
  IF p.cur.newline /\ prev # mode
  THEN Stopped([p EXCEPT !.nl = prev, !.cur.kind = p.cur.node.kind])
  ELSE [p EXCEPT !.nl = prev]

WithNewlineMode(nl, p, Fn(_)) == LeaveNewlineMode(Fn([p EXCEPT !.nl = nl]), p.nl, nl)

\* Variant: the trivia that is read again stays.
LeaveModeTwice(p, prev, mode) ==
  IF mode = prev \/ p.broken THEN [p EXCEPT !.s.mode = prev]
  ELSE Next([p EXCEPT !.s = Seek([@ EXCEPT !.mode = prev], p.cur.prevEnd)])

\* What comes behind is read again in the mode that it is in.
LeaveMode(p, prev, mode) ==
  IF mode = prev \/ p.broken THEN [p EXCEPT !.s.mode = prev]
  ELSE IF Behind(p) < 0 THEN Broken(p)
  ELSE Next([p EXCEPT !.s = Seek([@ EXCEPT !.mode = prev], p.cur.prevEnd),
                      !.nodes = SubSeq(@, 1, Behind(p))])

WithMode(mode, nl, p, Fn(_)) ==
  LeaveMode(WithNewlineMode(nl, [p EXCEPT !.s.mode = mode], Fn), p.s.mode, mode)

\* A loop; one that goes on for more iterations than there are characters is
\* broken.
While(p, More(_), Body(_)) ==
  LET RECURSIVE Loop(_, _)
      Loop(q, left) ==
        IF q.broken \/ ~More(q) THEN q
        ELSE IF left = 0 THEN Broken(q)
        ELSE Loop(Body(q), left - 1)
  IN  Loop(p, Len(p.s.src) + 1)

\* Back to a parser as it was, but for the nodes before it.
Restore(p, cp) ==
  IF p.broken \/ Len(p.nodes) < Len(cp.nodes) THEN Broken(p)
  ELSE [p EXCEPT !.nodes = SubSeq(@, 1, Len(cp.nodes)),
                 !.s = Seek([@ EXCEPT !.mode = cp.s.mode], cp.s.cur),
                 !.cur = cp.cur]

-----------------------------------------------------------------------------
(* The limit on nesting.                                                   *)

\* Tokens are consumed up to a stop outside of any group, or one if nothing
\* stops, with the group it opens.
Skipped(p, stops, balance) ==
  LET q == Consume(p)
  IN  [q EXCEPT !.balance = balance,
                !.more = ~(balance = 0 /\ (stops = {} \/ At(q, stops)))]

Balance(p) ==
  CASE At(p, OpenDelims) -> p.balance + 1
    [] At(p, CloseDelims) -> Furthest(p.balance - 1, 0)
    [] OTHER -> p.balance

SkipTo(p, stops) ==
  WithNewlineMode(Continue, [p EXCEPT !.balance = 0, !.more = TRUE],
    LAMBDA q : While(q, LAMBDA x : x.more /\ ~AtEnd(x),
                     LAMBDA x : Skipped(x, stops, Balance(x))))

Folded(p, from) ==
  IF p.broken THEN p
  ELSE IF Behind(p) = from THEN InsertError(p, from)
  ELSE [p EXCEPT !.nodes = SubSeq(@, 1, from)
                             \o <<Leaf("Error", @[from + 1].from, @[Behind(p)].to)>>
                             \o SubSeq(@, Behind(p) + 1, Len(@)),
                 !.anchor = from]

DepthExceeded(p, stops) == Folded(SkipTo(p, stops), Behind(p))

TooDeep(p) == p.depth >= p.max
EnterDepth(p, levels) == [p EXCEPT !.depth = @ + levels]

\* What Fn parses is one level deeper; without levels, it is only refused.
Deeper(p, stops, levels, Fn(_)) ==
  IF TooDeep(p) THEN DepthExceeded(p, stops)
  ELSE LET q == Fn(EnterDepth(p, levels)) IN EnterDepth(q, -levels)

-----------------------------------------------------------------------------
(* Markup.                                                                 *)

ParseMarkup(p, stops, atStart, wrapTrivia) ==
  Do(Call("markup", [stops |-> stops, atStart |-> atStart, wrapTrivia |-> wrapTrivia]), p)
ParseCodeExprPrec(p, atomic, minPrec) ==
  Do(Call("code", [atomic |-> atomic, minPrec |-> minPrec]), p)
ParseCodeExpr(p) == ParseCodeExprPrec(p, FALSE, 0)
ParseMathExprPrec(p, minPrec, stops) ==
  Do(Call("math", [minPrec |-> minPrec, stops |-> stops]), p)
ParsePattern(p, reassignment) == Do(Call("pattern", reassignment), p)
ParseConditional(p) == Do(Call("conditional", <<>>), p)
ParseEmbeddedCodeExpr(p) == Do(Call("embedded", <<>>), p)
ParseEquation(p) == Do(Call("equation", <<>>), p)
ParseContentBlock(p) == Do(Call("content", <<>>), p)
ParseCodeBlock(p) == Do(Call("block", <<>>), p)
ParseDestructuring(p, reassignment) == Do(Call("destructuring", reassignment), p)
ParseParams(p) == Do(Call("params", <<>>), p)
ParseArgs(p) == Do(Call("args", <<>>), p)

StrongStops == {"Star", "RightBracket", "End"}
EmphStops == {"Underscore", "RightBracket", "End"}
HeadingStops == {"Label", "RightBracket", "End"}
ListStops == {"RightBracket", "End"}
TermStops == {"Colon", "RightBracket", "End"}

ParseDelimited(p, start, delim, stops, kind) ==
  Wrap(ExpectClosing(ParseMarkup(Must(p, delim), stops, FALSE, TRUE), start, delim),
       start, kind)

ParseStrong(p) ==
  WithNewlineMode(StopAtParBreak, p,
    LAMBDA q : ParseDelimited(q, Len(q.nodes), "Star", StrongStops, "Strong"))

ParseEmph(p) ==
  WithNewlineMode(StopAtParBreak, p,
    LAMBDA q : ParseDelimited(q, Len(q.nodes), "Underscore", EmphStops, "Emph"))

ParseHeading(p) ==
  WithNewlineMode(Stop, p,
    LAMBDA q : Wrap(ParseMarkup(Must(q, "HeadingMarker"), HeadingStops, FALSE, FALSE),
                    Len(q.nodes), "Heading"))

\* The column is the scanner's, behind the marker.
InItem(p, Fn(_)) ==
  LET s == WithColumn(p.s)
  IN  WithNewlineMode(AtColumn(s.col), [p EXCEPT !.s = s], Fn)

ParseItem(p, marker, kind) ==
  InItem(p, LAMBDA q : Wrap(ParseMarkup(Must(q, marker), ListStops, TRUE, FALSE),
                            Len(q.nodes), kind))

ParseTerm(p) ==
  WithNewlineMode(Stop, p,
    LAMBDA q : ParseMarkup(Must(q, "TermMarker"), TermStops, FALSE, FALSE))

ParseTermItem(p) ==
  InItem(p, LAMBDA q : Wrap(ParseMarkup(Expect(ParseTerm(q), "Colon"), ListStops, TRUE, FALSE),
                            Len(q.nodes), "TermItem"))

Embedded(p, stmt) ==
  IF At(p, {"Semicolon"}) /\ (stmt \/ p.cur.trivia = 0) THEN Consume(p)
  ELSE IF stmt /\ ~At(p, {"Semicolon", "End", "RightBracket"}) THEN Expected(p)
  ELSE p

EmbeddedCodeExpr(p) ==
  IF p.cur.trivia > 0 \/ At(p, {"End"}) THEN Expected(p)
  ELSE Embedded(ParseCodeExprPrec(p, TRUE, 0), At(p, Stmts))

ParseReference(p, start) ==
  Wrap(IF DirectlyAt(p, {"LeftBracket"}) THEN ParseContentBlock(p) ELSE p, start, "Ref")

PlainMarkup ==
  {"Text", "Linebreak", "Escape", "Shorthand", "SmartQuote", "Link", "Label", "Raw"}
LineMarkers == {"HeadingMarker", "ListMarker", "EnumMarker", "TermMarker"}

ParseMarkupExpr(p) ==
  CASE At(p, {"LeftBracket"}) -> ConsumeAs([p EXCEPT !.bracketNesting = @ + 1], "Text")
    [] At(p, {"RightBracket"}) ->
         IF p.bracketNesting > 0
         THEN ConsumeAs([p EXCEPT !.bracketNesting = @ - 1], "Text") ELSE Unexpected(p)
    [] At(p, {"Star"}) -> ParseStrong(p)
    [] At(p, {"Underscore"}) -> ParseEmph(p)
    [] At(p, LineMarkers) /\ ~p.atStart -> ConsumeAs(p, "Text")
    [] At(p, {"HeadingMarker"}) /\ p.atStart -> ParseHeading(p)
    [] At(p, {"ListMarker"}) /\ p.atStart -> ParseItem(p, "ListMarker", "ListItem")
    [] At(p, {"EnumMarker"}) /\ p.atStart -> ParseItem(p, "EnumMarker", "EnumItem")
    [] At(p, {"TermMarker"}) /\ p.atStart -> ParseTermItem(p)
    [] At(p, {"Hash"}) -> ParseEmbeddedCodeExpr(p)
    [] At(p, {"RefMarker"}) -> ParseReference(Consume(p), Len(p.nodes))
    [] At(p, {"Dollar"}) -> ParseEquation(p)
    [] At(p, PlainMarkup) -> Consume(p)
    [] At(p, {"Colon"}) -> ConsumeAs(p, "Text")
    [] OTHER -> Unexpected(p)

Line(p) == [p EXCEPT !.atStart = p.cur.newline]

MarkupExprs(p, stops, atStart) ==
  Deeper(p, stops, 1,
    LAMBDA q : While([q EXCEPT !.atStart = q.cur.newline \/ atStart],
                     LAMBDA x : ~At(x, stops), LAMBDA x : Line(ParseMarkupExpr(x))))

\* A parbreak in front of a body is part of it.
Markup(p, args) ==
  LET q == MarkupExprs(p, args.stops, args.atStart)
      own == args.wrapTrivia \/ p.cur.parbreak
  IN  Wrap(IF args.wrapTrivia THEN Flushed(q) ELSE q,
           Len(p.nodes) - IF own THEN p.cur.trivia ELSE 0, "Markup")

-----------------------------------------------------------------------------
(* Math.                                                                   *)

MathStops == {"Dollar", "End"}
MathDelimitedStops == {"Dollar", "End", "RightBrace", "RightParen"}
MathArgsStops == {"End", "Dollar", "RightParen"}

\* The body of a loop over math counts, whatever was counted below it.
MathExprs(p, stops) ==
  IF p.depth >= p.max THEN [DepthExceeded(p, stops) EXCEPT !.count = 1]
  ELSE While([p EXCEPT !.count = 0], LAMBDA x : ~At(x, stops),
         LAMBDA x : [IF At(x, MathExpr) THEN ParseMathExprPrec(x, 0, {}) ELSE Unexpected(x)
                       EXCEPT !.count = x.count + 1])

EquationBody(p) == Wrap(MathExprs(p, MathStops), Len(p.nodes), "Math")

Equation(p, start) ==
  Wrap(WithMode("Math", Continue, p,
         LAMBDA q : ExpectClosing(EquationBody(Must(q, "Dollar")), start, "Dollar")),
       start, "Equation")

CurText(p) == TextOf(p.s.src, p.cur.node)

ConsumeDelim(p, shorthand) ==
  ConsumeAs(p, IF CurText(p) = shorthand THEN "MathShorthand" ELSE "MathText")

\* Math between delimiters, of which the closing one may be missing.
MathDelimited(p, start, body) ==
  IF At(p, {"RightBrace", "RightParen"})
  THEN Wrap(ConsumeDelim(Wrap(p, body, "Math"), <<"|", "]">>), start, "MathDelimited")
  ELSE Wrap(p, start, "Math")

ParseMathDelimited(p, opened) ==
  MathDelimited(MathExprs(opened, MathDelimitedStops), Len(p.nodes), Len(opened.nodes))

\* One pair of parentheses around an operand groups it and is not set.
MathUnparen(p, marker) ==
  LET node == p.nodes[marker + 1]
      kids == node.kids
  IN  IF /\ MarkedKind(p, marker) = "MathDelimited"
         /\ Len(kids) >= 2
         /\ TextOf(p.s.src, kids[1]) = <<"(">> /\ TextOf(p.s.src, Last(kids)) = <<")">>
      THEN [p EXCEPT !.nodes[marker + 1] =
              Inner("Math", <<Convert(kids[1], "LeftParen")>> \o SubSeq(kids, 2, Len(kids) - 1)
                              \o <<Convert(Last(kids), "RightParen")>>)]
      ELSE p

MathOperand(p, minPrec, stops) == MathUnparen(ParseMathExprPrec(p, minPrec, stops), Len(p.nodes))

\* Named arguments are found once; a second one of the name is an error.
NamedMathArg(p, marker, name) ==
  IF name \in p.seen THEN [p EXCEPT !.nodes[marker + 1] = Leaf("Error", @.from, @.to)] ELSE p

MathArgBody(p, marker, start, kind) ==
  LET failed == p.count = 0 /\ kind = "Named"
      q == IF failed THEN Expected(p) ELSE p
      r == IF p.count # 1
           THEN Wrap(q, IF failed THEN ErrorMarker(q, start) ELSE start, "Math") ELSE q
  IN  IF kind = "Invalid" THEN r ELSE Wrap(r, marker, kind)

MathArg(p, marker, kind) ==
  MathArgBody(MathExprs(p, {"End", "Dollar", "Comma", "Semicolon", "RightParen"}),
              marker, Len(p.nodes), kind)

WithToken(p, token) ==
  [p EXCEPT !.cur.kind = token.kind,
            !.cur.node = Leaf(token.kind, p.cur.start, token.s.cur),
            !.s = token.s]

ParseMathArg(p, spread, named) ==
  LET name == Since(named.s, p.cur.start)
      start == Len(p.nodes)
  IN  IF spread.kind # "NoToken"
      THEN [MathArg(Consume(WithToken(p, spread)), start, "Spread") EXCEPT !.seen = p.seen]
      ELSE IF named.kind # "NoToken"
      THEN [MathArg(NamedMathArg(ConsumeAs(Consume(WithToken(p, named)), "Colon"), start, name),
                    start, "Named") EXCEPT !.seen = p.seen \cup {name}]
      ELSE [MathArg([p EXCEPT !.s = named.s], start, "Invalid") EXCEPT !.seen = p.seen]

MathSeparator(p) ==
  CASE At(p, MathArgsStops) -> p
    [] At(p, {"Semicolon", "Comma"}) -> Consume(p)
    [] OTHER -> Expected(p)

MathArgs(p, start) ==
  Wrap(ExpectClosing(
         While([p EXCEPT !.seen = {}], LAMBDA x : ~At(x, MathArgsStops),
               LAMBDA x : MathSeparator(ParseMathArg(x, MaybeMathSpreadArg(x.s, x.cur.start),
                                                        MaybeMathNamedArg(x.s, x.cur.start)))),
         start, "RightParen"),
       start, "MathArgs")

MathIdent(p, marker, minPrec) ==
  IF minPrec <= 2 /\ DirectlyAt(p, {"LeftParen"})
  THEN Wrap(MathArgs(Must(p, "LeftParen"), Len(p.nodes)), marker, "MathCall")
  ELSE [p EXCEPT !.continuable = TRUE]

\* Whether an operand may be followed by delimiters that belong to it.
Continuable(p, is) == [p EXCEPT !.continuable = is]

MathPrimary(p, marker, minPrec) ==
  CASE At(p, {"Hash"}) -> Continuable(ParseEmbeddedCodeExpr(p), FALSE)
    [] At(p, {"MathIdent", "FieldAccess"}) ->
         MathIdent(Continuable(Consume(p), FALSE), marker, minPrec)
    [] At(p, {"LeftBrace", "LeftParen"}) ->
         Continuable(ParseMathDelimited(p, ConsumeDelim(p, <<"[", "|">>)), FALSE)
    [] At(p, {"RightBrace"}) -> ConsumeDelim(p, <<"|", "]">>)
    [] At(p, {"Dot", "Bang", "Comma", "Semicolon", "RightParen"}) -> ConsumeAs(p, "MathText")
    [] At(p, {"MathText"}) -> Continuable(Consume(p), ToSet(CurText(p)) \subseteq Letters)
    [] At(p, {"Linebreak", "MathAlignPoint", "MathShorthand"}) -> Consume(p)
    [] At(p, {"MathPrimes", "Escape", "Str"}) -> Continuable(Consume(p), TRUE)
    [] At(p, {"Root"}) ->
         Continuable(Wrap(MathOperand(Consume(p), 2, {}), marker, "MathRoot"), FALSE)
    [] OTHER -> Expected(p)

\* After the primary the marker may be that of an error.
MathHead(p, marker, atPrimary) ==
  [p EXCEPT !.marker = IF atPrimary THEN marker ELSE ErrorMarker(p, marker)]

\* A function and the delimiters right behind it.
MathImplicitCall(p, minPrec) ==
  IF p.continuable /\ minPrec <= 2 /\ DirectlyAt(p, {"LeftBrace", "LeftParen"})
  THEN Wrap(ParseMathDelimited(p, ConsumeDelim(p, <<"[", "|">>)), p.marker, "Math")
  ELSE p

MathRest(p, prec, stops) ==
  While([p EXCEPT !.chain = stops], LAMBDA x : At(x, x.chain),
    LAMBDA x : [MathOperand(Consume(x), prec, x.chain \ {x.cur.kind})
                  EXCEPT !.chain = x.chain \ {x.cur.kind}])

MathRight(p, op, chain) ==
  IF op.assoc = "none" THEN p
  ELSE MathOperand(p, IF op.assoc = "left" THEN op.prec + 1 ELSE op.prec, chain)

\* What an operator does with its operand, and with those that chain to it.
MathOperation(p, marker, kind, op, stops) ==
  LET chain == IF op.wrapper = "MathAttach" THEN AttachChain(kind) ELSE {}
      left == IF op.wrapper = "MathFrac" THEN MathUnparen(p, marker) ELSE p
      right == MathRight(left, op, chain)
      rest == IF kind = "MathPrimes" /\ At(right, stops) THEN right
              ELSE MathRest(right, op.prec, chain)
  IN  Wrap(rest, marker, op.wrapper)

OperatorAt(p) == MathOp(p.cur.kind, p.cur.trivia > 0)

MathOps(p, marker, minPrec, stops) ==
  While(p, LAMBDA x : /\ ~At(x, stops)
                      /\ OperatorAt(x) # NoMathOperator /\ OperatorAt(x).prec >= minPrec,
    LAMBDA x : MathOperation(IF At(x, {"Bang"}) THEN ConsumeAs(x, "MathText") ELSE Consume(x),
                             marker, x.cur.kind, OperatorAt(x), stops))

MathCalled(p, minPrec, stops) == MathOps(p, p.marker, minPrec, stops)

MathExprPrec(p, args) ==
  Deeper(p, {}, 1,
    LAMBDA q : MathCalled(MathImplicitCall(MathHead(
                 MathPrimary(Continuable(q, FALSE), Len(q.nodes), args.minPrec),
                 Len(q.nodes), At(q, MathExpr)), args.minPrec), args.minPrec, args.stops))

-----------------------------------------------------------------------------
(* Code.                                                                   *)

CodeEnded(p, stops) ==
  IF At(p, stops) THEN p
  ELSE IF At(p, {"Semicolon"}) THEN Consume(p) ELSE Expected(p)

CodeItem(p, stops) ==
  WithNewlineMode(ContextualContinue, p,
    LAMBDA q : IF At(q, CodeExpr) THEN CodeEnded(ParseCodeExpr(q), stops) ELSE Unexpected(q))

ParseCode(p, stops) ==
  Wrap(Flushed(IF p.depth >= p.max THEN DepthExceeded(p, stops)
               ELSE While(p, LAMBDA x : ~At(x, stops), LAMBDA x : CodeItem(x, stops))),
       Behind(p), "Code")

CodeBlock(p, start) ==
  Wrap(WithMode("Code", Continue, p,
         LAMBDA q : ExpectClosing(
                      ParseCode(Must(q, "LeftBrace"),
                                {"RightBrace", "RightBracket", "RightParen", "End"}),
                      start, "RightBrace")),
       start, "CodeBlock")

ContentBlock(p, start) ==
  Wrap(WithMode("Markup", Continue, p,
         LAMBDA q : ExpectClosing(
                      ParseMarkup(Must(q, "LeftBracket"), {"RightBracket", "End"}, TRUE, TRUE),
                      start, "RightBracket")),
       start, "ContentBlock")

ParseBlock(p) ==
  CASE At(p, {"LeftBrace"}) -> ParseCodeBlock(p)
    [] At(p, {"LeftBracket"}) -> ParseContentBlock(p)
    [] OTHER -> Expected(p)

\* A list in parentheses: items that start with one of the given kinds, with
\* commas between them.
Comma(p) ==
  IF At(p, Terminator) THEN [p EXCEPT !.ok = FALSE] ELSE Expect(p, "Comma")

Listed(p, starts, Item(_)) ==
  While(p, LAMBDA x : ~At(x, Terminator),
           LAMBDA x : IF At(x, starts) THEN Item(x) ELSE Unexpected(x))

InParens(p, Fn(_)) ==
  WithNewlineMode(Continue, p,
    LAMBDA q : ExpectClosing(Fn(Must(q, "LeftParen")), Len(q.nodes), "RightParen"))

\* What comes before a colon has to be a name, unless an error was reported.
NamedBy(p, start, wasName) ==
  IF wasName /\ MarkedKind(p, start) # "Ident" THEN ExpectedAt(p, start) ELSE p

-----------------------------------------------------------------------------
(* Parenthesized expressions, arrays, dictionaries, parameters, patterns.  *)

KeyOrItem(p, group, start, key) ==
  IF At(key, {"Colon"})
  THEN LET pair == ParseCodeExpr(Consume(key))
       IN  [Wrap(pair, start, IF MarkedKind(pair, start) = "Ident" THEN "Named" ELSE "Keyed")
              EXCEPT !.group = [group EXCEPT !.notJustParens = TRUE,
                                             !.kind = IF @ = "Array" THEN @ ELSE "Dict"]]
  ELSE [key EXCEPT !.group = [group EXCEPT !.kind = IF @ = "Dict" THEN @ ELSE "Array"]]

ParseArrayOrDictItem(p) ==
  IF At(p, {"Dots"})
  THEN [Wrap(ParseCodeExpr(Consume(p)), Len(p.nodes), "Spread")
          EXCEPT !.group = [p.group EXCEPT !.notJustParens = TRUE]]
  ELSE KeyOrItem(p, p.group, Len(p.nodes), ParseCodeExpr(p))

\* A comma makes more of it than parentheses.
Grouped(p) ==
  LET q == Comma([p EXCEPT !.group.count = @ + 1])
  IN  IF q.ok THEN [q EXCEPT !.group.notJustParens = TRUE] ELSE q

GroupItems(p) ==
  Listed(IF At(p, {"Colon"})
         THEN [Consume(p) EXCEPT !.group = [NoGroup EXCEPT !.kind = "Dict",
                                                           !.notJustParens = TRUE]]
         ELSE [p EXCEPT !.group = NoGroup],
         ArrayOrDictItem, LAMBDA x : Grouped(ParseArrayOrDictItem(x)))

GroupKind(group) ==
  IF ~group.notJustParens /\ group.count = 1 THEN "Parenthesized"
  ELSE IF group.kind = "Invalid" THEN "Array" ELSE group.kind

\* History: a parenthesis is parsed.
Tried(p) ==
  LET key == p.s.cur
      tries == IF key \in DOMAIN p.tries THEN p.tries[key] ELSE 0
  IN  [p EXCEPT !.tries = (key :> tries + 1) @@ @]

Group(p, start) ==
  LET q == InParens(Tried(p), GroupItems)
      kind == GroupKind(q.group)
  IN  [Wrap(q, start, kind) EXCEPT !.kind = kind]

\* What was parsed as it should have been parsed at first is kept.
Memoize(p, key, cp) ==
  [p EXCEPT !.memos = (key :> [nodes |-> SubSeq(p.nodes, Len(cp.nodes) + 1, Len(p.nodes)),
                               s |-> p.s, cur |-> p.cur]) @@ @]

RestoreMemo(p, memo) ==
  [p EXCEPT !.nodes = @ \o memo.nodes,
            !.s = Seek([@ EXCEPT !.mode = memo.s.mode], memo.s.cur),
            !.cur = memo.cur]

\* Variant: what was corrected is not kept.
CorrectedAnew(p, sign, cp, kind) ==
  LET q == Expect(p, sign)
  IN  IF q.ok THEN Wrap(ParseCodeExpr(q), Len(cp.nodes), kind) ELSE q

\* The guess was wrong: what comes in parentheses stands before an arrow or an
\* equals sign.  Without that sign nothing is kept.
Corrected(p, sign, cp, kind) ==
  LET q == Expect(p, sign)
  IN  IF q.ok THEN Memoize(Wrap(ParseCodeExpr(q), Len(cp.nodes), kind), cp.s.cur, cp) ELSE q

Guessed(p, cp) ==
  IF At(p, {"Arrow"})
  THEN Corrected(ParseParams(Tried(Restore(p, cp))), "Arrow", cp, "Closure")
  ELSE IF At(p, {"Eq"}) /\ p.kind # "Parenthesized"
  THEN Corrected(ParseDestructuring(Tried(Restore(p, cp)), TRUE), "Eq", cp,
                 "DestructAssignment")
  ELSE p

ParseExprWithParen(p, atomic) ==
  IF atomic THEN Group(p, Len(p.nodes))
  ELSE IF p.s.cur \in DOMAIN p.memos THEN RestoreMemo(p, p.memos[p.s.cur])
  ELSE Guessed(Group(p, Len(p.nodes)), p)

SpreadLeaf(p, reassignment, start) ==
  Wrap(IF At(p, PatternLeaf) THEN Do(Call("leaf", reassignment), p) ELSE p, start, "Spread")

Named(p, start, wasPattern) ==
  IF ~At(p, {"Colon"}) THEN p
  ELSE Wrap(ParseCodeExpr(NamedBy(Consume(p), start, wasPattern)), start, "Named")

ParseParam(p) ==
  IF At(p, {"Dots"}) THEN SpreadLeaf(Consume(p), FALSE, Len(p.nodes))
  ELSE Named(ParsePattern(p, FALSE), Len(p.nodes), At(p, Pattern))

Params(p, start) ==
  Wrap(InParens(p, LAMBDA q : Listed(q, ParamStart, LAMBDA x : Comma(ParseParam(x)))),
       start, "Params")

\* A leaf is any atomic expression, so that an error names the whole of it.
PatternLeafOf(p, reassignment) ==
  IF At(p, KeywordKinds) THEN ErrorHere(p)
  ELSE IF ~At(p, PatternLeaf) THEN Expected(p)
  ELSE LET q == ParseCodeExprPrec(p, TRUE, 0)
       IN  IF ~reassignment /\ MarkedKind(q, Len(p.nodes)) # "Ident"
           THEN ExpectedAt(q, Len(p.nodes)) ELSE q

PatternOf(p, reassignment) ==
  Deeper(p, {}, 1,
    LAMBDA q : CASE At(q, {"Underscore"}) -> Consume(q)
                 [] At(q, {"LeftParen"}) -> ParseDestructuring(q, reassignment)
                 [] OTHER -> PatternLeafOf(q, reassignment))

\* group tells here, too, whether there is more than a pattern in parentheses.
DestructuringValue(p, group, reassignment, start, wasPattern) ==
  IF ~At(p, {"Colon"}) THEN [p EXCEPT !.group = group]
  ELSE [Wrap(ParsePattern(NamedBy(Consume(p), start, wasPattern), reassignment), start, "Named")
          EXCEPT !.group = [group EXCEPT !.notJustParens = TRUE]]

DestructuringKey(p, reassignment) ==
  LET q == ConsumeIf(p, "Ident")
  IN  IF q.ok /\ At(q, {"Colon"}) THEN q ELSE ParsePattern(Restore(q, p), reassignment)

ParseDestructuringItem(p, reassignment) ==
  IF At(p, {"Dots"})
  THEN [SpreadLeaf(Consume(p), reassignment, Len(p.nodes))
          EXCEPT !.group = [p.group EXCEPT !.kind = "Sink"]]
  ELSE DestructuringValue(DestructuringKey(p, reassignment), p.group, reassignment,
                          Len(p.nodes), At(p, Pattern))

DestructuringItems(p, reassignment) ==
  Listed([p EXCEPT !.group = NoGroup], DestructuringItem,
         LAMBDA x : Grouped(ParseDestructuringItem(x, reassignment)))

Destructuring(p, reassignment, start) ==
  LET q == InParens(p, LAMBDA x : DestructuringItems(x, reassignment))
  IN  Wrap(q, start, IF ~q.group.notJustParens /\ q.group.count = 1 /\ q.group.kind # "Sink"
                     THEN "Parenthesized" ELSE "Destructuring")

-----------------------------------------------------------------------------
(* Calls, statements, control flow.                                        *)

NamedArg(p, start, wasExpr) ==
  IF ~At(p, {"Colon"}) THEN p
  ELSE Wrap(ParseCodeExpr(NamedBy(Consume(p), start, wasExpr)), start, "Named")

ParseArg(p) ==
  IF At(p, {"Dots"}) THEN Wrap(ParseCodeExpr(Consume(p)), Len(p.nodes), "Spread")
  ELSE NamedArg(ParseCodeExpr(p), Len(p.nodes), At(p, CodeExpr))

ContentArgs(p) ==
  While(p, LAMBDA x : DirectlyAt(x, {"LeftBracket"}), LAMBDA x : ParseContentBlock(x))

ParenArgs(p) == InParens(p, LAMBDA q : Listed(q, Arg, LAMBDA x : Comma(ParseArg(x))))

Args(p, start) ==
  IF DirectlyAt(p, {"LeftParen", "LeftBracket"})
  THEN Wrap(ContentArgs(IF At(p, {"LeftParen"}) THEN ParenArgs(p) ELSE p), start, "Args")
  ELSE Expected(p)

Initializer(p, required) ==
  IF At(p, {"Eq"}) THEN ParseCodeExpr(Consume(p)) ELSE IF required THEN Expected(p) ELSE p

LetBinding(p, start, isName) ==
  LET bound == IF isName THEN Consume(p) ELSE ParsePattern(p, FALSE)
      closure == DirectlyAt(bound, {"LeftParen"})
      whole == Initializer(IF closure THEN ParseParams(bound) ELSE bound, closure \/ ~isName)
  IN  Wrap(IF closure THEN Wrap(whole, Len(p.nodes), "Closure") ELSE whole,
           start, "LetBinding")

FieldAccesses(p, marker) ==
  While(p, LAMBDA x : At(x, {"Dot"}),
           LAMBDA x : Wrap(Expect(Consume(x), "Ident"), marker, "FieldAccess"))

SetTarget(p, marker) == FieldAccesses(p, IF p.ok THEN marker ELSE ErrorMarker(p, marker))

If(p) == IF At(p, {"if"}) THEN ParseCodeExpr(Consume(p)) ELSE p

SetRule(p, start) ==
  Wrap(If(ParseArgs(SetTarget(Expect(p, "Ident"), Len(p.nodes)))), start, "SetRule")

Transform(p) ==
  IF At(p, {"Colon"}) THEN ParseCodeExpr(Consume(p)) ELSE ExpectedAt(p, Behind(p) - 1)

ShowRule(p, start) ==
  Wrap(IF At(p, {"Colon"}) THEN ParseCodeExpr(Consume(p)) ELSE Transform(ParseCodeExpr(p)),
       start, "ShowRule")

Else(p) ==
  IF ~At(p, {"else"}) THEN p
  ELSE LET q == Consume(p) IN IF At(q, {"if"}) THEN ParseConditional(q) ELSE ParseBlock(q)

Conditional(p) ==
  Wrap(Else(ParseBlock(ParseCodeExpr(Must(p, "if")))), Len(p.nodes), "Conditional")

WhileLoop(p, start) == Wrap(ParseBlock(ParseCodeExpr(p)), start, "WhileLoop")

HasError(p, start) == \E i \in start + 1 .. Len(p.nodes) : p.nodes[i].kind = "Error"

\* A comma behind the pattern is an error, and what follows it another pattern.
ForPatterns(p) ==
  IF ~At(p, {"Comma"}) THEN p
  ELSE LET q == Unexpected(p) IN IF At(q, Pattern) THEN ParsePattern(q, FALSE) ELSE q

ForIn(p, failed) ==
  IF failed THEN [ConsumeIf(p, "in") EXCEPT !.ok = TRUE] ELSE Expect(p, "in")

ForBody(p, start) ==
  Wrap(IF ~p.ok /\ At(p, Terminator \cup {"Error"}) THEN p ELSE ParseBlock(ParseCodeExpr(p)),
       start, "ForLoop")

ForLoop(p, start, pattern) ==
  ForBody(ForIn(ForPatterns(pattern), HasError(pattern, Len(p.nodes))), start)

FuncReturn(p, start) ==
  Wrap(IF At(p, CodeExpr) THEN ParseCodeExpr(p) ELSE p, start, "FuncReturn")

ItemPath(p, start) ==
  Wrap(While(IF At(p, {"Ident"}) THEN Consume(p) ELSE Unexpected(p),
             LAMBDA x : At(x, {"Dot"}), LAMBDA x : Expect(Consume(x), "Ident")),
       start, "ImportItemPath")

Renamed(p, start) ==
  IF At(p, {"as"}) THEN Wrap(Expect(Consume(p), "Ident"), start, "RenamedImportItem") ELSE p

ImportItems(p) ==
  Wrap(While(p, LAMBDA x : ~At(x, Terminator),
             LAMBDA x : Comma(Renamed(ItemPath(x, Len(x.nodes)), Len(x.nodes)))),
       Len(p.nodes), "ImportItems")

ImportAs(p) == IF At(p, {"as"}) THEN Expect(Consume(p), "Ident") ELSE p

Imported(p) ==
  CASE At(p, {"LeftParen"}) -> InParens(p, ImportItems)
    [] At(p, {"Star"}) -> Consume(p)
    [] OTHER -> ImportItems(p)

ImportColon(p) == IF At(p, {"Colon"}) THEN Imported(Consume(p)) ELSE p

ModuleImport(p, start) ==
  Wrap(ImportColon(ImportAs(ParseCodeExpr(p))), start, "ModuleImport")

\* One parameter in front of an arrow.
SingleParamClosure(p, start) ==
  Wrap(ParseCodeExpr(Must(Wrap(p, start, "Params"), "Arrow")), start, "Closure")

AfterIdent(p, atomic, start) ==
  IF ~atomic /\ At(p, {"Arrow"}) THEN SingleParamClosure(p, start) ELSE p

AfterUnderscore(p, start) ==
  CASE At(p, {"Arrow"}) -> SingleParamClosure(p, start)
    [] At(p, {"Eq"}) -> Wrap(ParseCodeExpr(Consume(p)), start, "DestructAssignment")
    [] OTHER -> ExpectedAt(p, start)

Literals == {"none", "auto", "Bool", "Int", "Float", "Numeric", "Str", "Label", "Raw"}

Statement(p, kind, start, atomic) ==
  CASE kind = "let" -> LetBinding(p, start, At(p, {"Ident"}))
    [] kind = "set" -> SetRule(p, start)
    [] kind = "show" -> ShowRule(p, start)
    [] kind = "context" -> Wrap(ParseCodeExprPrec(p, atomic, 0), start, "Contextual")
    [] kind = "while" -> WhileLoop(p, start)
    [] kind = "for" -> ForLoop(p, start, ParsePattern(p, FALSE))
    [] kind = "break" -> Wrap(p, start, "LoopBreak")
    [] kind = "continue" -> Wrap(p, start, "LoopContinue")
    [] kind = "return" -> FuncReturn(p, start)
    [] kind = "import" -> ModuleImport(p, start)
    [] kind = "include" -> Wrap(ParseCodeExpr(p), start, "ModuleInclude")

Statements == {"let", "set", "show", "context", "while", "for", "break", "continue", "return",
               "import", "include"}

CodePrimary(p, start, atomic) ==
  CASE At(p, {"Ident"}) -> AfterIdent(Consume(p), atomic, start)
    [] At(p, {"Underscore"}) -> IF atomic THEN ErrorHere(p) ELSE AfterUnderscore(Consume(p), start)
    [] At(p, {"LeftBrace"}) -> ParseCodeBlock(p)
    [] At(p, {"LeftBracket"}) -> ParseContentBlock(p)
    [] At(p, {"LeftParen"}) -> ParseExprWithParen(p, atomic)
    [] At(p, {"Dollar"}) -> ParseEquation(p)
    [] At(p, Literals) -> Consume(p)
    [] At(p, Statements) -> Statement(Consume(p), p.cur.kind, start, atomic)
    [] At(p, {"if"}) -> ParseConditional(p)
    [] OTHER -> IF atomic THEN Unexpected(p) ELSE Expected(p)

-----------------------------------------------------------------------------
(* Expressions.                                                            *)

CodeHead(p, start, atomic) ==
  IF ~atomic /\ At(p, UnaryOps)
  THEN [Wrap(ParseCodeExprPrec(Consume(p), atomic, UnaryPrecedence(p.cur.kind)), start, "Unary")
          EXCEPT !.marker = start]
  ELSE LET q == CodePrimary(p, start, atomic)
       IN  [q EXCEPT !.marker = IF At(p, CodeExpr) THEN start ELSE ErrorMarker(q, start)]

Again(p, more) == [p EXCEPT !.more = more]

\* Variant: operators of one precedence group to the right.
BinaryRightwards(p, start, op) ==
  Again(Wrap(ParseCodeExprPrec(Consume(p), FALSE, Precedence(op)), start, "Binary"), TRUE)

Binary(p, start, op) ==
  Again(Wrap(ParseCodeExprPrec(Consume(p), FALSE,
               IF AssocLeft(op) THEN Precedence(op) + 1 ELSE Precedence(op)), start, "Binary"),
        TRUE)

\* `not` is an operator when `in` follows.
NotIn(p, start, behind) ==
  IF At(behind, {"in"}) THEN Binary(behind, start, "not in")
  ELSE Again(ErrorHere(Restore(behind, p)), FALSE)

CodeOp(p, start, minPrec) ==
  CASE At(p, {"Dot"}) ->
         Again(Wrap(Expect(Consume(p), "Ident"), start, "FieldAccess"), TRUE)
    [] At(p, BinaryOps) ->
         IF Precedence(p.cur.kind) < minPrec THEN Again(p, FALSE)
         ELSE Binary(p, start, p.cur.kind)
    [] At(p, {"not"}) /\ minPrec <= Precedence("not in") -> NotIn(p, start, Consume(p))
    [] OTHER -> Again(p, FALSE)

\* In markup a dot belongs to the expression only if a name follows it.
AtomicOp(p, start) ==
  IF p.kind = "Ident" THEN CodeOp(p, start, 0) ELSE Again(p, FALSE)

CodeStep(p, start, atomic, minPrec) ==
  IF DirectlyAt(p, {"LeftParen", "LeftBracket"})
  THEN Again(Wrap(ParseArgs(p), start, "FuncCall"), TRUE)
  ELSE IF ~atomic THEN CodeOp(p, start, minPrec)
  ELSE IF DirectlyAt(p, {"Dot"}) THEN AtomicOp(Do(Call("peek", <<>>), p), start)
  ELSE Again(p, FALSE)

CodeSteps(p, start, args) ==
  While(Again(p, TRUE), LAMBDA x : x.more,
        LAMBDA x : CodeStep(x, start, args.atomic, args.minPrec))

CodeOps(p, args) == CodeSteps(p, p.marker, args)

\* Variant: an expression in another does not count.
CodeExprPrecUncounted(p, args) == CodeOps(CodeHead(p, Len(p.nodes), args.atomic), args)

CodeExprPrec(p, args) ==
  Deeper(p, {}, 1, LAMBDA q : CodeOps(CodeHead(q, Len(q.nodes), args.atomic), args))

-----------------------------------------------------------------------------
(* The calls.                                                              *)

TokenCalls == {"next", "peek"}
Scanned(p, fn, token) == IF fn = "next" THEN TakeToken(p, token) ELSE Peeked(p, token)

Run(call, p) ==
  CASE call.fn \in TokenCalls -> Scanned(p, call.fn, Scan(p.s))
    [] call.fn = "parse" -> ParseMarkup(Next(p), {"End"}, TRUE, TRUE)
    [] call.fn = "markup" -> Markup(p, call.args)
    [] call.fn = "math" -> MathExprPrec(p, call.args)
    [] call.fn = "code" -> CodeExprPrec(p, call.args)
    [] call.fn = "embedded" -> WithMode("Code", Stop, p, LAMBDA q : EmbeddedCodeExpr(Must(q, "Hash")))
    [] call.fn = "equation" -> Equation(p, Len(p.nodes))
    [] call.fn = "content" -> ContentBlock(p, Len(p.nodes))
    [] call.fn = "block" -> CodeBlock(p, Len(p.nodes))
    [] call.fn = "conditional" -> Conditional(p)
    [] call.fn = "args" -> Args(p, Len(p.nodes))
    [] call.fn = "params" -> Params(p, Len(p.nodes))
    [] call.fn = "pattern" -> PatternOf(p, call.args)
    [] call.fn = "leaf" -> PatternLeafOf(p, call.args)
    [] call.fn = "destructuring" -> Destructuring(p, call.args, Len(p.nodes))

Do(call, p) ==
  LET nesting == p.nesting + IF call.fn \in TokenCalls THEN 0 ELSE 1
  IN  IF p.broken THEN p
      ELSE [Run(call, [p EXCEPT !.nesting = nesting, !.deepest = Furthest(@, nesting)])
              EXCEPT !.nesting = p.nesting]

NewParser(src, maxDepth) ==
  [s |-> NewScanner(src), cur |-> <<>>, nodes |-> <<>>, nl |-> Continue, memos |-> <<>>,
   bracketNesting |-> 0, depth |-> 0, anchor |-> NoAnchor, max |-> maxDepth,
   broken |-> FALSE, nesting |-> 0, deepest |-> 0, tries |-> <<>>,
   ok |-> FALSE, kind |-> "Invalid", count |-> 0, marker |-> 0, continuable |-> FALSE,
   seen |-> {}, group |-> NoGroup, chain |-> {}, balance |-> 0, more |-> FALSE,
   atStart |-> TRUE]

Parse(src, maxDepth) == Do(Call("parse", <<>>), NewParser(src, maxDepth))
=============================================================================
