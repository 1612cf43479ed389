------------------------------ MODULE Parsing ------------------------------
(***************************************************************************)
(* Parsing whatever is typed: a source grows by a lexeme at a time, and    *)
(* every source on the way is parsed from its start.  Each source starts   *)
(* out with a prefix that brings the parser where the lexemes matter.      *)
(***************************************************************************)
EXTENDS Parser

CONSTANT
  Corners  \* where to type: [prefix, lexemes, length (bound), maxDepth]

VARIABLES
  corner,
  src,
  typed,
  p  \* the parser behind the source

vars == <<corner, src, typed, p>>

Init ==
  /\ corner \in Corners
  /\ src = corner.prefix
  /\ typed = 0
  /\ p = Parse(src, corner.maxDepth)

Type(lexeme) ==
  /\ typed < corner.length
  /\ src' = src \o lexeme
  /\ typed' = typed + 1
  /\ p' = Parse(src', corner.maxDepth)
  /\ UNCHANGED corner

\* Not named Next: that is the parser's.
Typing == \E lexeme \in corner.lexemes : Type(lexeme)

Spec == Init /\ [][Typing]_vars

-----------------------------------------------------------------------------
(* Properties.                                                             *)

Root == p.nodes[1]

\* The nodes of the tree.
NodesOf == LET RECURSIVE Below(_)
               Below(node) == {node} \cup UNION {Below(node.kids[i]) : i \in DOMAIN node.kids}
           IN  Below(Root)

(* Whatever the source is, the parser does not panic, hang or lose count:  *)
(* it is at the end with one node, at the depth and in the modes it        *)
(* started with.                                                           *)
ParserEnds ==
  /\ ~p.broken
  /\ AtEnd(p) /\ Len(p.nodes) = 1 /\ p.s.cur = Len(src)
  /\ p.depth = 0 /\ p.s.mode = "Markup" /\ p.nl = Continue

(* The tree holds every character of the source once: each node's kids lie *)
(* one behind the other and fill it, down to the tokens.                   *)
TreeTilesSource ==
  /\ Root.from = 0 /\ Root.to = Len(src)
  /\ \A node \in NodesOf :
       /\ node.from <= node.to
       /\ node.kids # <<>> =>
            /\ node.kids[1].from = node.from /\ Last(node.kids).to = node.to
            /\ \A i \in 1 .. Len(node.kids) - 1 : node.kids[i].to = node.kids[i + 1].from

\* Delimiters that are the same on both sides are those of their node.
Opens(node) ==
  CASE node.kind = "Strong" -> {"Star"}
    [] node.kind = "Emph" -> {"Underscore"}
    [] node.kind = "Equation" -> {"Dollar"}
    [] OTHER -> {}

CountKids(node, kind) == Cardinality({i \in DOMAIN node.kids : node.kids[i].kind = kind})

(* A delimiter is closed in the node that it opens, or it is an error: a   *)
(* tree without errors is the tree of a well-formed source.                *)
DelimitersPair ==
  \A node \in NodesOf :
    /\ \A pair \in {<<"LeftParen", "RightParen">>, <<"LeftBracket", "RightBracket">>,
                    <<"LeftBrace", "RightBrace">>} :
         CountKids(node, pair[1]) = CountKids(node, pair[2])
    /\ \A kind \in Opens(node) : CountKids(node, kind) \in {0, 2}

-----------------------------------------------------------------------------
(* Operators.                                                              *)

Solid(node) == SelectSeq(node.kids, LAMBDA kid : kid.kind \notin Trivia)
Left(node) == Solid(node)[1]
Right(node) == Last(Solid(node))

\* How tightly a node binds.
OpOf(node) ==
  LET kinds == {node.kids[i].kind : i \in {j \in DOMAIN node.kids : node.kids[j].kids = <<>>}}
  IN  IF "not" \in kinds /\ node.kind = "Binary" THEN "not in"
      ELSE CHOOSE kind \in kinds : kind \in UnaryOps \cup BinaryOps
Tightness(node) ==
  CASE node.kind = "Binary" -> Precedence(OpOf(node))
    [] node.kind = "Unary" -> UnaryPrecedence(OpOf(node))
    [] node.kind = "Closure" -> 0
    [] OTHER -> 9

\* The operators of an operand that meet the operator to its right, or left.
RECURSIVE RightSpine(_)
RightSpine(node) ==
  {node} \cup IF node.kind \in {"Binary", "Unary", "Closure"} THEN RightSpine(Right(node)) ELSE {}
RECURSIVE LeftSpine(_)
LeftSpine(node) ==
  {node} \cup IF node.kind = "Binary" THEN LeftSpine(Left(node)) ELSE {}

NestsRight(prec, assocLeft, node) ==
  \A n \in LeftSpine(node) :
    n.kind = "Binary" => IF assocLeft THEN Tightness(n) > prec ELSE Tightness(n) >= prec

\* What has an error for its right operand may be followed by anything.
NestsLeft(prec, assocLeft, node) ==
  \A n \in {m \in RightSpine(node) : m.kids = <<>> \/ Last(m.kids).kind # "Error"} :
    IF n.kind = "Binary" /\ assocLeft THEN Tightness(n) >= prec ELSE Tightness(n) > prec

BinaryNests(node) ==
  /\ NestsLeft(Tightness(node), AssocLeft(OpOf(node)), Left(node))
  /\ NestsRight(Tightness(node), AssocLeft(OpOf(node)), Right(node))

(* An operator's operands bind tighter than it does, wherever they meet    *)
(* it, and those that bind as tightly are on the side it associates to.    *)
(* Calls and fields belong to what is right in front of them.  In math, a  *)
(* denominator or an attachment is no fraction, and what is attached to    *)
(* one base is one node.                                                   *)
OperatorsNest ==
  \A node \in NodesOf :
    /\ node.kind = "Binary" => BinaryNests(node)
    /\ node.kind = "Unary" => NestsRight(Tightness(node), FALSE, Right(node))
    /\ node.kind \in {"FieldAccess", "FuncCall"} /\ node.kids # <<>> =>
         NestsLeft(8, TRUE, Left(node))
    /\ node.kind = "MathFrac" => Right(node).kind # "MathFrac"
    /\ node.kind = "MathAttach" =>
         /\ Left(node).kind # "MathAttach"
         /\ \A i \in DOMAIN node.kids : node.kids[i].kind # "MathFrac"
         /\ \A kind \in {"Underscore", "Hat"} : CountKids(node, kind) <= 1

(* Backtracking is not repeated: no parenthesis is parsed more than twice, *)
(* however many wrong guesses it is nested in.                             *)
ParsedAtMostTwice == \A key \in DOMAIN p.tries : p.tries[key] <= 2

(* The limit on nesting limits the stack: between two functions that count *)
(* their depth there are at most two that do not (a chain of `else if`,    *)
(* which parseConditional does not count, is left to the README).          *)
NestingWithinLimit == p.deepest <= 3 * (corner.maxDepth + 1)

(* Wrong guesses and nesting cost little whatever is written: neither the  *)
(* time for a parenthesis nor the stack grows beyond its bound.            *)
EffortBounded == ParsedAtMostTwice /\ NestingWithinLimit
=============================================================================
