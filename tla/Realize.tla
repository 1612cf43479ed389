------------------------------ MODULE Realize ------------------------------
(***************************************************************************)
(* Realization: from the content a document evaluates to, to the document. *)
(* The author writes elements into open bodies, with set and show rules    *)
(* between them and labels behind them; evalContentResult makes a body of  *)
(* what was written; at the end realizeDocument resolves the style scopes  *)
(* and forms paragraphs and lists.                                         *)
(***************************************************************************)
EXTENDS Content

CONSTANTS
  Bodies,    \* kinds of elements with a body the author may open
  Leaves,    \* kinds of elements without one
  Wrapping,  \* selectors of rules the author may write that make it strong
  Failing,   \* ... of rules whose transform fails
  Rewriting, \* ... of rules that put a passage of their own in its place
  Removing,  \* ... of rules that take it out
  Titles,    \* titles the author may set for the document
  MaxWrites, \* bound: elements, rules and labels written
  MaxDepth   \* bound: bodies open at once

ASSUME RealizeAssumption ==
  /\ Bodies \subseteq {"seq", "strong", "underline", "heading", "listitem",
                       "enumitem", "footnote"}
  /\ Leaves \subseteq {"word", "space", "phrase", "meta", "parbreak", "linebreak"}
  /\ MaxWrites \in Nat /\ MaxDepth \in Nat

Show(selectors, by) == {[sel |-> sel, by |-> by] : sel \in selectors}

\* The set and show rules the author may write.
Rules ==
  Show(Wrapping, "strong") \cup Show(Failing, "fail") \cup Show(Rewriting, "run")
    \cup Show(Removing, "none") \cup {[sel |-> "document", by |-> title] : title \in Titles}

VARIABLES
  open,     \* the bodies being written, innermost last
  notes,    \* footnotes bound by `let`, to be used any number of times
  writes,   \* elements, rules and labels written
  session,  \* of the session: footnotes, title, identities, whether it panicked
  doc       \* <<>>, then the source's and the document's body

vars == <<open, notes, writes, session, doc>>

Init ==
  /\ open = <<[kind |-> "doc", kids |-> <<>>]>>
  /\ notes = <<>> /\ writes = 0 /\ doc = <<>>
  /\ session = [footnotes |-> <<>>, title |-> "", made |-> 0, crashed |-> FALSE]

-----------------------------------------------------------------------------
(* Evaluation of a body.                                                   *)

\* applyStyles: an update's scope is what follows it; with nothing behind it
\* it vanishes.
ApplyStyles(kids) ==
  LET fold(c, tail) ==
        IF c.kind # "update" THEN <<c>> \o tail
        ELSE IF tail = <<>> THEN <<>>
        ELSE <<[Node("styled", <<Wrapped(tail)>>) EXCEPT !.rule = c.rule]>>
  IN  FoldRight(fold, kids, <<>>)

ContentResult(kids) == Wrapped(ApplyStyles(kids))

\* lowerMarkup: an element's markup of one item is that item, an update too.  A
\* content block is assembled in any case.
Body(kind, kids) ==
  IF kind \in {"strong", "heading", "listitem", "enumitem"} /\ Len(kids) = 1
  THEN kids[1]
  ELSE ContentResult(kids)

-----------------------------------------------------------------------------
(* Realization of a node: the session and the node that replaces it.  mode *)
(* is "block" for realize, "line" for realizeInline and "edge" for         *)
(* realizeInlineBlock, where the ends of the body are block boundaries.    *)

Result(s, c) == [s |-> s, c |-> c]

\* A node rebuilt around new children.  A footnote is an object of its own;
\* the items of a list must be items, or the type assertion panics.
Rebuilt(acc, c) ==
  LET node == [c EXCEPT !.kids = acc.out]
      ok == c.kind \in {"list", "enum"} =>
              \A i \in DOMAIN acc.out :
                IsItem(acc.out[i]) /\ Container(acc.out[i]) = c.kind
      s == [acc.s EXCEPT !.crashed = @ \/ ~ok]
  IN  IF c.kind = "footnote"
      THEN Result([s EXCEPT !.made = @ + 1], [node EXCEPT !.id = -(s.made + 1)])
      ELSE Result(s, node)

Push(acc, r) == [s |-> r.s, out |-> Append(acc.out, r.c)]
PushFlat(acc, r) == [s |-> r.s, out |-> acc.out \o Children(r.c)]
Nothing(s) == [s |-> s, out |-> <<>>]

\* How a body is realized, given how its element is.
BodyMode(kind, mode) ==
  IF mode # "block" THEN "line"
  ELSE IF kind \in {"heading", "par"} THEN "edge"
  ELSE IF kind = "strong" THEN "line"
  ELSE "block"

\* Variant: sequences are spliced one level deep.
SplicedOnce(kids) == FlattenSeq([i \in DOMAIN kids |-> Children(kids[i])])

RECURSIVE Spliced(_)
Spliced(kids) ==
  FlattenSeq([i \in DOMAIN kids |->
    IF IsSplice(kids[i]) THEN Spliced(kids[i].kids) ELSE <<kids[i]>>])

\* The body of a run of realized siblings in block context.  A label goes to
\* the sequence, or to the one element there is.
BodyOf(acc, label) ==
  LET body == Wrapped(GroupContent(TrimRun(MergeText(acc.out), TRUE, TRUE)))
  IN  Result(acc.s, IF label = NoLabel THEN body ELSE [body EXCEPT !.label = label])

\* A run of realized siblings within a line.
RunOf(acc, label, edges) ==
  Result(acc.s, [Sequence(TrimRun(MergeText(acc.out), edges, edges)) EXCEPT !.label = label])

Trimmed(r, edges) ==
  LET kept == TrimEdges(r.c, edges, edges)
  IN  Result(r.s, IF kept = <<>> THEN Sequence(<<>>) ELSE kept[1])

\* realizeFootnote, once the body is realized.
NewFootnote(r, c) ==
  LET s == [r.s EXCEPT !.made = @ + 1]
      note == [c EXCEPT !.kids = <<r.c>>, !.id = -s.made]
  IN  Result([s EXCEPT !.footnotes = (c.id :> note) @@ @], note)

\* What a transform makes of a node it was given.
Shown == 99
Transformed(node, by) ==
  CASE by = "run"    -> Sequence(<<Text(<<Shown>>), Node("linebreak", <<>>), Text(<<Shown>>)>>)
    [] by = "strong" -> Node("strong", <<node>>)
    [] by = "none"   -> Sequence(<<>>)

Match(sel, c) == IF sel = "label" THEN c.label # NoLabel ELSE c.kind = sel

RECURSIVE Realize(_, _, _)

\* flattenAndRealize, then the grouping.
RealizeBody(s, kids, label) ==
  LET add(acc, c) ==
        IF c.kind = "styled" THEN PushFlat(acc, Realize(acc.s, c, "block"))
        ELSE Push(acc, Realize(acc.s, c, "block"))
  IN  BodyOf(FoldLeft(add, Nothing(s), Spliced(kids)), label)

\* applyTransform: what a transform returns is realized in its turn; one that
\* fails leaves the node as it is.
ApplyTransform(s, node, by) ==
  IF by = "fail" THEN Result(s, node)
  ELSE Realize(s, Transformed(node, by), "block")

\* Variant: a node that does not match keeps its children as they are.
ApplyRecipeTop(s, c, rule) ==
  IF Match(rule.sel, c) THEN ApplyTransform(s, c, rule.by) ELSE Result(s, c)

RECURSIVE ApplyRecipe(_, _, _)
ApplyRecipe(s, c, rule) ==
  IF Match(rule.sel, c) THEN ApplyTransform(s, c, rule.by)
  ELSE Rebuilt(FoldLeft(LAMBDA acc, k : Push(acc, ApplyRecipe(acc.s, k, rule)),
                        Nothing(s), c.kids), c)

\* Variant: a title that was set stays.
ApplySetOnce(s, rule) == IF s.title = "" THEN [s EXCEPT !.title = rule.by] ELSE s

\* applySet: the document's properties are the session's.
ApplySet(s, rule) == [s EXCEPT !.title = rule.by]

\* resolveStyled, once the scope's body is realized.
ApplyRule(r, rule) ==
  IF rule.sel = "document" THEN Result(ApplySet(r.s, rule), r.c)
  ELSE IF rule.sel = "all" THEN ApplyTransform(r.s, r.c, rule.by)
  ELSE ApplyRecipe(r.s, r.c, rule)

RealizeKids(s, c, mode) ==
  FoldLeft(LAMBDA acc, k : Push(acc, Realize(acc.s, k, mode)), Nothing(s), c.kids)

(***************************************************************************)
(* realize and realizeInlineRun.  In block context an underline is taken   *)
(* for a leaf.                                                             *)
(***************************************************************************)
Realize(s, c, mode) ==
  CASE c.kind = "styled" -> ApplyRule(Realize(s, c.kids[1], mode), c.rule)
    [] c.kind = "footnote" ->
         IF c.id \in DOMAIN s.footnotes THEN Result(s, s.footnotes[c.id])
         ELSE NewFootnote(RealizeBody(s, Children(c.kids[1]), NoLabel), c)
    [] c.kind = "seq" /\ mode = "block" -> RealizeBody(s, c.kids, c.label)
    [] c.kind = "seq" /\ mode # "block" ->
         RunOf(FoldLeft(LAMBDA acc, k : PushFlat(acc, Realize(acc.s, k, "line")),
                        Nothing(s), c.kids), c.label, mode = "edge")
    [] c.kind = "underline" /\ mode = "block" -> Result(s, c)
    [] OTHER ->
         Trimmed(Rebuilt(RealizeKids(s, c, BodyMode(c.kind, mode)), c), mode = "edge")

RealizeDocument(s, c) == RealizeBody(s, Children(c), NoLabel)

-----------------------------------------------------------------------------
(* The author.                                                             *)

Writing == doc = <<>> /\ writes < MaxWrites

Write(c) == open' = [open EXCEPT ![Len(open)].kids = Append(@, c)]

\* The words are numbered in the order they are written.
Word == writes + 1

Leaf(kind) ==
  CASE kind = "word"   -> Text(<<Word>>)
    [] kind = "space"  -> Text(<<Space>>)
    [] kind = "phrase" -> Text(<<Space, Word, Space>>)
    [] OTHER           -> Node(kind, <<>>)

WriteLeaf(kind) ==
  /\ Writing
  /\ Write(Leaf(kind))
  /\ writes' = writes + 1
  /\ UNCHANGED <<notes, session, doc>>

WriteRule(rule) ==
  /\ Writing
  /\ Write([Node("update", <<>>) EXCEPT !.rule = rule])
  /\ writes' = writes + 1
  /\ UNCHANGED <<notes, session, doc>>

\* A label goes to the element before it; updates and breaks take
\* none.  (Footnotes are left out: the uses of a bound one share its label.)
WriteLabel ==
  /\ Writing
  /\ LET kids == Last(open).kids
     IN  /\ kids # <<>> /\ Last(kids).label = NoLabel
         /\ Last(kids).kind \notin {"update", "footnote", "parbreak", "linebreak"}
         /\ open' = [open EXCEPT ![Len(open)].kids[Len(kids)].label = "a"]
  /\ writes' = writes + 1
  /\ UNCHANGED <<notes, session, doc>>

OpenBody(kind) ==
  /\ Writing
  /\ Len(open) <= MaxDepth
  /\ open' = Append(open, [kind |-> kind, kids |-> <<>>])
  /\ writes' = writes + 1
  /\ UNCHANGED <<notes, session, doc>>

\* The element made of a body, at its place in the body around it.
Placed(c) ==
  open' = [Front(open) EXCEPT ![Len(open) - 1].kids = Append(@, c)]

CloseBody ==
  /\ doc = <<>> /\ Len(open) > 1
  /\ LET body == Body(Last(open).kind, Last(open).kids)
         note == [Node("footnote", <<body>>) EXCEPT !.id = Len(notes) + 1]
     IN  CASE Last(open).kind = "seq" -> Placed(body) /\ UNCHANGED notes
           [] Last(open).kind = "footnote" ->
                Placed(note) /\ notes' = Append(notes, note)
           [] OTHER -> Placed(Node(Last(open).kind, <<body>>)) /\ UNCHANGED notes
  /\ UNCHANGED <<writes, session, doc>>

\* A bound footnote is written once more.
UseNote(i) ==
  /\ Writing
  /\ Write(notes[i])
  /\ writes' = writes + 1
  /\ UNCHANGED <<notes, session, doc>>

\* Eval: the document's body is evaluated and realized.
Finish ==
  /\ doc = <<>> /\ Len(open) = 1
  /\ LET source == ContentResult(open[1].kids)
     IN  \E r \in {RealizeDocument(session, source)} :
           /\ doc' = [source |-> source, body |-> r.c]
           /\ session' = r.s
  /\ open' = <<>>
  /\ UNCHANGED <<notes, writes>>

Next ==
  \/ \E kind \in Leaves : WriteLeaf(kind)
  \/ \E rule \in Rules : WriteRule(rule)
  \/ WriteLabel
  \/ \E kind \in Bodies : OpenBody(kind)
  \/ CloseBody
  \/ \E i \in DOMAIN notes : UseNote(i)
  \/ Finish

Spec == Init /\ [][Next]_vars

-----------------------------------------------------------------------------
(* Reference definitions.                                                  *)

RECURSIVE Nodes(_)
Nodes(c) == {c} \cup UNION {Nodes(c.kids[i]) : i \in DOMAIN c.kids}

RECURSIVE Words(_)
\* The words a reader meets, a footnote's where it is cited.
Words(c) ==
  SelectSeq(c.text, NotSpace) \o FlattenSeq([i \in DOMAIN c.kids |-> Words(c.kids[i])])

(***************************************************************************)
(* What a document's rules mean, without paragraphs, lists and spaces: the *)
(* innermost scope's rule is applied first, to the outermost elements that *)
(* match, and never to what it put in their place.                         *)
(***************************************************************************)
RECURSIVE Replaced(_, _)
Replaced(c, rule) ==
  IF rule.sel # "all" /\ ~Match(rule.sel, c)
  THEN [c EXCEPT !.kids = [i \in DOMAIN @ |-> Replaced(@[i], rule)]]
  ELSE IF rule.by = "fail" THEN c ELSE Transformed(c, rule.by)

RECURSIVE Meaning(_)
Meaning(c) ==
  IF c.kind # "styled"
  THEN [c EXCEPT !.kids = [i \in DOMAIN @ |-> Meaning(@[i])]]
  ELSE IF c.rule.sel = "document" THEN Meaning(c.kids[1])
  ELSE Replaced(Meaning(c.kids[1]), c.rule)

\* Titles of the set rules that stand in no other such rule's scope.
RECURSIVE OuterTitles(_)
OuterTitles(c) ==
  IF c.kind = "styled" /\ c.rule.sel = "document" THEN {c.rule.by}
  ELSE UNION {OuterTitles(c.kids[i]) : i \in DOMAIN c.kids}

\* A body without the nesting of its unlabeled sequences.
RECURSIVE Flat(_)
Flat(c) ==
  IF c.kind = "seq"
  THEN [c EXCEPT !.kids = FlattenSeq([i \in DOMAIN @ |-> Children(Flat(@[i]))])]
  ELSE [c EXCEPT !.kids = [i \in DOMAIN @ |-> Flat(@[i])]]

(***************************************************************************)
(* A body as one line of tokens: words, spaces, breaks, the mark of a      *)
(* footnote, where a wrapper begins and ends, and the elements that are    *)
(* none of these.                                                          *)
(***************************************************************************)
Break == -1
Mark == -2
Begin == -3
End == -4
Other == -5

RECURSIVE Tokens(_)
Tokens(c) ==
  LET inner == FlattenSeq([i \in DOMAIN c.kids |-> Tokens(c.kids[i])])
  IN  CASE c.kind = "text"     -> c.text
        [] c.kind = "footnote" -> <<Mark>>
        [] c.kind = "meta"     -> <<Other>>
        [] c.kind = "strong"   -> <<Begin>> \o inner \o <<End>>
        [] BreaksLine(c)       -> <<Break>> \o inner \o <<Break>>
        [] OTHER               -> inner

Line(c) == <<Break>> \o Tokens(c) \o <<Break>>

\* A space separates nothing at a break, wrappers looked through, and before
\* a footnote's mark.
Separates(tokens, i) ==
  LET before == SelectSeq(SubSeq(tokens, 1, i - 1), LAMBDA x : x \notin {Space, Begin})
      after == SelectSeq(SubSeq(tokens, i + 1, Len(tokens)), LAMBDA x : x \notin {Space, End})
  IN  /\ before # <<>> /\ Last(before) # Break
      /\ after # <<>> /\ Head(after) \notin {Break, Mark}

\* Whether there is a word on the line of tokens[i].
OnWordedLine(tokens, i) ==
  \E j \in DOMAIN tokens :
    /\ tokens[j] > Space
    /\ \A k \in DOMAIN tokens : (k \in i .. j \/ k \in j .. i) => tokens[k] # Break

\* What a reader sees of the tokens: spaces count where there are words, and
\* breaks and spaces that follow their like add nothing.
Seen(tokens) ==
  LET at == SelectSeq([i \in DOMAIN tokens |-> i],
                      LAMBDA i : /\ tokens[i] # Other
                                 /\ tokens[i] # Space \/ OnWordedLine(tokens, i))
  IN  FoldLeft(LAMBDA out, i : IF tokens[i] \in {Space, Break} /\ Last(out) = tokens[i]
                               THEN out ELSE Append(out, tokens[i]),
               <<Break>>, at)

Needed(tokens) ==
  LET kept == SelectSeq([i \in DOMAIN tokens |-> i],
                        LAMBDA i : tokens[i] # Space \/ Separates(tokens, i))
  IN  [k \in DOMAIN kept |-> tokens[kept[k]]]

-----------------------------------------------------------------------------
(* Properties.                                                             *)

Realized == doc # <<>> /\ ~session.crashed
Without(kinds) == \A c \in Nodes(doc.source) : c.kind \notin kinds
Unlabeled(kinds) == \A c \in Nodes(doc.source) : c.kind \in kinds => c.label = NoLabel

\* Wrappers and headings hold what stands in a line: a block in one is realized
\* as its line is.
InlineOnly ==
  \A c \in Nodes(doc.source) : c.kind \in {"strong", "heading"} =>
    \A d \in Nodes(c) \ {c} : ~IsBlock(d)

\* Nothing a reader should see is lost, doubled or moved by merging, trimming,
\* grouping and caching, and rules replace what they mean, in any nesting of
\* scopes: innermost first, and never what a rule put in place itself.
WordsKept == Realized => Words(doc.body) = Words(Meaning(doc.source))

\* No item's body is one element with a space on its edge: such a body is no
\* run, and nothing trims it.
LoneBodiesTight ==
  \A c \in Nodes(doc.source) : IsItem(c) /\ c.kids[1].kind # "seq" =>
    LET line == SelectSeq(Tokens(c.kids[1]), LAMBDA x : x \notin {Begin, End})
    IN  line = <<>> \/ Space \notin {Head(line), Last(line)}

\* "a run whose ends are block boundaries: the document body, a list item, a
\* heading or paragraph body" (realize.go:431): the whitespace that separates
\* two words stays, what separates nothing goes.  So it is where no item is one
\* element with a space on its edge: trimming in steps, body by body, and again
\* through wrappers, comes to what looking at the whole line would.
SpacesKept ==
  (Realized /\ LoneBodiesTight /\ Without({"styled"}) /\ Unlabeled({"seq", "text"}) /\ InlineOnly) =>
    Seen(Line(doc.body)) = Seen(Needed(Line(doc.source)))

\* How content was composed does not show: nested sequences come out as if
\* they had been written in one.
NestingIrrelevant ==
  (Realized /\ Without({"styled"})) =>
    doc.body = RealizeDocument([session EXCEPT !.footnotes = <<>>, !.made = 0],
                               Flat(doc.source)).c

\* In a body, everything is in a paragraph or a block of its own: items are in
\* a container of their kind, paragraphs hold something visible and nothing
\* that breaks them, and separators are gone.
WellGrouped ==
  (Realized /\ Without({"styled"}) /\ Unlabeled({"seq"})) =>
    LET inBody == {doc.body} \cup {c.kids[1] : c \in {n \in Nodes(doc.body) : n.kind = "footnote"}}
    IN  /\ \A b \in inBody : \A i \in DOMAIN Children(b) :
             Children(b)[i].kind \in {"par", "heading", "list", "enum", "meta"}
        /\ \A c \in Nodes(doc.body) :
             /\ c.kind \in {"list", "enum"} =>
                  \A i \in DOMAIN c.kids : IsItem(c.kids[i]) /\ Container(c.kids[i]) = c.kind
             /\ c.kind = "par" =>
                  /\ \E i \in DOMAIN Children(c.kids[1]) : IsVisible(Children(c.kids[1])[i])
                  /\ \A i \in DOMAIN Children(c.kids[1]) :
                       ~IsBlock(Children(c.kids[1])[i]) /\ Children(c.kids[1])[i].kind # "parbreak"

\* Of the set rules for a document property, one that is in no other's scope
\* wins, however deep the others stand.
TitleFromOuterScope ==
  Realized => session.title \in IF OuterTitles(doc.source) = {} THEN {""}
                                ELSE OuterTitles(doc.source)
=============================================================================
