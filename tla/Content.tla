------------------------------ MODULE Content ------------------------------
(***************************************************************************)
(* Content trees, and what realization does to a run of sibling elements:  *)
(* texts are merged, the whitespace that separates nothing is dropped, and *)
(* what is left is grouped into paragraphs and lists.                      *)
(*                                                                         *)
(* A node has a kind, its bodies or children, and what its kind needs:     *)
(* text, a label, the rule of a style scope or update, the identity of a   *)
(* footnote.  A text is a sequence of words, which are positive numbers,   *)
(* and spaces.  "strong" stands for the inline wrappers Strong, Emph and   *)
(* Link, "underline" for the elements realize does not descend into, "meta"*)
(* for the introspection elements.                                         *)
(***************************************************************************)
EXTENDS Integers, Sequences, SequencesExt, FiniteSets, TLC

Space == 0
NoLabel == ""
NoRule == [sel |-> "", by |-> ""]

Node(kind, kids) ==
  [kind |-> kind, kids |-> kids, text |-> <<>>, label |-> NoLabel,
   rule |-> NoRule, id |-> 0]

Text(cells) == [Node("text", <<>>) EXCEPT !.text = cells]
Sequence(kids) == Node("seq", kids)

\* seqOf: one element is not wrapped.
Wrapped(kids) == IF Len(kids) = 1 THEN kids[1] ELSE Sequence(kids)

IsSplice(c) == c.kind = "seq" /\ c.label = NoLabel

\* appendFlat and topChildren: an unlabeled sequence is its children.
Children(c) == IF IsSplice(c) THEN c.kids ELSE <<c>>

IsBlock(c) ==
  c.kind \in {"heading", "par", "list", "listitem", "enum", "enumitem"}
BreaksLine(c) == c.kind \in {"parbreak", "linebreak"} \/ IsBlock(c)
IsItem(c) == c.kind \in {"listitem", "enumitem"}
Container(item) == IF item.kind = "listitem" THEN "list" ELSE "enum"

\* A labeled text stands on its own.
Mergeable(c) == c.kind = "text" /\ c.label = NoLabel
SpaceOnly(c) == Mergeable(c) /\ \A i \in DOMAIN c.text : c.text[i] = Space
IsVisible(c) == c.kind # "meta" /\ ~SpaceOnly(c)

-----------------------------------------------------------------------------
(* Texts.                                                                  *)

NotSpace(cell) == cell # Space

TrimLeft(text) ==
  LET first == SelectInSeq(text, NotSpace)
  IN  IF first = 0 THEN <<>> ELSE SubSeq(text, first, Len(text))

TrimRight(text) == SubSeq(text, 1, SelectLastInSeq(text, NotSpace))

Joined(a, b) ==
  LET ends == a.text # <<>> /\ Last(a.text) = Space
  IN  [a EXCEPT !.text = @ \o IF ends THEN TrimLeft(b.text) ELSE b.text]

\* mergeText, mergeRun: of the spaces where two texts join, one is kept.
MergeText(items) ==
  LET add(out, it) ==
        IF out # <<>> /\ Mergeable(Last(out)) /\ Mergeable(it)
        THEN Append(Front(out), Joined(Last(out), it))
        ELSE Append(out, it)
  IN  FoldLeft(add, <<>>, items)

-----------------------------------------------------------------------------
(* Edges: where whitespace separates nothing.                              *)

\* Variant: only the next neighbor is looked at.
EdgeRightNext(items, i, right) ==
  IF i = Len(items) THEN right
  ELSE BreaksLine(items[i + 1]) \/ items[i + 1].kind = "footnote"

\* Whether items[i] ends on an edge: looking past spaces, at a line break, a
\* block or a footnote mark, or at the run's end if that is one.
EdgeRight(items, i, right) ==
  LET after == SelectSeq(SubSeq(items, i + 1, Len(items)),
                         LAMBDA c : ~SpaceOnly(c))
  IN  IF after = <<>> THEN right
      ELSE BreaksLine(Head(after)) \/ Head(after).kind = "footnote"

RECURSIVE TrimEdges(_, _, _)

\* trimRun: an item that was trimmed away leaves the edge to the next one.
TrimRun(items, left, right) ==
  LET keep(acc, trimmed) ==
        IF trimmed = <<>> THEN acc
        ELSE [out |-> acc.out \o trimmed, edge |-> BreaksLine(trimmed[1])]
      trim(acc, i) == keep(acc, TrimEdges(items[i], acc.edge, EdgeRight(items, i, right)))
  IN  FoldLeft(trim, [out |-> <<>>, edge |-> left], [i \in DOMAIN items |-> i]).out

TrimText(c, left, right) ==
  LET once == IF left THEN TrimLeft(c.text) ELSE c.text
      text == IF right THEN TrimRight(once) ELSE once
  IN  IF text = <<>> /\ c.label = NoLabel THEN <<>>
      ELSE <<[c EXCEPT !.text = text]>>

\* trimEdges: no element if the text was all space, else the one trimmed.
\* An edge applies through inline wrappers (trimBody).
TrimEdges(c, left, right) ==
  IF ~left /\ ~right THEN <<c>>
  ELSE IF c.kind = "text" THEN TrimText(c, left, right)
  ELSE IF c.kind = "strong"
       THEN LET trimBody(b) == IF b.kind = "seq"
                               THEN [b EXCEPT !.kids = TrimRun(b.kids, left, right)]
                               ELSE Wrapped(TrimEdges(b, left, right))
            IN  <<[c EXCEPT !.kids = <<trimBody(c.kids[1])>>]>>
  ELSE <<c>>

-----------------------------------------------------------------------------
(* Paragraphs and containers.                                              *)

\* Variant: a run nobody sees is a paragraph too.
ParagraphAlways(para) ==
  IF para = <<>> THEN <<>> ELSE <<Node("par", <<Wrapped(para)>>)>>

\* What becomes of the inline run gathered so far: a paragraph, unless nothing
\* in it is visible.
Paragraph(para) ==
  IF para = <<>> THEN <<>>
  ELSE IF \E i \in DOMAIN para : IsVisible(para[i])
       THEN <<Node("par", <<Wrapped(para)>>)>>
  ELSE SelectSeq(para, LAMBDA c : ~SpaceOnly(c))

(***************************************************************************)
(* groupContent: runs of inline content become paragraphs, runs of items   *)
(* of one kind become a container, parbreaks only separate.  acc.run is    *)
(* the kind of item the previous one was, "" if it was none.               *)
(***************************************************************************)
GroupContent(items) ==
  LET flushed(acc) == acc.out \o Paragraph(acc.para)
      block(acc, more, run) == [out |-> flushed(acc) \o more, para |-> <<>>, run |-> run]
      add(acc, it) ==
        IF it.kind = "parbreak" THEN block(acc, <<>>, "")
        ELSE IF IsItem(it) /\ acc.run = it.kind
             THEN [acc EXCEPT !.out[Len(acc.out)].kids = Append(@, it)]
        ELSE IF IsItem(it) THEN block(acc, <<Node(Container(it), <<it>>)>>, it.kind)
        ELSE IF IsBlock(it) THEN block(acc, <<it>>, "")
        ELSE [acc EXCEPT !.para = Append(@, it), !.run = ""]
  IN  flushed(FoldLeft(add, [out |-> <<>>, para |-> <<>>, run |-> ""], items))
=============================================================================
