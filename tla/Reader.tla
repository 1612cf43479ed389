------------------------------- MODULE Reader -------------------------------
(***************************************************************************)
(* The scanner's reader: a cursor over the characters of a source, with    *)
(* the column it is in and the table of line starts it has come across.    *)
(*                                                                         *)
(* The source is a sequence of characters, each of width one.  Offsets     *)
(* count the characters before them, so the character under the cursor is  *)
(* src[cur + 1].  A negative column is unknown and is counted back to the  *)
(* line start when it is asked for.                                        *)
(*                                                                         *)
(* high and ended are history: how far the source was ever read, and       *)
(* whether its end was.                                                    *)
(***************************************************************************)
EXTENDS Integers, Sequences

EOF == "EOF"
LF == "\n"
CR == "\r"
Newlines == {LF, CR}

NewReader(src) ==
  [src |-> src, cur |-> 0, col |-> 0, newlines |-> <<>>, high |-> 0, ended |-> FALSE]

Furthest(i, j) == IF i > j THEN i ELSE j

CharAt(src, i) == IF i \in 1 .. Len(src) THEN src[i] ELSE EOF

Peek(r) == CharAt(r.src, r.cur + 1)

\* A line break ends before offset i: a line feed, or a carriage return that
\* no line feed follows.
IsLineStart(src, i) ==
  /\ i \in 1 .. Len(src)
  /\ \/ src[i] = LF
     \/ src[i] = CR /\ CharAt(src, i + 1) # LF

\* Variant: line breaks are noted whenever they are read.
ReadAnew(r) ==
  LET cur == IF Peek(r) = EOF THEN r.cur ELSE r.cur + 1
      breaks == Peek(r) = EOF \/ IsLineStart(r.src, cur)
  IN  [r EXCEPT !.cur = cur,
                !.col = IF breaks THEN 0 ELSE IF @ >= 0 THEN @ + 1 ELSE @,
                !.newlines = IF breaks THEN Append(@, cur) ELSE @,
                !.high = Furthest(@, cur),
                !.ended = @ \/ Peek(r) = EOF]

\* Reader.Next.  Reading past the end counts as a line break as well.
Read(r) ==
  LET cur == IF Peek(r) = EOF THEN r.cur ELSE r.cur + 1
      breaks == Peek(r) = EOF \/ IsLineStart(r.src, cur)
      known == r.newlines # <<>> /\ r.newlines[Len(r.newlines)] >= cur
  IN  [r EXCEPT !.cur = cur,
                !.col = IF breaks THEN 0 ELSE IF @ >= 0 THEN @ + 1 ELSE @,
                !.newlines = IF breaks /\ ~known THEN Append(@, cur) ELSE @,
                !.high = Furthest(@, cur),
                !.ended = @ \/ Peek(r) = EOF]

\* Reader.Backup, from an offset that is not the first.
Backup(r) == [r EXCEPT !.cur = @ - 1, !.col = @ - 1]

ContinuesWith(r, s) ==
  /\ Len(s) <= Len(r.src) - r.cur
  /\ SubSeq(r.src, r.cur + 1, r.cur + Len(s)) = s

\* Reader.ConsumeIf, when the source continues with n characters it looks for.
Skip(r, n) == [r EXCEPT !.cur = @ + n, !.high = Furthest(@, r.cur + n)]

Seek(r, pos) == [r EXCEPT !.cur = pos, !.col = -1]

\* The characters between the last line break and an offset.
TrueColumn(src, pos) ==
  pos - (CHOOSE i \in 0 .. pos :
           /\ i = 0 \/ src[i] \in Newlines
           /\ \A j \in i + 1 .. pos : src[j] \notin Newlines)

\* Reader.Column counts an unknown column and keeps it.
WithColumn(r) == [r EXCEPT !.col = IF @ < 0 THEN TrueColumn(r.src, r.cur) ELSE @]
=============================================================================
