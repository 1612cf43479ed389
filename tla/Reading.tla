------------------------------- MODULE Reading ------------------------------
(***************************************************************************)
(* A reader at work: whatever a scanner does with it, one operation after  *)
(* another.  The table of line starts has to be right at the end, because  *)
(* every diagnostic is placed with it, though the scanner backs up, seeks  *)
(* back and reads the same line breaks again.                              *)
(***************************************************************************)
EXTENDS Reader

CONSTANT Chars
ASSUME CharsAssumption == EOF \notin Chars

VARIABLE r

ReadInit == \E src \in Seq(Chars) : r = NewReader(src)

ReadNext == r' = Read(r)

BackUp == r.cur > 0 /\ r' = Backup(r)

\* Nothing the scanner looks for contains a line break.
ReadIf ==
  \E n \in 0 .. Len(r.src) - r.cur :
    /\ \A i \in r.cur + 1 .. r.cur + n : r.src[i] \notin Newlines
    /\ r' = Skip(r, n)

\* BackupWhile leaves the column alone.
BackUpWhile == \E n \in 0 .. r.cur : r' = [r EXCEPT !.cur = @ - n]

\* The scanner and the parser seek to where they have been.
SeekBack == \E pos \in 0 .. r.high : r' = Seek(r, pos)

AskColumn == r' = WithColumn(r)

ReadStep == ReadNext \/ BackUp \/ ReadIf \/ BackUpWhile \/ SeekBack \/ AskColumn

ReadSpec == ReadInit /\ [][ReadStep]_r

-----------------------------------------------------------------------------

LineStarts(src, upto) == {i \in 1 .. upto : IsLineStart(src, i)}

(* The table of line starts is in order and holds the start of every line  *)
(* reached so far and nothing else, but the end of the source once that    *)
(* was read: every span up to there resolves to its line.                  *)
LineTableExact ==
  /\ \A i, j \in DOMAIN r.newlines : i < j => r.newlines[i] < r.newlines[j]
  /\ {r.newlines[i] : i \in DOMAIN r.newlines}
       = LineStarts(r.src, r.high) \cup IF r.ended THEN {Len(r.src)} ELSE {}
=============================================================================
