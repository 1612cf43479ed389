---------------------------- MODULE ReadingProofs ----------------------------
(***************************************************************************)
(* The table of line starts is exact for every source and every sequence   *)
(* of the reader's operations.                                             *)
(***************************************************************************)
EXTENDS Reading, TLAPS

\* Nothing rests on the column, which may be anything.
Readers ==
  [src : Seq(Chars), cur : Nat, col : {r.col}, newlines : Seq(Nat), high : Nat, ended : BOOLEAN]

Noted(s) == {s[i] : i \in DOMAIN s}
InOrder(s) == \A i, j \in DOMAIN s : i < j => s[i] < s[j]

\* The cursor is within what was read, and the end is read only at the end.
Within ==
  /\ r.cur <= r.high /\ r.high <= Len(r.src)
  /\ r.ended => r.high = Len(r.src)

ReadInv == r \in Readers /\ Within /\ LineTableExact

-----------------------------------------------------------------------------
(* Appending an offset behind all others keeps a table in order.           *)

LEMMA AppendNoted ==
  ASSUME NEW s \in Seq(Nat), NEW n \in Nat, InOrder(s),
         s = <<>> \/ s[Len(s)] < n
  PROVE  /\ Append(s, n) \in Seq(Nat)
         /\ InOrder(Append(s, n))
         /\ Noted(Append(s, n)) = Noted(s) \cup {n}
<1> DEFINE t == Append(s, n)
<1>1. /\ t \in Seq(Nat) /\ Len(t) = Len(s) + 1 /\ DOMAIN t = 1 .. Len(s) + 1
      /\ DOMAIN s = 1 .. Len(s) /\ Len(s) \in Nat
      /\ \A i \in 1 .. Len(s) : t[i] = s[i] /\ s[i] \in Nat
      /\ t[Len(s) + 1] = n
  OBVIOUS
<1>2. InOrder(t)
  <2> SUFFICES ASSUME NEW i \in DOMAIN t, NEW j \in DOMAIN t, i < j PROVE t[i] < t[j]
    BY DEF InOrder
  <2>1. CASE j \in 1 .. Len(s)
    <3>1. i \in 1 .. Len(s)
      BY <1>1, <2>1
    <3> QED
      BY <1>1, <2>1, <3>1 DEF InOrder
  <2>2. CASE j = Len(s) + 1
    <3>1. i \in 1 .. Len(s) /\ Len(s) \in DOMAIN s /\ s # <<>>
      BY <1>1, <2>2
    <3>2. s[i] <= s[Len(s)] /\ s[Len(s)] < n /\ s[i] \in Nat /\ s[Len(s)] \in Nat
      BY <1>1, <3>1 DEF InOrder
    <3> HIDE DEF t
    <3> QED
      BY <1>1, <2>2, <3>1, <3>2
  <2> QED
    BY <1>1, <2>1, <2>2
<1>3. Noted(t) = Noted(s) \cup {n}
  <2> HIDE DEF t
  <2> QED
    BY <1>1, SMTT(30) DEF Noted
<1> QED
  BY <1>1, <1>2, <1>3

\* A line starts at offsets up to one more, or only at those before.
LEMMA NextLineStart ==
  ASSUME NEW src \in Seq(Chars), NEW upto \in Nat
  PROVE  LineStarts(src, upto + 1)
           = LineStarts(src, upto) \cup IF IsLineStart(src, upto + 1) THEN {upto + 1} ELSE {}
<1>1. 1 .. upto + 1 = (1 .. upto) \cup {upto + 1}
  OBVIOUS
<1> QED
  BY <1>1 DEF LineStarts

-----------------------------------------------------------------------------
(* The steps.                                                              *)

\* Seeking, backing up and asking for the column leave the table alone.
LEMMA MoveKeeps ==
  ASSUME ReadInv, NEW pos \in 0 .. r.high, NEW col,
         r' = [src |-> r.src, cur |-> pos, col |-> col, newlines |-> r.newlines,
               high |-> r.high, ended |-> r.ended]
  PROVE  ReadInv'
<1>1. /\ r'.src = r.src /\ r'.newlines = r.newlines /\ r'.high = r.high
      /\ r'.ended = r.ended /\ r'.cur = pos /\ r'.col = col
      /\ r.high \in Nat /\ pos \in Nat
  BY DEF ReadInv, Readers
<1>2. r' \in Readers'
  BY <1>1 DEF ReadInv, Readers
<1>3. Within'
  BY <1>1 DEF ReadInv, Within, Readers
<1>4. LineTableExact'
  BY <1>1 DEF ReadInv, LineTableExact
<1> QED
  BY <1>2, <1>3, <1>4 DEF ReadInv

\* The next character is read: its line start is noted the first time.
LEMMA ReadKeeps ==
  ASSUME ReadInv, ReadNext
  PROVE  ReadInv'
<1> USE CharsAssumption
<1> DEFINE s == r.newlines
           end == Peek(r) = EOF
           cur == IF end THEN r.cur ELSE r.cur + 1
           breaks == end \/ IsLineStart(r.src, cur)
           known == s # <<>> /\ s[Len(s)] >= cur
<1>1. /\ r \in Readers /\ Within
      /\ r.src \in Seq(Chars) /\ r.cur \in Nat /\ r.high \in Nat /\ s \in Seq(Nat)
      /\ Len(r.src) \in Nat
      /\ InOrder(s)
      /\ Noted(s) = LineStarts(r.src, r.high) \cup IF r.ended THEN {Len(r.src)} ELSE {}
  BY DEF ReadInv, Readers, LineTableExact, InOrder, Noted
<1>2. end <=> r.cur = Len(r.src)
  BY <1>1 DEF Peek, CharAt, Within
<1>3. /\ cur \in Nat /\ cur <= Len(r.src) /\ r.cur <= cur
      /\ cur <= r.high \/ cur = r.high + 1
  BY <1>1, <1>2 DEF Within
<1>4. r' = [r EXCEPT !.cur = cur,
                     !.col = IF breaks THEN 0 ELSE IF @ >= 0 THEN @ + 1 ELSE @,
                     !.newlines = IF breaks /\ ~known THEN Append(s, cur) ELSE @,
                     !.high = Furthest(@, cur),
                     !.ended = @ \/ end]
  BY DEF ReadNext, Read
<1>5. /\ r'.src = r.src /\ r'.cur = cur
      /\ r'.col = IF breaks THEN 0 ELSE IF r.col >= 0 THEN r.col + 1 ELSE r.col
      /\ r'.newlines = IF breaks /\ ~known THEN Append(s, cur) ELSE s
      /\ r'.high = Furthest(r.high, cur)
      /\ r'.ended = (r.ended \/ end)
      /\ DOMAIN r' = DOMAIN r
  BY <1>1, <1>4 DEF Readers
<1>6. \A n \in Noted(s) : n \in Nat /\ n <= r.high
  BY <1>1 DEF LineStarts, Within
<1>7. /\ InOrder(r'.newlines) /\ r'.newlines \in Seq(Nat)
      /\ Noted(r'.newlines) = Noted(s) \cup IF breaks THEN {cur} ELSE {}
  <2>1. CASE ~breaks
    BY <1>1, <1>5, <2>1
  <2>2. CASE breaks /\ known
    <3>1. s[Len(s)] \in Noted(s)
      BY <1>1, <2>2 DEF Noted
    <3>2. s[Len(s)] \in Nat /\ s[Len(s)] <= r.high /\ cur <= s[Len(s)]
      BY <1>6, <2>2, <3>1
    <3>3. cur \in Noted(s)
      <4>1. CASE end
        BY <1>1, <1>2, <1>3, <3>1, <3>2, <4>1 DEF Within
      <4>2. CASE ~end
        <5>1. IsLineStart(r.src, cur) /\ cur \in 1 .. r.high
          BY <1>1, <1>3, <2>2, <3>2, <4>2
        <5> QED
          BY <1>1, <5>1 DEF LineStarts
      <4> QED
        BY <4>1, <4>2
    <3> QED
      BY <1>1, <1>5, <2>2, <3>3
  <2>3. CASE breaks /\ ~known
    <3>1. s = <<>> \/ s[Len(s)] < cur
      <4>1. s # <<>> => s[Len(s)] \in Nat
        BY <1>1
      <4> QED
        BY <1>3, <2>3, <4>1
    <3> HIDE DEF cur, breaks, known
    <3> QED
      BY <1>1, <1>3, <1>5, <2>3, <3>1, AppendNoted
  <2> QED
    BY <2>1, <2>2, <2>3
<1>8. r' \in Readers'
  <2>1. r'.high \in Nat /\ r'.ended \in BOOLEAN /\ r'.cur \in Nat
    BY <1>1, <1>3, <1>5 DEF Furthest, Readers
  <2>2. r' = [src |-> r'.src, cur |-> r'.cur, col |-> r'.col, newlines |-> r'.newlines,
              high |-> r'.high, ended |-> r'.ended]
    BY <1>1, <1>4 DEF Readers
  <2> QED
    BY <1>1, <1>5, <1>7, <2>1, <2>2 DEF Readers
<1>9. Within'
  BY <1>1, <1>2, <1>3, <1>5 DEF Within, Furthest, Readers
<1>10. LineTableExact'
  <2>1. Noted(r'.newlines)
          = LineStarts(r'.src, r'.high) \cup IF r'.ended THEN {Len(r'.src)} ELSE {}
    <3>1. CASE end
      <4>0. r'.ended
        BY <1>5, <3>1, Zenon
      <4>1. r'.high = r.high /\ r.high = Len(r.src) /\ cur = Len(r.src)
        <5>1. r.cur = Len(r.src) /\ cur = r.cur
          BY <1>2, <3>1
        <5>2. r'.high = Furthest(r.high, cur)
          BY <1>5
        <5> HIDE DEF cur, end
        <5> QED
          BY <1>1, <5>1, <5>2 DEF Within, Furthest
      <4>2. Noted(r'.newlines) = Noted(s) \cup {Len(r.src)}
        BY <1>7, <3>1, <4>1
      <4> QED
        BY <1>1, <1>5, <4>0, <4>1, <4>2
    <3>2. CASE ~end /\ cur <= r.high
      <4>1. r'.high = r.high /\ r'.ended = r.ended /\ cur \in 1 .. r.high
        BY <1>1, <1>3, <1>5, <3>2 DEF Furthest, Readers
      <4>2. breaks => cur \in LineStarts(r.src, r.high)
        BY <3>2, <4>1 DEF LineStarts
      <4> QED
        BY <1>1, <1>5, <1>7, <4>1, <4>2
    <3>3. CASE ~end /\ cur = r.high + 1
      <4>1. r'.high = r.high + 1 /\ ~r.ended /\ ~r'.ended
        BY <1>1, <1>3, <1>5, <3>3 DEF Furthest, Within, Readers
      <4>2. breaks <=> IsLineStart(r.src, r.high + 1)
        BY <3>3
      <4>3. LineStarts(r.src, r.high + 1)
              = LineStarts(r.src, r.high)
                  \cup IF IsLineStart(r.src, r.high + 1) THEN {r.high + 1} ELSE {}
        BY <1>1, NextLineStart
      <4> HIDE DEF breaks
      <4> QED
        BY <1>1, <1>5, <1>7, <3>3, <4>1, <4>2, <4>3
    <3> QED
      BY <1>3, <3>1, <3>2, <3>3
  <2> QED
    BY <1>7, <2>1 DEF LineTableExact, Noted, InOrder
<1> QED
  BY <1>8, <1>9, <1>10 DEF ReadInv

\* What is skipped starts no line.
LEMMA SkipKeeps ==
  ASSUME ReadInv, ReadIf
  PROVE  ReadInv'
<1>1. PICK n \in 0 .. Len(r.src) - r.cur :
        /\ \A i \in r.cur + 1 .. r.cur + n : r.src[i] \notin Newlines
        /\ r' = Skip(r, n)
  BY DEF ReadIf
<1>2. /\ r.src \in Seq(Chars) /\ Len(r.src) \in Nat /\ r.cur \in Nat /\ r.high \in Nat
      /\ r.cur <= r.high /\ r.high <= Len(r.src) /\ n \in Nat /\ r.cur + n <= Len(r.src)
  BY <1>1 DEF ReadInv, Readers, Within
<1>3. /\ r'.src = r.src /\ r'.cur = r.cur + n /\ r'.high = Furthest(r.high, r.cur + n)
      /\ r'.newlines = r.newlines /\ r'.ended = r.ended
  BY <1>1 DEF Skip, ReadInv, Readers
<1>4. r' \in Readers'
  <2>1. Furthest(r.high, r.cur + n) \in Nat /\ r.cur + n \in Nat
    BY <1>2 DEF Furthest
  <2>2. r' = [src |-> r.src, cur |-> r.cur + n, col |-> r.col, newlines |-> r.newlines,
              high |-> Furthest(r.high, r.cur + n), ended |-> r.ended]
    BY <1>1 DEF Skip, ReadInv, Readers
  <2>3. r.src \in Seq(Chars) /\ r.newlines \in Seq(Nat) /\ r.ended \in BOOLEAN
    BY DEF ReadInv, Readers
  <2> QED
    BY <2>1, <2>2, <2>3 DEF Readers
<1>5. Within'
  BY <1>2, <1>3 DEF Within, Furthest, ReadInv
<1>6. LineStarts(r.src, r'.high) = LineStarts(r.src, r.high)
  <2>1. \A i \in 1 .. r'.high : i \in 1 .. r.high \/ i \in r.cur + 1 .. r.cur + n
    BY <1>2, <1>3 DEF Furthest
  <2>2. \A i \in 1 .. r.high : i \in 1 .. r'.high
    BY <1>2, <1>3 DEF Furthest
  <2>3. \A i \in r.cur + 1 .. r.cur + n : ~IsLineStart(r.src, i)
    BY <1>1 DEF IsLineStart, Newlines
  <2> QED
    BY <2>1, <2>2, <2>3 DEF LineStarts
<1>7. LineTableExact'
  BY <1>3, <1>6 DEF ReadInv, LineTableExact
<1> QED
  BY <1>4, <1>5, <1>7 DEF ReadInv

-----------------------------------------------------------------------------

LEMMA InitKeeps == ReadInit => ReadInv
<1> SUFFICES ASSUME NEW src \in Seq(Chars), r = NewReader(src) PROVE ReadInv
  BY DEF ReadInit
<1>1. Len(src) \in Nat /\ r.newlines = <<>> /\ r.high = 0 /\ r.ended = FALSE /\ r.src = src
  BY DEF NewReader
<1>2. r \in Readers /\ Within
  BY <1>1 DEF Readers, NewReader, Within
<1>3. LineTableExact
  BY <1>1 DEF LineTableExact, LineStarts
<1> QED
  BY <1>2, <1>3 DEF ReadInv

LEMMA StepKeeps == ReadInv /\ [ReadStep]_r => ReadInv'
<1> SUFFICES ASSUME ReadInv, [ReadStep]_r PROVE ReadInv'
  OBVIOUS
<1>0. r.cur \in Nat /\ r.high \in Nat /\ r.cur <= r.high
  BY DEF ReadInv, Readers, Within
<1>1. CASE ReadNext
  BY <1>1, ReadKeeps
<1>2. CASE BackUp
  <2>1. r' = [src |-> r.src, cur |-> r.cur - 1, col |-> r.col - 1, newlines |-> r.newlines,
              high |-> r.high, ended |-> r.ended]
    BY <1>2 DEF BackUp, Backup, ReadInv, Readers
  <2>2. r.cur - 1 \in 0 .. r.high
    BY <1>0, <1>2 DEF BackUp
  <2> QED
    BY <2>1, <2>2, MoveKeeps
<1>3. CASE ReadIf
  BY <1>3, SkipKeeps
<1>4. CASE BackUpWhile
  <2>1. PICK n \in 0 .. r.cur : r' = [r EXCEPT !.cur = @ - n]
    BY <1>4 DEF BackUpWhile
  <2>2. r' = [src |-> r.src, cur |-> r.cur - n, col |-> r.col, newlines |-> r.newlines,
              high |-> r.high, ended |-> r.ended]
    BY <2>1 DEF ReadInv, Readers
  <2>3. r.cur - n \in 0 .. r.high
    BY <1>0
  <2> QED
    BY <2>2, <2>3, MoveKeeps
<1>5. CASE SeekBack
  <2>1. PICK pos \in 0 .. r.high : r' = [r EXCEPT !.cur = pos, !.col = -1]
    BY <1>5 DEF SeekBack, Seek
  <2>2. r' = [src |-> r.src, cur |-> pos, col |-> -1, newlines |-> r.newlines,
              high |-> r.high, ended |-> r.ended]
    BY <2>1 DEF ReadInv, Readers
  <2> QED
    BY <2>2, MoveKeeps
<1>6. CASE AskColumn
  <2> DEFINE col == IF r.col < 0 THEN TrueColumn(r.src, r.cur) ELSE r.col
  <2>1. r' = [r EXCEPT !.col = col]
    BY <1>6 DEF AskColumn, WithColumn
  <2> HIDE DEF col
  <2>2. r' = [src |-> r.src, cur |-> r.cur, col |-> col, newlines |-> r.newlines,
              high |-> r.high, ended |-> r.ended]
    BY <2>1 DEF ReadInv, Readers
  <2>3. r.cur \in 0 .. r.high
    BY <1>0
  <2> QED
    BY <2>2, <2>3, MoveKeeps
<1>7. CASE UNCHANGED r
  BY <1>7 DEF ReadInv, Readers, Within, LineTableExact, LineStarts, IsLineStart
<1> QED
  BY <1>1, <1>2, <1>3, <1>4, <1>5, <1>6, <1>7 DEF ReadStep

(* However a scanner backs up, skips, seeks and reads again, the table of  *)
(* line starts is in order and holds every line start reached, once.       *)
THEOREM LineTableIsExact == ReadSpec => []LineTableExact
<1>1. ReadInv => LineTableExact
  BY DEF ReadInv
<1> QED
  BY <1>1, InitKeeps, StepKeeps, PTL DEF ReadSpec
=============================================================================
