------------------------------ MODULE Scanning ------------------------------
(***************************************************************************)
(* Scanning a source as the parser does: token after token, in whatever    *)
(* mode the parser is in, seeking back to where a token started to read it *)
(* again in another.  The reader's r is the whole scanner here.            *)
(***************************************************************************)
EXTENDS Scanner, Reading

CONSTANTS
  Sources,  \* the sources scanned, each with the modes it is scanned in
  MaxSeeks  \* bound: how often the parser goes back

ASSUME SourcesAssumption == \A s \in Sources : s.text \in Seq(Chars)

VARIABLES
  modes,  \* the modes the parser may be in
  last,   \* the token just scanned, and where it starts and ends
  starts, \* the offsets the parser seeks to: where tokens start
  seeks

vars == <<r, modes, last, starts, seeks>>

NoToken == [kind |-> "NoToken", from |-> 0, to |-> 0, parts |-> <<>>]

Init ==
  /\ \E s \in Sources : r = NewScanner(s.text) /\ modes = s.modes
  /\ last = NoToken
  /\ starts = {0}
  /\ seeks = 0

ScanToken(mode) ==
  LET t == Scan([r EXCEPT !.mode = mode])
  IN  /\ last.kind # "End"
      /\ r' = t.s
      /\ last' = [kind |-> t.kind, from |-> r.cur, to |-> t.s.cur, parts |-> t.parts]
      /\ starts' = starts \cup {t.s.cur}
      /\ UNCHANGED <<modes, seeks>>

GoBack(pos) ==
  /\ seeks < MaxSeeks
  /\ pos < r.cur
  /\ r' = Seek(r, pos)
  /\ last' = NoToken
  /\ seeks' = seeks + 1
  /\ UNCHANGED <<modes, starts>>

Next == (\E mode \in modes : ScanToken(mode)) \/ (\E pos \in starts : GoBack(pos))

Spec == Init /\ [][Next]_vars

-----------------------------------------------------------------------------
(* Properties.                                                             *)

\* The texts of the lines of a raw block that are not blank, but the first.
InnerLines ==
  {i \in 2 .. Len(last.parts) - 1 :
     /\ last.parts[i].kind = "Text" /\ ~Blank(r.src, last.parts[i])
     /\ last.parts[i - 1].kind = "RawTrimmed"
     /\ CharAt(r.src, last.parts[i - 1].from + 1) \in Newlines}

(* The parts of a raw block tile it, between delimiters of the same width, *)
(* what is trimmed off the lines is only whitespace, and every line that   *)
(* is not blank loses the same indentation.                                *)
RawKeepsText ==
  last.parts # <<>> =>
    LET parts == last.parts
        width == parts[1].to - parts[1].from
    IN  /\ parts[1].from = last.from /\ Last(parts).to = last.to
        /\ parts[1].kind = "RawDelim" /\ Last(parts).kind = "RawDelim"
        /\ Last(parts).to - Last(parts).from = width
        /\ \A i \in 1 .. Len(parts) - 1 : parts[i].to = parts[i + 1].from
        /\ \A i \in DOMAIN parts :
             /\ parts[i].from <= parts[i].to
             /\ parts[i].kind = "RawTrimmed" => Blank(r.src, parts[i])
        /\ \A i, j \in InnerLines :
             TrueColumn(r.src, parts[i].from) = TrueColumn(r.src, parts[j].from)
=============================================================================
