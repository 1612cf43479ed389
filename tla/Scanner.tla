------------------------------- MODULE Scanner ------------------------------
(***************************************************************************)
(* The scanner: which characters make a token in each mode.  A scanner is  *)
(* a reader with a mode and the newline flag of the token just read; the   *)
(* operators below take the scanner after the token's first character and  *)
(* return the token's kind and the scanner behind it.                      *)
(*                                                                         *)
(* A keyword is one letter whose name is the keyword, so a word is the     *)
(* keyword when it is that letter alone.  The value of a number or of an   *)
(* escape (too large, a surrogate) is left out; its form is not.           *)
(***************************************************************************)
EXTENDS Reader, SequencesExt, FiniteSetsExt, TLC

Keywords == {"none", "auto", "not", "and", "or", "let", "set", "show", "context", "if",
             "else", "for", "in", "while", "break", "continue", "return", "import",
             "include", "as", "true"}

Backslash == "backslash"
Quote == "quote"
Apostrophe == "apostrophe"
Backtick == "backtick"

Digits == {"0", "1", "9"}
HexDigits == Digits \cup {"a", "b", "c", "d", "e", "f"}
ASCIIAlphanumeric ==
  HexDigits \cup {"g", "h", "i", "m", "n", "o", "p", "r", "s", "t", "u", "x"}
Letters == (ASCIIAlphanumeric \ Digits) \cup Keywords
Alphanumeric == Letters \cup Digits
IDStart == Letters \cup {"_"}
IDContinue == Alphanumeric \cup {"-", "_"}
LabelChars == IDContinue \cup {":", "."}
Whitespace == {" ", "\t"} \cup Newlines

NewScanner(src) == NewReader(src) @@ [mode |-> "Markup", newline |-> FALSE]

Token(kind, s) == [kind |-> kind, s |-> s, parts |-> <<>>]
ErrorToken(s) == Token("Error", s)

RECURSIVE ConsumeWhile(_, _)
ConsumeWhile(s, chars) ==
  IF Peek(s) \in chars THEN ConsumeWhile(Read(s), chars) ELSE s

\* Every character but the given ones.
RECURSIVE ConsumeUntil(_, _)
ConsumeUntil(s, chars) ==
  IF Peek(s) \in chars \cup {EOF} THEN s ELSE ConsumeUntil(Read(s), chars)

RECURSIVE BackupWhile(_, _)
BackupWhile(s, chars) ==
  IF CharAt(s.src, s.cur) \in chars THEN BackupWhile([s EXCEPT !.cur = @ - 1], chars) ELSE s

\* The first of the given texts that the source continues with, if any.
Matching(s, texts) == {i \in DOMAIN texts : ContinuesWith(s, texts[i])}
ConsumeFirst(s, texts) ==
  IF Matching(s, texts) = {} THEN s ELSE Skip(s, Len(texts[Min(Matching(s, texts))]))

Since(s, start) == SubSeq(s.src, start + 1, s.cur)

SpaceOrEnd(s) ==
  \/ Peek(s) \in Whitespace \cup {EOF}
  \/ ContinuesWith(s, <<"/", "/">>) \/ ContinuesWith(s, <<"/", "*">>)

\* The character just read stands between two letters or digits.
InWord(s) == CharAt(s.src, s.cur - 1) \in Alphanumeric /\ Peek(s) \in Alphanumeric

-----------------------------------------------------------------------------
(* Whitespace and comments.                                                *)

RECURSIVE WhitespaceFrom(_, _, _)
WhitespaceFrom(s, ch, newlines) ==
  LET ended == IF ch = CR /\ Peek(s) = LF THEN Read(s) ELSE s
      n == newlines + IF ch \in Newlines THEN 1 ELSE 0
  IN  IF Peek(ended) \in Whitespace
      THEN WhitespaceFrom(Read(ended), Peek(ended), n)
      ELSE Token(IF s.mode = "Markup" /\ n >= 2 THEN "Parbreak" ELSE "Space",
                 [ended EXCEPT !.newline = n > 0])

\* Two characters are read after a slash or a star, whatever the second is.
RECURSIVE BlockComment(_, _)
BlockComment(s, nesting) ==
  LET ch == Peek(s)
      one == Read(s)
      two == Read(one)
  IN  CASE ch = EOF -> ErrorToken(one)
        [] ch = "/" -> BlockComment(two, IF Peek(one) = "*" THEN nesting + 1 ELSE nesting)
        [] ch = "*" /\ Peek(one) # "/" -> BlockComment(two, nesting)
        [] ch = "*" /\ Peek(one) = "/" -> IF nesting = 1 THEN Token("BlockComment", two)
                                          ELSE BlockComment(two, nesting - 1)
        [] OTHER -> BlockComment(one, nesting)

-----------------------------------------------------------------------------
(* Markup.                                                                 *)

\* Whether a run of text stops before the character at offset i.
TextStops(s, i) ==
  LET r == [s EXCEPT !.cur = i]
      next == CharAt(s.src, i + 2)
      ch == Peek(r)
  IN  CASE ch = " " -> next \notin Alphanumeric
        [] ch = "/" -> next \in {"/", "*"}
        [] ch = "-" -> next \in {"-", "?"}
        [] ch = "." -> ContinuesWith(r, <<".", ".", ".">>)
        [] ch = "h" -> \/ ContinuesWith(r, <<"h", "t", "t", "p", ":", "/", "/">>)
                       \/ ContinuesWith(r, <<"h", "t", "t", "p", "s", ":", "/", "/">>)
        [] ch = "@" -> next \in LabelChars
        [] OTHER -> ch \in {"\t", LF, CR, Backslash, "[", "]", "~", Apostrophe, Quote, "*", "_", ":", Backtick,
                            "$", "<", ">", "#"}

\* The character that stops the text is read and backed up over.
RECURSIVE TextFrom(_)

\* Variant: the end of the source is backed up over as well.
TextFromBack(s) ==
  IF Peek(s) = EOF \/ TextStops(s, s.cur) THEN Token("Text", Backup(Read(s)))
  ELSE TextFrom(Read(s))

TextFrom(s) ==
  IF Peek(s) = EOF THEN Token("Text", Read(s))
  ELSE IF TextStops(s, s.cur) THEN Token("Text", Backup(Read(s)))
  ELSE TextFrom(Read(s))

ScanBackslash(s) ==
  LET digits == ConsumeWhile(Skip(s, 2), ASCIIAlphanumeric)
      seq == Since(digits, s.cur + 2)
  IN  IF ContinuesWith(s, <<"u", "{">>)
      THEN IF Peek(digits) # "}" THEN ErrorToken(digits)
           ELSE Token(IF seq = <<>> \/ ~ToSet(seq) \subseteq HexDigits THEN "Error"
                      ELSE "Escape", Skip(digits, 1))
      ELSE IF Peek(s) \in Whitespace \cup {EOF} THEN Token("Linebreak", s)
      ELSE Token("Escape", Read(s))

LinkChars ==
  ASCIIAlphanumeric \cup {"!", "#", "$", "%", "&", "*", "+", ",", "-", ".", "/", ":", ";", "?",
                          "@", "_", "~", Apostrophe}
Opening == ("]" :> "[") @@ (")" :> "(")

RECURSIVE LinkFrom(_, _)
LinkFrom(s, open) ==
  LET ch == Peek(s)
  IN  CASE ch \in LinkChars -> LinkFrom(Read(s), open)
        [] ch \in {"[", "("} -> LinkFrom(Read(s), Append(open, ch))
        [] ch \in {"]", ")"} /\ open # <<>> /\ Last(open) = Opening[ch] ->
             LinkFrom(Read(s), Front(open))
        [] OTHER -> Token(IF open = <<>> THEN "Link" ELSE "Error",
                          BackupWhile(s, {"!", ",", ".", ":", ";", "?", Apostrophe}))

ScanLabel(s) ==
  LET name == ConsumeWhile(s, LabelChars)
  IN  IF Peek(name) # ">" THEN ErrorToken(name)
      ELSE Token(IF name.cur = s.cur THEN "Error" ELSE "Label", Skip(name, 1))

ScanNumbering(s) ==
  LET digits == ConsumeWhile(s, Digits)
      dotted == Skip(digits, 1)
  IN  IF Peek(digits) # "." THEN TextFrom(digits)
      ELSE IF SpaceOrEnd(dotted) THEN Token("EnumMarker", dotted)
      ELSE TextFrom(dotted)

ScanMarkup(s, ch) ==
  LET heading == ConsumeWhile(s, {"="})
      http == ConsumeFirst(s, << <<"t", "t", "p", ":", "/", "/">>,
                             <<"t", "t", "p", "s", ":", "/", "/">> >>)
  IN  CASE ch = Backslash -> ScanBackslash(s)
        [] ch = "h" /\ http # s -> LinkFrom(http, <<>>)
        [] ch = "<" /\ Peek(s) \in IDContinue \cup {">"} -> ScanLabel(s)
        [] ch = "@" /\ Peek(s) \in IDContinue ->
             Token("RefMarker", BackupWhile(ConsumeWhile(s, LabelChars), {".", ":"}))
        [] ch = "." /\ ContinuesWith(s, <<".", ".">>) -> Token("Shorthand", Skip(s, 2))
        [] ch = "-" /\ Peek(s) \in {"-", "?"} \cup Digits ->
             Token("Shorthand", ConsumeFirst(s, << <<"-", "-">> >>))
        [] ch = "-" /\ SpaceOrEnd(s) -> Token("ListMarker", s)
        [] ch = "+" /\ SpaceOrEnd(s) -> Token("EnumMarker", s)
        [] ch = "/" /\ SpaceOrEnd(s) -> Token("TermMarker", s)
        [] ch = "*" /\ ~InWord(s) -> Token("Star", s)
        [] ch = "_" /\ ~InWord(s) -> Token("Underscore", s)
        [] ch = "#" -> Token("Hash", s)
        [] ch = "[" -> Token("LeftBracket", s)
        [] ch = "]" -> Token("RightBracket", s)
        [] ch \in {Apostrophe, Quote} -> Token("SmartQuote", s)
        [] ch = "$" -> Token("Dollar", s)
        [] ch = "~" -> Token("Shorthand", s)
        [] ch = ":" -> Token("Colon", s)
        [] ch = "=" -> IF SpaceOrEnd(heading) THEN Token("HeadingMarker", heading)
                       ELSE TextFrom(heading)
        [] ch \in Digits -> ScanNumbering(s)
        [] OTHER -> TextFrom(s)
-----------------------------------------------------------------------------
(* Math.                                                                   *)

\* What may follow a character for the two to be one shorthand, in the order
\* it is looked for.
ShorthandTails ==
  ("-" :> << <<">", ">">>, <<">">>, <<"-", ">">> >>) @@
  ("~" :> << <<"~", ">">>, <<">">> >>) @@
  (":" :> << <<"=">>, <<":", "=">> >>) @@
  ("<" :> << <<"=", "=", ">">>, <<"-", "-", ">">>, <<"-", "-">>, <<"-", "<">>, <<"-", ">">>,
             <<"<", "-">>, <<"<", "<">>, <<"=", ">">>, <<"=", "=">>, <<"~", "~">>, <<"=">>,
             <<"<">>, <<"-">>, <<"~">> >>) @@
  (">" :> << <<"-", ">">>, <<">", ">">>, <<"=">>, <<">">> >>) @@
  ("=" :> << <<"=", ">">>, <<">">>, <<":">> >>) @@
  ("|" :> << <<"-", ">">>, <<"=", ">">>, <<"|">> >>) @@
  ("." :> << <<".", ".">> >>) @@
  ("!" :> << <<"=">> >>)

MathSingles ==
  ("." :> "Dot") @@ ("," :> "Comma") @@ (";" :> "Semicolon") @@ ("#" :> "Hash") @@
  ("_" :> "Underscore") @@ ("$" :> "Dollar") @@ ("/" :> "Slash") @@ ("^" :> "Hat") @@
  ("&" :> "MathAlignPoint") @@ ("root" :> "Root") @@ ("!" :> "Bang") @@
  ("(" :> "LeftParen") @@ (")" :> "RightParen") @@ ("{" :> "LeftBrace") @@
  ("]" :> "RightBrace") @@ ("}" :> "RightBrace") @@
  ("*" :> "MathShorthand") @@ ("-" :> "MathShorthand") @@ ("~" :> "MathShorthand")

\* A name and the fields accessed on it are one token.
RECURSIVE MathFields(_, _)
MathFields(s, kind) ==
  IF Peek(s) = "." /\ CharAt(s.src, s.cur + 2) \in Letters
  THEN MathFields(ConsumeWhile(Read(Skip(s, 1)), Alphanumeric), "FieldAccess")
  ELSE Token(kind, s)

MathNumber(s) ==
  LET whole == ConsumeWhile(s, Digits)
  IN  IF Peek(whole) = "." /\ CharAt(s.src, whole.cur + 2) \in Digits
      THEN ConsumeWhile(Read(whole), Digits) ELSE whole

RECURSIVE ScanString(_, _)
ScanString(s, bad) ==
  LET ch == Peek(s)
      one == Read(s)
      digits == ConsumeWhile(Skip(one, 2), ASCIIAlphanumeric)
      seq == Since(digits, one.cur + 2)
  IN  CASE ch = EOF -> ErrorToken(one)
        [] ch = Quote -> Token(IF bad THEN "Error" ELSE "Str", one)
        [] ch = Backslash /\ Peek(one) = EOF -> ScanString(one, bad)
        [] ch = Backslash /\ Peek(one) = "u" ->
             IF ~ContinuesWith(one, <<"u", "{">>) THEN ScanString(Read(one), TRUE)
             ELSE IF Peek(digits) # "}" THEN ScanString(digits, TRUE)
             ELSE ScanString(Skip(digits, 1),
                             bad \/ seq = <<>> \/ ~ToSet(seq) \subseteq HexDigits)
        [] ch = Backslash /\ Peek(one) \notin {"u", EOF} ->
             ScanString(Read(one),
                        bad \/ Peek(one) \notin {"n", "r", "t", Backslash, Quote, Apostrophe})
        [] OTHER -> ScanString(one, bad)

ScanMath(s, ch) ==
  LET tails == IF ch \in DOMAIN ShorthandTails THEN Matching(s, ShorthandTails[ch]) ELSE {}
  IN  CASE tails # {} -> Token("MathShorthand", ConsumeFirst(s, ShorthandTails[ch]))
        [] ch = Backslash -> ScanBackslash(s)
        [] ch = Quote -> ScanString(s, FALSE)
        [] ch = Apostrophe -> Token("MathPrimes", ConsumeWhile(s, {Apostrophe}))
        [] ch = "[" -> Token("LeftBrace", ConsumeFirst(s, << <<"|">> >>))
        [] ch = "|" /\ tails = {} /\ Peek(s) = "]" -> Token("RightBrace", Skip(s, 1))
        [] ch \in DOMAIN MathSingles /\ tails = {} -> Token(MathSingles[ch], s)
        [] ch \in Letters /\ Peek(s) \in Alphanumeric ->
             MathFields(ConsumeWhile(s, Alphanumeric), "MathIdent")
        [] ch \in Digits -> Token("MathText", MathNumber(s))
        [] OTHER -> Token("MathText", s)

\* MaybeMathSpreadArg and MaybeMathNamedArg rescan an argument from its start;
\* NoToken leaves the scanner where it was.
MaybeMathSpreadArg(s, start) ==
  LET dots == Skip(Seek(s, start), 2)
  IN  IF /\ ContinuesWith(Seek(s, start), <<".", ".">>)
         /\ ~SpaceOrEnd(dots) /\ Peek(dots) \notin {".", ",", ";", ")", "$"}
      THEN Token("Dots", dots) ELSE Token("NoToken", Seek(s, s.cur))

MaybeMathNamedArg(s, start) ==
  LET at == Seek(s, start)
      name == ConsumeWhile(Read(at), IDContinue)
  IN  IF /\ Peek(at) \in IDStart /\ Peek(name) = ":"
         /\ ~ContinuesWith(name, <<":", "=">>) /\ ~ContinuesWith(name, <<":", ":", "=">>)
      THEN Token(IF Since(name, start) = <<"_">> THEN "Error" ELSE "Ident", name)
      ELSE Token("NoToken", Seek(s, s.cur))

-----------------------------------------------------------------------------
(* Code.                                                                   *)

Units == {<<"p", "t">>, <<"m", "m">>, <<"c", "m">>, <<"i", "n">>, <<"d", "e", "g">>,
             <<"r", "a", "d">>, <<"e", "m">>, <<"f", "r">>, <<"%">>}

NumberBase(s, first) ==
  IF first # "0" THEN 10
  ELSE CASE Peek(s) = "b" -> 2 [] Peek(s) = "o" -> 8 [] Peek(s) = "x" -> 16 [] OTHER -> 10

DigitsOf(base) ==
  CASE base \in {2, 8} -> {"0", "1"} [] base = 10 -> Digits [] base = 16 -> HexDigits

\* n is a number as far as it is read: whether it is a float, and ill-formed.
Fraction(s, first) ==
  IF /\ first # "." /\ Peek(s) = "." /\ ~ContinuesWith(s, <<".", ".">>)
     /\ CharAt(s.src, s.cur + 2) \notin IDStart
  THEN [s |-> ConsumeWhile(Read(s), Digits), float |-> TRUE, bad |-> FALSE]
  ELSE [s |-> s, float |-> first = ".", bad |-> FALSE]

Signed(s) == IF Peek(s) \in {"+", "-"} THEN Read(s) ELSE s

ExponentDigits(n, s) ==
  LET digits == ConsumeWhile(s, Digits)
  IN  [n EXCEPT !.s = digits, !.float = TRUE, !.bad = digits.cur = s.cur]

Exponent(n) ==
  IF Peek(n.s) = "e" /\ CharAt(n.s.src, n.s.cur + 2) \in Digits \cup {"+", "-"}
  THEN ExponentDigits(n, Signed(Read(n.s))) ELSE n

\* The digits of an integer are those of its base; s is behind the prefix.
Whole(s, end, base) ==
  LET digits == Since(end, s.cur)
  IN  [s |-> end, float |-> FALSE,
       bad |-> digits = <<>> \/ ~ToSet(digits) \subseteq DigitsOf(base)]

Suffixed(n, end, base) ==
  LET suffix == Since(end, n.s.cur)
  IN  Token(CASE \/ n.bad \/ suffix = <<"e">>
                 \/ suffix # <<>> /\ (suffix \notin Units \/ base # 10) -> "Error"
              [] ~n.bad /\ suffix \in Units /\ base = 10 -> "Numeric"
              [] ~n.bad /\ suffix = <<>> -> IF n.float THEN "Float" ELSE "Int", end)

WithSuffix(n, base) ==
  Suffixed(n, ConsumeWhile(n.s, ASCIIAlphanumeric \cup {"%"}), base)

NumberFrom(s, end, first, base) ==
  WithSuffix(IF base = 10 THEN Exponent(Fraction(end, first)) ELSE Whole(s, end, base),
             base)

InBase(s, first, base) ==
  NumberFrom(s, ConsumeWhile(s, IF base = 16 THEN ASCIIAlphanumeric ELSE Digits), first, base)

ScanNumber(s, first) ==
  IF NumberBase(s, first) = 10 THEN InBase(s, first, 10)
  ELSE InBase(Read(s), first, NumberBase(s, first))

\* After a dot that is not part of two, and after an at sign, a keyword is a
\* name.
ScanIdent(s, start) ==
  LET word == ConsumeWhile(s, IDContinue)
      name == Since(word, start)
      before == CharAt(s.src, start)
      isName == \/ before = "." /\ CharAt(s.src, start - 1) # "."
                \/ before = "@"
  IN  CASE ~isName /\ Len(name) = 1 /\ name[1] \in Keywords ->
             Token(IF name = <<"true">> THEN "Bool" ELSE name[1], word)
        [] name = <<"_">> -> Token("Underscore", word)
        [] OTHER -> Token("Ident", word)

CodeSingles ==
  ("{" :> "LeftBrace") @@ ("}" :> "RightBrace") @@ ("[" :> "LeftBracket") @@
  ("]" :> "RightBracket") @@ ("(" :> "LeftParen") @@ (")" :> "RightParen") @@
  ("," :> "Comma") @@ (";" :> "Semicolon") @@ (":" :> "Colon") @@ ("$" :> "Dollar") @@
  ("+" :> "Plus") @@ ("-" :> "Minus") @@ ("*" :> "Star") @@ ("/" :> "Slash") @@
  ("=" :> "Eq") @@ ("<" :> "Lt") @@ (">" :> "Gt") @@ ("." :> "Dot")
CodePairs ==
  ("+" :> "PlusEq") @@ ("-" :> "HyphEq") @@ ("*" :> "StarEq") @@ ("/" :> "SlashEq") @@
  ("=" :> "EqEq") @@ ("!" :> "ExclEq") @@ ("<" :> "LtEq") @@ (">" :> "GtEq")

ScanCode(s, ch, start) ==
  IF ch \in DOMAIN CodePairs /\ Peek(s) = "=" THEN Token(CodePairs[ch], Skip(s, 1))
  ELSE IF ch = "=" /\ Peek(s) = ">" THEN Token("Arrow", Skip(s, 1))
  ELSE IF ch = "<" /\ Peek(s) \in IDContinue \cup {">"} THEN ScanLabel(s)
  ELSE IF ch \in Digits \/ (ch = "." /\ Peek(s) \in Digits) THEN ScanNumber(s, ch)
  ELSE IF ch = "." /\ Peek(s) = "." THEN Token("Dots", Skip(s, 1))
  ELSE IF ch = Quote THEN ScanString(s, FALSE)
  ELSE IF ch \in IDStart THEN ScanIdent(s, start)
  ELSE IF ch \in DOMAIN CodeSingles THEN Token(CodeSingles[ch], s)
  ELSE ErrorToken(s)

-----------------------------------------------------------------------------
(* Raw text: one token whose parts are the delimiters, the language, the   *)
(* lines and what is trimmed of them.                                      *)

Part(kind, from, to) == [kind |-> kind, from |-> from, to |-> to]

\* Parts are laid one behind the other: each starts where the last one ended.
Push(parts, kind, to) == Append(parts, Part(kind, Last(parts).to, to))

Blank(src, line) == \A i \in line.from + 1 .. line.to : src[i] \in Whitespace

\* The offset behind the line break at an offset; -1 is consumeNewline's panic.
AfterNewline(src, pos) ==
  CASE CharAt(src, pos + 1) = CR /\ CharAt(src, pos + 2) = LF -> pos + 2
    [] CharAt(src, pos + 1) \notin Newlines -> -1
    [] OTHER -> pos + 1

RECURSIVE RawLines(_, _, _)
RawLines(src, from, to) ==
  LET ends == {i \in from .. to - 1 : src[i + 1] \in Newlines}
  IN  IF ends = {} THEN <<Part("line", from, to)>>
      ELSE <<Part("line", from, Min(ends))>>
           \o RawLines(src, AfterNewline(src, Min(ends)), to)

Indent(src, line) ==
  Max({n \in 0 .. line.to - line.from :
         \A i \in 1 .. n : src[line.from + i] \in Whitespace})

Dedent(src, lines) ==
  LET counted == {i \in 2 .. Len(lines) : ~Blank(src, lines[i]) \/ i = Len(lines)}
  IN  IF counted = {} THEN 0 ELSE Min({Indent(src, lines[i]) : i \in counted})

\* A blank last line goes; one that ends in a backtick loses one space.
TrimLast(src, lines) ==
  LET last == Last(lines)
      texts == {i \in last.from + 1 .. last.to : src[i] \notin Whitespace}
  IN  IF texts = {} THEN Front(lines)
      ELSE IF src[Max(texts)] = Backtick /\ src[last.to] = " "
      THEN Append(Front(lines), [last EXCEPT !.to = @ - 1])
      ELSE lines

\* The first line, with its one space trimmed; cur is where it was left.
FirstLine(src, parts, line) ==
  IF Blank(src, line) THEN [parts |-> parts, cur |-> line.to]
  ELSE LET spaced == IF src[line.from + 1] = " "
                     THEN Push(parts, "RawTrimmed", line.from + 1) ELSE parts
       IN  [parts |-> Push(spaced, "Text", line.to), cur |-> line.to]

\* Variant: a line shorter than the indentation is not told apart.
InnerLineDedented(src, at, line, dedent) ==
  LET start == AfterNewline(src, at.cur)
      length == line.to - line.from
  IN  [parts |-> Push(Push(at.parts, "RawTrimmed", start + dedent), "Text", start + length),
       cur |-> IF start = -1 THEN -1 ELSE start + length]

InnerLine(src, at, line, dedent) ==
  LET start == AfterNewline(src, at.cur)
      length == line.to - line.from
      text == start + Min({dedent, length})
  IN  [parts |-> Push(Push(at.parts, "RawTrimmed", text), "Text", start + length),
       cur |-> IF start = -1 THEN -1 ELSE start + length]

BlockyRaw(src, opened, from, to) ==
  LET tags == {i \in from .. to : \A j \in from + 1 .. i :
                 src[j] \notin Whitespace \cup {Backtick}}
      tagged == IF Max(tags) = from THEN opened ELSE Push(opened, "RawLang", Max(tags))
      all == RawLines(src, Max(tags), to)
      dedent == Dedent(src, all)
      lines == TrimLast(src, all)
      first == IF lines = <<>> THEN [parts |-> tagged, cur |-> Max(tags)]
               ELSE FirstLine(src, tagged, lines[1])
      body == FoldLeft(LAMBDA at, line : InnerLine(src, at, line, dedent), first,
                       IF lines = <<>> THEN <<>> ELSE Tail(lines))
  IN  IF body.cur < to THEN Push(body.parts, "RawTrimmed", to) ELSE body.parts

RECURSIVE InlineRaw(_, _, _, _)
InlineRaw(src, parts, cur, to) ==
  IF cur >= to THEN Push(parts, "Text", cur)
  ELSE IF src[cur + 1] \in Newlines
  THEN InlineRaw(src, Push(Push(parts, "Text", cur), "RawTrimmed", AfterNewline(src, cur)),
                 AfterNewline(src, cur), to)
  ELSE InlineRaw(src, parts, cur + 1, to)

\* The closing delimiter is the first run of as many backticks.
RECURSIVE RawEnd(_, _, _)
RawEnd(s, backticks, found) ==
  IF found = backticks THEN Token("Raw", s)
  ELSE IF Peek(s) = EOF THEN ErrorToken(Read(s))
  ELSE RawEnd(Read(s), backticks, IF Peek(s) = Backtick THEN found + 1 ELSE 0)

ScanRaw(s) ==
  LET start == s.cur - 1
      opened == ConsumeWhile(s, {Backtick})
      backticks == opened.cur - start
      closed == RawEnd(opened, backticks, 0)
      end == closed.s.cur
      delim == <<Part("RawDelim", start, opened.cur)>>
      body == IF backticks >= 3
              THEN BlockyRaw(s.src, delim, opened.cur, end - backticks)
              ELSE InlineRaw(s.src, delim, opened.cur, end - backticks)
  IN  IF backticks = 2
      THEN [kind |-> "Raw", s |-> opened,
            parts |-> <<Part("RawDelim", start, start + 1),
                        Part("RawDelim", start + 1, start + 2)>>]
      ELSE IF closed.kind = "Error" THEN closed
      ELSE [closed EXCEPT !.s = Seek(closed.s, end), !.parts = Push(body, "RawDelim", end)]

-----------------------------------------------------------------------------
(* Scanner.Next.                                                           *)

Scan(scanner) ==
  LET ch == Peek(scanner)
      s == [Read(scanner) EXCEPT !.newline = FALSE]
  IN  IF ch = Backtick /\ s.mode # "Math" THEN ScanRaw(s)
      ELSE IF ch = EOF THEN Token("End", s)
      ELSE IF ch = "/" /\ Peek(s) = "/"
      THEN Token("LineComment", ConsumeUntil(Read(s), Newlines))
      ELSE IF ch = "/" /\ Peek(s) = "*" THEN BlockComment(Read(s), 1)
      ELSE IF ch = "*" /\ Peek(s) = "/" THEN ErrorToken(Read(s))
      ELSE IF ch \in Whitespace THEN WhitespaceFrom(s, ch, 0)
      ELSE CASE s.mode = "Markup" -> ScanMarkup(s, ch)
             [] s.mode = "Math" -> ScanMath(s, ch)
             [] s.mode = "Code" -> ScanCode(s, ch, scanner.cur)
=============================================================================
