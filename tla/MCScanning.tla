----------------------------- MODULE MCScanning -----------------------------
(***************************************************************************)
(* Sources for TLC: the texts of a few lexemes in the modes they matter in.*)
(***************************************************************************)
EXTENDS Scanning

CONSTANTS Length, RawLength

AllChars == Letters \cup Digits \cup Whitespace
  \cup {Backslash, Quote, Apostrophe, Backtick, "/", "*", "[", "]", "(", ")", "{", "}", "#",
        "$", "@", "<", ">", ".", "-", "+", "=", ":", "~", "_", "|", "%", "!", ",", ";"}

Lexemes(chars) == {<<c>> : c \in chars}
Texts(lexemes, n) == {FlattenSeq(words) : words \in SeqOf(lexemes, n)}
In(modes_, texts) == {[text |-> t, modes |-> modes_] : t \in texts}

Fence == <<Backtick, Backtick, Backtick>>

SomeSources ==
  In({"Markup", "Code"}, Texts(Lexemes({"a", " ", LF, CR, "*", "#", "-"}), Length))
  \cup In({"Markup"}, Texts(Lexemes({"a", ".", "]", "@", "<", "1", "="})
                            \cup {<<"h", "t", "t", "p", ":", "/", "/">>}, Length))
  \cup In({"Markup", "Math"}, Texts(Lexemes({"/", "*", LF, "a"}), Length + 1))
  \cup In({"Code"}, Texts(Lexemes({"0", "1", "x", "e", ".", "%", "let"}), Length))
  \cup In({"Code", "Math"}, Texts(Lexemes({Quote, Backslash, "u", "{", "}", "a"}), Length))
  \cup In({"Math"}, Texts(Lexemes({"<", "-", ">", "=", "a", ".", "|"}), Length))
  \cup In({"Markup"}, {Fence \o t \o Fence :
                         t \in Texts(Lexemes({Backtick, " ", LF, "a"}), RawLength)})
  \cup In({"Code"}, {<<Backtick>> \o t \o <<Backtick>> :
                       t \in Texts(Lexemes({" ", LF, CR, "a"}), Length)})
=============================================================================
