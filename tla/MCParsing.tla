----------------------------- MODULE MCParsing -----------------------------
(***************************************************************************)
(* Where TLC types, and what.                                              *)
(***************************************************************************)
EXTENDS Parsing

Lexemes(chars) == {<<c>> : c \in chars}
Words(names) == {<<name, " ">> : name \in names}

Corner(prefix, lexemes, length) ==
  [prefix |-> prefix, lexemes |-> lexemes, length |-> length, maxDepth |-> 256]
Shallow(prefix, lexemes, length) == [Corner(prefix, lexemes, length) EXCEPT !.maxDepth = 3]

\* Blocks, which end at lines and columns, and what is in a line.
MarkupCorners ==
  { Corner(<<>>, Lexemes({"a", LF, " ", ":"}) \cup {<<"=", " ">>, <<"-", " ">>, <<"/", " ">>}, 5),
    Corner(<<>>, Lexemes({"a", "*", "_", "#", "[", "]"}) \cup {<<"@", "a">>}, 5) }

\* Parentheses, which turn out to be arrays, parameters or patterns.
GroupCorners ==
  { Corner(<<"#", "(">>, Lexemes({"a", ",", ":", ")", "(", "=", "_"}) \cup {<<"=", ">">>, <<".", ".">>}, 4),
    Corner(<<"#", "(">>, Lexemes({"a", ",", ")", "("}) \cup {<<"=", ">">>}, 6),
    Corner(<<"#", "(", "a", ":", " ">>,
           {<<"(", "a", ":", " ">>, <<"a">>, <<")", "=", ">", "a">>, <<")", "=", "a">>}, 5) }

\* Operators, and statements.
CodeCorners ==
  { Corner(<<"#", "{">>, Lexemes({"a", "+", "=", "(", ")", "."})
                         \cup Words({"not", "in", "and"}) \cup {<<"=", "=">>}, 4),
    Corner(<<"#", "{", "a">>, {<<"+", "a">>, <<"*", "a">>, <<"=", "a">>, <<".", "a">>, <<"in", "a">>,
                               <<"not", " ", "in", "a">>, <<"and", " ">>, <<"-">>}, 5),
    Corner(<<"#">>, Words({"let", "for", "in", "if", "show", "set", "else"})
                    \cup Lexemes({"a", "(", "{", "=", ":", LF}), 4),
    Corner(<<"#", "import", " ">>, Words({"as"}) \cup Lexemes({"a", ":", ",", "*", ".", "(", ")", LF}), 4) }

MathCorners ==
  { Corner(<<"$">>, Lexemes({"a", "/", "^", "_", "(", ")", Apostrophe, "!", "#", ",", "$", "root"}), 4) }

\* The limit, which few levels reach.
DepthCorners ==
  { Shallow(prefix, Lexemes({"a", "(", "[", "]", ")", "{", "}", "#"}), 4) :
      prefix \in {<<"#">>, <<"$">>} }
  \cup { Shallow(<<"#", "let", " ">>, Lexemes({"(", ")", "=", "a"}), 6),
         Shallow(<<"#">>, {<<"if", " ", "a">>, <<"{">>, <<"}">>, <<"[">>, <<"=", " ">>, <<"not", " ">>}, 5) }

SomeCorners == MarkupCorners \cup GroupCorners \cup CodeCorners \cup MathCorners \cup DepthCorners
=============================================================================
