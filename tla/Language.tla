------------------------------ MODULE Language ------------------------------
(***************************************************************************)
(* The language of the code in a document: programs as the parser hands    *)
(* them on, and what the instructions they are lowered to compute from the *)
(* values of their operands, whatever slots those are in.                  *)
(*                                                                         *)
(* An expression or a statement is a record whose k is its kind, a body a  *)
(* sequence of them.  Grouping parentheses, spans and parser errors are    *)
(* left out.                                                               *)
(***************************************************************************)
EXTENDS Values, FiniteSets

Lit(v) == [k |-> "literal", v |-> v]
Id(n) == [k |-> "ident", n |-> n]
Un(op, x) == [k |-> "unary", op |-> op, x |-> x]
Bin(op, l, r) == [k |-> "binary", op |-> op, l |-> l, r |-> r]

\* `left and right`, `left or right`.
Short(op, l, r) == [k |-> "short", op |-> op, l |-> l, r |-> r]

\* An element of an array, `..x` of an array or a dictionary, `key: x`.
Elem(x) == [kind |-> "elem", key |-> "", x |-> x]
Spread(x) == [kind |-> "spread", key |-> "", x |-> x]
Entry(key, x) == [kind |-> "named", key |-> key, x |-> x]
Arr(items) == [k |-> "array", items |-> items]
Dct(items) == [k |-> "dict", items |-> items]

\* A call; its arguments are elements, spreads and named entries.
CallOf(f, items) == [k |-> "call", f |-> f, items |-> items, blocks |-> <<>>]
CallWith(f, items, blocks) == [k |-> "call", f |-> f, items |-> items, blocks |-> blocks]

\* `n op x`: op is "=" or the operator of a compound assignment.
Assign(op, n, x) == [k |-> "assign", op |-> op, n |-> n, x |-> x]

\* `let pattern = x`, `let f(params) = body` and `pattern = x`.
Let(pat, x) == [k |-> "let", pat |-> pat, x |-> x]
LetFn(n, params, body) == [k |-> "letfn", n |-> n, fn |-> [k |-> "closure", params |-> params, body |-> body]]
DestructAssign(pat, x) == [k |-> "destructassign", pat |-> pat, x |-> x]

\* Patterns: an identifier, `_`, and a parenthesised one of items, which are
\* patterns, `key: pattern` and `..target`.
Hole == [k |-> "hole"]
Destruct(items) == [k |-> "destruct", items |-> items]
Field(key, sub) == [k |-> "field", key |-> key, sub |-> sub]
Sink(target) == [k |-> "sink", target |-> target]

\* Parameters of a closure.
Param(pat) == [kind |-> "positional", pat |-> pat, default |-> <<>>]
NamedParam(n, default) == [kind |-> "named", pat |-> Id(n), default |-> <<default>>]
SinkParam(n) == [kind |-> "sink", pat |-> Id(n), default |-> <<>>]
Closure(params, body) == [k |-> "closure", params |-> params, body |-> body]

\* `{ ... }` and `[ ... ]`.
Block(body) == [k |-> "codeblock", body |-> body]
Content(body) == [k |-> "contentblock", body |-> body]

\* A missing else arm is <<>>; an else-if is a conditional in it.
If(c, then, else) == [k |-> "if", c |-> c, then |-> then, else |-> else]
While(c, body) == [k |-> "while", c |-> c, body |-> body]
For(pat, x, body) == [k |-> "for", pat |-> pat, x |-> x, body |-> body]
Break == [k |-> "break"]
Continue == [k |-> "continue"]
Return0 == [k |-> "return", x |-> <<>>]
Return1(x) == [k |-> "return", x |-> <<x>>]

IsBlock(n) == n.k \in {"codeblock", "contentblock"}

-----------------------------------------------------------------------------
(* Outcomes: a value, or a message for an error.                           *)

ErrorValue == Value("error", 0)
IsError(v) == v.type = "error"

OutcomeOr(outcome, msg) ==
  [ok |-> outcome.ok, value |-> IF outcome.ok THEN outcome.value ELSE ErrorValue, msg |-> msg]
Good(v) == [ok |-> TRUE, value |-> v, msg |-> ""]
Bad(msg) == [ok |-> FALSE, value |-> ErrorValue, msg |-> msg]
GoodIf(fits, v, msg) == IF fits THEN Good(v) ELSE Bad(msg)

-----------------------------------------------------------------------------
(* Operators, containers and arguments.                                    *)

\* `and` and `or` are decided by their left operand where it decides.
Decides(op, x) == x.type = "boolean" /\ ((op = "and" /\ ~x.v) \/ (op = "or" /\ x.v))
Compute(op, x, y) == IF Decides(op, x) THEN Good(x) ELSE OutcomeOr(BinaryOp(op, x, y), op)

\* Names become strings of dictionaries.
Key(n) == <<n>>

Spliced(v, type) == IF v.type = type THEN v.v ELSE <<>>
Spreadable(values, spreads, type) ==
  \A i \in DOMAIN values : spreads[i] => values[i].type \in {type, "none"}
ArrayOf(values, spreads) ==
  Array(FlattenSeq([i \in DOMAIN values |->
                      IF spreads[i] THEN Spliced(values[i], "array") ELSE <<values[i]>>]))
DictOf(values, spreads, keys) ==
  Dict(FoldLeft(LAMBDA d, i : IF spreads[i] THEN PutAll(d, Spliced(values[i], "dictionary"))
                              ELSE Put(d, Key(keys[i]), values[i]),
                <<>>, [i \in DOMAIN values |-> i]))

\* The arguments of a call, from what is written.
AddArgument(args, kind, key, v) ==
  CASE kind = "elem" -> [args EXCEPT !.pos = Append(@, v)]
    [] kind = "named" -> [args EXCEPT !.named = Put(@, key, v)]
    [] v.type = "array" -> [args EXCEPT !.pos = @ \o v.v]
    [] v.type = "dictionary" ->
         [args EXCEPT !.named = PutAll(@, [i \in DOMAIN v.v |-> <<v.v[i][1][1], v.v[i][2]>>])]
    [] v.type = "arguments" -> MergeArguments(args, v.v).v
    [] OTHER -> args
Unspreadable(values, kinds) ==
  \E i \in DOMAIN values :
    kinds[i] = "spread" /\ values[i].type \notin {"array", "dictionary", "arguments", "none"}
CallArguments(values, kinds, keys) ==
  FoldLeft(LAMBDA args, i : AddArgument(args, kinds[i], keys[i], values[i]),
           [pos |-> <<>>, named |-> <<>>], [i \in DOMAIN values |-> i])

\* A closure's parameters take anything and none may be left out but named
\* ones; params is a sequence of [kind, name, ...].
NamesOfParams(params) == {params[i].name : i \in {j \in DOMAIN params : params[j].kind = "named"}}
Sinks(params) == {i \in DOMAIN params : params[i].kind = "sink"}
Required(params) == {i \in DOMAIN params : params[i].kind = "positional"}
ArgumentFault(params, args) ==
  CASE Sinks(params) = {} /\ Len(args.pos) > Cardinality(Required(params)) -> "unexpected argument"
    [] Sinks(params) = {} /\ Names(args.named) \ NamesOfParams(params) # {} -> "unexpected argument"
    [] Len(args.pos) < Cardinality(Required(params)) -> "missing argument"
    [] OTHER -> ""

\* A builtin has no code of its own and sees no variables.  repr, the one the
\* programs call, is modelled for strings.
Builtin(name, params) == Value("function", [builtin |-> name, params |-> params, impure |-> FALSE])
IsBuiltin(f) == "builtin" \in DOMAIN f.v
ReprFunction == Builtin("repr", <<[kind |-> "positional", name |-> ""]>>)
Repr(v) == Str(<<"quote">> \o v.v \o <<"quote">>)

\* Parameters in front of the sink take arguments from the front, those behind
\* it from the end; the sink takes what is between, and the names left over.
Passed(params, args, i, default) ==
  LET before == {j \in Required(params) : j < i}
      after == {j \in Required(params) : j > i}
      behindSink == \E s \in Sinks(params) : s < i
  IN  CASE params[i].kind = "named" ->
             IF params[i].name \in Names(args.named) THEN Named(args.named, params[i].name)
             ELSE default
        [] params[i].kind = "sink" ->
             ArgumentsOf(SubSeq(args.pos, Cardinality(before) + 1, Len(args.pos) - Cardinality(after)),
                         SelectSeq(args.named, LAMBDA p : p[1] \notin NamesOfParams(params)))
        [] behindSink -> args.pos[Len(args.pos) - Cardinality(after)]
        [] OTHER -> args.pos[Cardinality(before) + 1]

\* Patterns, an item at a time.
FieldOf(d, n) == IF Key(n) \in Names(d) THEN Good(Named(d, Key(n))) ELSE Bad("no key")
Excluding(d, names) == Dict(SelectSeq(d, LAMBDA p : p[1][1] \notin names))

DestructArray(source, data) ==
  CASE source.type = "array" ->
         GoodIf(IF data.sink THEN Len(source.v) >= data.before + data.after
                ELSE Len(source.v) = data.before + data.after,
                source, "elements to destructure")
    [] source.type = "dictionary" -> GoodIf(data.hybrid, source, "positional pattern")
    [] OTHER -> Bad("cannot destructure")
ArrayElem(source, data) ==
  CASE source.type = "array" /\ data.index < Len(source.v) ->
         Good(source.v[IF data.fromEnd THEN Len(source.v) - data.index ELSE data.index + 1])
    [] source.type = "dictionary" /\ data.key # "" -> FieldOf(source.v, data.key)
    [] OTHER -> Bad("index out of range")
ArraySlice(source, data) ==
  CASE source.type = "array" ->
         Good(Array(SubSeq(source.v, data.before + 1, Len(source.v) - data.after)))
    [] source.type = "dictionary" /\ data.hybrid -> Good(Excluding(source.v, data.exclude))
    [] OTHER -> Bad("index out of range")
DestructDict(source) ==
  CASE source.type = "array" -> Bad("named pattern from an array")
    [] source.type = "dictionary" -> Good(source)
    [] OTHER -> Bad("cannot destructure")
DictField(source, data) ==
  IF source.type = "dictionary" THEN FieldOf(source.v, data.key) ELSE Bad("index out of range")
DictRest(source, data) ==
  IF source.type = "dictionary" THEN Good(Excluding(source.v, data.exclude))
  ELSE Bad("index out of range")

\* What a loop goes through.
Iterated(v, destructuring) ==
  CASE v.type = "array" -> Good(v)
    [] v.type = "dictionary" ->
         Good(Array([i \in DOMAIN v.v |-> Array(<<Str(v.v[i][1]), v.v[i][2]>>)]))
    [] v.type = "string" ->
         GoodIf(~destructuring, Array([i \in DOMAIN v.v |-> Str(<<v.v[i]>>)]), "values of string")
    [] OTHER -> Bad("cannot loop")

\* An item that is an error is left out, and so is none.
Shown(v) ==
  IF v.type \in {"string", "content"} THEN ToContent(v)
  ELSE Value("content", [kind |-> "raw", text |-> <<v>>, children |-> <<>>])
ContentOf(values) ==
  LET shown == SelectSeq(values, LAMBDA v : v.type \notin {"error", "none"})
  IN  IF Len(shown) = 1 THEN Shown(shown[1]) ELSE Sequence([i \in DOMAIN shown |-> Shown(shown[i])])

(***************************************************************************)
(* A join leaves errors out.  Values that do not join are an error unless  *)
(* one was left out: anywhere in a CodeJoin, before them in a JoinResult.  *)
(***************************************************************************)
Sound(values) == SelectSeq(values, LAMBDA v : ~IsError(v))
TypesJoin(values) == Selected([i \in DOMAIN values |-> values[i].type]) # Unjoinable
LeftOut(values, inOrder) ==
  \E i \in DOMAIN values : IsError(values[i]) /\ (inOrder => TypesJoin(Sound(SubSeq(values, 1, i))))
JoinOutcome(values, inOrder) ==
  IF TypesJoin(Sound(values)) THEN OutcomeOr(JoinValues(Sound(values)), "join")
  ELSE GoodIf(LeftOut(values, inOrder), None, "join")
=============================================================================
