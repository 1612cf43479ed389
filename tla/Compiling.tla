----------------------------- MODULE Compiling -----------------------------
(***************************************************************************)
(* Programs written statement by statement, lowered to a module, run on    *)
(* the machine, and compared with what they mean.  The SSA builder, the    *)
(* lowering of escapes, patterns and closures, dead code elimination and   *)
(* the instructions have to agree for that, and none of them is mentioned  *)
(* in the meaning.                                                         *)
(***************************************************************************)
EXTENDS Machine, Meaning

CONSTANTS
  Universe, \* the names every program sees: name -> value
  Themes    \* sequence of [prelude, start, leaves, heads, coda, max, depth]

\* The programs of a theme are its prelude, a construct in which the leaves and
\* heads are written (or, if start is empty, those themselves) and its coda;
\* max and depth bound what is written and how deep.  A construct, and a head,
\* is [node, content, bind]: its bodies are blocks or content blocks, and its
\* value is bound to the pattern in bind if there is one.
ASSUME ThemesAssumption ==
  \A t \in DOMAIN Themes : Themes[t].max \in Nat /\ Themes[t].depth \in Nat

ASSUME DepthAssumption == Depth = MaxCallDepth

VARIABLES
  theme, \* the theme of the program
  open,  \* the constructs that are open, the document first: [head, body]
  size,  \* how many statements were written
  meant  \* what the program means, as <<document>> once it is written

vars == <<machine, theme, open, size, meant>>

Writing == meant = <<>>
Here == Last(open)
Room ==
  /\ Writing /\ size < Themes[theme].max
  /\ Len(open) > 1 \/ Themes[theme].start = <<>>
Written(body) == [open EXCEPT ![Len(open)].body = Append(@, body)]

Init ==
  /\ MachineInit
  /\ theme \in DOMAIN Themes
  /\ open = <<[head |-> <<>>, body |-> Themes[theme].prelude]>>
             \o [i \in DOMAIN Themes[theme].start |->
                   [head |-> <<Themes[theme].start[i]>>, body |-> <<>>]]
  /\ size = 0
  /\ meant = <<>>

-----------------------------------------------------------------------------
(* Writing.                                                                *)

WriteLeaf ==
  \E i \in DOMAIN Themes[theme].leaves :
    /\ Room
    /\ open' = Written(Themes[theme].leaves[i])
    /\ size' = size + 1
    /\ UNCHANGED <<machine, theme, meant>>

OpenConstruct ==
  \E i \in DOMAIN Themes[theme].heads :
    /\ Room /\ Len(open) <= Themes[theme].depth
    /\ open' = Append(open, [head |-> <<Themes[theme].heads[i]>>, body |-> <<>>])
    /\ size' = size + 1
    /\ UNCHANGED <<machine, theme, meant>>

\* The construct with its current body in place; the arms of a conditional are
\* marked by the kind of what stands in them, "hole" being still to come.
Body(head, body) == IF head.content THEN Content(body) ELSE Block(body)
Closed(head, body) ==
  CASE head.node.k = "if" /\ head.node.then.k = "hole" -> [head.node EXCEPT !.then = Body(head, body)]
    [] head.node.k = "if" /\ head.node.then.k # "hole" -> [head.node EXCEPT !.else = <<Body(head, body)>>]
    [] head.node.k \in {"while", "for"} -> [head.node EXCEPT !.body = Body(head, body)]
    [] head.node.k = "letfn" -> [head.node EXCEPT !.fn.body = Body(head, body)]
    [] head.node.k = "block" -> Body(head, body)

OtherArm ==
  /\ Writing /\ Len(open) > 1
  /\ Here.head[1].node.k = "if" /\ Here.head[1].node.then.k = "hole"
  /\ open' = [open EXCEPT ![Len(open)] =
                [head |-> <<[@.head[1] EXCEPT !.node = Closed(Here.head[1], Here.body)]>>, body |-> <<>>]]
  /\ UNCHANGED <<machine, theme, size, meant>>

Bound(head, node) == IF head.bind = <<>> THEN node ELSE Let(head.bind[1], node)
Close ==
  /\ Writing /\ Len(open) > 1
  /\ open' = [Front(open) EXCEPT ![Len(open) - 1].body =
                Append(@, Bound(Here.head[1], Closed(Here.head[1], Here.body)))]
  /\ UNCHANGED <<machine, theme, size, meant>>

-----------------------------------------------------------------------------
(* Running.                                                                *)

\* Programs whose loops do not end within the fuel are not run.
Compile(program, document) ==
  /\ meant' = <<document>>
  /\ IF document.ended THEN Start(Analyze(Universe, program)) ELSE UNCHANGED machine
  /\ UNCHANGED <<theme, open, size>>
Program == open[1].body \o Themes[theme].coda
Run == Writing /\ Len(open) = 1 /\ Compile(Program, Meant(Universe, Program))

Execute == MachineNext /\ UNCHANGED <<theme, open, size, meant>>

\* The document is done.
Rest == ~Writing /\ ~Running /\ UNCHANGED vars

Next == WriteLeaf \/ OpenConstruct \/ OtherArm \/ Close \/ Run \/ Execute \/ Rest

Spec == Init /\ [][Next]_vars

-----------------------------------------------------------------------------
(* Properties.                                                             *)

\* Content is the letters and values it shows, whatever its nesting; any two
\* functions are alike.
RECURSIVE Glyphs(_)
Glyphs(c) ==
  CASE c.v.kind = "text" -> [i \in DOMAIN c.v.text |-> Str(<<c.v.text[i]>>)]
    [] c.v.kind = "raw" -> c.v.text
    [] c.v.kind = "sequence" -> FlattenSeq([i \in DOMAIN c.v.children |-> Glyphs(c.v.children[i])])

RECURSIVE Alike(_, _)
AllAlike(xs, ys) == Len(xs) = Len(ys) /\ \A i \in DOMAIN xs : Alike(xs[i], ys[i])
PairsAlike(xs, ys) ==
  /\ Len(xs) = Len(ys)
  /\ \A i \in DOMAIN xs : xs[i][1] = ys[i][1] /\ Alike(xs[i][2], ys[i][2])
Alike(x, y) ==
  /\ x.type = y.type
  /\ CASE x.type = "function" -> TRUE
       [] x.type = "content" -> AllAlike(Glyphs(x), Glyphs(y))
       [] x.type = "array" -> AllAlike(x.v, y.v)
       [] x.type = "dictionary" -> PairsAlike(x.v, y.v)
       [] x.type = "arguments" -> AllAlike(x.v.pos, y.v.pos) /\ PairsAlike(x.v.named, y.v.named)
       [] OTHER -> x.v = y.v

Shows == result[1].v[1]
Exports == result[1].v[2]

(***************************************************************************)
(* A module gives what its program means: the same content and the same    *)
(* values in the exported variables.  A wrong argument on an edge, a join  *)
(* that loses what an escape had gathered, a capture taken at the wrong    *)
(* moment or an instruction taken for dead shows here (escape.go, lower.go,*)
(* builder.go, finalize.go).                                               *)
(***************************************************************************)
RunsAsWritten ==
  result # <<>> =>
    /\ Alike(ContentOf(<<Shows>>), meant[1].content)
    /\ {Exports.v[i][1] : i \in DOMAIN Exports.v} = {Key(n) : n \in DOMAIN meant[1].exports}
    /\ \A n \in DOMAIN meant[1].exports : Alike(Named(Exports.v, Key(n)), meant[1].exports[n])

\* A module reports what its program has wrong, and nothing else: no error is
\* dropped with the code that is not reached, none is reported from a branch
\* that is not taken, and one that was handed on is not reported again.
ErrorsAsWritten == result # <<>> => errors = meant[1].errors

\* No instruction, and no edge that may be taken, reads a slot that nothing has
\* filled: in Go it holds nil, and a type switch on it panics or lets it pass.
Needed ==
  IF AtEnd THEN {TermOf(Top).cond} \cup UNION {ToSet(TermOf(Top).args[k]) : k \in DOMAIN TermOf(Top).args}
  ELSE ToSet(Item.args)
DefinedBeforeUse == Running => \A r \in Needed : IsLocal(r) => r \in DOMAIN Top.slots
=============================================================================
