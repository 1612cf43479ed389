# TLA+ models and proofs of markst

markst compiles a markup language with embedded code. It scans and parses a
source (`src/syntax/scanner`, `src/syntax/parser`), lowers the tree to SSA
(`src/syntax/analyzer`, `src/expr`), evaluates that (`src/eval`, `src/value`,
`src/builtin`) and realizes the content that results into a document
(`src/eval/realize.go`, `autolabel.go`), which `src/html` renders. This
directory holds TLA+ models of the parts of that pipeline that decide something
over several steps, the TLC runs that check them on small instances, and TLAPS
proofs of what can be proved for all instances.

`PROJECT.json` is the index: components, runs, the source lines each definition
stands for (`map`; a helper that is a piece of a listed definition has no entry
of its own), for each property a change to the model that breaks it
(`mutants`), what the runs found (`findings`), and the hazards of the code the
properties are for.

## Running it

    tlc -config Scanning.cfg    MCScanning
    tlc -config Parsing.cfg     MCParsing
    tlc -config Compiling.cfg   MCCompiling       # about 2 minutes
    tlc -config Ssa.cfg         Ssa               # about 2 minutes
    tlc -config SsaSlots.cfg    Ssa               # finds a counterexample
    tlc -config Computing.cfg   MCComputing       # about 3 minutes
    tlc -config Calls.cfg       MCCalls
    tlc -config EvalRun.cfg     EvalRun
    tlc -config Diagnostics.cfg Diagnostics
    tlc -config Iterators.cfg   Iterators
    tlc -config Labels.cfg      MCLabels
    tlc -config Realize.cfg     Realize           # about 2 minutes

    tlapm DiagnosticsProofs.tla     # and EvalRunProofs, IteratorsProofs,
                                    # ReadingProofs, DurationsProofs,
                                    # LabelsProofs, SequenceLemmas, CallsProofs

## Inventory

| Component | State | Operations | Hard behaviours | What makes it correct |
|---|---|---|---|---|
| scanner (`syntax/scanner`) | cursor, column, line table, mode | next token, seek, change of mode | the same text read again in another mode; raw text dedented | the line table is exact; nothing is lost or cut |
| parser (`syntax/parser`) | current token, node stack, newline mode, depth, memos | one function per construct, recovery, backtracking | what a parenthesis is turns out at its end; recovery moves nodes below markers; modes change under a token read ahead | every character in the tree once; delimiters pair; operators nest; it ends, with bounded effort |
| syntax tree (`syntax`) | immutable nodes | access, sets of kinds, precedence | | |
| analyzer (`syntax/analyzer`) | scopes, frames, join stacks, loops, a pending escape | lowering of each construct | code after an escape, what an escape takes with it, captures found late, patterns | the function does what the program says |
| SSA builder (`expr/builder.go`, `finalize.go`) | blocks, definitions, params, redirects, constants | `WriteVar`, `ReadVar`, `SealBlock`, terminators, `Finalize` | params recognised as trivial after they were used; headers sealed last; dead code | args match params; no slot read before it is filled |
| evaluator (`eval/eval.go`) | session (errors, labels, call stack, flags), a frame per activation | one case per instruction, calls, loops | errors as values, nesting through builtins, cancellation on another goroutine, edges that copy their args | stack, flags and results agree; loops end |
| diagnostics (`eval/eval.go:345-383`) | errors, warnings, errorSeq | `recordError`, `recordWarning`, `ErrorMark`, `ErrorSince` | arrival out of order, duplicates | no message lost, none reported again where a report covers it; loops leave on failure |
| functions and arguments (`value/function.go`, `arguments.go`) | arguments bound ahead | `bind`, `Apply`, `With`, spread | optional parameters, sinks and trailing parameters compete | each argument arrives once; refusals have a reason |
| values (`value`) | immutable scalars, arrays and dictionaries by reference | operators, equality, order, joining | overflow, promotion, units, mixed comparisons | agree with the mathematical definition |
| builtins (`builtin`) | none of their own | one function each | callbacks that fail, indices at the ends | the value documented |
| ordered maps, containers, iterators (`internal/ordered`, `builtin`) | keys, values, index; element slices; cursors | `Put`, `Delete`, `insert`, `remove`, `push`, `pop`, loops | a loop whose body changes what it walks; slices that share arrays | insertion order, index in step, loops that end |
| realization (`eval/realize.go`) | footnotes realized so far, document properties; the rest is in the recursion | realize a node in one of three contexts, splice, merge, trim, group, apply a recipe, set rules | scopes in scopes, rules that make what they match, whitespace on edges, footnotes used twice | no word lost or moved, spaces where they separate, rules innermost first |
| labels and references (`eval.go:505-600`, `autolabel.go`) | labels, metadataLabels, pendingRefs, seenRefs | `attachLabel`, `RecordRef`, `assignHeadingLabels`, `checkRefs` | labels that move, elements that vanish, generated names that collide | undefined references are reported, generated names are free of all written ones |
| public API (`markst.go`, `diagnostic.go`, `outline.go`) | libraries compiled before the document | `Compile`, `CompileLibrary`, `Query` | cancellation, libraries that fail | one result or one error |
| HTML (`html`), smart quotes (`smartquote`) | footnotes, open quotes | render a node, a quote | nesting | numbering, balance |

The components interact by calls on one goroutine. The parser pulls tokens from
the scanner and seeks it back, the analyzer walks the finished tree and calls
the builder, and the evaluator runs the finished function. It calls itself for
closures and, through builtins and realization, is called back. One thing comes
from elsewhere: the callback of `context.AfterFunc` runs on its own goroutine
and sets `session.stopped`.

## Modules

From text to tree:

| Module | Models | State | Actions |
|---|---|---|---|
| `Reader` | the scanner's reader | a record: source, cursor, column, line table | operators `Read`, `ConsumeIf`, `Backup`, `Seek`, ... |
| `Reading` | any use of a reader | `r` | `ReadNext`, `ReadIf`, `BackUp`, `BackUpWhile`, `SeekBack`, `AskColumn` |
| `Scanner` | every scan function in the three modes | functions of the scanner record | |
| `Scanning` | a source scanned in any mixture of modes | the reader, the token just read, the offsets the parser may seek to | `ScanToken` in a mode, `GoBack` |
| `Parser` | nodes, sets of kinds, precedence; every parse function, markers, errors, memos, depth | functions of the parser record | |
| `Parsing` | sources that grow by a lexeme, parsed at every length | `corner`, the text, `p` | `Type`, which parses from the start |

From tree to values:

| Module | Models | State | Actions |
|---|---|---|---|
| `SsaBuilder` | `expr.Builder` and `Finalize` as functions on the builder's state | a record: blocks with code, params and terminator, `def`, `sealed`, `incomplete`, `redirects`, `paramUsers` | `WriteVar`, `ReadVar`, `SealBlock`, terminators, `Finalize` |
| `Ssa` | control flow over any short program of assignments, as the analyzer's calls of that builder, then the dispatch loop | the builder, the open constructs, then pc and slots | one action per statement lowered, `FinishFunction`, `ExecItem`, `ExecTerm` |
| `Language` | the programs the analyzer is given, and what each instruction computes from its operands | none; records | |
| `Lowering` | the analyzer: frames, scopes, names, constants, captures, emission of instructions; `lowerExpr` and all it calls: joins, escapes, loops, patterns, closures | functions of the analyzer record | |
| `Machine` | the evaluator's frames, dispatch, error propagation, calls | `module`, `calls`, the accumulators in `heap`, `errors`, `errorSeq`, `result` | one action per kind of instruction and terminator |
| `Meaning` | a reference definition of what a program means | none; a recursive walk with scopes | |
| `Compiling` | any short program of a theme: written, lowered, run, compared with its meaning | the above, the open constructs | `WriteLeaf`, `OpenConstruct`, `OtherArm`, `Close`, `Run`, the machine's |
| `Values`, `Durations`, `Pairs` | operators, equality, order, joiners; spans of time, dates and times; ordered maps as values | none | |
| `Arrays` | the methods of arrays | none | |
| `Computing` | expressions of all these | a stack of operands, the operation just done | `Literal`, `MakeArray`, `MakeSpan`, `Unary`, `Binary`, `Join`, `CallMethod`, ... |
| `Calls` | what a call passes: `bind`, `Apply`, `With`, spread, closures' parameters | the function with what it binds ahead, what is written, the outcome | `Write`, `PartiallyApply`, `Call` |

Running and finishing:

| Module | Models | State | Actions |
|---|---|---|---|
| `Diagnostics` | the errors of a session and the marks of loops | `errors`, `errorSeq`, `warnings`, the `marks` of open loops | `RecordError`, `RecordWarning`, `EnterLoop`, `LeaveLoop`; `AbandonLoop` and `FinishLoop` are the steps of a loop to its back edge and out of it |
| `EvalRun` | one evaluation, `Eval` or `EvalExports` | phase, the context, `stopped`, `halted`, activations, `session.stack`, outcome | `CheckContext`, `Register`, `EnterTop`, `CallClosure`, `CallBuiltin`, `ApplyCallback`, `Loop`, `ReturnFrom`, `CallTransform`, ... and `Cancel`, `SetStopped` of the other goroutines |
| `Evaluation` | what the comments of `Eval` and `EvalExports` promise | `cancelled`, `outcome` | `Cancel`, `Finish`, `Abort` |
| `OrderedMap` | `ordered.Map`, with the backing arrays of its keys | `heap`, `values`, `index` | `Put`, `Delete` |
| `InsertionMap` | what package `ordered` promises | the values, and which of two keys is older | `Put`, `Delete` |
| `Iterators` | nested `for` loops over a dictionary and an array, and what their bodies do to them | the map, `elems`, the open `loops` | `OpenDict`, `AdvanceArray`, `Repeat`, `Leave`, `DictInsert`, `DictRemove`, `Push`, `Insert`, `Remove`, `Pop`, `SetAt`, ... |
| `Labels` | labels and references of one document | the session's label sets, each element's label, pending references | `AttachLabel`, `RecordRef`, `Drop`, `LabelHeading`, `CheckRefs` and the changes of phase |
| `Content`, `Realize` | content elements, and a document from the content written to the realized tree | the bodies being written, footnotes, title, the result | `WriteLeaf`, `WriteRule`, `WriteLabel`, `OpenBody`, `CloseBody`, `UseNote`, `Finish`, which realizes |

`MC*` modules are the instances for TLC where a `.cfg` is not enough, `*Proofs`
hold the proofs, and `SequenceLemmas` what they share.

How they compose: `Scanning` is `Reading` with the scanner as the user of the
reader, and `Parsing` runs `Parser` on `Scanner` on `Reader`. `Compiling`
composes `Lowering` over the same `SsaBuilder` that `Ssa` checks by itself with
`Machine` over `Language` over `Values`, and compares them with `Meaning`, which
shares only `Language` with them. `Iterators` composes
the loops with `OrderedMap`, `Realize` composes an author with realization, and
`EvalRun` the host, the evaluator and the callback. `EvalRun` implements
`Evaluation` and `OrderedMap` implements `InsertionMap`; both are checked by TLC
(`KeepsPromise`, `KeepsInsertionOrder`) and proved. Definitions commented
"Variant" are the mistakes of the `mutants`; no specification uses them.

### What is abstracted

- `Reader`, `Scanner`: characters are an alphabet with a member or two of every
  class the scanner tells apart, each of width one. A keyword is one letter.
  What an error says is left out; that there is one is not.
- `Parser`: the texts of errors and hints are left out. `broken` tells where the
  code would panic or hang. `nesting`, `deepest` and `tries` are history.
- `Values`: a value is a type and what it holds; integers have a width
  (`MaxInt`). Floats and decimals are whole numbers with a marker for NaN. A
  ratio stands for angles and fractions too. `Durations` counts hours where the
  code has seconds and nanoseconds, finer units of the same remainder; datetimes
  hold every second hour (`Grain`) as the code's hold whole seconds, in a range
  (`MaxClock`) that wraps. Years, months and weekdays are left out. Durations are
  scaled by whole numbers, and what float64 loses of halves beyond 2^53 is not
  modelled.
- `Calls`: a value is a type and an identity, to tell who received it.
- `Language`: grouping parentheses, spans, parser errors, fields, methods and
  markup elements are left out. Of the library there is `repr`, of strings: a
  call of a function that is a constant and not impure, which `Finalize` may drop.
- `Lowering`: a pattern that assigns to what is no name reports the error
  without lowering that place first; a key written twice in a dictionary is
  found before its value is lowered. Spans are left out, so `Machine`
  reports kinds of messages, each once.
- `Meaning` is no part of the code and is not in the `map`. It walks over the
  program with scopes and an exit. A program whose loops outlive `Fuel`
  rounds is not run.
- `Ssa`: an instruction computes a fresh value; a condition is a free choice;
  the hidden variables of the analyzer are left out (`Compiling` has them), as
  is the dense renumbering of `Finalize`, a bijection. The order in which users
  of a removed param are visited is fixed here and random in Go. `ideal` and
  `env` are history: what the slots would hold if an edge bound its args at
  once, and what the program means.
- `Diagnostics`: messages and offsets are members of small sets. The binary
  search is its contract, the leftmost insertion point, which it has on the
  sorted slice that `Sorted`, proved, says there is. Traces, hints and
  origins are left out: no decision reads them.
- `EvalRun`: an activation is what control sees of it. It spends up to `Work`
  instructions before it loops or returns. A context that cannot be
  cancelled is one nobody cancels. A builtin may leave elements out.
- `Labels`: a name is a sequence whose tail is the numbers `claim` appended,
  so the collision of a written `a-1` with a generated one can be told. Slugs
  are free.
- `Content`, `Realize`: a text is a sequence of numbered words and spaces.
  One wrapper stands for strong, emph and link, one item for each of lists and
  enums; terms, tables, HTML elements and equations are left out, as are set
  rules of elements other than `document`, which have no effect. Transforms are
  a few: one that wraps what it is given, one that writes a run of its own, one
  that gives nothing and one that fails. Footnotes carry no labels.
- `Iterators`: keys are interchangeable. `append` on a full array allocates
  one of size n+1 or 2n+1; Go promises no more than room for the new element.
  An index out of range is the flag `crashed`.

## Runs

| Run | Shows | Bounds |
|---|---|---|
| `scanning` | `LineTableExact`, `RawKeepsText` | every text of 4 lexemes (5 in raw blocks) from eight sets that pair up what interacts: line breaks with comments and escapes, numbers with dots and units, arrows, strings, fences; one seek, to any token read, in any mode: reading again once is all the parser does before it goes on |
| `parsing` | `ParserEnds`, `TreeTilesSource`, `DelimitersPair`, `OperatorsNest`, `EffortBounded` | 4 to 6 lexemes behind prefixes that bring the parser to where they matter; `maxDepth` 3 in the corners about nesting, so that it is reached |
| `compiling` | `RunsAsWritten`, `ErrorsAsWritten`, `DefinedBeforeUse` | eight themes (escapes, returns, variables, closures, patterns, calling, mistakes, failures): programs of 2 or 3 statements or constructs, nested 2 to 4 deep, between a fixed prelude and coda that make them matter; loops go twice; call depth 2, so recursion is refused; about 424,000 states |
| `ssa` | `BlocksConnected`, `OperandsHoldVariables` for all programs | 2 variables, 4 statements, 2 open constructs: a conditional with a break in a loop, loops in loops; 5 block transfers take a loop twice; 1.7 million states |
| `ssa_slots` | refutes `SlotsHoldVariables` | as `ssa` with 3 statements |
| `values` | `ArithmeticExact`, `OrderAgrees`, `SortedAndDeduped`, `PiecesInOrder`, `NoFailureHidden`, `JoinIsFlat` | integers of 3 bits and 2 days, datetimes of 2 days either side of a midnight, so that every sum and shift near a limit occurs; literals of every type in two families, times apart from the rest; arrays of 3, enough for a pair out of order, a duplicate and a neighbour; 132,817 states |
| `calls` | `ArriveOnceInOrder`, `AcceptsWhatFits`, `StagedAsOnce`, `ErrorAtOffender` | eight functions, one per shape of parameters (optional first, optional last, sink with and without what follows, closures); 4 spellings of arguments; bound ahead at most twice |
| `eval_run` | `StackMirrorsCalls`, `ExportsAreWhole`, `KeepsPromise`, `CancelEndsRun` | call depth 3, reached with 6 activations of which callbacks are some; 2 instructions between back edges; 2 nodes |
| `diagnostics` | `EveryErrorCovered`, `LoopsSeeFailure`, `RestatementsCollapse` | 3 offsets give disjoint, nested, touching and empty spans; 2 messages; 4 calls, for three errors around a fourth; 2 loops |
| `iterators` | `DictLoopsBounded`, `GrowingDictLoops`, `GrowingArrayLoops`, `KeepsInsertionOrder` | 3 keys: one before, one at and one behind the cursor; arrays of 2; one loop at a time, while the proofs cover any nesting |
| `labels` | `NamesInStep`, `UndefinedAreReported` | 2 headings, 2 metadata, 2 names of which one is the other's first generated one, 2 places |
| `realize` | `WordsKept`, `SpacesKept`, `NestingIrrelevant`, `WellGrouped`, `TitleFromOuterScope` | 4 elements, rules and labels with two bodies open: a rule and its match under another rule, items and texts on both sides of a separator, a wrapper on an edge; 7 rules |

Some properties are conjunctions of what used to be said one by one:
`BlocksConnected` (args match params, no name of a dropped value),
`NamesInStep` (registered names are carried, generated ones free of all others
but those struck while an element still had them: `orphaned`),
`ArriveOnceInOrder`, `EffortBounded`.

`RunsAsWritten` is the property the whole middle of the pipeline is for. What
is compared is what the document shows, letter by letter whatever its nesting,
and the value of every exported variable. The programs leave out what is known
to go wrong (below: "Seen while modelling"): copies of one variable to another
in loops (`ssa_slots`), assignments to captured names, escapes in right
operands of `and` and `or` and in conditions of `while`, left operands of those
that are no booleans, failing values that are not used, joined arrays.

`ArithmeticExact` is, for integers, about sums and differences; products and
negations wrap unchecked in the code. `NoFailureHidden` is about the callbacks
of `map`, `filter` and `dedup` and the key of `sorted`; those of `fold`, `position`
and `sorted`'s comparison are in the model without that property. `JoinIsFlat`
leaves out joins of arrays, which nest. `SpacesKept` is about documents without an
item whose body is one element with a space on its edge, `ErrorAtOffender` about
calls of a function itself, and `RestatementsCollapse` excepts exact duplicates
behind another message: what is excepted goes wrong (below: "Seen while
modelling").

Deadlock is checked in `compiling`, where a program that has run rests. In the
others an evaluation returns, a document is labelled, a source is parsed, and
the bounded environments stop. The bounds on counters (`MaxCalls`, `MaxStmts`,
`MaxSteps`, `MaxNest`, `MaxNodes`, `MaxElems`, `MaxLoops`, `MaxVisits`,
`MaxSeeks`, `MaxWritten`, `MaxStages`, `MaxOps`, `MaxStack`, a theme's `max` and
`depth`) are guards of the environment's actions alone. The proofs hold for all
values.

### Fairness

`EvalRun` assumes weak fairness of the evaluator's steps together
(`WF(Evaluate)`: its goroutine is scheduled) and of the started callback
(`WF(SetStopped)`: so is that goroutine). Nothing is assumed of the host, which
need not cancel, nor of the choice between returning and looping: a document
may loop for ever, and then only `stopped` ends it. The other specifications
are safety only; that the parser ends is `ParserEnds`, an invariant, since a
parse is one step here and a construct that consumes nothing sets `broken`.

## Findings

`ssa_slots`: `bindArgs` copies the args of an edge one after the other into
the table it reads them from. `while c { prev = cur; cur = f(cur) }` gives
the header two params of which the second's value is the arg of the first;
in the other order the arg read is already overwritten.

Seen while modelling, without a run of its own. The first three are what
`RestatementsCollapse`, `NamesInStep` and `SpacesKept` except, the fourth what
`ErrorAtOffender` leaves out; each contradicts a comment of the code:

*Exact duplicates.* `recordError` "collapses" them (`eval.go:328-334`), it says, but
its scan starts at the leftmost entry of the span, which is the last one recorded
there (`eval.go:360`). With two messages at one span the first is behind it, so its
exact duplicate is reported again: m1, m2, m1.

*Generated labels.* A generated name "can never collide with one the source
wrote" (`autolabel.go:53`), but `attachLabel` strikes the former label of an element
from `session.labels` although another element carries it (`eval.go:566`), and only
what is in `session.labels` is reserved. A heading may be given the struck name,
and references to the other element are reported.

*Items of one element.* `trimRun` counts a list item among the runs "whose ends are
block boundaries" (`realize.go:431`), but an item whose body is one element, as in
`- #" a "`, is realized without a run, and nothing trims its edges.

*Errors of `with`.* "Each attributed to the source span of the offending
argument", says `applyErr` (`eval.go:1766`). The positions in an error of
`f.with(...)` are among the arguments of `f`, but `locateArgErrSpan` counts from
the receiver `function.with` binds ahead (`eval.go:2016`): `range.with(1, "x")`
blames the `1`. What is spread is counted as nothing, so an error behind it is
misplaced too.


*Parser and scanner.* A chain of `else if` nests the parser once per link,
uncounted by the depth limit (`parser.go:1764`, against `depth.go:23`).
`Reader.ConsumeIf` and `BackupWhile` leave the column as it was. In a block
comment, the character behind a `*` or `/` is consumed with it. A trimmed error
in front of a term's body shifts the marker of the body.

*Lowering.* The right operand of `and` and `or` does not catch escapes:
`false and break` leaves the loop, `false and return (1,)` returns a slot that
was not filled (`lower.go:550`, against the comment of `pendingEscape`); so do
escapes in conditions of `while`. An assignment in a closure to a variable of
the function around it is not refused, as the package comment says, but lost
(`lower.go:658`). `IsPure` (`instruction.go:36`) counts operators that can
fail, so the error of an unused value goes with it. Joining is called
associative (`escape.go:163`), which it is not for arrays: they nest, though
`join.go:15` says joining is what `+` does. A closure that captures an error is
an error. `replaceUses` finds no users because `tryRemoveTrivialParam` has
deleted their entry (`builder.go:1091`), so arg slots are renamed only by
`Finalize` and params that become trivial by that survive.

*Values.* `range` adds its step past the end and wraps near the largest int64
(`array.go:354`); products and negations of integers wrap. `slice` does not
check where it starts, and panics. `in` on arrays, `sorted` and
`Arguments.Equal` compare without the promotion that `==` makes. Ratios compare
`<=` where both are NaN but are not equal. Callbacks of array methods are cast
to functions, so an element in their place panics; so does `f.with()()` on a
constructor without implementation. `with` drops `Validate`, and refuses what
fits only the first optional parameter. A difference of durations is refused if
the days overflow though the remainder would bring them back.

*Running.* The cancellation callback is deregistered before realization, so a
show rule's closure that loops is not stopped (`eval.go:85`). `EvalExports`
panics on a library that does not parse (`eval.go:134`). An error in a library
is suppressed by one of the document at covering offsets (`eval.go:362`), a
warning by any at its position (`eval.go:379`), and `RecordRef` tells sources
apart by name only (`eval.go:517`). A closure that recurses through a builtin's
callback is not counted by `maxCallDepth` (`util.go:43`). The keys of a
dictionary are not snapshotted by a loop, against `eval.go:2160`: `Delete`
shifts the slice under it. `for x in a { a.pop(); a.pop() }` indexes past the
array's end and panics, and an element pushed in what was the last iteration is
not visited while earlier ones are (`eval.go:2181`).

*Labels and realization.* In block context `realize`
does not descend into an underline, so rules below one are not applied
(`realize.go:179`). A recipe that replaces list items by something else panics
(`realize.go:783`); a selector rule rebuilds every occurrence of a footnote, so
one used twice becomes two (`realize.go:803`); a labelled sequence is not spliced; a
label on a sequence that collapses to one element replaces that element's
(`realize.go:76`); a set or show rule that is all of an element's markup is not
folded (`lower.go:43`); a rule whose closure returns a scope with the same rule
recurses without bound.

## Proofs

All hold for every value of the constants under the named assumptions of
the modules (`DiagnosticsAssumption`, `EvalRunAssumption`,
`OrderedMapAssumption`, `IteratorsAssumption`, `CharsAssumption`,
`MaxDaysAssumption`, `MaxClockAssumption`, `LabelsAssumption`,
`NamesAssumption`, `FunctionsAssumption`, `BlocksAssumption`), which only say of
which kind the constants are, and that datetimes can hold at least a day.

**`DiagnosticsProofs`.** Lemmas state what `slices.Insert` does to a sequence.
`Sorted` is inductive given the contract of the binary search. `NothingLost`
needs no order at all: what is dropped is covered, and coverage is kept by
every later insertion. `MarksSeeFailure` rests on the bound `marks[i] <=
errorSeq` of the type invariant. `RestatementsNotReported` does need `Sorted`: a
broader cover sorts before the insertion point, so the backward scan finds it
(`BroaderIsScanned`); an exact duplicate stands at or behind it, and is only
missed if the entry at the insertion point, which then has its span too, says
something else (`DuplicateIsHidden`).

**`EvalRunProofs`.** The invariant relates four things: the phase to what may
be open (`PhaseFits`), the stack to the counted activations (`Mirrors`),
`cut` to `halted`, and `halted` to `cancelled` through the stages of the
callback (`FlagsFollow`: a callback that has started implies a cancelled
context). `Mirrors` alone is not inductive: a return pops the stack, and that
this is the entry of the activation that returns follows from the order of the
entries. `PromiseKept` maps every step to a step of `Evaluation` or to a
stutter; its hypothesis excludes libraries that do not parse, which panic.

**`IteratorsProofs`.** `TypeOK` and `IndexInStep` are inductive together. For
the loops the invariant adds why a slice keeps its content though the array
behind it is shared: while no key was removed, an iterator either reads an
array no longer in use or ends no later than the keys do
(`cells = Len(heap) => len <= Len(values)`), so `append` writes behind it. A
removal breaks that, and sets `disturbed`. `OlderLemma` says that the order of
the keys is the order of their indices; with it each `Put` and `Delete` is the
step of the same name of `InsertionMap`.

**`ReadingProofs`.** `LineTableIsExact`: whatever a scanner does with the
reader, the table holds the line starts among the characters reached so far and
nothing else. Reading ahead appends; backing up and seeking move the cursor
behind `high`, the farthest it was, and what is read again is not noted again
because the table's last entry is not behind it. The invariant `ReadInv` adds that the reader is well formed and its cursor
not behind `high`; the lemma `NextLineStart` says what one more character adds
to the line starts.

**`DurationsProofs`.** About operators, not steps: normalizing keeps the span
and gives the canonical form or refuses (`NormalizeCorrect`), sums and
differences of canonical spans are exact unless refused (`DurationSumsExact`),
so are multiples (`ScalingExact`), and comparing the halves in turn compares the
spans (`OrderedByLength`), for every range of days. A datetime that is shifted
goes as far as it should or is refused, and is not refused for nothing
(`ShiftsExact`): `maxShiftDays` keeps a shift shorter than the whole range, so
one that wrapped lies on the wrong side of where it started, and the code's
comparison of directions sees it. A range shorter than a day would break this,
hence the assumption.

**`LabelsProofs`.** `ClaimIsFree`: a name made up for a heading is free whatever
is taken, since of the names with a number up to one more than are taken, by the
pigeonhole principle, one is free, and `claim` takes the first. `NamesInStep` is
not inductive: a heading's label is only free of the names registered so far, so
`LabelsInv` adds that headings are labelled after code has stopped registering
(`GeneratedAfterwards`), that a label the source wrote on an element is registered
or was struck while another element had it (`WrittenAreKnown`), so that a name
free of the registered ones can only meet one of the latter
(`GeneratedAreFree`), and, for `UndefinedReported`, that a reference evaluated
stays pending until `checkRefs` (`RefsAreKept`).
`NamesSettle` is an action property on top: after evaluation nothing a reference
can name comes or goes, and labels that were given stay.

**`SequenceLemmas`.** The library's induction theorems take an operator as a
parameter, which the provers cannot instantiate. They can do induction over a
*set* of naturals (`InductionUpTo`, from the well-foundedness of `<`), and a
function that satisfies the equations of a recursion exists up to any length
(`RecursionExists`). With these, `FoldLeft`, `FlattenSeq` and the picking of
entries are taken apart step by step (`FoldExists`, `FlattenSteps`,
`PickedSteps`). `PiecesMakeWhole` is the lemma the proofs about calls are after:
pieces cut at ascending positions, laid end to end, are the sequence. `Counted`
counts the elements of a set of numbers number by number (`Ranks`), which the
proof of `WhatFitsIsAccepted` compares two placements by.

**`CallsProofs`.** `ArgumentsArrive` is `ArriveOnceInOrder` for every function and
anything that may be written, spread, bound ahead or passed as blocks. Its
invariant `CallsInv` says that what a function binds ahead *is* what was given
to its calls of `with`, in order and by last name (`BoundAhead`), and that
nothing else about it changes but its `Validate`. The argument has three parts.
Positions: the loops of `bind` keep a cut of the arguments, a table `c` of how
many the first parameters have taken (`FrontCut`, extended over the sink and
what follows it by `SlotsAreCut`); a parameter has a piece of at most one, the
sink what is left, so the pieces make the whole (`SinkIsRest`, `SeesPositions`).
Names: merging keeps the last value of each name (`MergedCollects`), and the
parameters of a function and its sink share the names between them, each once
(`AllGather`, `SeesNames`). Calls: spreading, coercion and the detour of `f.with`
over the sink of `function.with` lose nothing (`BuildGives`, `CoercedGives`,
`WithReceives`). `FunctionsAssumption` is what `collectClosureParamSpecs` and
`buildFunctionValue` see to: no parameter is written twice, and the slots of a
closure are its positional parameters.
`OffenderNamed` is `ErrorAtOffender`: with `CallsInv` and that names are written
once (`WrittenOnce`), the positions that what is written supplies and the
argument each came from are counted alike (`OriginsOf`), what an error can be
about is found by going through `Bind` (`FaultForms`), and the search of
`locateArgErrSpan` meets each such place where it was supplied (`Located`). It
says nothing of calls that spread, whose arguments are supplied and not counted,
and of calls of `with`, where what is counted and what the error names are
shifted against each other.

`StagedIsOnce` is `StagedAsOnce` and `WhatFitsIsAccepted` is `AcceptsWhatFits`.
Neither is true of every function, so both are stated for functions of a shape,
which MCCalls assumes of its eight functions as well (`ShapesAssumption`).

- `Steady`: a function that makes a type a function (a positional parameter takes
  `function` and not `type`) has its required parameters first and none behind a
  sink. Without it, `with` coerces what it binds, so a type bound ahead for an
  optional parameter that takes types may be passed on as a function to a
  required one behind it, where all at once it would have been refused. The
  array and arguments methods that take functions, and `function.with`, require
  all their positional parameters, and the parameters of a closure take every type.
- `OptionalTogether`: with a sink all other parameters are required, without one
  the optional parameters stand together. Without it, of an optional int, a
  required int and an optional string, called with an int and a string, the int
  goes to the optional parameter and the string is refused by the required one,
  where int and string could have gone to the last two; and an optional
  parameter in front of a sink cannot be passed over when there are arguments
  for the sink. Closures and the builtins with a sink have no optional parameter
  beside it, `range` has its optional one first, the others have them last.

`StagedInv` adds to `CallsInv` that what a function binds ahead *stands for* what
was given (`StandsFor`): followed by any more arguments the two are bound alike,
to the same parameters and with the same values, or both refused. That is weaker
than equality, since `with` coerces, and strong enough to go on. A stage keeps it
where nothing is coerced, and otherwise because binding goes on from where it
stood (`RunsTogether`): the loop takes coerced values the way it took the values
themselves, and a longer list of arguments leaves the first ones where they were
when the required parameters come first (`StageStands`). Then `SameMerged` and
`SameCall` carry it over to the call.

`AcceptsWhatFits` needs it too, since what is refused is a call of the function
that binds ahead. It compares the loop with any other way to place the arguments:
argument `i` is taken no later than where the other puts it, and no more required
parameters are left than arguments (`InTime`, kept by `TakenInTime`; `NextFits` is
the count that needs the optional parameters together).

The theorems on type correctness, the invariants `LabelsInv` and `CallsInv`,
`ClaimIsFree`, `NamesSettle`, `IndexCorrect`, `ErrorsSorted` and the five on
durations state what no run checks by that name; the others state properties
of the runs.

Left to TLC:

- Liveness (`CancelEndsRun`), since the prover does not reason about ENABLED
  under fairness.
- Everything about `Scanner`, `Parser`, `SsaBuilder`, `Lowering`, `Meaning`,
  `Content`, `Realize` and `Values`. They are RECURSIVE over texts, trees, blocks or
  nested values, and the prover has no arithmetic in a module that reaches a
  RECURSIVE operator.

Neither proved nor checked: `StagedAsOnce` and `AcceptsWhatFits` for functions
that are not `Steady` or not `OptionalTogether`, since they are false of some.
No builtin and no closure is one, but an application may define one.

## Plan

What would add most, in this order:

1. `Compiling`: fields and methods, assignments to elements, strings and
   markup elements, set and show rules; then `Realize` on what it makes.
2. `Realize`: terms, tables and HTML elements; labels, so that `Labels` can be
   composed with it.
3. Callbacks of the array builtins over arrays their callbacks change, on top
   of `Iterators`.
4. Libraries compiled before the document, with origins and diagnostics, on top
   of `Compiling` and `Diagnostics`.
5. HTML: footnotes and heading levels; smart quotes.
6. Proofs: that binding the args of an edge one after the
   other agrees with binding them at once exactly when no arg is an earlier
   param.

## Not modelled

Formatting and layout (`expr/format.go`, `value/repr.go`, `html` templates),
generated accessors and tables (`content_gen.go`, `symbols_gen.go`,
`emoji_gen.go`), math layout, date formats, test tools and the slab allocator:
they compute one value or string from another and keep no state. `state` values
are built and never resolved by markst. Time, memory and the size of the
goroutine stack are not modelled.
