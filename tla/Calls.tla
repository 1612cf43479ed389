------------------------------- MODULE Calls -------------------------------
(***************************************************************************)
(* What a call passes.  Arguments are written one by one, spread from      *)
(* arrays, dictionaries and arguments, bound ahead by f.with(...) or as    *)
(* the receiver of a method, and then taken by the parameters of the       *)
(* function: those in front of the sink, the sink, and those behind it.    *)
(*                                                                         *)
(* A value is a type and an identity.  Arguments are positional values and *)
(* a sequence of <<name, value>> pairs, which is how their map is ordered. *)
(* Positions count from one.                                               *)
(***************************************************************************)
EXTENDS Integers, Sequences, SequencesExt, FiniteSetsExt, Pairs

CONSTANTS
  Identities,   \* what identifies a value
  Idents,       \* the names of parameters and arguments
  Functions,    \* [params, sink (0: none), named, refused]; see below
  Spellings(_), \* what may be written in a call of a function: [kind, name, args]
  Blocks,       \* the trailing content blocks of a call, as sequences of values
  MaxWritten,   \* bound on the arguments of a function, over its calls
  MaxStages     \* bound on the calls of with

Types ==
  {"none", "type", "auto", "boolean", "integer", "float", "decimal", "length", "relative length",
   "ratio", "angle", "fraction", "string", "symbol", "bytes", "array", "dictionary", "function",
   "arguments", "content", "label", "module", "error", "state", "selector", "datetime", "duration"}
Value == [type : Types, id : Identities]
Arguments == [pos : Seq(Value), named : Seq(Idents \X Value)]
NoArguments == [pos |-> <<>>, named |-> <<>>]

\* A function's "named" maps names to types, "refused" holds what its Validate
\* rejects, as <<name, value>>.
IsFunction(f) ==
  /\ f = [params |-> f.params, sink |-> f.sink, named |-> f.named, refused |-> f.refused,
          closure |-> f.closure, withArgs |-> f.withArgs]
  /\ f.params \in Seq([name : Idents, types : SUBSET Types, required : BOOLEAN])
  /\ f.sink \in 0 .. Len(f.params)
  /\ DOMAIN f.named \subseteq Idents
  /\ f.named \in [DOMAIN f.named -> SUBSET Types]
  /\ f.withArgs \in Arguments

\* The parameters of a closure as they are written; no name is written twice.
IsNamedParam(f, i) == f.closure # <<>> /\ f.closure[i].kind = "named"
SlotOf(f, i) == Cardinality({j \in 1 .. i : f.closure[j].kind # "named"})
IsClosure(f) ==
  /\ f.closure \in Seq([kind : {"positional", "named", "sink"}, name : Idents])
  /\ SlotOf(f, Len(f.closure)) = Len(f.params)
  /\ DOMAIN f.named = {f.closure[i].name : i \in {j \in DOMAIN f.closure : IsNamedParam(f, j)}}
  /\ \A i, j \in DOMAIN f.closure :
       IsNamedParam(f, i) /\ IsNamedParam(f, j) /\ f.closure[i].name = f.closure[j].name => i = j

\* A name is written once in what is spread.
NamedOnce(named) == \A i, j \in DOMAIN named : named[i][1] = named[j][1] => i = j
Spelt ==
  [kind : {"positional", "named", "spread", "unspreadable"}, name : Idents, args : Arguments]
IsSpelling(w) ==
  /\ w \in Spelt
  /\ NamedOnce(w.args.named)
  /\ w.kind = "positional" => Len(w.args.pos) = 1 /\ w.args.named = <<>>
  /\ w.kind = "named" => w.args.pos = <<>> /\ Len(w.args.named) = 1 /\ w.args.named[1][1] = w.name

ASSUME NamesAssumption == "self" \in Identities /\ {"self", "args"} \subseteq Idents
ASSUME FunctionsAssumption ==
  \A f \in Functions :
    /\ IsFunction(f) /\ f.withArgs = NoArguments
    /\ f.closure # <<>> => IsClosure(f)
    /\ \A w \in Spellings(f) : IsSpelling(w)
ASSUME BlocksAssumption == Blocks \subseteq Seq(Value)

VARIABLES
  fn,      \* the function that is called, with what it binds ahead
  written, \* the arguments written so far
  outcome, \* what the last call passed, or where its error is reported
  base,    \* history: the function before anything was bound ahead
  stages,  \* history: how often something was
  given    \* history: what was written in them

vars == <<fn, written, outcome, base, stages, given>>

-----------------------------------------------------------------------------
(* Arguments.                                                              *)

\* The first of two arguments with one name wins.
MergeKeepingFirst(n, args) == [pos |-> n.pos \o args.pos, named |-> PutAll(args.named, n.named)]

Merge(n, args) == [pos |-> n.pos \o args.pos, named |-> PutAll(n.named, args.named)]

-----------------------------------------------------------------------------
(* Binding.                                                                *)

\* What a slot of a parameter holds when it is not the index of an argument.
Missing == -2
Default == -1
InSink == -3

\* A type is called by its constructor, which shares its identity here; a type
\* without a constructor has none.
NoConstructor == "none"
CallableAsFunction(types, value) ==
  IF value.type \notin types /\ "function" \in types
       /\ value.type = "type" /\ value.id # NoConstructor
  THEN [value EXCEPT !.type = "function"]
  ELSE value
Takes(types, value) == CallableAsFunction(types, value).type \in types

Slots(f) == 1 .. Len(f.params)
PreSink(f) == IF f.sink = 0 THEN Len(f.params) ELSE f.sink - 1
PostSink(f) == IF f.sink = 0 THEN 0 ELSE Len(f.params) - f.sink

\* An optional parameter takes what fits although a required one needs it.
FillingOptional(f, s, i, count, pos) ==
  LET hi == PreSink(f) - count + i
  IN  {slot \in s.lo .. hi : Takes(f.params[slot].types, pos[i])}

\* The parameters that argument i may fill; there are as many left behind them
\* as there are arguments behind it.
Fitting(f, s, i, count, pos) ==
  LET hi == PreSink(f) - count + i
      argsLeft == count - i + 1
  IN  {slot \in s.lo .. hi :
         /\ f.params[slot].required \/ argsLeft > s.required
         /\ Takes(f.params[slot].types, pos[i])}

\* Argument i takes a slot; the optional parameters it passes over are default.
Fill(f, s, i, slot) ==
  [s EXCEPT !.mapping = [j \in DOMAIN @ |->
                           IF j = slot THEN i
                           ELSE IF j \in s.lo .. slot - 1 /\ ~f.params[j].required THEN Default
                           ELSE @[j]],
            !.required = IF f.params[slot].required THEN @ - 1 ELSE @,
            !.lo = slot + 1]
FillOneOf(f, s, i, fitting) ==
  IF fitting = {} THEN [s EXCEPT !.failed = i] ELSE Fill(f, s, i, Min(fitting))

\* Parameters before the sink take arguments from the front, each the first
\* that takes it; optional ones may be passed over.
NoneTaken(f) ==
  [mapping |-> [j \in Slots(f) |-> IF j = f.sink THEN InSink ELSE Missing],
   lo |-> 1,
   required |-> Cardinality({j \in 1 .. PreSink(f) : f.params[j].required}),
   failed |-> 0]
TakeOne(f, s, i, count, pos) ==
  IF s.failed # 0 THEN s ELSE FillOneOf(f, s, i, Fitting(f, s, i, count, pos))
TakeFront(f, count, pos) ==
  FoldLeft(LAMBDA s, i : TakeOne(f, s, i, count, pos), NoneTaken(f), [i \in 1 .. count |-> i])

\* Parameters behind the sink take what follows the parameters and the sink.
SinkSize(f, m) ==
  IF f.sink = 0 THEN 0 ELSE Max({0, m - (PreSink(f) + PostSink(f))})

Unfilled(f, j) == IF f.params[j].required THEN Missing ELSE Default
TakeRest(f, front, start, m) ==
  [front EXCEPT !.mapping =
     [j \in DOMAIN @ |->
        IF j <= PreSink(f) THEN IF j < front.lo THEN @[j] ELSE Unfilled(f, j)
        ELSE IF j = f.sink THEN InSink
        ELSE IF start + (j - f.sink) <= m THEN start + (j - f.sink)
        ELSE Unfilled(f, j)]]

\* count arguments go to the front.
TakeSlots(f, count, pos) ==
  TakeRest(f, TakeFront(f, count, pos), count + SinkSize(f, Len(pos)), Len(pos))

\* The first argument behind the sink that does not fit.
UnfitBack(f, mapping, pos) ==
  {mapping[j] : j \in {k \in Slots(f) : /\ f.sink # 0 /\ k > f.sink /\ mapping[k] > 0
                                        /\ ~Takes(f.params[k].types, pos[mapping[k]])}}

\* What is reported of a named argument.
At(place, index, name) == [place |-> place, index |-> index, name |-> name]
AtPos(i) == At("positional", i, "")
Nowhere == At("nowhere", 0, "")
NamedFault(f, pair) ==
  IF pair[1] \notin DOMAIN f.named
  THEN CASE f.sink # 0 -> {}
         [] f.sink = 0 /\ \E j \in Slots(f) : f.params[j].name = pair[1] -> {At("named", 0, pair[1])}
         [] OTHER -> {At("pair", 0, pair[1])}
  ELSE IF Takes(f.named[pair[1]], pair[2]) THEN {} ELSE {At("named", 0, pair[1])}
FirstNamedFault(f, named) ==
  LET faulty == {i \in DOMAIN named : NamedFault(f, named[i]) # {}}
  IN  IF faulty = {} THEN {} ELSE NamedFault(f, named[Min(faulty)])

\* Values are coerced where they are bound.
Coerced(f, mapping, args) ==
  [pos |-> [i \in DOMAIN args.pos |->
              LET slots == {j \in DOMAIN mapping : mapping[j] = i}
              IN  IF slots = {} THEN args.pos[i]
                  ELSE CallableAsFunction(f.params[Min(slots)].types, args.pos[i])],
   named |-> [i \in DOMAIN args.named |->
                IF args.named[i][1] \in DOMAIN f.named
                THEN <<args.named[i][1],
                       CallableAsFunction(f.named[args.named[i][1]], args.named[i][2])>>
                ELSE args.named[i]]]

Refused(f, named) == {i \in DOMAIN named : named[i] \in f.refused}

Fault(at) == [faults |-> {at}, args |-> NoArguments, mapping |-> <<>>]
Bound(args, mapping) == [faults |-> {}, args |-> args, mapping |-> mapping]

\* The arguments are validated when they have been coerced.
Validated(f, args, mapping) ==
  IF Refused(f, args.named) = {} THEN Bound(args, mapping)
  ELSE Fault(At("named", 0, args.named[Min(Refused(f, args.named))][1]))

BindNamed(f, merged, mapping, faults) ==
  IF faults # {} THEN [Fault(Nowhere) EXCEPT !.faults = faults]
  ELSE Validated(f, Coerced(f, mapping, merged), mapping)

BindTo(f, merged, taken) ==
  IF taken.failed # 0 THEN Fault(AtPos(taken.failed))
  ELSE IF UnfitBack(f, taken.mapping, merged.pos) # {}
  THEN Fault(AtPos(Min(UnfitBack(f, taken.mapping, merged.pos))))
  ELSE BindNamed(f, merged, taken.mapping, FirstNamedFault(f, merged.named))

BindMerged(f, merged) ==
  IF f.sink = 0 /\ Len(merged.pos) > Len(f.params) THEN Fault(AtPos(Len(f.params) + 1))
  ELSE BindTo(f, merged, TakeSlots(f, Min({Len(merged.pos), PreSink(f)}), merged.pos))

Bind(f, args) == BindMerged(f, Merge(f.withArgs, args))

-----------------------------------------------------------------------------
(* Applying.                                                               *)

\* A parameter is passed its default, a value or the arguments of the sink.
PassDefault == [by |-> "default", args |-> NoArguments]
PassValue(value) == [by |-> "value", args |-> [pos |-> <<value>>, named |-> <<>>]]
PassSink(args) == [by |-> "sink", args |-> args]

\* The named arguments that have a parameter, and the others.
Matched(f, named) == {i \in DOMAIN named : named[i][1] \in DOMAIN f.named}
Unmatched(f, named) == DOMAIN named \ Matched(f, named)

\* The sink takes what follows the parameters in front of it.
SinkToTheEnd(f, mapping, args) ==
  [pos |-> SubSeq(args.pos, Min({PreSink(f), Len(args.pos)}) + 1, Len(args.pos)),
   named |-> Picked(args.named, Unmatched(f, args.named))]

SinkOf(f, mapping, args) ==
  [pos |-> Picked(args.pos, {i \in DOMAIN args.pos : \A j \in DOMAIN mapping : mapping[j] # i}),
   named |-> Picked(args.named, Unmatched(f, args.named))]

Passed(f, bound) ==
  [pos |-> [j \in Slots(f) |->
              CASE bound.mapping[j] = InSink -> PassSink(SinkOf(f, bound.mapping, bound.args))
                [] bound.mapping[j] = Default -> PassDefault
                [] OTHER -> PassValue(bound.args.pos[bound.mapping[j]])],
   named |-> Picked(bound.args.named, Matched(f, bound.args.named))]

ApplyBound(f, bound) ==
  IF bound.faults # {} THEN [faults |-> bound.faults, passed |-> <<>>]
  ELSE IF \E j \in Slots(f) : bound.mapping[j] = Missing
  THEN [faults |-> {Nowhere}, passed |-> <<>>]
  ELSE [faults |-> {}, passed |-> Passed(f, bound)]
Apply(f, args) == ApplyBound(f, Bind(f, args))

WithBound(f, bound) ==
  IF bound.faults # {} THEN [faults |-> bound.faults, fn |-> f]
  ELSE [faults |-> {}, fn |-> [f EXCEPT !.withArgs = bound.args, !.refused = {}]]

\* What was bound ahead before is forgotten.
WithOnly(f, args) == WithBound(f, Bind([f EXCEPT !.withArgs = NoArguments], args))

\* The arguments are bound now, but Validate is left behind: nothing that is
\* passed later is validated.
With(f, args) == WithBound(f, Bind(f, args))

\* f.with(...) is a call of a method with f as its receiver: the arguments
\* arrive in the sink of function.with, which binds them.
Parameter(name, types, required) == [name |-> name, types |-> types, required |-> required]
FunctionWith ==
  [params |-> <<Parameter("self", {"function"}, TRUE), Parameter("args", {"arguments"}, TRUE)>>,
   sink |-> 2, named |-> [n \in {} |-> {}], refused |-> {}, closure |-> <<>>,
   withArgs |-> [pos |-> <<[type |-> "function", id |-> "self"]>>, named |-> <<>>]]
FunctionWithImpl(f, args) == With(f, Apply(FunctionWith, args).passed.pos[2].args)

\* A closure sees its parameters in the order they are written: the positional
\* ones and the sink from the slots, the others by name.
Route(f, passed) ==
  [i \in DOMAIN f.closure |->
     IF ~IsNamedParam(f, i) THEN passed.pos[SlotOf(f, i)]
     ELSE IF f.closure[i].name \in Names(passed.named)
     THEN PassValue(Named(passed.named, f.closure[i].name))
     ELSE PassDefault]

-----------------------------------------------------------------------------
(* Calling.                                                                *)

\* An argument is written in place or by name, or spread from a value that
\* holds arguments; anything else cannot be spread.
Unspreadable(w) == {k \in DOMAIN w : w[k].kind = "unspreadable"}

BuildCallArgs(w, blocks) ==
  [FoldLeft(LAMBDA acc, arg : Merge(acc, arg.args), NoArguments, w) EXCEPT !.pos = @ \o blocks]

\* Where an error is reported: at an argument, or at the call.
AtCall == 0
LocateFromFirst(f, w, at) ==
  LET place(k) == Cardinality({j \in 1 .. k : w[j].kind = "positional"})
      hits == {k \in DOMAIN w : \/ w[k].kind = "positional" /\ at = AtPos(place(k))
                                \/ w[k].kind = "named" /\ at.place \in {"named", "pair"}
                                                       /\ at.name = w[k].name}
  IN  IF hits = {} THEN AtCall ELSE Min(hits)

\* Of the arguments that are written, those that are spread are not counted.
LocateArgErrSpan(f, w, at) ==
  LET place(k) == Len(f.withArgs.pos) + Cardinality({j \in 1 .. k : w[j].kind = "positional"})
      hits == {k \in DOMAIN w : \/ w[k].kind = "positional" /\ at = AtPos(place(k))
                                \/ w[k].kind = "named" /\ at.place \in {"named", "pair"}
                                                       /\ at.name = w[k].name}
  IN  IF hits = {} THEN AtCall ELSE Min(hits)

Outcomes(result, fault, at, passed, blocks) ==
  [result |-> result, fault |-> fault, at |-> at, passed |-> passed, blocks |-> blocks]
NotCalled == Outcomes("none", Nowhere, AtCall, <<>>, <<>>)

Init ==
  /\ base \in Functions
  /\ fn = base
  /\ written = <<>>
  /\ outcome = NotCalled
  /\ stages = 0
  /\ given = <<>>

\* A name is written once in a call.
Write(spelling) ==
  /\ outcome = NotCalled
  /\ Len(given) + Len(written) < MaxWritten
  /\ spelling.kind = "named" => \A k \in DOMAIN written : written[k].name # spelling.name
  /\ written' = Append(written, spelling)
  /\ UNCHANGED <<fn, outcome, base, stages, given>>

Spreads == Unspreadable(written) = {}

EndCall(applied, blocks) ==
  outcome' =
    IF applied.faults # {}
    THEN LET fault == CHOOSE at \in applied.faults : TRUE
         IN  Outcomes("error", fault, LocateArgErrSpan(fn, written, fault), <<>>, blocks)
    ELSE Outcomes("passed", Nowhere, AtCall,
                  IF fn.closure = <<>> THEN applied.passed
                  ELSE [pos |-> Route(fn, applied.passed), named |-> <<>>], blocks)

\* evalCall, of fn.
Call(blocks) ==
  /\ outcome = NotCalled
  /\ IF Spreads THEN EndCall(Apply(fn, BuildCallArgs(written, blocks)), blocks)
     ELSE outcome' = Outcomes("error", Nowhere, Min(Unspreadable(written)), <<>>, blocks)
  /\ UNCHANGED <<fn, written, base, stages, given>>

EndWith(bound) ==
  IF bound.faults # {}
  THEN LET fault == CHOOSE at \in bound.faults : TRUE
       IN  /\ outcome' = Outcomes("unbound", fault,
                                  LocateArgErrSpan(FunctionWith, written, fault), <<>>, <<>>)
           /\ UNCHANGED <<fn, written, base, stages, given>>
  ELSE /\ fn' = bound.fn
       /\ written' = <<>>
       /\ stages' = stages + 1
       /\ given' = given \o written
       /\ UNCHANGED <<outcome, base>>

\* evalCall, of fn.with.
PartiallyApply ==
  /\ outcome = NotCalled
  /\ stages < MaxStages
  /\ Spreads
  /\ EndWith(FunctionWithImpl(fn, BuildCallArgs(written, <<>>)))

Next ==
  \/ \E spelling \in Spellings(base) : Write(spelling)
  \/ \E blocks \in Blocks : Call(blocks)
  \/ PartiallyApply

Spec == Init /\ [][Next]_vars

-----------------------------------------------------------------------------
(* Properties.                                                             *)

Ids(values) == [i \in DOMAIN values |-> values[i].id]

\* Everything that was supplied, in order.
Supplied == given \o written
SuppliedPos == FlattenSeq([k \in DOMAIN Supplied |-> Supplied[k].args.pos]) \o outcome.blocks
SuppliedNamed == FlattenSeq([k \in DOMAIN Supplied |-> Supplied[k].args.named])

\* What the implementation sees.
Seen == outcome.passed.pos
SeenPos == FlattenSeq([i \in DOMAIN Seen |-> IF IsNamedParam(base, i) THEN <<>> ELSE Seen[i].args.pos])
SeenNamed ==
  outcome.passed.named
  \o FlattenSeq([i \in DOMAIN Seen |->
       IF IsNamedParam(base, i) /\ Seen[i].by = "value" THEN << <<base.closure[i].name, Seen[i].args.pos[1]>> >>
       ELSE Seen[i].args.named])

(* Read from its first parameter to its last, an implementation sees the   *)
(* positional arguments as they were supplied, bound ahead, spread or      *)
(* written: none is lost, passed twice or out of order.                    *)
PassedInOrder == outcome.result = "passed" => Ids(SeenPos) = Ids(SuppliedPos)

(* Every name that was supplied is seen once, by its parameter or in the   *)
(* sink, with the value that was supplied last, and no other is seen.      *)
NamedArriveOnce ==
  outcome.result = "passed" =>
    \E seen \in {SeenNamed}, supplied \in {SuppliedNamed} :
      /\ Names(seen) = Names(supplied)
      /\ Len(seen) = Cardinality(Names(seen))
      /\ \A name \in Names(seen) :
           Named(seen, name).id = supplied[Max({i \in DOMAIN supplied : supplied[i][1] = name})][2].id

\* Arguments arrive, each once: by position in order, by name the last one.
ArriveOnceInOrder == PassedInOrder /\ NamedArriveOnce

\* The parameters in some are given to the arguments: those before the sink
\* from the front, those behind it from the back.
FitInto(f, some, pos) ==
  LET front == {j \in some : f.sink = 0 \/ j < f.sink}
      back == {j \in some : f.sink # 0 /\ j > f.sink}
      m == Len(pos)
  IN  /\ IF f.sink = 0 THEN Cardinality(some) = m ELSE Cardinality(some) <= m
      /\ \A j \in front : Takes(f.params[j].types, pos[Cardinality({i \in front : i <= j})])
      /\ \A j \in back : Takes(f.params[j].types, pos[m + 1 - Cardinality({i \in back : i >= j})])

(* A call is refused for its positional arguments only if there is no way  *)
(* to give them to the parameters.                                         *)
AcceptsWhatFits ==
  outcome.result = "error" /\ Unspreadable(written) = {} /\ outcome.fault.place \in {"positional", "nowhere"} =>
    \A some \in SUBSET (Slots(base) \ {base.sink}) :
      {j \in Slots(base) \ {base.sink} : base.params[j].required} \subseteq some
        => ~FitInto(base, some, SuppliedPos)

(* Binding arguments ahead and calling with the others is calling with all *)
(* of them, for functions that validate nothing else.                      *)
StagedAsOnce ==
  outcome.result \in {"passed", "error"} /\ Unspreadable(written) = {} /\ base.refused = {} =>
    \E once \in {Apply(base, BuildCallArgs(Supplied, outcome.blocks))} :
      /\ (outcome.result = "passed") = (once.faults = {})
      /\ outcome.result = "passed" /\ base.closure = <<>> => outcome.passed = once.passed

\* What can be said of the shape of functions.  Every builtin that makes types
\* functions has its required parameters first and no others behind a sink, and
\* closures take values of any type, hence types as they are.
Plain(f) == Slots(f) \ {f.sink}
Coerces(types) == "function" \in types /\ "type" \notin types
NeverCoerces(f) == \A j \in Plain(f) : ~Coerces(f.params[j].types)
RequiredFirst(f) ==
  /\ PostSink(f) = 0
  /\ \A j, k \in Plain(f) : j < k /\ f.params[k].required => f.params[j].required
Steady(f) == NeverCoerces(f) \/ RequiredFirst(f)

\* A function with a sink requires its other parameters (closures do, and the
\* builtins with sinks); without one, optional parameters stand together
\* (range(start?, end) has them in front, the other builtins last).
OptionalTogether(f) ==
  IF f.sink # 0 THEN \A j \in Plain(f) : f.params[j].required
  ELSE \A i, j, k \in Plain(f) :
         i < j /\ j < k /\ ~f.params[i].required /\ ~f.params[k].required => ~f.params[j].required

\* Who supplied what an error is about: the index of an argument that is
\* written in the call, or the call.
PosOrigins ==
  [i \in DOMAIN FlattenSeq([k \in DOMAIN given |-> given[k].args.pos]) |-> AtCall]
  \o FlattenSeq([k \in DOMAIN written |-> [i \in DOMAIN written[k].args.pos |-> k]])
  \o [i \in DOMAIN outcome.blocks |-> AtCall]
NamedOrigin(name) ==
  LET naming == {k \in DOMAIN written : name \in Names(written[k].args.named)}
  IN  IF naming = {} THEN AtCall ELSE Max(naming)
Offender ==
  CASE outcome.fault.place = "positional" -> PosOrigins[outcome.fault.index]
    [] outcome.fault.place = "nowhere" -> AtCall
    [] OTHER -> NamedOrigin(outcome.fault.name)

IsSpread(k) == written[k].kind = "spread"

(* In a call of the function itself that spreads nothing, an error about   *)
(* an argument is reported at that argument, and one about what was bound  *)
(* ahead or passed as a block at the call.  Calls of its `with` are not    *)
(* meant: there the argument found may be another.                         *)
ErrorAtOffender ==
  outcome.result = "error" /\ Unspreadable(written) = {} /\ (\A k \in DOMAIN written : ~IsSpread(k)) =>
    outcome.at = Offender
=============================================================================
