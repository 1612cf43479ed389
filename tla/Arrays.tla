------------------------------- MODULE Arrays -------------------------------
(***************************************************************************)
(* The methods of arrays, as functions of the elements.  What they do to   *)
(* an array that a loop walks is the subject of Iterators.                 *)
(***************************************************************************)
EXTENDS Values

CONSTANT
  ApplyFunction(_, _) \* what calling a function gives: [how, value]

\* A method gives a value, reports an error, or hands on an error that a
\* callback has reported ("poison").  It can also panic, or run for ever.
Outcome(how, value) == [how |-> how, value |-> value]
Result(value) == Outcome("value", value)
Failure == Outcome("error", None)
Poison == Outcome("poison", None)
Panic == Outcome("panic", None)
Endless == Outcome("endless", None)
OutcomeOf(result) == IF result.ok THEN Result(result.value) ELSE Failure

\* A named argument that may be left out is a sequence of at most one value.
OrDefault(default) == IF default = <<>> THEN Failure ELSE Result(default[1])

\* Indices count from zero, or back from the end.
Index(elems, i) == IF i < 0 THEN i + Len(elems) ELSE i
Within(elems, i) == Index(elems, i) \in 0 .. Len(elems) - 1

-----------------------------------------------------------------------------
(* Elements and pieces.                                                    *)

At(elems, i, default) ==
  IF Within(elems, i) THEN Result(elems[Index(elems, i) + 1]) ELSE OrDefault(default)
First(elems, default) == IF elems = <<>> THEN OrDefault(default) ELSE Result(elems[1])
LastOf(elems, default) == IF elems = <<>> THEN OrDefault(default) ELSE Result(elems[Len(elems)])

\* elems[from:to] of an array with room for spare more elements.
GoSlice(elems, spare, from, to) ==
  IF from < 0 \/ to > Len(elems) + spare THEN Panic
  ELSE Result(Array(SubSeq(elems, from + 1, to)))

\* The element at the end is part of the slice.
SliceEndInclusive(elems, from, end, count) ==
  CASE end # <<>> ->
         IF count # <<>> \/ Index(elems, end[1]) < 0 THEN <<>>
         ELSE <<Min({Len(elems), Index(elems, end[1]) + 1})>>
    [] end = <<>> /\ count # <<>> ->
         IF count[1] < 0 THEN <<>> ELSE <<Wrap(from + count[1])>>
    [] OTHER -> <<Len(elems)>>

\* The end before which a slice stops; <<>> where it is refused.
SliceEnd(elems, from, end, count) ==
  CASE end # <<>> ->
         IF count # <<>> \/ Index(elems, end[1]) < 0 THEN <<>> ELSE <<Index(elems, end[1])>>
    [] end = <<>> /\ count # <<>> ->
         IF count[1] < 0 THEN <<>> ELSE <<Wrap(from + count[1])>>
    [] OTHER -> <<Len(elems)>>

SliceTo(elems, spare, from, to) ==
  IF to = <<>> THEN Failure
  ELSE IF to[1] > Len(elems) THEN Failure
  ELSE GoSlice(elems, spare, from, Max({from, to[1]}))

\* The start is not checked.
Slice(elems, spare, start, end, count) ==
  SliceTo(elems, spare, Index(elems, start), SliceEnd(elems, Index(elems, start), end, count))

Rev(elems) == Result(Array(Reverse(elems)))

Interspersed(elems, seps) ==
  FlattenSeq([i \in DOMAIN elems |-> IF i = 1 THEN <<elems[i]>> ELSE seps \o <<elems[i]>>])
Intersperse(elems, sep) == Result(Array(Interspersed(elems, <<sep>>)))

Windows(elems, size) ==
  IF size <= 0 THEN Failure
  ELSE Result(Array([i \in 1 .. Max({0, Len(elems) - size + 1}) |->
                       Array(SubSeq(elems, i, i + size - 1))]))

ChunkCount(elems, size, exact) ==
  IF exact THEN Len(elems) \div size ELSE (Len(elems) + size - 1) \div size
Chunks(elems, size, exact) ==
  IF size <= 0 THEN Failure
  ELSE Result(Array([i \in 1 .. ChunkCount(elems, size, exact) |->
                       Array(SubSeq(elems, (i - 1) * size + 1, Min({i * size, Len(elems)})))]))

Zip2(elems, others, exact) ==
  IF \E k \in DOMAIN others : others[k].type # "array" THEN Failure
  ELSE IF exact /\ \E k \in DOMAIN others : Len(others[k].v) # Len(elems) THEN Failure
  ELSE Result(Array([i \in 1 .. Min({Len(elems)} \cup {Len(others[k].v) : k \in DOMAIN others}) |->
                       Array(<<elems[i]>> \o [k \in DOMAIN others |-> others[k].v[i]])]))

\* Counting wraps.
Enumerate(elems, start) ==
  Result(Array([i \in DOMAIN elems |-> Array(<<Integer(Wrap(start + i - 1)), elems[i]>>)]))

IsPair(x) == x.type = "array" /\ Len(x.v) = 2 /\ x.v[1].type = "string"
ToDict(elems) ==
  IF \E i \in DOMAIN elems : ~IsPair(elems[i]) THEN Failure
  ELSE Result(Dict(PutAll(<<>>, [i \in DOMAIN elems |-> elems[i].v])))
DictPairs(pairs) == Result(Array([i \in DOMAIN pairs |-> Array(<<Str(pairs[i][1]), pairs[i][2]>>)]))

RangeLen(start, end, step) ==
  IF step > 0 THEN Max({0, (end - start + step - 1) \div step})
  ELSE Max({0, (start - end - step - 1) \div (-step)})

\* The number that ends the loop is past the integers: the loop starts again
\* from the other side of them.
Overruns(start, end, step) ==
  RangeLen(start, end, step) > 0 /\ start + RangeLen(start, end, step) * step \notin Ints
RangeOf(start, end, step) ==
  IF step = 0 THEN Failure
  ELSE IF Overruns(start, end, step) THEN Endless
  ELSE Result(Array([i \in 1 .. RangeLen(start, end, step) |-> Integer(start + (i - 1) * step)]))

-----------------------------------------------------------------------------
(* Combining the elements.                                                 *)

Reduced(op, elems) ==
  FoldLeft(LAMBDA acc, v : IF acc.ok THEN BinaryOp(op, acc.value, v) ELSE acc,
           Gives(elems[1]), Tail(elems))
Combined(op, elems, default) ==
  IF elems = <<>> THEN OrDefault(default) ELSE OutcomeOf(Reduced(op, elems))
Sum2(elems, default) == Combined("+", elems, default)
Product2(elems, default) == Combined("*", elems, default)

\* Joined with sep in between; last is put behind everything.
TypesOf(values) == [i \in DOMAIN values |-> values[i].type]
Given(value) == IF value.type = "none" THEN <<>> ELSE <<value>>
JoinElems(elems, sep, last, default) ==
  IF elems = <<>> THEN IF default = <<>> THEN Result(None) ELSE Result(default[1])
  ELSE OutcomeOf(JoinTyped(Selected(TypesOf(elems \o Given(sep) \o Given(last))),
                           Interspersed(elems, Given(sep)) \o Given(last)))

-----------------------------------------------------------------------------
(* Callbacks.                                                              *)

\* The outcomes of calling f on the elements, one after the other.
Called(f, elems) == [i \in DOMAIN elems |-> ApplyFunction(f, <<elems[i]>>)]
Stops(o) == o.how # "value"
FirstStop(outcomes) == Min({i \in DOMAIN outcomes : Stops(outcomes[i])})
AnyStops(outcomes) == \E i \in DOMAIN outcomes : Stops(outcomes[i])

\* A predicate has to answer with a boolean.
Test(o) == IF o.how = "value" /\ o.value.type # "boolean" THEN Failure ELSE o
Tested(f, elems) == [i \in DOMAIN elems |-> Test(ApplyFunction(f, <<elems[i]>>))]

\* A failing test leaves its element out.
FilteredLeniently(elems, tests) ==
  Result(Array(FlattenSeq([i \in DOMAIN elems |->
    IF tests[i].how = "value" /\ tests[i].value.v = TRUE THEN <<elems[i]>> ELSE <<>>])))

FilteredBy(elems, tests) ==
  IF AnyStops(tests) THEN tests[FirstStop(tests)]
  ELSE Result(Array(FlattenSeq([i \in DOMAIN elems |->
                                  IF tests[i].value.v THEN <<elems[i]>> ELSE <<>>])))
Filter(elems, f) == FilteredBy(elems, Tested(f, elems))

MappedTo(outcomes) ==
  IF AnyStops(outcomes) THEN outcomes[FirstStop(outcomes)]
  ELSE Result(Array([i \in DOMAIN outcomes |-> outcomes[i].value]))
MapElems(elems, f) == MappedTo(Called(f, elems))

\* The search ends at the first element that is found.
PositionIn(tests) ==
  LET ends == {i \in DOMAIN tests : Stops(tests[i]) \/ (tests[i].how = "value" /\ tests[i].value = Bool(TRUE))}
  IN  IF ends = {} THEN Result(None)
      ELSE IF Stops(tests[Min(ends)]) THEN tests[Min(ends)]
      ELSE Result(Integer(Min(ends) - 1))
Position(elems, f) == PositionIn(Tested(f, elems))

Folded(f, init, elems) ==
  FoldLeft(LAMBDA acc, v : IF Stops(acc) THEN acc ELSE ApplyFunction(f, <<acc.value, v>>),
           Result(init), elems)
Fold(elems, init, f) == Folded(f, init, elems)
ReduceElems(elems, f) == IF elems = <<>> THEN Result(None) ELSE Folded(f, elems[1], Tail(elems))

-----------------------------------------------------------------------------
(* Sorting.                                                                *)

\* Comparisons: -1, 0, 1, or what ends the sort.
Poisonous == 3
OrderOfKeys(k, l) ==
  CASE "error" \in {k.how, l.how} -> Incomparable
    [] "error" \notin {k.how, l.how} /\ "poison" \in {k.how, l.how} -> Poisonous
    [] OTHER -> Compare(k.value, l.value)

\* The key of an element; by takes two keys.
NoFunction == "none"
KeyOf(key, v) == IF key = NoFunction THEN Result(v) ELSE ApplyFunction(key, <<v>>)
LessBy(by, k, l) ==
  CASE "error" \in {k.how, l.how} -> Failure
    [] "error" \notin {k.how, l.how} /\ "poison" \in {k.how, l.how} -> Poison
    [] OTHER -> Test(ApplyFunction(by, <<k.value, l.value>>))

\* What decides: an error or poison of the first question, then the second.
OrderFromLess(less, greater) ==
  CASE less.how = "error" -> Incomparable
    [] less.how = "poison" -> Poisonous
    [] less.how = "value" /\ less.value.v -> -1
    [] less.how = "value" /\ ~less.value.v /\ greater.how = "error" -> Incomparable
    [] less.how = "value" /\ ~less.value.v /\ greater.how = "poison" -> Poisonous
    [] OTHER -> IF greater.value.v THEN 1 ELSE 0
OrderOf(key, by, k, l) ==
  IF by = NoFunction THEN OrderOfKeys(k, l) ELSE OrderFromLess(LessBy(by, k, l), LessBy(by, l, k))

\* Equal elements are passed.
PlaceUnstable(key, by, s, v) ==
  Max({0} \cup {j \in DOMAIN s.elems : OrderOf(key, by, KeyOf(key, v), KeyOf(key, s.elems[j])) \notin {-1, 0}})

\* An element moves to the front past those it is less than.
Place(key, by, s, v) ==
  Max({0} \cup {j \in DOMAIN s.elems : OrderOf(key, by, KeyOf(key, v), KeyOf(key, s.elems[j])) # -1})

\* Where it stops, the comparison may have failed, which counts as equal.
PutAt(key, by, s, v, place) ==
  [elems |-> InsertAt(s.elems, place + 1, v),
   ends |-> s.ends \cup (IF place = 0 THEN {}
                         ELSE {OrderOf(key, by, KeyOf(key, v), KeyOf(key, s.elems[place]))}
                              \cap {Incomparable, Poisonous})]
InsertionSort(key, by, elems) ==
  FoldLeft(LAMBDA s, v : PutAt(key, by, s, v, Place(key, by, s, v)),
           [elems |-> <<>>, ends |-> {}], elems)
SortOutcome(s) ==
  IF Poisonous \in s.ends THEN Poison
  ELSE IF Incomparable \in s.ends THEN Failure
  ELSE Result(Array(s.elems))
Sorted(elems, key, by) == SortOutcome(InsertionSort(key, by, elems))

-----------------------------------------------------------------------------
(* Leaving out what was seen, by binary search in the keys.                *)

\* The first of the keys from lo on that is not before k.
RECURSIVE LowerBound(_, _, _, _)
LowerBound(seen, k, lo, hi) ==
  IF lo >= hi THEN lo
  ELSE IF Compare(seen[(lo + hi) \div 2 + 1], k) = -1
       THEN LowerBound(seen, k, (lo + hi) \div 2 + 1, hi)
       ELSE LowerBound(seen, k, lo, (lo + hi) \div 2)
RECURSIVE Probes(_, _, _, _)
Probes(seen, k, lo, hi) ==
  IF lo >= hi THEN IF lo < Len(seen) THEN {Compare(seen[lo + 1], k)} ELSE {}
  ELSE {Compare(seen[(lo + hi) \div 2 + 1], k)}
       \cup IF Compare(seen[(lo + hi) \div 2 + 1], k) = -1
            THEN Probes(seen, k, (lo + hi) \div 2 + 1, hi)
            ELSE Probes(seen, k, lo, (lo + hi) \div 2)

\* The key is put behind the others.
SeeLast(s, v, k, place) ==
  IF place < Len(s.seen) /\ Compare(s.seen[place + 1], k) \in {0, Incomparable} THEN s
  ELSE [s EXCEPT !.seen = Append(@, k), !.elems = Append(@, v)]

See(s, v, k, place) ==
  IF place < Len(s.seen) /\ Compare(s.seen[place + 1], k) \in {0, Incomparable} THEN s
  ELSE [s EXCEPT !.seen = InsertAt(@, place + 1, k), !.elems = Append(@, v)]

DedupStep(s, v, k) ==
  IF Stops(s.outcome) THEN s
  ELSE IF Stops(k) THEN [s EXCEPT !.outcome = k]
  ELSE [See(s, v, k.value, LowerBound(s.seen, k.value, 0, Len(s.seen)))
          EXCEPT !.failed = s.failed \/ Incomparable \in Probes(s.seen, k.value, 0, Len(s.seen))]
DedupOutcome(s) ==
  IF Stops(s.outcome) THEN s.outcome ELSE IF s.failed THEN Failure ELSE Result(Array(s.elems))
Dedup(elems, key) ==
  DedupOutcome(FoldLeft(LAMBDA s, v : DedupStep(s, v, KeyOf(key, v)),
                        [seen |-> <<>>, elems |-> <<>>, failed |-> FALSE, outcome |-> Result(None)],
                        elems))
=============================================================================
