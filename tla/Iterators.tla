----------------------------- MODULE Iterators ------------------------------
(***************************************************************************)
(* `for` loops over a dictionary and an array that their bodies change:    *)
(* newIterator, IterHasNext and IterAdvance of the evaluator, and the      *)
(* builtins that change a container in place.  Loops nest, over the same   *)
(* container or over both.                                                 *)
(*                                                                         *)
(* An iterator over a dictionary keeps the slice of keys it had when it    *)
(* was opened, which is the map's own.  One over an array keeps the array. *)
(***************************************************************************)
EXTENDS OrderedMap, TLC

CONSTANTS
  MaxElems,  \* bound: elements of the array
  MaxLoops,  \* bound: loops open at once
  MaxVisits  \* bound: iterations of a loop over an array

ASSUME IteratorsAssumption ==
  MaxElems \in Nat /\ MaxLoops \in Nat /\ MaxVisits \in Nat

VARIABLES
  elems,    \* the array's Elems
  loops,    \* the open loops, innermost last
  crashed   \* an index was out of range

vars == <<mapVars, elems, loops, crashed>>

Init == MapInit /\ elems = <<>> /\ loops = <<>> /\ crashed = FALSE

-----------------------------------------------------------------------------
(* The iterators.                                                          *)

Top == loops[Len(loops)]

\* Where statements run: outside all loops, or in the innermost one's body.
InCode == ~crashed /\ (loops # <<>> => Top.inBody)

(***************************************************************************)
(* cells and len are the slice of keys, 0 for an array.  seen, atOpen and  *)
(* disturbed are history: what the iterations were given, what the loop    *)
(* was opened on, and whether an element has been taken out or moved.      *)
(***************************************************************************)
Iterator(kind, cells, len, content) ==
  [kind |-> kind, cells |-> cells, len |-> len, pos |-> 0,
   hasNext |-> content # <<>>, inBody |-> FALSE,
   seen |-> <<>>, atOpen |-> content, disturbed |-> FALSE]

Open(it) ==
  /\ InCode /\ Len(loops) < MaxLoops
  /\ loops' = Append(loops, it)
  /\ UNCHANGED <<mapVars, elems, crashed>>

OpenDict == Open(Iterator("dict", Len(heap), Len(values), keys))

OpenArray == Open(Iterator("array", 0, 0, elems))

AtHeader == ~crashed /\ loops # <<>> /\ ~Top.inBody

\* Variant: the last element is not reached.
AdvancedShort(it, elem, n) ==
  LET next == IF it.pos + 1 < n THEN it.pos + 1 ELSE n
  IN  [it EXCEPT !.pos = next, !.hasNext = next + 1 < n, !.inBody = TRUE,
                 !.seen = Append(@, elem)]

\* Variant: the loop runs once more after the last element.
AdvancedPast(it, elem, n) ==
  LET next == IF it.pos + 1 < n THEN it.pos + 1 ELSE n
  IN  [it EXCEPT !.pos = next, !.hasNext = next <= n, !.inBody = TRUE,
                 !.seen = Append(@, elem)]

\* next: the element at pos, and whether one follows it now.
Advanced(it, elem, n) ==
  LET next == IF it.pos + 1 < n THEN it.pos + 1 ELSE n
  IN  [it EXCEPT !.pos = next, !.hasNext = next < n, !.inBody = TRUE,
                 !.seen = Append(@, elem)]

\* Variant: the length is the dictionary's own by now.
DictLengthNow(it) == Len(values)

\* The length of the slice of keys.
DictLength(it) == it.len

AdvanceDict ==
  /\ AtHeader /\ Top.hasNext /\ Top.kind = "dict"
  /\ LET k == heap[Top.cells][Top.pos + 1]
     IN  loops' = [loops EXCEPT ![Len(loops)] =
                     Advanced(@, <<k, Get(k)>>, DictLength(@))]
  /\ UNCHANGED <<mapVars, elems, crashed>>

AdvanceArray ==
  /\ AtHeader /\ Top.hasNext /\ Top.kind = "array" /\ Len(Top.seen) < MaxVisits
  /\ IF Top.pos < Len(elems)
     THEN /\ loops' = [loops EXCEPT ![Len(loops)] =
                         Advanced(@, elems[@.pos + 1], Len(elems))]
          /\ UNCHANGED crashed
     ELSE crashed' = TRUE /\ UNCHANGED loops
  /\ UNCHANGED <<mapVars, elems>>

\* The end of the body.
Repeat ==
  /\ InCode /\ loops # <<>>
  /\ loops' = [loops EXCEPT ![Len(loops)].inBody = FALSE]
  /\ UNCHANGED <<mapVars, elems, crashed>>

\* No element is left, or the body breaks.
Leave ==
  /\ loops # <<>> /\ ~crashed
  /\ Top.hasNext => Top.inBody
  /\ loops' = SubSeq(loops, 1, Len(loops) - 1)
  /\ UNCHANGED <<mapVars, elems, crashed>>

-----------------------------------------------------------------------------
(* What a body can do to the containers.                                   *)

Disturb(kind) ==
  loops' = [l \in DOMAIN loops |->
              IF loops[l].kind = kind THEN [loops[l] EXCEPT !.disturbed = TRUE]
                                      ELSE loops[l]]

\* insert, or an assignment to an entry or a field.
DictInsert(k, v) == InCode /\ Put(k, v) /\ UNCHANGED <<elems, loops, crashed>>

DictRemove(k) == InCode /\ Delete(k) /\ Disturb("dict") /\ UNCHANGED <<elems, crashed>>

\* A negative index counts from the end.
Position(i) == IF i < 0 THEN i + Len(elems) ELSE i

Push(v) ==
  /\ InCode /\ Len(elems) < MaxElems
  /\ elems' = Append(elems, v)
  /\ UNCHANGED <<mapVars, loops, crashed>>

Insert(i, v) ==
  /\ InCode /\ Len(elems) < MaxElems
  /\ Position(i) \in 0 .. Len(elems)
  /\ elems' = SubSeq(elems, 1, Position(i)) \o <<v>>
                \o SubSeq(elems, Position(i) + 1, Len(elems))
  /\ Disturb("array") /\ UNCHANGED <<mapVars, crashed>>

Remove(i) ==
  /\ InCode
  /\ Position(i) \in 0 .. Len(elems) - 1
  /\ elems' = Shifted(elems, Position(i) + 1)
  /\ Disturb("array") /\ UNCHANGED <<mapVars, crashed>>

Pop ==
  /\ InCode /\ elems # <<>>
  /\ elems' = SubSeq(elems, 1, Len(elems) - 1)
  /\ Disturb("array") /\ UNCHANGED <<mapVars, crashed>>

\* The setter that `at`, `first` and `last` give to an assignment.
SetAt(i, v) ==
  /\ InCode
  /\ Position(i) \in 0 .. Len(elems) - 1
  /\ elems' = [elems EXCEPT ![Position(i) + 1] = v]
  /\ UNCHANGED <<mapVars, loops, crashed>>

Indices == - MaxElems .. MaxElems

Next ==
  \/ OpenDict \/ OpenArray \/ AdvanceDict \/ AdvanceArray \/ Repeat \/ Leave
  \/ \E k \in Keys, v \in Vals : DictInsert(k, v)
  \/ \E k \in Keys : DictRemove(k)
  \/ \E v \in Vals : Push(v)
  \/ \E i \in Indices, v \in Vals : Insert(i, v) \/ SetAt(i, v)
  \/ \E i \in Indices : Remove(i)
  \/ Pop

Spec == Init /\ [][Next]_vars

-----------------------------------------------------------------------------
(* Properties.                                                             *)

\* What an iteration is given: an element, or a key and its value.
Given == Vals \cup ((Keys \cup {NoKey}) \X (Vals \cup {NoVal}))

Loop ==
  [kind : {"dict", "array"}, cells : Nat, len : Nat, pos : Nat,
   hasNext : BOOLEAN, inBody : BOOLEAN, seen : Seq(Given),
   atOpen : Seq(Keys \cup Vals), disturbed : BOOLEAN]

\* The type of every variable: a loop's slice of keys lies in a backing array.
TypeOK ==
  /\ MapTypeOK
  /\ elems \in Seq(Vals) /\ crashed \in BOOLEAN
  /\ loops \in Seq(Loop)
  /\ \A l \in DOMAIN loops : loops[l].kind = "dict" =>
       /\ loops[l].cells \in DOMAIN heap
       /\ loops[l].len <= Len(heap[loops[l].cells])

Loops(kind) == {loops[l] : l \in {m \in DOMAIN loops : loops[m].kind = kind}}

\* A loop over a dictionary ends: it runs at most once per key there was when it
\* was opened, whatever its body or an inner loop adds, removes or adds again.
DictLoopsBounded ==
  \A it \in Loops("dict") :
    /\ Len(it.seen) <= Len(it.atOpen)
    /\ it.hasNext => Len(it.seen) < Len(it.atOpen)

\* As long as no key is removed, its iterations are given the keys there were at
\* the start, in order and with a value each, and all of them by its end; keys
\* that are added, and the map moving to a new array, go unnoticed.
GrowingDictLoops ==
  \A it \in Loops("dict") : ~it.disturbed =>
    /\ \A j \in DOMAIN it.seen :
         it.seen[j][1] = it.atOpen[j] /\ it.seen[j][2] \in Vals
    /\ ~it.hasNext => Len(it.seen) = Len(it.atOpen)

\* A loop over an array that is only appended to stays inside it, and leaves out
\* no element there was at the start.
GrowingArrayLoops ==
  \A it \in Loops("array") : ~it.disturbed =>
    /\ it.hasNext => it.pos < Len(elems)
    /\ it.pos <= Len(elems) /\ Len(it.seen) = it.pos
    /\ ~it.hasNext => Len(it.seen) >= Len(it.atOpen)

\* For TLC: one key is as good as another.
KeySymmetry == Permutations(Keys)
=============================================================================
