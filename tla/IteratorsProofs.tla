-------------------------- MODULE IteratorsProofs ---------------------------
(***************************************************************************)
(* Proofs about Iterators and the ordered map under it, for every set of   *)
(* keys and values, any number of loops nested in one another and          *)
(* containers of any size.                                                 *)
(*                                                                         *)
(* The inductive invariant adds to the properties why an iterator's slice  *)
(* keeps its content while no key is removed: if it still shares the       *)
(* backing array in use, it ends no later than the keys do, so append only *)
(* writes behind it.                                                       *)
(***************************************************************************)
EXTENDS Iterators, TLAPS

\* How an iterator over a dictionary and its history relate.
DictLoopInv(it) ==
  /\ it.len = Len(it.atOpen) /\ Len(it.seen) = it.pos /\ it.pos <= it.len
  /\ it.hasNext <=> it.pos < it.len
  /\ ~it.disturbed =>
       /\ \A j \in 1 .. it.len : it.atOpen[j] \in DOMAIN index
                                 /\ heap[it.cells][j] = it.atOpen[j]
       /\ it.cells = Len(heap) => it.len <= Len(values)
       /\ \A j \in 1 .. it.pos : /\ it.seen[j][1] = it.atOpen[j]
                                 /\ it.seen[j][2] \in Vals

ArrayLoopInv(it) ==
  ~it.disturbed =>
    /\ it.hasNext => it.pos < Len(elems)
    /\ it.pos <= Len(elems) /\ Len(it.seen) = it.pos
    /\ ~it.hasNext => Len(it.seen) >= Len(it.atOpen)
    /\ Len(it.atOpen) <= Len(elems)

LoopInv ==
  \A l \in DOMAIN loops :
    /\ loops[l].kind = "dict" => DictLoopInv(loops[l])
    /\ loops[l].kind = "array" => ArrayLoopInv(loops[l])

IInv == TypeOK /\ IndexInStep /\ LoopInv

-----------------------------------------------------------------------------
(* The map.                                                                *)

\* Appending a key: the array in use has room for it, and no cell that held a
\* key changes, in this array or an earlier one.
LEMMA AppendKeyLemma ==
  ASSUME MapTypeOK, NEW k \in Keys, AppendKey(k)
  PROVE  /\ heap' \in Seq(Seq(Keys \cup {NoKey})) /\ heap' # <<>>
         /\ Len(values) + 1 <= Len(heap'[Len(heap')])
         /\ heap'[Len(heap')][Len(values) + 1] = k
         /\ \A i \in 1 .. Len(values) : heap'[Len(heap')][i] = Cells[i]
         /\ Len(heap) <= Len(heap')
         /\ \A b \in DOMAIN heap :
              /\ Len(heap'[b]) = Len(heap[b])
              /\ \A j \in 1 .. Len(heap[b]) :
                   b < Len(heap) \/ j <= Len(values) => heap'[b][j] = heap[b][j]
<1> USE DEF MapTypeOK, Cells
<1>1. Len(heap) \in DOMAIN heap /\ Cells \in Seq(Keys \cup {NoKey})
  OBVIOUS
<1>2. CASE Len(values) < Len(Cells)
  <2> DEFINE cells == [Cells EXCEPT ![Len(values) + 1] = k]
  <2>1. cells \in Seq(Keys \cup {NoKey}) /\ Len(cells) = Len(Cells)
    BY <1>1, <1>2
  <2>2. heap' = [heap EXCEPT ![Len(heap)] = cells]
    BY <1>2 DEF AppendKey
  <2> HIDE DEF cells
  <2>3. heap' \in Seq(Seq(Keys \cup {NoKey})) /\ Len(heap') = Len(heap)
        /\ heap'[Len(heap')] = cells
    BY <1>1, <2>1, <2>2
  <2>4. \A b \in DOMAIN heap : b # Len(heap) => heap'[b] = heap[b]
    BY <2>2
  <2>5. \A j \in 1 .. Len(Cells) : cells[j] = IF j = Len(values) + 1 THEN k ELSE Cells[j]
    BY <1>1 DEF cells
  <2>6. /\ Len(values) + 1 <= Len(cells) /\ cells[Len(values) + 1] = k
        /\ \A i \in 1 .. Len(values) : cells[i] = Cells[i]
    <3>1. Len(values) \in Nat /\ Len(values) + 1 \in 1 .. Len(Cells)
      BY <1>1, <1>2
    <3> HIDE DEF Cells, MapTypeOK
    <3>2. QED
      BY <2>1, <2>5, <3>1
  <2>7. ASSUME NEW b \in DOMAIN heap
        PROVE  /\ Len(heap'[b]) = Len(heap[b])
               /\ \A j \in 1 .. Len(heap[b]) :
                    b < Len(heap) \/ j <= Len(values) => heap'[b][j] = heap[b][j]
    <3>1. CASE b = Len(heap)
      BY <1>1, <2>1, <2>3, <2>5, <3>1
    <3>2. CASE b # Len(heap)
      BY <2>4, <3>2
    <3>3. QED
      BY <3>1, <3>2
  <2>8. QED
    BY <1>1, <2>3, <2>6, <2>7
<1>3. CASE ~(Len(values) < Len(Cells))
  <2>1. PICK cap \in {Len(values) + 1, 2 * Len(values) + 1} :
          heap' = Append(heap, Grown(k, cap))
    BY <1>3 DEF AppendKey
  <2>2. cap \in Nat /\ cap >= Len(values) + 1 /\ Len(values) \in Nat
    OBVIOUS
  <2>3. Grown(k, cap) \in Seq(Keys \cup {NoKey}) /\ Len(Grown(k, cap)) = cap
    <3>1. \A i \in 1 .. Len(values) : Cells[i] \in Keys \cup {NoKey}
      BY <1>1, <2>2
    <3>2. Grown(k, cap) \in [1 .. cap -> Keys \cup {NoKey}]
      BY <2>2, <3>1 DEF Grown
    <3> HIDE DEF MapTypeOK, Cells
    <3>3. QED
      BY <2>2, <3>2
  <2>4. /\ \A i \in 1 .. Len(values) : Grown(k, cap)[i] = Cells[i]
        /\ Grown(k, cap)[Len(values) + 1] = k
    BY <2>2 DEF Grown
  <2>5. QED
    BY <2>1, <2>2, <2>3, <2>4
<1>4. QED
  BY <1>2, <1>3

\* Put keeps the map well typed and its parts in step, removes no key, and
\* disturbs no cell that held a key.
LEMMA PutLemma ==
  ASSUME MapTypeOK, IndexInStep, NEW k \in Keys, NEW v \in Vals, Put(k, v)
  PROVE  /\ MapTypeOK' /\ IndexInStep'
         /\ DOMAIN index \subseteq DOMAIN index'
         /\ Len(heap) <= Len(heap') /\ Len(values) <= Len(values')
         /\ \A b \in DOMAIN heap :
              /\ Len(heap'[b]) = Len(heap[b])
              /\ \A j \in 1 .. Len(heap[b]) :
                   b < Len(heap) \/ j <= Len(values) => heap'[b][j] = heap[b][j]
<1>1. CASE Holds(k)
  <2>1. UNCHANGED <<heap, index>> /\ values' = [values EXCEPT ![index[k]] = v]
    BY <1>1 DEF Put
  <2>2. values' \in Seq(Vals) /\ Len(values') = Len(values)
    <3>1. index[k] \in 1 .. Len(values)
      BY <1>1 DEF IndexInStep, Holds
    <3>2. QED
      BY <2>1, <3>1 DEF MapTypeOK
  <2>3. QED
    BY <2>1, <2>2 DEF MapTypeOK, IndexInStep, Cells
<1>2. CASE ~Holds(k)
  <2>1. /\ AppendKey(k) /\ values' = Append(values, v)
        /\ index' = [j \in DOMAIN index \cup {k} |->
                       IF j = k THEN Len(values) + 1 ELSE index[j]]
    BY <1>2 DEF Put, AddEntry
  <2>2. values' \in Seq(Vals) /\ Len(values') = Len(values) + 1
    BY <2>1 DEF MapTypeOK
  <2>3. MapTypeOK'
    BY <2>1, <2>2, AppendKeyLemma DEF MapTypeOK, Cells
  <2>4. IndexInStep'
    <3>1. ASSUME NEW i \in 1 .. Len(values')
          PROVE  Cells'[i] \in DOMAIN index' /\ index'[Cells'[i]] = i
      <4>1. Len(values) \in Nat
        BY DEF MapTypeOK
      <4>2. CASE i = Len(values) + 1
        BY <2>1, <4>2, AppendKeyLemma DEF Cells
      <4>3. CASE i # Len(values) + 1
        <5>1. i \in 1 .. Len(values)
          BY <2>2, <4>1, <4>3
        <5>2. Cells'[i] = Cells[i]
          BY <2>1, <5>1, AppendKeyLemma DEF Cells
        <5>3. Cells[i] \in DOMAIN index /\ index[Cells[i]] = i /\ Cells[i] # k
          BY <1>2, <5>1 DEF IndexInStep, Holds
        <5>4. QED
          BY <2>1, <5>2, <5>3
      <4>4. QED
        BY <4>2, <4>3
    <3>2. ASSUME NEW j \in DOMAIN index'
          PROVE  index'[j] \in 1 .. Len(values') /\ Cells'[index'[j]] = j
      <4>1. Len(values) \in Nat
        BY DEF MapTypeOK
      <4>2. CASE j = k
        BY <2>1, <2>2, <4>1, <4>2, AppendKeyLemma DEF Cells
      <4>3. CASE j # k
        <5>1. j \in DOMAIN index /\ index'[j] = index[j]
          BY <2>1, <4>3
        <5>2. index[j] \in 1 .. Len(values) /\ Cells[index[j]] = j
          BY <5>1 DEF IndexInStep
        <5>3. Cells'[index[j]] = Cells[index[j]]
          BY <2>1, <5>2, AppendKeyLemma DEF Cells
        <5>4. QED
          BY <2>2, <4>1, <5>1, <5>2, <5>3
      <4>4. QED
        BY <4>2, <4>3
    <3>3. QED
      BY <3>1, <3>2 DEF IndexInStep
  <2>5. QED
    BY <2>1, <2>2, <2>3, <2>4, AppendKeyLemma DEF MapTypeOK
<1>3. QED
  BY <1>1, <1>2

\* Delete keeps the map well typed and its parts in step, and moves nothing to
\* another array.
LEMMA DeleteLemma ==
  ASSUME MapTypeOK, IndexInStep, NEW k \in Keys, Delete(k)
  PROVE  /\ MapTypeOK' /\ IndexInStep'
         /\ Len(heap') = Len(heap)
         /\ \A b \in DOMAIN heap : Len(heap'[b]) = Len(heap[b])
<1> DEFINE n == Len(values)
           pos == index[k]
<1>1. pos \in 1 .. n /\ Cells[pos] = k /\ k \in DOMAIN index /\ n \in Nat
  BY DEF Delete, Holds, IndexInStep, MapTypeOK
<1>2. Len(heap) \in DOMAIN heap /\ Cells \in Seq(Keys \cup {NoKey}) /\ n <= Len(Cells)
  BY DEF MapTypeOK, Cells
<1>3. Closed(pos) \in Seq(Keys \cup {NoKey}) /\ Len(Closed(pos)) = Len(Cells)
  BY <1>1, <1>2 DEF Closed
<1>4. /\ heap' \in Seq(Seq(Keys \cup {NoKey})) /\ Len(heap') = Len(heap) /\ heap' # <<>>
      /\ Cells' = Closed(pos)
      /\ \A b \in DOMAIN heap : Len(heap'[b]) = Len(heap[b])
  BY <1>2, <1>3 DEF Delete, MapTypeOK, Cells
<1>5. values' \in Seq(Vals) /\ Len(values') = n - 1
  BY <1>1 DEF Delete, Shifted, MapTypeOK
<1>6. /\ DOMAIN index' = DOMAIN index \ {k}
      /\ \A j \in DOMAIN index' :
           index'[j] = IF index[j] > pos THEN index[j] - 1 ELSE index[j]
  BY DEF Delete, Reindexed
<1>7. \A i \in 1 .. n - 1 : Closed(pos)[i] = IF pos <= i THEN Cells[i + 1] ELSE Cells[i]
  BY <1>1, <1>2 DEF Closed
<1> HIDE DEF n, pos
<1>8. MapTypeOK'
  <2>1. index' \in [DOMAIN index' -> Nat] /\ DOMAIN index' \subseteq Keys
    <3>1. \A j \in DOMAIN index' : index'[j] \in Nat
      BY <1>1, <1>6 DEF MapTypeOK, n
    <3>2. index' = [j \in DOMAIN index' |-> index'[j]]
      BY DEF Delete, Reindexed
    <3>3. QED
      BY <1>6, <3>1, <3>2 DEF MapTypeOK
  <2>2. QED
    BY <1>1, <1>2, <1>3, <1>4, <1>5, <2>1 DEF MapTypeOK
<1>9. IndexInStep'
  <2>1. ASSUME NEW i \in 1 .. n - 1
        PROVE  Cells'[i] \in DOMAIN index' /\ index'[Cells'[i]] = i
    <3>1. CASE pos <= i
      <4>1. Cells'[i] = Cells[i + 1] /\ i + 1 \in 1 .. n
        BY <1>1, <1>4, <1>7, <3>1
      <4>2. Cells[i + 1] \in DOMAIN index /\ index[Cells[i + 1]] = i + 1
        BY <4>1 DEF IndexInStep, n
      <4>3. QED
        BY <1>1, <1>6, <3>1, <4>1, <4>2 DEF pos
    <3>2. CASE ~(pos <= i)
      <4>1. Cells'[i] = Cells[i] /\ i \in 1 .. n
        BY <1>1, <1>4, <1>7, <3>2
      <4>2. Cells[i] \in DOMAIN index /\ index[Cells[i]] = i
        BY <4>1 DEF IndexInStep, n
      <4>3. QED
        BY <1>1, <1>6, <3>2, <4>1, <4>2 DEF pos
    <3>3. QED
      BY <3>1, <3>2
  <2>2. ASSUME NEW j \in DOMAIN index'
        PROVE  index'[j] \in 1 .. n - 1 /\ Cells'[index'[j]] = j
    <3>1. j \in DOMAIN index /\ index[j] \in 1 .. n /\ Cells[index[j]] = j /\ j # k
      BY <1>6 DEF IndexInStep, n
    <3>2. index[j] # pos
      BY <1>1, <3>1
    <3>3. CASE index[j] > pos
      <4>1. index'[j] = index[j] - 1 /\ index[j] - 1 \in 1 .. n - 1 /\ pos <= index[j] - 1
        BY <1>1, <1>6, <3>1, <3>3
      <4>2. Closed(pos)[index[j] - 1] = Cells[index[j] - 1 + 1]
        BY <1>7, <4>1
      <4>3. index[j] - 1 + 1 = index[j]
        BY <1>1, <3>1
      <4>4. QED
        BY <1>4, <3>1, <4>1, <4>2, <4>3
    <3>4. CASE ~(index[j] > pos)
      <4>1. index'[j] = index[j] /\ index[j] \in 1 .. n - 1 /\ ~(pos <= index[j])
        BY <1>1, <1>6, <3>1, <3>2, <3>4
      <4>2. QED
        BY <1>4, <1>7, <3>1, <4>1
    <3>5. QED
      BY <3>3, <3>4
  <2>3. QED
    BY <1>5, <2>1, <2>2 DEF IndexInStep
<1>10. QED
  BY <1>4, <1>8, <1>9

-----------------------------------------------------------------------------
(* The loops.                                                              *)

\* What Advanced does to the fields of a loop.
LEMMA AdvancedLemma ==
  ASSUME NEW it \in Loop, NEW elem \in Given, NEW n \in Nat
  PROVE  LET new == Advanced(it, elem, n)
             next == IF it.pos + 1 < n THEN it.pos + 1 ELSE n
         IN  /\ new \in Loop
             /\ new.kind = it.kind /\ new.cells = it.cells /\ new.len = it.len
             /\ new.atOpen = it.atOpen /\ new.disturbed = it.disturbed
             /\ new.pos = next /\ new.hasNext = (next < n)
             /\ new.seen = Append(it.seen, elem)
<1> DEFINE next == IF it.pos + 1 < n THEN it.pos + 1 ELSE n
           more == next < n
           seen == Append(it.seen, elem)
           result == [it EXCEPT !.pos = next, !.hasNext = more, !.inBody = TRUE,
                                !.seen = seen]
<1>1. it.pos \in Nat /\ it.seen \in Seq(Given)
  BY DEF Loop
<1>2. next \in Nat /\ more \in BOOLEAN /\ seen \in Seq(Given)
  BY <1>1
<1>3. Advanced(it, elem, n) = result
  BY Zenon DEF Advanced
<1> HIDE DEF next, more, seen
<1>4. result \in Loop
  BY <1>2 DEF Loop
<1>5. result.hasNext = more
  BY <1>2 DEF Loop
<1>6. /\ result.kind = it.kind /\ result.cells = it.cells /\ result.len = it.len
      /\ result.atOpen = it.atOpen /\ result.disturbed = it.disturbed
      /\ result.pos = next /\ result.seen = seen
  BY <1>2 DEF Loop
<1> HIDE DEF result
<1>7. QED
  BY <1>3, <1>4, <1>5, <1>6, Zenon DEF next, more, seen

\* A removal disturbs the loops over its container and changes no other field.
LEMMA DisturbLemma ==
  ASSUME NEW kind, loops \in Seq(Loop), Disturb(kind)
  PROVE  /\ loops' \in Seq(Loop) /\ DOMAIN loops' = DOMAIN loops
         /\ \A l \in DOMAIN loops :
              IF loops[l].kind = kind
              THEN /\ loops'[l].disturbed = TRUE
                   /\ loops'[l].kind = loops[l].kind
                   /\ loops'[l].cells = loops[l].cells /\ loops'[l].len = loops[l].len
                   /\ loops'[l].pos = loops[l].pos
                   /\ loops'[l].hasNext = loops[l].hasNext
                   /\ loops'[l].seen = loops[l].seen
                   /\ loops'[l].atOpen = loops[l].atOpen
              ELSE loops'[l] = loops[l]
<1>1. Len(loops) \in Nat /\ DOMAIN loops = 1 .. Len(loops)
  OBVIOUS
<1>2. ASSUME NEW l \in DOMAIN loops
      PROVE  [loops[l] EXCEPT !.disturbed = TRUE] \in Loop
  <2>1. loops[l] \in Loop
    BY <1>1
  <2>2. QED
    BY <2>1 DEF Loop
<1>3. loops' \in [1 .. Len(loops) -> Loop]
  BY <1>1, <1>2 DEF Disturb
<1>4. loops' \in Seq(Loop) /\ DOMAIN loops' = DOMAIN loops
  BY <1>1, <1>3
<1>5. ASSUME NEW l \in DOMAIN loops, loops[l].kind = kind
      PROVE  /\ loops'[l].disturbed = TRUE
             /\ loops'[l].kind = loops[l].kind
             /\ loops'[l].cells = loops[l].cells /\ loops'[l].len = loops[l].len
             /\ loops'[l].pos = loops[l].pos
             /\ loops'[l].hasNext = loops[l].hasNext
             /\ loops'[l].seen = loops[l].seen
             /\ loops'[l].atOpen = loops[l].atOpen
  <2>1. loops'[l] = [loops[l] EXCEPT !.disturbed = TRUE] /\ loops[l] \in Loop
    BY <1>1, <1>5 DEF Disturb
  <2>2. QED
    BY <2>1 DEF Loop
<1>6. QED
  BY <1>4, <1>5 DEF Disturb

\* What the invariant says of one loop.
LoopOK(it) ==
  /\ it.kind = "dict" => /\ it.cells \in DOMAIN heap /\ it.len <= Len(heap[it.cells])
                         /\ DictLoopInv(it)
  /\ it.kind = "array" => ArrayLoopInv(it)

LEMMA IInvByParts ==
  IInv <=> /\ MapTypeOK /\ IndexInStep
           /\ elems \in Seq(Vals) /\ crashed \in BOOLEAN
           /\ loops \in Seq(Loop)
           /\ \A l \in DOMAIN loops : LoopOK(loops[l])
BY DEF IInv, TypeOK, LoopInv, LoopOK

\* Replacing and removing the last element of a sequence.
LEMMA LastLemma ==
  ASSUME NEW S, NEW s \in Seq(S), s # <<>>, NEW e \in S
  PROVE  /\ Len(s) \in DOMAIN s /\ s[Len(s)] \in S
         /\ [s EXCEPT ![Len(s)] = e] \in Seq(S)
         /\ DOMAIN [s EXCEPT ![Len(s)] = e] = DOMAIN s
         /\ \A l \in DOMAIN s : [s EXCEPT ![Len(s)] = e][l] = e
                               \/ [s EXCEPT ![Len(s)] = e][l] = s[l]
         /\ SubSeq(s, 1, Len(s) - 1) \in Seq(S)
         /\ DOMAIN SubSeq(s, 1, Len(s) - 1) \subseteq DOMAIN s
         /\ \A l \in DOMAIN SubSeq(s, 1, Len(s) - 1) : SubSeq(s, 1, Len(s) - 1)[l] = s[l]
<1>1. Len(s) \in Nat /\ Len(s) >= 1 /\ DOMAIN s = 1 .. Len(s)
  OBVIOUS
<1>2. Len(s) \in DOMAIN s /\ s[Len(s)] \in S
  BY <1>1
<1>3. [s EXCEPT ![Len(s)] = e] \in [1 .. Len(s) -> S]
  BY <1>1
<1>4. /\ SubSeq(s, 1, Len(s) - 1) \in Seq(S)
      /\ DOMAIN SubSeq(s, 1, Len(s) - 1) = 1 .. Len(s) - 1
      /\ \A l \in 1 .. Len(s) - 1 : SubSeq(s, 1, Len(s) - 1)[l] = s[l]
  BY <1>1
<1>5. QED
  BY <1>1, <1>2, <1>3, <1>4

\* A step that only replaces the innermost loop, removes it or adds one keeps the
\* invariant if the new loop satisfies it.
LEMMA ReplaceLoop ==
  ASSUME IInv, UNCHANGED <<mapVars, elems>>, crashed' \in BOOLEAN,
         NEW new \in Loop, LoopOK(new),
         \/ loops' = Append(loops, new)
         \/ loops # <<>> /\ loops' = [loops EXCEPT ![Len(loops)] = new]
         \/ loops # <<>> /\ loops' = SubSeq(loops, 1, Len(loops) - 1)
         \/ UNCHANGED loops
  PROVE  IInv'
<1>1. UNCHANGED <<heap, values, index, elems>>
  BY DEF mapVars
<1>2. MapTypeOK' /\ IndexInStep' /\ elems' \in Seq(Vals)
  BY <1>1, IInvByParts DEF MapTypeOK, IndexInStep, Cells
<1>3. loops \in Seq(Loop) /\ Len(loops) \in Nat /\ DOMAIN loops = 1 .. Len(loops)
  BY IInvByParts
<1>4. /\ loops' \in Seq(Loop)
      /\ \A l \in DOMAIN loops' :
           loops'[l] = new \/ (l \in DOMAIN loops /\ loops'[l] = loops[l])
  <2>1. CASE loops' = Append(loops, new)
    BY <1>3, <2>1
  <2>2. CASE loops # <<>> /\ loops' = [loops EXCEPT ![Len(loops)] = new]
    BY <1>3, <2>2, LastLemma
  <2>3. CASE loops # <<>> /\ loops' = SubSeq(loops, 1, Len(loops) - 1)
    <3>1. /\ loops' \in Seq(Loop) /\ DOMAIN loops' \subseteq DOMAIN loops
          /\ \A l \in DOMAIN loops' : loops'[l] = loops[l]
      BY <1>3, <2>3, LastLemma
    <3>2. QED
      BY <3>1
  <2>4. CASE UNCHANGED loops
    BY <1>3, <2>4
  <2>5. QED
    BY <2>1, <2>2, <2>3, <2>4
<1>5. ASSUME NEW l \in DOMAIN loops'
      PROVE  /\ loops'[l].kind = "dict" => /\ loops'[l].cells \in DOMAIN heap'
                                           /\ loops'[l].len <= Len(heap'[loops'[l].cells])
                                           /\ DictLoopInv(loops[l])'
             /\ loops'[l].kind = "array" => ArrayLoopInv(loops[l])'
  <2>1. LoopOK(loops'[l])
    BY <1>4, IInvByParts
  <2>2. QED
    BY <1>1, <2>1 DEF LoopOK, DictLoopInv, ArrayLoopInv
<1>6. QED
  BY <1>2, <1>4, <1>5 DEF IInv, TypeOK, LoopInv

\* A step that leaves the loops alone, or disturbs those over a dictionary or
\* an array, keeps the invariant if every loop still satisfies it.
LEMMA KeepLoops ==
  ASSUME MapTypeOK', IndexInStep', elems' \in Seq(Vals), crashed' \in BOOLEAN,
         loops' \in Seq(Loop),
         \A l \in DOMAIN loops' :
           /\ loops'[l].kind = "dict" => /\ loops'[l].cells \in DOMAIN heap'
                                         /\ loops'[l].len <= Len(heap'[loops'[l].cells])
                                         /\ DictLoopInv(loops[l])'
           /\ loops'[l].kind = "array" => ArrayLoopInv(loops[l])'
  PROVE  IInv'
BY DEF IInv, TypeOK, LoopInv

Kinds == {"dict", "array"}

\* What a loop that was just opened looks like.
LEMMA IteratorLemma ==
  ASSUME NEW kind \in Kinds, NEW cells \in Nat, NEW len \in Nat,
         NEW content \in Seq(Keys \cup Vals)
  PROVE  LET it == Iterator(kind, cells, len, content)
         IN  /\ it \in Loop
             /\ it.kind = kind /\ it.cells = cells /\ it.len = len /\ it.pos = 0
             /\ it.hasNext = (content # <<>>) /\ it.seen = <<>>
             /\ it.atOpen = content
<1> DEFINE more == content # <<>>
           opened == [kind |-> kind, cells |-> cells, len |-> len, pos |-> 0,
                      hasNext |-> more, inBody |-> FALSE,
                      seen |-> <<>>, atOpen |-> content, disturbed |-> FALSE]
<1>1. more \in BOOLEAN /\ <<>> \in Seq(Given)
  OBVIOUS
<1>2. Iterator(kind, cells, len, content) = opened
  BY Zenon DEF Iterator
<1> HIDE DEF more
<1>3. opened \in Loop
  BY <1>1 DEF Loop, Kinds
<1>4. opened.hasNext = more
  BY <1>1
<1>5. /\ opened.kind = kind /\ opened.cells = cells /\ opened.len = len
      /\ opened.pos = 0 /\ opened.seen = <<>> /\ opened.atOpen = content
  OBVIOUS
<1> HIDE DEF opened
<1>6. QED
  BY <1>2, <1>3, <1>4, <1>5, Zenon DEF more

LEMMA OpenKeeps ==
  ASSUME IInv, OpenDict \/ OpenArray
  PROVE  IInv'
<1>1. /\ MapTypeOK /\ IndexInStep /\ elems \in Seq(Vals) /\ crashed \in BOOLEAN
      /\ Len(heap) \in DOMAIN heap /\ Len(heap) \in Nat /\ Len(values) \in Nat
      /\ Len(elems) \in Nat
  BY IInvByParts DEF MapTypeOK
<1>2. CASE OpenDict
  <2> DEFINE it == Iterator("dict", Len(heap), Len(values), keys)
  <2>1. /\ keys \in Seq(Keys) /\ Len(keys) = Len(values)
        /\ \A j \in 1 .. Len(values) : keys[j] = Cells[j] /\ keys[j] \in DOMAIN index
    BY <1>1 DEF keys, IndexInStep, MapTypeOK
  <2>2. keys \in Seq(Keys \cup Vals)
    BY <2>1
  <2>3. keys # <<>> <=> 0 < Len(values)
    BY <1>1, <2>1
  <2> HIDE DEF it
  <2>4. /\ it \in Loop /\ it.kind = "dict" /\ it.cells = Len(heap)
        /\ it.len = Len(values) /\ it.pos = 0
        /\ it.hasNext = (keys # <<>>) /\ it.seen = <<>>
        /\ it.atOpen = keys
    <3>1. "dict" \in Kinds
      BY DEF Kinds
    <3>2. QED
      BY <1>1, <2>2, <3>1, IteratorLemma DEF it
  <2>5. LoopOK(it)
    <3>1. it.hasNext <=> it.pos < it.len
      <4>1. it.hasNext <=> keys # <<>>
        BY <2>4, Zenon
      <4>2. QED
        BY <2>3, <2>4, <4>1
    <3>2. Len(it.seen) = it.pos /\ it.pos <= it.len /\ it.len = Len(it.atOpen)
      BY <1>1, <2>1, <2>4
    <3>3. \A j \in 1 .. it.len : it.atOpen[j] \in DOMAIN index
                                /\ heap[it.cells][j] = it.atOpen[j]
      BY <2>1, <2>4 DEF Cells
    <3>4. it.cells \in DOMAIN heap /\ it.len <= Len(heap[it.cells]) /\ it.len <= Len(values)
      BY <1>1, <2>4 DEF MapTypeOK, Cells
    <3>5. \A j \in 1 .. it.pos : FALSE
      BY <2>4
    <3>6. QED
      BY <2>4, <3>1, <3>2, <3>3, <3>4, <3>5 DEF LoopOK, DictLoopInv
  <2>6. loops' = Append(loops, it) /\ UNCHANGED <<mapVars, elems, crashed>>
    BY <1>2 DEF OpenDict, Open, it
  <2>7. QED
    BY <1>1, <2>4, <2>5, <2>6, ReplaceLoop
<1>3. CASE OpenArray
  <2> DEFINE it == Iterator("array", 0, 0, elems)
  <2>1. elems \in Seq(Keys \cup Vals) /\ (elems # <<>> <=> 0 < Len(elems))
    BY <1>1
  <2> HIDE DEF it
  <2>2. /\ it \in Loop /\ it.kind = "array" /\ it.pos = 0
        /\ it.hasNext = (elems # <<>>) /\ it.seen = <<>> /\ it.atOpen = elems
    <3>1. "array" \in Kinds /\ 0 \in Nat
      BY DEF Kinds
    <3>2. QED
      BY <2>1, <3>1, IteratorLemma DEF it
  <2>3. LoopOK(it)
    <3>1. it.hasNext <=> elems # <<>>
      BY <2>2, Zenon
    <3>2. it.hasNext <=> it.pos < Len(elems)
      BY <2>1, <2>2, <3>1
    <3>3. QED
      BY <1>1, <2>2, <3>2 DEF LoopOK, ArrayLoopInv
  <2>4. loops' = Append(loops, it) /\ UNCHANGED <<mapVars, elems, crashed>>
    BY <1>3 DEF OpenArray, Open, it
  <2>5. QED
    BY <1>1, <2>2, <2>3, <2>4, ReplaceLoop
<1>4. QED
  BY <1>2, <1>3

LEMMA AdvanceKeeps ==
  ASSUME IInv, AdvanceDict \/ AdvanceArray
  PROVE  IInv'
<1>1. loops # <<>> /\ loops \in Seq(Loop)
  BY IInvByParts DEF AdvanceDict, AdvanceArray, AtHeader
<1>2. Len(loops) \in DOMAIN loops /\ Top \in Loop
  BY <1>1 DEF Top
<1>3. /\ LoopOK(Top) /\ MapTypeOK /\ IndexInStep /\ elems \in Seq(Vals)
      /\ crashed \in BOOLEAN
  BY <1>2, IInvByParts DEF Top
<1>4. Top.pos \in Nat /\ Top.len \in Nat /\ Top.cells \in Nat /\ Top.seen \in Seq(Given)
  BY <1>2 DEF Loop
<1>5. CASE AdvanceDict
  <2> DEFINE k == heap[Top.cells][Top.pos + 1]
             elem == <<k, Get(k)>>
             new == Advanced(Top, elem, Top.len)
  <2>1. /\ Top.cells \in DOMAIN heap /\ Top.len <= Len(heap[Top.cells])
        /\ DictLoopInv(Top) /\ Top.hasNext /\ Top.kind = "dict"
    BY <1>3, <1>5 DEF AdvanceDict, LoopOK
  <2>2. Top.pos < Top.len /\ Top.pos + 1 \in 1 .. Top.len
    BY <1>4, <2>1 DEF DictLoopInv
  <2>3. k \in Keys \cup {NoKey}
    <3>1. heap[Top.cells] \in Seq(Keys \cup {NoKey})
      BY <1>3, <2>1 DEF MapTypeOK
    <3>2. Top.pos + 1 \in 1 .. Len(heap[Top.cells])
      BY <1>4, <2>1, <2>2, <3>1
    <3>3. QED
      BY <3>1, <3>2
  <2> HIDE DEF k
  <2>4. Get(k) \in Vals \cup {NoVal} /\ (k \in DOMAIN index => Get(k) \in Vals)
    BY <1>3 DEF Get, Holds, IndexInStep, MapTypeOK
  <2>5. elem \in Given /\ elem[1] = k /\ elem[2] = Get(k)
    BY <2>3, <2>4 DEF Given
  <2> HIDE DEF elem, new
  <2>6. /\ new \in Loop
        /\ new.kind = Top.kind /\ new.cells = Top.cells /\ new.len = Top.len
        /\ new.atOpen = Top.atOpen /\ new.disturbed = Top.disturbed
        /\ new.pos = (IF Top.pos + 1 < Top.len THEN Top.pos + 1 ELSE Top.len)
        /\ new.hasNext = ((IF Top.pos + 1 < Top.len THEN Top.pos + 1 ELSE Top.len) < Top.len)
        /\ new.seen = Append(Top.seen, elem)
    BY <1>2, <1>4, <2>5, AdvancedLemma, ZenonT(30) DEF new
  <2>7. new.pos = Top.pos + 1 /\ (new.hasNext <=> new.pos < new.len)
    <3>1. new.hasNext <=> new.pos < new.len
      BY <2>6, Zenon
    <3>2. new.pos = Top.pos + 1
      BY <1>4, <2>2, <2>6
    <3>3. QED
      BY <3>1, <3>2
  <2>8. /\ Len(new.seen) = Len(Top.seen) + 1 /\ new.seen[Len(Top.seen) + 1] = elem
        /\ \A j \in 1 .. Len(Top.seen) : new.seen[j] = Top.seen[j]
    BY <1>4, <2>5, <2>6
  <2>9. DictLoopInv(new)
    <3>1. /\ new.len = Len(new.atOpen) /\ Len(new.seen) = new.pos /\ new.pos <= new.len
          /\ new.hasNext <=> new.pos < new.len
      BY <1>4, <2>1, <2>2, <2>6, <2>7, <2>8 DEF DictLoopInv
    <3>2. ASSUME ~new.disturbed
          PROVE  /\ \A j \in 1 .. new.len : new.atOpen[j] \in DOMAIN index
                                             /\ heap[new.cells][j] = new.atOpen[j]
                 /\ new.cells = Len(heap) => new.len <= Len(values)
      BY <2>1, <2>6, <3>2 DEF DictLoopInv
    <3>3. ASSUME ~new.disturbed, NEW j \in 1 .. new.pos
          PROVE  new.seen[j][1] = new.atOpen[j] /\ new.seen[j][2] \in Vals
      <4>1. CASE j = Top.pos + 1
        <5>1. new.seen[j] = elem
          BY <2>1, <2>8, <4>1 DEF DictLoopInv
        <5>2. k = new.atOpen[j] /\ k \in DOMAIN index
          BY <2>2, <2>6, <3>2, <3>3, <4>1 DEF k
        <5>3. QED
          BY <2>4, <2>5, <5>1, <5>2
      <4>2. CASE j # Top.pos + 1
        <5>1. j \in 1 .. Top.pos
          BY <1>4, <2>7, <4>2
        <5>2. new.seen[j] = Top.seen[j]
          BY <2>1, <2>8, <5>1 DEF DictLoopInv
        <5>3. QED
          BY <2>1, <2>6, <3>3, <5>1, <5>2 DEF DictLoopInv
      <4>3. QED
        BY <4>1, <4>2
    <3>4. QED
      BY <3>1, <3>2, <3>3 DEF DictLoopInv
  <2>10. LoopOK(new)
    BY <2>1, <2>6, <2>9 DEF LoopOK
  <2>11. loops' = [loops EXCEPT ![Len(loops)] = new] /\ UNCHANGED <<mapVars, elems, crashed>>
    BY <1>2, <1>5 DEF AdvanceDict, DictLength, Top, new, elem, k
  <2>12. QED
    BY <1>1, <1>3, <2>6, <2>10, <2>11, ReplaceLoop
<1>6. CASE AdvanceArray /\ Top.pos < Len(elems)
  <2> DEFINE elem == elems[Top.pos + 1]
             n == Len(elems)
             new == Advanced(Top, elem, n)
  <2>1. n \in Nat /\ Top.pos < n /\ Top.kind = "array"
    BY <1>3, <1>6 DEF AdvanceArray
  <2>2. elem \in Given
    BY <1>3, <1>4, <2>1 DEF Given
  <2> HIDE DEF elem, new, n
  <2>3. /\ new \in Loop
        /\ new.kind = Top.kind /\ new.atOpen = Top.atOpen /\ new.disturbed = Top.disturbed
        /\ new.pos = (IF Top.pos + 1 < n THEN Top.pos + 1 ELSE n)
        /\ new.hasNext = ((IF Top.pos + 1 < n THEN Top.pos + 1 ELSE n) < n)
        /\ new.seen = Append(Top.seen, elem)
    BY <1>2, <2>1, <2>2, AdvancedLemma, Zenon, SMTT(30) DEF new
  <2>4. /\ new.pos = Top.pos + 1 /\ new.pos <= n /\ (new.hasNext <=> new.pos < n)
        /\ Len(new.seen) = Len(Top.seen) + 1
    <3>1. new.hasNext <=> new.pos < n
      BY <2>3, Zenon
    <3>2. new.pos = Top.pos + 1 /\ new.pos <= n
      BY <1>4, <2>1, <2>3
    <3>3. Len(new.seen) = Len(Top.seen) + 1
      BY <1>4, <2>2, <2>3
    <3>4. QED
      BY <3>1, <3>2, <3>3
  <2>5. Top.atOpen \in Seq(Keys \cup Vals) /\ Len(Top.atOpen) \in Nat
    BY <1>2 DEF Loop
  <2>6. ArrayLoopInv(Top)
    BY <1>3, <2>1 DEF LoopOK
  <2>7. ArrayLoopInv(new)
    BY <1>4, <2>1, <2>3, <2>4, <2>5, <2>6 DEF ArrayLoopInv, n
  <2>8. LoopOK(new)
    BY <2>1, <2>3, <2>7 DEF LoopOK
  <2>9. loops' = [loops EXCEPT ![Len(loops)] = new] /\ UNCHANGED <<mapVars, elems, crashed>>
    BY <1>2, <1>6 DEF AdvanceArray, Top, new, elem, n
  <2>10. QED
    BY <1>1, <1>3, <2>3, <2>8, <2>9, ReplaceLoop
<1>7. CASE AdvanceArray /\ ~(Top.pos < Len(elems))
  <2>1. UNCHANGED <<mapVars, elems, loops>> /\ crashed' \in BOOLEAN
    BY <1>7 DEF AdvanceArray
  <2>2. QED
    BY <1>2, <1>3, <2>1, ReplaceLoop
<1>8. QED
  BY <1>5, <1>6, <1>7

LEMMA HeaderKeeps ==
  ASSUME IInv, Repeat \/ Leave
  PROVE  IInv'
<1>1. loops # <<>> /\ loops \in Seq(Loop) /\ crashed \in BOOLEAN
  BY IInvByParts DEF Repeat, Leave
<1>2. Len(loops) \in DOMAIN loops /\ Top \in Loop
  BY <1>1 DEF Top
<1>3. LoopOK(Top)
  BY <1>2, IInvByParts DEF Top
<1>4. CASE Repeat
  <2> DEFINE new == [Top EXCEPT !.inBody = FALSE]
  <2>1. new \in Loop
    BY <1>2 DEF Loop
  <2>2. /\ new.kind = Top.kind /\ new.cells = Top.cells /\ new.len = Top.len
        /\ new.pos = Top.pos /\ new.hasNext = Top.hasNext /\ new.seen = Top.seen
        /\ new.atOpen = Top.atOpen /\ new.disturbed = Top.disturbed
    BY <1>2 DEF Loop
  <2>3. loops' = [loops EXCEPT ![Len(loops)] = new] /\ UNCHANGED <<mapVars, elems, crashed>>
    BY <1>2, <1>4 DEF Repeat, Top
  <2> HIDE DEF new
  <2>4. LoopOK(new)
    BY <1>3, <2>2 DEF LoopOK, DictLoopInv, ArrayLoopInv
  <2>5. QED
    BY <1>1, <2>1, <2>3, <2>4, ReplaceLoop
<1>5. CASE Leave
  BY <1>1, <1>2, <1>3, <1>5, ReplaceLoop DEF Leave
<1>6. QED
  BY <1>4, <1>5

LEMMA DictInsertKeeps ==
  ASSUME IInv, NEW k \in Keys, NEW v \in Vals, DictInsert(k, v)
  PROVE  IInv'
<1>1. /\ MapTypeOK /\ IndexInStep /\ elems \in Seq(Vals) /\ crashed \in BOOLEAN
      /\ loops \in Seq(Loop)
  BY IInvByParts
<1>2. Put(k, v) /\ elems' = elems /\ loops' = loops /\ crashed' = crashed
  BY DEF DictInsert
<1>3. /\ MapTypeOK' /\ IndexInStep' /\ DOMAIN index \subseteq DOMAIN index'
      /\ Len(heap) <= Len(heap') /\ Len(values) <= Len(values')
      /\ \A b \in DOMAIN heap :
           /\ Len(heap'[b]) = Len(heap[b])
           /\ \A j \in 1 .. Len(heap[b]) :
                b < Len(heap) \/ j <= Len(values) => heap'[b][j] = heap[b][j]
  BY <1>1, <1>2, PutLemma
<1>4. /\ Len(heap) \in Nat /\ Len(heap') \in Nat /\ Len(values) \in Nat /\ Len(values') \in Nat
      /\ DOMAIN heap = 1 .. Len(heap) /\ DOMAIN heap' = 1 .. Len(heap')
      /\ \A b \in DOMAIN heap : Len(heap[b]) \in Nat
  BY <1>1, <1>3 DEF MapTypeOK
<1>5. ASSUME NEW l \in DOMAIN loops, loops[l].kind = "dict"
      PROVE  /\ loops[l].cells \in DOMAIN heap'
             /\ loops[l].len <= Len(heap'[loops[l].cells])
             /\ DictLoopInv(loops[l])'
  <2> DEFINE it == loops[l]
  <2>1. it \in Loop
    BY <1>1
  <2>2. it.len \in Nat /\ it.cells \in Nat
    BY <2>1 DEF Loop
  <2>3. it.cells \in DOMAIN heap /\ it.len <= Len(heap[it.cells]) /\ DictLoopInv(it)
    BY <1>5, IInvByParts DEF LoopOK
  <2>4. loops'[l] = it
    BY <1>2
  <2> HIDE DEF it
  <2>5. it.cells \in DOMAIN heap' /\ it.len <= Len(heap'[it.cells])
    BY <1>3, <1>4, <2>3
  <2>6. ASSUME ~it.disturbed, NEW j \in 1 .. it.len
        PROVE  it.atOpen[j] \in DOMAIN index' /\ heap'[it.cells][j] = it.atOpen[j]
    <3>1. it.atOpen[j] \in DOMAIN index /\ heap[it.cells][j] = it.atOpen[j]
      BY <2>3, <2>6 DEF DictLoopInv
    <3>2. j \in 1 .. Len(heap[it.cells])
      BY <1>4, <2>2, <2>3
    <3>3. it.cells < Len(heap) \/ j <= Len(values)
      BY <1>4, <2>2, <2>3, <2>6 DEF DictLoopInv
    <3>4. QED
      BY <1>3, <2>3, <3>1, <3>2, <3>3
  <2>7. ~it.disturbed => (it.cells = Len(heap') => it.len <= Len(values'))
    <3>1. SUFFICES ASSUME ~it.disturbed, it.cells = Len(heap')
                   PROVE  it.len <= Len(values')
      OBVIOUS
    <3>2. it.cells = Len(heap)
      <4>1. it.cells \in 1 .. Len(heap)
        BY <1>4, <2>3
      <4>2. Len(heap) <= Len(heap') /\ Len(heap) \in Nat /\ Len(heap') \in Nat
        BY <1>3, <1>4
      <4>3. QED
        BY <2>2, <3>1, <4>1, <4>2
    <3>3. it.len <= Len(values)
      BY <2>3, <3>1, <3>2 DEF DictLoopInv
    <3>4. QED
      BY <1>3, <1>4, <2>2, <3>3
  <2>8. DictLoopInv(loops[l])'
    BY <2>3, <2>4, <2>6, <2>7 DEF DictLoopInv
  <2>9. QED
    BY <2>5, <2>8 DEF it
<1>6. ASSUME NEW l \in DOMAIN loops, loops[l].kind = "array"
      PROVE  ArrayLoopInv(loops[l])'
  <2>1. ArrayLoopInv(loops[l])
    BY <1>6, IInvByParts DEF LoopOK
  <2>2. QED
    BY <1>2, <2>1 DEF ArrayLoopInv
<1>7. QED
  BY <1>1, <1>2, <1>3, <1>5, <1>6, KeepLoops

LEMMA DictRemoveKeeps ==
  ASSUME IInv, NEW k \in Keys, DictRemove(k)
  PROVE  IInv'
<1>1. /\ MapTypeOK /\ IndexInStep /\ elems \in Seq(Vals) /\ crashed \in BOOLEAN
      /\ loops \in Seq(Loop)
  BY IInvByParts
<1>2. Delete(k) /\ Disturb("dict") /\ elems' = elems /\ crashed' = crashed
  BY DEF DictRemove
<1>3. /\ MapTypeOK' /\ IndexInStep' /\ Len(heap') = Len(heap)
      /\ \A b \in DOMAIN heap : Len(heap'[b]) = Len(heap[b])
  BY <1>1, <1>2, DeleteLemma
<1>4. DOMAIN heap' = DOMAIN heap
  BY <1>1, <1>3 DEF MapTypeOK
<1>5. ASSUME NEW l \in DOMAIN loops'
      PROVE  /\ loops'[l].kind = "dict" => /\ loops'[l].cells \in DOMAIN heap'
                                           /\ loops'[l].len <= Len(heap'[loops'[l].cells])
                                           /\ DictLoopInv(loops[l])'
             /\ loops'[l].kind = "array" => ArrayLoopInv(loops[l])'
  <2>1. l \in DOMAIN loops /\ LoopOK(loops[l])
    BY <1>1, <1>2, DisturbLemma, IInvByParts
  <2>2. CASE loops[l].kind = "dict"
    <3>1. /\ loops'[l].disturbed = TRUE /\ loops'[l].kind = "dict"
          /\ loops'[l].cells = loops[l].cells /\ loops'[l].len = loops[l].len
          /\ loops'[l].pos = loops[l].pos /\ loops'[l].hasNext = loops[l].hasNext
          /\ loops'[l].seen = loops[l].seen /\ loops'[l].atOpen = loops[l].atOpen
      BY <1>1, <1>2, <2>1, <2>2, DisturbLemma
    <3>2. QED
      BY <1>3, <1>4, <2>1, <2>2, <3>1 DEF LoopOK, DictLoopInv
  <2>3. CASE loops[l].kind # "dict"
    <3>1. loops'[l] = loops[l]
      BY <1>1, <1>2, <2>1, <2>3, DisturbLemma
    <3>2. QED
      BY <1>2, <2>1, <2>3, <3>1 DEF LoopOK, ArrayLoopInv
  <2>4. QED
    BY <2>2, <2>3
<1>6. loops' \in Seq(Loop)
  BY <1>1, <1>2, DisturbLemma
<1>7. QED
  BY <1>1, <1>2, <1>3, <1>5, <1>6, KeepLoops

\* A change to the array that disturbs the loops over it, or leaves it as long
\* as it was at least.
LEMMA ArrayChangeKeeps ==
  ASSUME IInv, UNCHANGED <<mapVars, crashed>>, elems' \in Seq(Vals),
         \/ UNCHANGED loops /\ Len(elems) <= Len(elems')
         \/ Disturb("array")
  PROVE  IInv'
<1>1. /\ MapTypeOK /\ IndexInStep /\ elems \in Seq(Vals) /\ crashed \in BOOLEAN
      /\ loops \in Seq(Loop)
  BY IInvByParts
<1>2. UNCHANGED <<heap, values, index, crashed>> /\ MapTypeOK' /\ IndexInStep'
  BY <1>1 DEF mapVars, MapTypeOK, IndexInStep, Cells
<1>3. loops' \in Seq(Loop) /\ DOMAIN loops' = DOMAIN loops
  BY <1>1, DisturbLemma
<1>4. ASSUME NEW l \in DOMAIN loops'
      PROVE  /\ loops'[l].kind = "dict" => /\ loops'[l].cells \in DOMAIN heap'
                                           /\ loops'[l].len <= Len(heap'[loops'[l].cells])
                                           /\ DictLoopInv(loops[l])'
             /\ loops'[l].kind = "array" => ArrayLoopInv(loops[l])'
  <2>1. l \in DOMAIN loops /\ LoopOK(loops[l]) /\ loops[l] \in Loop
    BY <1>1, <1>3, IInvByParts
  <2>2. CASE loops'[l] = loops[l]
    <3>1. loops[l].kind = "dict" => DictLoopInv(loops[l])'
      BY <1>2, <2>1, <2>2 DEF LoopOK, DictLoopInv
    <3>2. CASE UNCHANGED loops /\ Len(elems) <= Len(elems')
      <4>1. /\ Len(elems) \in Nat /\ Len(elems') \in Nat /\ loops[l].pos \in Nat
            /\ Len(loops[l].atOpen) \in Nat
        <5>1. loops[l].pos \in Nat /\ loops[l].atOpen \in Seq(Keys \cup Vals)
          BY <2>1 DEF Loop
        <5>2. QED
          BY <1>1, <5>1
      <4>2. loops[l].kind = "array" => ArrayLoopInv(loops[l])'
        BY <2>1, <2>2, <3>2, <4>1 DEF LoopOK, ArrayLoopInv
      <4>3. QED
        BY <1>2, <2>1, <2>2, <3>1, <4>2 DEF LoopOK
    <3>3. CASE Disturb("array")
      <4>1. loops[l].kind = "array" => loops'[l].disturbed = TRUE
        BY <1>1, <2>1, <3>3, DisturbLemma
      <4>2. loops[l].kind = "array" => ArrayLoopInv(loops[l])'
        BY <2>2, <4>1 DEF ArrayLoopInv
      <4>3. QED
        BY <1>2, <2>1, <2>2, <3>1, <4>2 DEF LoopOK
    <3>4. QED
      BY <3>2, <3>3
  <2>3. CASE loops'[l] # loops[l]
    <3>1. loops'[l].disturbed = TRUE /\ loops'[l].kind = "array"
      BY <1>1, <2>1, <2>3, DisturbLemma
    <3>2. QED
      BY <3>1 DEF ArrayLoopInv
  <2>4. QED
    BY <2>2, <2>3
<1>5. QED
  BY <1>1, <1>2, <1>3, <1>4, KeepLoops

LEMMA ArrayKeeps ==
  ASSUME IInv, NEW i \in Indices, NEW v \in Vals,
         Push(v) \/ Insert(i, v) \/ SetAt(i, v) \/ Remove(i) \/ Pop
  PROVE  IInv'
<1>1. elems \in Seq(Vals) /\ Len(elems) \in Nat
  BY IInvByParts
<1>2. CASE Push(v)
  <2>1. elems' = Append(elems, v) /\ UNCHANGED <<mapVars, loops, crashed>>
    BY <1>2 DEF Push
  <2>2. elems' \in Seq(Vals) /\ Len(elems) <= Len(elems')
    BY <1>1, <2>1
  <2>3. QED
    BY <2>1, <2>2, ArrayChangeKeeps
<1>3. CASE Insert(i, v)
  <2>1. /\ Position(i) \in 0 .. Len(elems)
        /\ elems' = SubSeq(elems, 1, Position(i)) \o <<v>>
                       \o SubSeq(elems, Position(i) + 1, Len(elems))
        /\ Disturb("array") /\ UNCHANGED <<mapVars, crashed>>
    BY <1>3 DEF Insert
  <2>2. elems' \in Seq(Vals)
    BY <1>1, <2>1
  <2>3. QED
    BY <2>1, <2>2, ArrayChangeKeeps
<1>4. CASE SetAt(i, v)
  <2>1. /\ Position(i) \in 0 .. Len(elems) - 1
        /\ elems' = [elems EXCEPT ![Position(i) + 1] = v]
        /\ UNCHANGED <<mapVars, loops, crashed>>
    BY <1>4 DEF SetAt
  <2>2. elems' \in Seq(Vals) /\ Len(elems) <= Len(elems')
    BY <1>1, <2>1
  <2>3. QED
    BY <2>1, <2>2, ArrayChangeKeeps
<1>5. CASE Remove(i)
  <2>1. /\ Position(i) \in 0 .. Len(elems) - 1
        /\ elems' = Shifted(elems, Position(i) + 1)
        /\ Disturb("array") /\ UNCHANGED <<mapVars, crashed>>
    BY <1>5 DEF Remove
  <2>2. elems' \in Seq(Vals)
    BY <1>1, <2>1 DEF Shifted
  <2>3. QED
    BY <2>1, <2>2, ArrayChangeKeeps
<1>6. CASE Pop
  <2>1. /\ elems # <<>> /\ elems' = SubSeq(elems, 1, Len(elems) - 1)
        /\ Disturb("array") /\ UNCHANGED <<mapVars, crashed>>
    BY <1>6 DEF Pop
  <2>2. elems' \in Seq(Vals)
    BY <1>1, <2>1, LastLemma
  <2>3. QED
    BY <2>1, <2>2, ArrayChangeKeeps
<1>7. QED
  BY <1>2, <1>3, <1>4, <1>5, <1>6

-----------------------------------------------------------------------------
(* The theorems.                                                           *)

LEMMA InitIInv == Init => IInv
<1>1. SUFFICES ASSUME Init
               PROVE  IInv
  OBVIOUS
<1>2. heap = <<<<>>>> /\ values = <<>> /\ index = [k \in {} |-> 0]
      /\ elems = <<>> /\ loops = <<>> /\ crashed = FALSE
  BY <1>1 DEF Init, MapInit
<1>3. MapTypeOK
  <2>1. heap \in Seq(Seq(Keys \cup {NoKey})) /\ heap # <<>>
    <3>1. <<>> \in Seq(Keys \cup {NoKey})
      OBVIOUS
    <3> DEFINE empty == <<>>
    <3> HIDE DEF empty
    <3>2. heap = <<empty>> /\ empty \in Seq(Keys \cup {NoKey})
      BY <1>2, <3>1 DEF empty
    <3>3. QED
      BY <3>2
  <2>2. values \in Seq(Vals) /\ Len(values) <= Len(Cells)
    BY <1>2 DEF Cells
  <2>3. index \in [DOMAIN index -> Nat] /\ DOMAIN index \subseteq Keys
    BY <1>2
  <2>4. QED
    BY <2>1, <2>2, <2>3 DEF MapTypeOK
<1>4. IndexInStep
  BY <1>2 DEF IndexInStep
<1>5. elems \in Seq(Vals) /\ crashed \in BOOLEAN /\ loops \in Seq(Loop)
      /\ \A l \in DOMAIN loops : LoopOK(loops[l])
  <2>1. elems \in Seq(Vals) /\ loops \in Seq(Loop) /\ DOMAIN loops = {}
    BY <1>2
  <2>2. crashed \in BOOLEAN
    BY <1>2
  <2>3. QED
    BY <2>1, <2>2
<1>6. QED
  BY <1>3, <1>4, <1>5, IInvByParts

LEMMA NextIInv == IInv /\ [Next]_vars => IInv'
<1>1. SUFFICES ASSUME IInv, [Next]_vars
               PROVE  IInv'
  OBVIOUS
<1>2. CASE OpenDict \/ OpenArray
  BY <1>1, <1>2, OpenKeeps
<1>3. CASE AdvanceDict \/ AdvanceArray
  BY <1>1, <1>3, AdvanceKeeps
<1>4. CASE Repeat \/ Leave
  BY <1>1, <1>4, HeaderKeeps
<1>5. ASSUME NEW k \in Keys, NEW v \in Vals, DictInsert(k, v)
      PROVE  IInv'
  BY <1>1, <1>5, DictInsertKeeps
<1>6. ASSUME NEW k \in Keys, DictRemove(k)
      PROVE  IInv'
  BY <1>1, <1>6, DictRemoveKeeps
<1>7. ASSUME NEW i \in Indices, NEW v \in Vals,
             Push(v) \/ Insert(i, v) \/ SetAt(i, v)
      PROVE  IInv'
  BY <1>1, <1>7, ArrayKeeps
<1>8. ASSUME NEW i \in Indices, Remove(i) \/ Pop
      PROVE  IInv'
  <2>1. PICK v \in Vals : TRUE
    <3>1. elems \in Seq(Vals) /\ elems # <<>>
      BY <1>1, <1>8, IInvByParts DEF Remove, Pop
    <3>2. QED
      BY <3>1, LastLemma
  <2>2. QED
    BY <1>1, <1>8, ArrayKeeps
<1>9. 0 \in Indices
  BY IteratorsAssumption DEF Indices
<1>10. ASSUME NEW v \in Vals, Push(v)
       PROVE  IInv'
  BY <1>7, <1>9, <1>10
<1>11. CASE Pop
  BY <1>8, <1>9, <1>11
<1>12. CASE UNCHANGED vars
  BY <1>1, <1>12
     DEF vars, mapVars, IInv, TypeOK, MapTypeOK, IndexInStep, LoopInv, DictLoopInv,
         ArrayLoopInv, Cells
<1>13. QED
  BY <1>1, <1>2, <1>3, <1>4, <1>5, <1>6, <1>7, <1>8, <1>10, <1>11, <1>12 DEF Next

LEMMA Inductive == Spec => []IInv
BY InitIInv, NextIInv, PTL DEF Spec

\* The variables are well typed; the slice of keys an iterator kept lies within
\* its backing array.
THEOREM TypeCorrect == Spec => []TypeOK
<1>1. IInv => TypeOK
  BY DEF IInv
<1>2. QED
  BY <1>1, Inductive, PTL

\* The index of the map agrees with its keys after any updates and deletions.
THEOREM IndexCorrect == Spec => []IndexInStep
<1>1. IInv => IndexInStep
  BY DEF IInv
<1>2. QED
  BY <1>1, Inductive, PTL

\* A loop over a dictionary runs at most once per key it was opened on.
THEOREM DictLoopsEnd == Spec => []DictLoopsBounded
<1>1. IInv => DictLoopsBounded
  <2>1. SUFFICES ASSUME IInv, NEW l \in DOMAIN loops, loops[l].kind = "dict"
                 PROVE  /\ Len(loops[l].seen) <= Len(loops[l].atOpen)
                        /\ loops[l].hasNext => Len(loops[l].seen) < Len(loops[l].atOpen)
    BY DEF DictLoopsBounded, Loops
  <2>2. QED
    BY <2>1 DEF IInv, LoopInv, DictLoopInv
<1>2. QED
  BY <1>1, Inductive, PTL

\* A loop over a dictionary no key is removed from gives the keys it was opened
\* on, in order and with a value, however the map grows or moves meanwhile.
THEOREM DictLoopsUndisturbed == Spec => []GrowingDictLoops
<1>1. IInv => GrowingDictLoops
  <2>1. SUFFICES ASSUME IInv, NEW l \in DOMAIN loops, loops[l].kind = "dict",
                        ~loops[l].disturbed
                 PROVE  /\ \A j \in DOMAIN loops[l].seen :
                             /\ loops[l].seen[j][1] = loops[l].atOpen[j]
                             /\ loops[l].seen[j][2] \in Vals
                        /\ ~loops[l].hasNext => Len(loops[l].seen) = Len(loops[l].atOpen)
    BY DEF GrowingDictLoops, Loops
  <2>2. loops[l].pos \in Nat /\ loops[l].len \in Nat /\ loops[l].seen \in Seq(Given)
    <3>1. loops[l] \in Loop
      BY <2>1, IInvByParts
    <3>2. QED
      BY <3>1 DEF Loop
  <2>3. DOMAIN loops[l].seen = 1 .. loops[l].pos
    BY <2>1, <2>2 DEF IInv, LoopInv, DictLoopInv
  <2>4. QED
    BY <2>1, <2>2, <2>3 DEF IInv, LoopInv, DictLoopInv
<1>2. QED
  BY <1>1, Inductive, PTL

\* A loop over an array that is only appended to stays inside it and leaves out
\* no element it was opened on.
THEOREM ArrayLoopsUndisturbed == Spec => []GrowingArrayLoops
<1>1. IInv => GrowingArrayLoops
  <2>1. SUFFICES ASSUME IInv, NEW l \in DOMAIN loops, loops[l].kind = "array",
                        ~loops[l].disturbed
                 PROVE  /\ loops[l].hasNext => loops[l].pos < Len(elems)
                        /\ loops[l].pos <= Len(elems) /\ Len(loops[l].seen) = loops[l].pos
                        /\ ~loops[l].hasNext => Len(loops[l].seen) >= Len(loops[l].atOpen)
    BY DEF GrowingArrayLoops, Loops
  <2>2. QED
    BY <2>1 DEF IInv, LoopInv, ArrayLoopInv
<1>2. QED
  BY <1>1, Inductive, PTL

-----------------------------------------------------------------------------
(* The map keeps insertion order.                                          *)

AbsVal == [k \in DOMAIN index |-> Get(k)]

AbsOlder == {<<keys[p[1]], keys[p[2]]>> : p \in Ordered}

\* The order of the keys is that of their indices.
LEMMA OlderLemma ==
  ASSUME MapTypeOK, IndexInStep
  PROVE  AbsOlder = {q \in (DOMAIN index) \X (DOMAIN index) : index[q[1]] < index[q[2]]}
<1>1. Len(values) \in Nat
  BY DEF MapTypeOK
<1>2. ASSUME NEW p \in Ordered
      PROVE  <<keys[p[1]], keys[p[2]]>> \in
               {q \in (DOMAIN index) \X (DOMAIN index) : index[q[1]] < index[q[2]]}
  <2>1. p[1] \in 1 .. Len(values) /\ p[2] \in 1 .. Len(values) /\ p[1] < p[2]
    BY DEF Ordered
  <2>2. keys[p[1]] = Cells[p[1]] /\ keys[p[2]] = Cells[p[2]]
    BY <2>1 DEF keys
  <2>3. /\ keys[p[1]] \in DOMAIN index /\ index[keys[p[1]]] = p[1]
        /\ keys[p[2]] \in DOMAIN index /\ index[keys[p[2]]] = p[2]
    BY <2>1, <2>2 DEF IndexInStep
  <2>4. QED
    BY <2>1, <2>3
<1>3. ASSUME NEW a \in DOMAIN index, NEW b \in DOMAIN index, index[a] < index[b]
      PROVE  <<a, b>> \in AbsOlder
  <2>1. /\ index[a] \in 1 .. Len(values) /\ Cells[index[a]] = a
        /\ index[b] \in 1 .. Len(values) /\ Cells[index[b]] = b
    BY DEF IndexInStep
  <2>2. keys[index[a]] = a /\ keys[index[b]] = b
    BY <2>1 DEF keys
  <2>3. <<index[a], index[b]>> \in Ordered
    BY <1>3, <2>1 DEF Ordered
  <2>4. QED
    BY <2>2, <2>3 DEF AbsOlder
<1>4. QED
  BY <1>2, <1>3 DEF AbsOlder

OlderByIndex ==
  AbsOlder = {q \in (DOMAIN index) \X (DOMAIN index) : index[q[1]] < index[q[2]]}

LEMMA OlderAlways == (MapTypeOK /\ IndexInStep => OlderByIndex)'
<1>1. MapTypeOK /\ IndexInStep => OlderByIndex
  BY OlderLemma DEF OlderByIndex
<1>2. QED
  BY <1>1, PTL

LEMMA PutRefines ==
  ASSUME MapTypeOK, IndexInStep, NEW k \in Keys, NEW v \in Vals, Put(k, v)
  PROVE  /\ AbsVal' = [j \in DOMAIN AbsVal \cup {k} |-> IF j = k THEN v ELSE AbsVal[j]]
         /\ AbsOlder' = IF k \in DOMAIN AbsVal THEN AbsOlder
                        ELSE AbsOlder \cup {<<j, k>> : j \in DOMAIN AbsVal}
<1>1. DOMAIN AbsVal = DOMAIN index /\ \A j \in DOMAIN index : AbsVal[j] = values[index[j]]
  BY DEF AbsVal, Get, Holds
<1>2. MapTypeOK' /\ IndexInStep'
  BY PutLemma
<1>3. AbsOlder' = {q \in (DOMAIN index') \X (DOMAIN index') : index'[q[1]] < index'[q[2]]}
  BY <1>2, OlderAlways DEF OlderByIndex
<1>4. CASE Holds(k)
  <2>1. index' = index /\ values' = [values EXCEPT ![index[k]] = v]
    BY <1>4 DEF Put
  <2>2. k \in DOMAIN index /\ index[k] \in 1 .. Len(values) /\ values \in Seq(Vals)
    BY <1>4 DEF Holds, IndexInStep, MapTypeOK
  <2>3. \A j \in DOMAIN index : values'[index[j]] = IF j = k THEN v ELSE values[index[j]]
    <3>1. \A j \in DOMAIN index : /\ index[j] \in 1 .. Len(values)
                                  /\ (index[j] = index[k] => j = k)
      BY <2>2 DEF IndexInStep
    <3>2. QED
      BY <2>1, <2>2, <3>1
  <2>4. AbsVal' = [j \in DOMAIN index |-> values'[index[j]]]
    BY <2>1 DEF AbsVal, Get, Holds
  <2>5. DOMAIN index \cup {k} = DOMAIN index
    BY <2>2
  <2>6. AbsVal' = [j \in DOMAIN index |-> IF j = k THEN v ELSE AbsVal[j]]
    BY <1>1, <2>3, <2>4
  <2>7. AbsOlder' = AbsOlder
    BY <1>3, <2>1, OlderLemma
  <2>8. QED
    BY <1>1, <2>2, <2>5, <2>6, <2>7
<1>5. CASE ~Holds(k)
  <2>1. /\ values' = Append(values, v)
        /\ index' = [j \in DOMAIN index \cup {k} |->
                       IF j = k THEN Len(values) + 1 ELSE index[j]]
    BY <1>5 DEF Put, AddEntry
  <2>2. /\ k \notin DOMAIN index /\ values \in Seq(Vals) /\ Len(values) \in Nat
        /\ \A j \in DOMAIN index : index[j] \in 1 .. Len(values)
    BY <1>5 DEF Holds, IndexInStep, MapTypeOK
  <2>3. /\ DOMAIN index' = DOMAIN index \cup {k} /\ index'[k] = Len(values) + 1
        /\ \A j \in DOMAIN index : index'[j] = index[j]
    BY <2>1, <2>2
  <2>4. AbsVal' = [j \in DOMAIN index' |-> values'[index'[j]]]
    BY DEF AbsVal, Get, Holds
  <2>5. \A j \in DOMAIN index' : values'[index'[j]] = IF j = k THEN v ELSE AbsVal[j]
    <3>1. values'[Len(values) + 1] = v /\ \A i \in 1 .. Len(values) : values'[i] = values[i]
      BY <2>1, <2>2
    <3>2. QED
      BY <1>1, <2>2, <2>3, <3>1
  <2>6. AbsVal' = [j \in DOMAIN AbsVal \cup {k} |-> IF j = k THEN v ELSE AbsVal[j]]
    BY <1>1, <2>3, <2>4, <2>5
  <2>7. AbsOlder' = AbsOlder \cup {<<j, k>> : j \in DOMAIN index}
    <3>1. ASSUME NEW a \in DOMAIN index', NEW b \in DOMAIN index'
          PROVE  index'[a] < index'[b] <=>
                   \/ a \in DOMAIN index /\ b = k
                   \/ a \in DOMAIN index /\ b \in DOMAIN index /\ index[a] < index[b]
      BY <2>2, <2>3
    <3>2. QED
      BY <1>3, <2>2, <2>3, <3>1, OlderLemma
  <2>8. QED
    BY <1>1, <2>2, <2>6, <2>7
<1>6. QED
  BY <1>4, <1>5

LEMMA DeleteRefines ==
  ASSUME MapTypeOK, IndexInStep, NEW k \in Keys, Delete(k)
  PROVE  /\ AbsVal' = [j \in DOMAIN AbsVal \ {k} |-> AbsVal[j]]
         /\ AbsOlder' = {p \in AbsOlder : p[1] # k /\ p[2] # k}
<1>1. DOMAIN AbsVal = DOMAIN index /\ \A j \in DOMAIN index : AbsVal[j] = values[index[j]]
  BY DEF AbsVal, Get, Holds
<1>2. MapTypeOK' /\ IndexInStep'
  BY DeleteLemma
<1>3. AbsOlder' = {q \in (DOMAIN index') \X (DOMAIN index') : index'[q[1]] < index'[q[2]]}
  BY <1>2, OlderAlways DEF OlderByIndex
<1>4. /\ k \in DOMAIN index /\ values \in Seq(Vals) /\ Len(values) \in Nat
      /\ \A j \in DOMAIN index : /\ index[j] \in 1 .. Len(values)
                                 /\ (index[j] = index[k] => j = k)
  BY SMTT(30) DEF Delete, Holds, IndexInStep, MapTypeOK
<1>5. /\ DOMAIN index' = DOMAIN index \ {k}
      /\ \A j \in DOMAIN index' :
           index'[j] = IF index[j] > index[k] THEN index[j] - 1 ELSE index[j]
  BY DEF Delete, Reindexed
<1>6. \A i \in 1 .. Len(values) - 1 :
        values'[i] = IF i < index[k] THEN values[i] ELSE values[i + 1]
  BY DEF Delete, Shifted
<1>7. \A j \in DOMAIN index' : values'[index'[j]] = values[index[j]]
  <2>1. SUFFICES ASSUME NEW j \in DOMAIN index'
                 PROVE  values'[index'[j]] = values[index[j]]
    OBVIOUS
  <2>2. index[j] \in 1 .. Len(values) /\ index[k] \in 1 .. Len(values) /\ index[j] # index[k]
    BY <1>4, <1>5
  <2>3. CASE index[j] > index[k]
    <3>1. /\ index'[j] = index[j] - 1 /\ index[j] - 1 \in 1 .. Len(values) - 1
          /\ ~(index[j] - 1 < index[k]) /\ index[j] - 1 + 1 = index[j]
      BY <1>4, <1>5, <2>2, <2>3
    <3>2. QED
      BY <1>6, <3>1
  <2>4. CASE ~(index[j] > index[k])
    <3>1. index'[j] = index[j] /\ index[j] \in 1 .. Len(values) - 1 /\ index[j] < index[k]
      BY <1>4, <1>5, <2>2, <2>4
    <3>2. QED
      BY <1>6, <3>1
  <2>5. QED
    BY <2>3, <2>4
<1>8. AbsVal' = [j \in DOMAIN AbsVal \ {k} |-> AbsVal[j]]
  <2>1. AbsVal' = [j \in DOMAIN index' |-> values'[index'[j]]]
    BY DEF AbsVal, Get, Holds
  <2>2. QED
    BY <1>1, <1>5, <1>7, <2>1
<1>9. AbsOlder' = {p \in AbsOlder : p[1] # k /\ p[2] # k}
  <2>1. ASSUME NEW a \in DOMAIN index', NEW b \in DOMAIN index'
        PROVE  index'[a] < index'[b] <=> index[a] < index[b]
    <3>1. /\ index[a] \in Nat /\ index[b] \in Nat /\ index[k] \in Nat
          /\ index[a] # index[k] /\ index[b] # index[k]
      BY <1>4, <1>5
    <3>2. QED
      BY <1>5, <3>1
  <2>2. QED
    BY <1>3, <1>5, <2>1, OlderLemma
<1>10. QED
  BY <1>8, <1>9

\* The map implements InsertionMap: whatever loops and their bodies do, updates
\* move no key and deletions keep the order and the values of the others.
THEOREM InsertionOrderKept == Spec => KeepsInsertionOrder
<1>1. Init => Visible!Init
  <2>1. SUFFICES ASSUME Init
                 PROVE  Visible!Init
    OBVIOUS
  <2>2. values = <<>> /\ DOMAIN index = {} /\ Len(values) = 0
    BY <2>1 DEF Init, MapInit
  <2>3. Ordered = {}
    BY <2>2 DEF Ordered
  <2>4. QED
    BY <2>2, <2>3 DEF Visible!Init
<1>2. IInv /\ [Next]_vars => [Visible!Next]_<<AbsVal, AbsOlder>>
  <2>1. SUFFICES ASSUME IInv, [Next]_vars
                 PROVE  Visible!Next \/ UNCHANGED <<AbsVal, AbsOlder>>
    OBVIOUS
  <2>2. MapTypeOK /\ IndexInStep
    BY <2>1, IInvByParts
  <2>3. ASSUME NEW k \in Keys, NEW v \in Vals, DictInsert(k, v)
        PROVE  Visible!Next
    BY <2>2, <2>3, PutRefines DEF DictInsert, Visible!Next, Visible!Put, AbsVal, AbsOlder
  <2>4. ASSUME NEW k \in Keys, DictRemove(k)
        PROVE  Visible!Next
    BY <2>2, <2>4, DeleteRefines DEF DictRemove, Visible!Next, Visible!Delete, AbsVal, AbsOlder
  <2>5. ASSUME UNCHANGED mapVars
        PROVE  UNCHANGED <<AbsVal, AbsOlder>>
    BY <2>5 DEF mapVars, AbsVal, AbsOlder, Get, Holds, Ordered, keys, Cells
  <2>6. QED
    BY <2>1, <2>3, <2>4, <2>5
       DEF Next, vars, OpenDict, OpenArray, Open, AdvanceDict, AdvanceArray, Repeat,
           Leave, Push, Insert, SetAt, Remove, Pop
<1>3. QED
  BY <1>1, <1>2, Inductive, PTL
     DEF KeepsInsertionOrder, Visible!Spec, Spec, AbsVal, AbsOlder
=============================================================================
