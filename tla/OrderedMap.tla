----------------------------- MODULE OrderedMap -----------------------------
(***************************************************************************)
(* ordered.Map: keys and values in two slices, and an index from keys to   *)
(* positions.  It holds the entries of every dictionary.                   *)
(*                                                                         *)
(* The backing arrays of the key slice are explicit, because UnsafeKeys    *)
(* hands the slice out: append writes behind the keys while there is room  *)
(* and otherwise moves them to a new array, and Delete shifts them in      *)
(* place and leaves the last one behind.                                   *)
(***************************************************************************)
EXTENDS Integers, Sequences

CONSTANTS
  Keys,   \* the keys a map may hold
  Vals,   \* the values
  NoKey,  \* what is in a cell no key was written to
  NoVal   \* what Get returns for a key the map does not hold

ASSUME OrderedMapAssumption == NoKey \notin Keys /\ NoVal \notin Vals

VARIABLES
  heap,    \* the backing arrays m.keys has had, the one in use last
  values,  \* m.values
  index    \* m.index

mapVars == <<heap, values, index>>

MapInit == heap = <<<<>>>> /\ values = <<>> /\ index = [k \in {} |-> 0]

Cells == heap[Len(heap)]

\* The slice m.keys is as long as m.values.
keys == [i \in 1 .. Len(values) |-> Cells[i]]

Holds(k) == k \in DOMAIN index

Get(k) == IF Holds(k) THEN values[index[k]] ELSE NoVal

\* append on a full backing array: the keys and k in a new one, with room for
\* more or without.
Grown(k, cap) ==
  [i \in 1 .. cap |-> IF i <= Len(values) THEN Cells[i]
                      ELSE IF i = Len(values) + 1 THEN k ELSE NoKey]

\* Variant: the new key is written where the array has no room for it.
AppendKeyNoRoom(k) ==
  heap' = [heap EXCEPT ![Len(heap)] = [Cells EXCEPT ![Len(values) + 1] = k]]

AppendKey(k) ==
  IF Len(values) < Len(Cells)
  THEN heap' = [heap EXCEPT ![Len(heap)] =
                  [Cells EXCEPT ![Len(values) + 1] = k]]
  ELSE \E cap \in {Len(values) + 1, 2 * Len(values) + 1} :
         heap' = Append(heap, Grown(k, cap))

\* A key the map does not hold yet goes behind the others.
AddEntry(k, v) ==
  /\ AppendKey(k)
  /\ values' = Append(values, v)
  /\ index' = [j \in DOMAIN index \cup {k} |->
                 IF j = k THEN Len(values) + 1 ELSE index[j]]

\* Variant: an update moves the key to the end.
PutMoves(k, v) ==
  LET n == Len(values)
  IN  IF Holds(k)
      THEN /\ heap' = [heap EXCEPT ![Len(heap)] =
                 [i \in DOMAIN Cells |-> IF i = n THEN k
                    ELSE IF i >= index[k] /\ i < n THEN Cells[i + 1] ELSE Cells[i]]]
           /\ values' = [i \in 1 .. n |-> IF i = n THEN v
                ELSE IF i >= index[k] THEN values[i + 1] ELSE values[i]]
           /\ index' = [j \in DOMAIN index |-> IF j = k THEN n
                ELSE IF index[j] > index[k] THEN index[j] - 1 ELSE index[j]]
      ELSE AddEntry(k, v)

Put(k, v) ==
  IF Holds(k)
  THEN /\ values' = [values EXCEPT ![index[k]] = v]
       /\ UNCHANGED <<heap, index>>
  ELSE AddEntry(k, v)

\* s without its entry at pos, the ones behind it one place to the left.
Shifted(s, pos) ==
  [i \in 1 .. Len(s) - 1 |-> IF i < pos THEN s[i] ELSE s[i + 1]]

\* The keys behind pos shift down within their array; the cell of the last key
\* keeps it.
Closed(pos) ==
  [i \in 1 .. Len(Cells) |->
     IF pos <= i /\ i < Len(values) THEN Cells[i + 1] ELSE Cells[i]]

\* Variant: the keys that shifted keep their old positions.
NotReindexed(k) == [j \in DOMAIN index \ {k} |-> index[j]]

\* The keys that shifted down are indexed anew.
Reindexed(k) ==
  [j \in DOMAIN index \ {k} |->
     IF index[j] > index[k] THEN index[j] - 1 ELSE index[j]]

Delete(k) ==
  /\ Holds(k)
  /\ heap' = [heap EXCEPT ![Len(heap)] = Closed(index[k])]
  /\ values' = Shifted(values, index[k])
  /\ index' = Reindexed(k)

MapNext ==
  \/ \E k \in Keys, v \in Vals : Put(k, v)
  \/ \E k \in Keys : Delete(k)

MapSpec == MapInit /\ [][MapNext]_mapVars

-----------------------------------------------------------------------------
(* Properties.                                                             *)

\* The type of every variable.
MapTypeOK ==
  /\ heap \in Seq(Seq(Keys \cup {NoKey})) /\ heap # <<>>
  /\ values \in Seq(Vals)
  /\ Len(values) <= Len(Cells)
  /\ index \in [DOMAIN index -> Nat] /\ DOMAIN index \subseteq Keys

\* The three parts agree, through any sequence of updates and deletions: every
\* position holds a key whose index it is, and every index is such a position.
IndexInStep ==
  /\ \A i \in 1 .. Len(values) : Cells[i] \in DOMAIN index /\ index[Cells[i]] = i
  /\ \A k \in DOMAIN index : index[k] \in 1 .. Len(values) /\ Cells[index[k]] = k

\* The map as its users see it.
Ordered == {p \in (1 .. Len(values)) \X (1 .. Len(values)) : p[1] < p[2]}

Visible == INSTANCE InsertionMap WITH
  val <- [k \in DOMAIN index |-> Get(k)],
  older <- {<<keys[p[1]], keys[p[2]]>> : p \in Ordered}

\* It keeps insertion order: updates do not move keys, and deletions leave the
\* order and the values of the other keys alone.
KeepsInsertionOrder == Visible!Spec
=============================================================================
