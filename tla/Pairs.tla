------------------------------- MODULE Pairs -------------------------------
(***************************************************************************)
(* Ordered maps as values: a sequence of <<key, value>> pairs in the order *)
(* the keys came in.  What OrderedMap models in place, and shows to keep   *)
(* that order.                                                             *)
(***************************************************************************)
EXTENDS Integers, Sequences, SequencesExt

Names(pairs) == {pairs[i][1] : i \in DOMAIN pairs}
Named(pairs, name) == pairs[CHOOSE i \in DOMAIN pairs : pairs[i][1] = name][2]

Put(pairs, name, value) ==
  IF name \in Names(pairs)
  THEN [i \in DOMAIN pairs |-> IF pairs[i][1] = name THEN <<name, value>> ELSE pairs[i]]
  ELSE Append(pairs, <<name, value>>)

PutAll(pairs, more) == FoldLeft(LAMBDA acc, pair : Put(acc, pair[1], pair[2]), pairs, more)

\* The entries of a sequence at some of its positions, in order.
Picked(s, at) ==
  LET upTo[i \in 0 .. Len(s)] ==
        IF i = 0 THEN <<>>
        ELSE IF i \in at THEN Append(upTo[i - 1], s[i]) ELSE upTo[i - 1]
  IN  upTo[Len(s)]

Without(pairs, name) == SelectSeq(pairs, LAMBDA pair : pair[1] # name)
=============================================================================
