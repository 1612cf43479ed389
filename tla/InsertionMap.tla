---------------------------- MODULE InsertionMap ----------------------------
(***************************************************************************)
(* What the comments of package ordered promise: a map that remembers      *)
(* which of two keys came first.  Updating a key does not move it, and     *)
(* deleting one leaves the order of the others as it was.                  *)
(***************************************************************************)
CONSTANTS Keys, Vals

VARIABLES
  val,   \* the value of each key the map holds
  older  \* the pairs <<j, k>> of its keys of which j comes first

Init == val = [k \in {} |-> k] /\ older = {}

Put(k, v) ==
  /\ val' = [j \in DOMAIN val \cup {k} |-> IF j = k THEN v ELSE val[j]]
  /\ older' = IF k \in DOMAIN val THEN older
              ELSE older \cup {<<j, k>> : j \in DOMAIN val}

Delete(k) ==
  /\ val' = [j \in DOMAIN val \ {k} |-> val[j]]
  /\ older' = {p \in older : p[1] # k /\ p[2] # k}

Next ==
  \/ \E k \in Keys, v \in Vals : Put(k, v)
  \/ \E k \in Keys : Delete(k)

Spec == Init /\ [][Next]_<<val, older>>
=============================================================================
