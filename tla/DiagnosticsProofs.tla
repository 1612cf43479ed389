------------------------- MODULE DiagnosticsProofs -------------------------
(***************************************************************************)
(* Proofs about Diagnostics for every set of offsets, messages, sources    *)
(* and every bound: what recordError keeps true of session.errors, and     *)
(* what a loop's ErrorSince may rely on.                                   *)
(***************************************************************************)
EXTENDS Diagnostics, TLAPS

(***************************************************************************)
(* slices.Insert: one entry longer, e at the insertion point, the others   *)
(* in their old order around it.                                           *)
(***************************************************************************)
LEMMA InsertedAtProperties ==
  ASSUME NEW S, NEW s \in Seq(S), NEW e \in S, NEW i \in 1 .. Len(s) + 1
  PROVE  /\ InsertedAt(s, e, i) \in Seq(S)
         /\ Len(InsertedAt(s, e, i)) = Len(s) + 1
         /\ InsertedAt(s, e, i)[i] = e
         /\ \A k \in 1 .. Len(s) + 1 :
              /\ k < i => InsertedAt(s, e, i)[k] = s[k]
              /\ k > i => InsertedAt(s, e, i)[k] = s[k - 1]
<1> DEFINE t == InsertedAt(s, e, i)
<1>1. Len(s) + 1 \in Nat
  OBVIOUS
<1>2. t = [k \in 1 .. Len(s) + 1 |->
             IF k < i THEN s[k] ELSE IF k = i THEN e ELSE s[k - 1]]
  BY DEF InsertedAt
<1>3. \A k \in 1 .. Len(s) + 1 : t[k] \in S
  BY <1>2
<1>4. t \in Seq(S) /\ Len(t) = Len(s) + 1
  BY <1>1, <1>2, <1>3
<1>5. QED
  BY <1>2, <1>4

(***************************************************************************)
(* Every old entry is still there, and every entry is old or e.            *)
(***************************************************************************)
LEMMA InsertedAtEntries ==
  ASSUME NEW S, NEW s \in Seq(S), NEW e \in S, NEW i \in 1 .. Len(s) + 1
  PROVE  /\ \A j \in 1 .. Len(s) : \E k \in 1 .. Len(InsertedAt(s, e, i)) :
              InsertedAt(s, e, i)[k] = s[j]
         /\ \A k \in 1 .. Len(InsertedAt(s, e, i)) :
              \/ InsertedAt(s, e, i)[k] = e
              \/ \E j \in 1 .. Len(s) : InsertedAt(s, e, i)[k] = s[j]
<1> DEFINE t == InsertedAt(s, e, i)
<1> HIDE DEF t
<1>1. /\ Len(t) = Len(s) + 1
      /\ t[i] = e
      /\ \A k \in 1 .. Len(s) + 1 : /\ k < i => t[k] = s[k]
                                    /\ k > i => t[k] = s[k - 1]
  BY InsertedAtProperties DEF t
<1>2. ASSUME NEW j \in 1 .. Len(s)
      PROVE  \E k \in 1 .. Len(t) : t[k] = s[j]
  <2>1. CASE j < i
    BY <1>1, <2>1
  <2>2. CASE j >= i
    <3>1. j + 1 \in 1 .. Len(t) /\ t[j + 1] = s[j]
      BY <1>1, <2>2
    <3>2. QED
      BY <3>1
  <2>3. QED
    BY <2>1, <2>2
<1>3. ASSUME NEW k \in 1 .. Len(t)
      PROVE  t[k] = e \/ \E j \in 1 .. Len(s) : t[k] = s[j]
  <2>1. CASE k < i
    BY <1>1, <2>1
  <2>2. CASE k = i
    BY <1>1, <2>2
  <2>3. CASE k > i
    <3>1. k - 1 \in 1 .. Len(s) /\ t[k] = s[k - 1]
      BY <1>1, <2>3
    <3>2. QED
      BY <3>1
  <2>4. QED
    BY <2>1, <2>2, <2>3
<1>4. QED
  BY <1>2, <1>3 DEF t

-----------------------------------------------------------------------------
(***************************************************************************)
(* recordError adds at most one entry, counts once and marks every open    *)
(* loop as failed.                                                         *)
(***************************************************************************)
LEMMA RecordErrorKeepsTypes ==
  ASSUME TypeOK, NEW e \in Diagnostic, RecordError(e)
  PROVE  TypeOK'
<1>1. errors' \in Seq(Diagnostic) /\ Len(errors') <= Len(errors) + 1
  <2>1. PICK i \in 1 .. Len(errors) + 1 :
          errors' = IF Restated(errors, e, i) THEN errors
                                              ELSE InsertedAt(errors, e, i)
    BY DEF RecordError
  <2>2. QED
    BY <2>1, InsertedAtProperties DEF TypeOK
<1>2. clean' \in Seq(BOOLEAN) /\ Len(clean') = Len(clean)
  <2>1. Len(clean) \in Nat /\ DOMAIN clean = 1 .. Len(clean)
    BY DEF TypeOK
  <2>2. clean' = [k \in 1 .. Len(clean) |-> FALSE]
    BY <2>1 DEF RecordError
  <2>3. QED
    BY <2>1, <2>2
<1>3. QED
  BY <1>1, <1>2 DEF RecordError, TypeOK

(***************************************************************************)
(* A loop that is left takes its mark with it, and no other.               *)
(***************************************************************************)
LEMMA LeaveLoopKeepsTypes ==
  ASSUME TypeOK, marks # <<>>, LeaveLoop
  PROVE  TypeOK'
<1>1. QED
  BY SMTT(30) DEF LeaveLoop, TypeOK

(***************************************************************************)
(* session.errors, session.warnings and the loops' marks stay well formed. *)
(***************************************************************************)
THEOREM TypeCorrect == Spec => []TypeOK
<1>1. ASSUME Init PROVE TypeOK
  BY <1>1 DEF Init, TypeOK
<1>2. ASSUME TypeOK, [Next]_vars PROVE TypeOK'
  <2>1. CASE \E e \in Diagnostic : RecordError(e)
    BY <1>2, <2>1, RecordErrorKeepsTypes
  <2>2. CASE \E w \in Diagnostic : RecordWarning(w)
    BY <1>2, <2>2 DEF RecordWarning, TypeOK
  <2>3. CASE EnterLoop
    BY <1>2, <2>3 DEF EnterLoop, TypeOK
  <2>4. CASE AbandonLoop \/ FinishLoop
    BY <1>2, <2>4, LeaveLoopKeepsTypes DEF AbandonLoop, FinishLoop
  <2>5. CASE vars' = vars
    BY <1>2, <2>5 DEF vars, TypeOK
  <2>6. QED
    BY <1>2, <2>1, <2>2, <2>3, <2>4, <2>5 DEF Next
<1>3. QED
  BY <1>1, <1>2, PTL DEF Spec

-----------------------------------------------------------------------------
(***************************************************************************)
(* Inserting at the leftmost insertion point keeps the list sorted.        *)
(***************************************************************************)
LEMMA InsertionKeepsSorted ==
  ASSUME TypeOK, Sorted, NEW e \in Diagnostic,
         NEW i \in 1 .. Len(errors) + 1, IsInsertionPoint(errors, e, i),
         errors' = InsertedAt(errors, e, i)
  PROVE  Sorted'
<1>1. /\ errors \in Seq(Diagnostic)
      /\ Len(errors') = Len(errors) + 1
      /\ errors'[i] = e
      /\ \A k \in 1 .. Len(errors) + 1 : /\ k < i => errors'[k] = errors[k]
                                         /\ k > i => errors'[k] = errors[k - 1]
  <2>1. errors \in Seq(Diagnostic)
    BY DEF TypeOK
  <2>2. DEFINE t == InsertedAt(errors, e, i)
  <2>3. /\ Len(t) = Len(errors) + 1
        /\ t[i] = e
        /\ \A k \in 1 .. Len(errors) + 1 : /\ k < i => t[k] = errors[k]
                                           /\ k > i => t[k] = errors[k - 1]
    BY <2>1, InsertedAtProperties, SMTT(30)
  <2>4. errors' = t
    OBVIOUS
  <2>5. HIDE DEF t
  <2>6. QED
    BY <2>1, <2>3, <2>4
<1>2. \A j \in 1 .. Len(errors) : Before(errors[j], e) <=> j < i
  BY DEF IsInsertionPoint
<1>3. \A d \in Diagnostic : d.start \in Nat /\ d.end \in Nat
  BY DiagnosticsAssumption DEF Diagnostic
<1>4. \A j \in 1 .. Len(errors) : errors[j].start \in Nat /\ errors[j].end \in Nat
  BY <1>1, <1>3
<1>5. SUFFICES ASSUME NEW j \in 1 .. Len(errors'), NEW k \in 1 .. Len(errors'), j < k
               PROVE  ~Before(errors'[k], errors'[j])
  BY DEF Sorted
<1>6. CASE k < i
  BY <1>1, <1>5, <1>6 DEF Sorted
<1>7. CASE k = i
  BY <1>1, <1>2, <1>3, <1>4, <1>5, <1>7, SMTT(30) DEF Before
<1>8. CASE k > i /\ j < i
  <2>1. k - 1 \in 1 .. Len(errors) /\ j < i /\ i <= k - 1
    BY <1>1, <1>5, <1>8
  <2>2. errors'[k] = errors[k - 1] /\ errors'[j] = errors[j]
    BY <1>1, <1>5, <1>8
  <2>3. QED
    BY <1>1, <2>1, <2>2, SMTT(30) DEF Sorted
<1>9. CASE k > i /\ j = i
  <2>1. k - 1 \in 1 .. Len(errors) /\ ~(k - 1 < i)
    BY <1>1, <1>5, <1>9
  <2>2. QED
    BY <1>1, <1>2, <1>5, <1>9, <2>1
<1>10. CASE k > i /\ j > i
  <2>1. k - 1 \in 1 .. Len(errors) /\ j - 1 \in 1 .. Len(errors) /\ j - 1 < k - 1
    BY <1>1, <1>5, <1>10
  <2>2. errors'[k] = errors[k - 1] /\ errors'[j] = errors[j - 1]
    BY <1>1, <1>5, <1>10
  <2>3. QED
    BY <1>1, <2>1, <2>2 DEF Sorted
<1>11. QED
  BY <1>1, <1>5, <1>6, <1>7, <1>8, <1>9, <1>10

(***************************************************************************)
(* session.errors is sorted by errCmp after any number of errors raised in *)
(* any order.                                                              *)
(***************************************************************************)
THEOREM ErrorsSorted == Spec => []Sorted
<1>1. Init => Sorted
  BY DEF Init, Sorted
<1>2. TypeOK /\ Sorted /\ [Next]_vars => Sorted'
  <2> SUFFICES ASSUME TypeOK, Sorted, [Next]_vars
               PROVE  Sorted'
    OBVIOUS
  <2>1. ASSUME NEW e \in Diagnostic, RecordError(e)
        PROVE  Sorted'
    <3>1. PICK i \in 1 .. Len(errors) + 1 :
            /\ IsInsertionPoint(errors, e, i)
            /\ errors' = IF Restated(errors, e, i) THEN errors
                                                   ELSE InsertedAt(errors, e, i)
      BY <2>1 DEF RecordError
    <3>2. CASE Restated(errors, e, i)
      BY <3>1, <3>2 DEF Sorted
    <3>3. CASE ~Restated(errors, e, i)
      BY <3>1, <3>3, InsertionKeepsSorted
    <3>4. QED
      BY <3>2, <3>3
  <2>2. CASE UNCHANGED errors
    BY <2>2 DEF Sorted
  <2>3. QED
    BY <2>1, <2>2 DEF Next, RecordWarning, EnterLoop, AbandonLoop, FinishLoop,
                      LeaveLoop, vars
<1>3. QED
  BY <1>1, <1>2, TypeCorrect, PTL DEF Spec

-----------------------------------------------------------------------------
(***************************************************************************)
(* No message is lost to suppression, and nothing is reported unraised.    *)
(***************************************************************************)
THEOREM NothingLost == Spec => []EveryErrorCovered
<1>1. Init => EveryErrorCovered
  BY DEF Init, EveryErrorCovered
<1>2. TypeOK /\ EveryErrorCovered /\ [Next]_vars => EveryErrorCovered'
  <2> SUFFICES ASSUME TypeOK, EveryErrorCovered, [Next]_vars
               PROVE  EveryErrorCovered'
    OBVIOUS
  <2>1. ASSUME NEW e \in Diagnostic, RecordError(e)
        PROVE  EveryErrorCovered'
    <3>1. PICK i \in 1 .. Len(errors) + 1 :
            /\ IsInsertionPoint(errors, e, i)
            /\ errors' = IF Restated(errors, e, i) THEN errors
                                                   ELSE InsertedAt(errors, e, i)
      BY <2>1 DEF RecordError
    <3>2. raised' = raised \cup {e}
      BY <2>1 DEF RecordError
    <3>3. CASE Restated(errors, e, i)
      BY <3>1, <3>2, <3>3 DEF EveryErrorCovered, Restated
    <3>4. CASE ~Restated(errors, e, i)
      <4>1. errors \in Seq(Diagnostic) /\ errors' = InsertedAt(errors, e, i)
        BY <3>1, <3>4 DEF TypeOK
      <4>2. \A j \in 1 .. Len(errors) : \E k \in 1 .. Len(errors') :
              errors'[k] = errors[j]
        BY <4>1, InsertedAtEntries
      <4>3. \A k \in 1 .. Len(errors') :
              errors'[k] = e \/ \E j \in 1 .. Len(errors) : errors'[k] = errors[j]
        BY <4>1, InsertedAtEntries
      <4>4. i \in 1 .. Len(errors') /\ errors'[i] = e
        BY <4>1, InsertedAtProperties
      <4>5. Covers(e, e)
        <5>1. e.start \in Nat /\ e.end \in Nat
          BY DiagnosticsAssumption DEF Diagnostic
        <5>2. QED
          BY <5>1 DEF Covers
      <4>6. QED
        BY <3>2, <4>2, <4>3, <4>4, <4>5 DEF EveryErrorCovered
    <3>5. QED
      BY <3>3, <3>4
  <2>2. CASE UNCHANGED <<errors, raised>>
    BY <2>2 DEF EveryErrorCovered
  <2>3. QED
    BY <2>1, <2>2 DEF Next, RecordWarning, EnterLoop, AbandonLoop, FinishLoop,
                      LeaveLoop, vars
<1>3. QED
  BY <1>1, <1>2, TypeCorrect, PTL DEF Spec

(***************************************************************************)
(* A loop's back edge sees exactly the errors raised since its header: the *)
(* inductive part is that a mark never exceeds the counter (in TypeOK), so *)
(* that one more call of recordError tells every open mark from it.        *)
(***************************************************************************)
THEOREM MarksSeeFailure == Spec => []LoopsSeeFailure
<1>1. Init => LoopsSeeFailure
  BY DEF Init, LoopsSeeFailure
<1>2. TypeOK /\ LoopsSeeFailure /\ [Next]_vars => LoopsSeeFailure'
  <2> SUFFICES ASSUME TypeOK, LoopsSeeFailure, [Next]_vars
               PROVE  LoopsSeeFailure'
    OBVIOUS
  <2> USE DEF LoopsSeeFailure, ErrorSince, TypeOK
  <2>1. ASSUME NEW e \in Diagnostic, RecordError(e)
        PROVE  LoopsSeeFailure'
    BY <2>1 DEF RecordError
  <2>2. CASE EnterLoop
    BY <2>2 DEF EnterLoop
  <2>3. CASE marks # <<>> /\ LeaveLoop
    BY <2>3 DEF LeaveLoop
  <2>4. CASE UNCHANGED <<marks, errorSeq, clean>>
    BY <2>4
  <2>5. QED
    BY <2>1, <2>2, <2>3, <2>4
       DEF Next, RecordWarning, AbandonLoop, FinishLoop, vars
<1>3. QED
  BY <1>1, <1>2, TypeCorrect, PTL DEF Spec

-----------------------------------------------------------------------------
(***************************************************************************)
(* An entry whose span strictly contains e's sorts before e, so the        *)
(* backward scan from the insertion point reaches it.                      *)
(***************************************************************************)
LEMMA BroaderIsScanned ==
  ASSUME TypeOK, NEW e \in Diagnostic, NEW i \in 1 .. Len(errors) + 1,
         IsInsertionPoint(errors, e, i),
         NEW j \in 1 .. Len(errors), Covers(errors[j], e),
         ~(errors[j].start = e.start /\ errors[j].end = e.end)
  PROVE  Restated(errors, e, i)
<1>1. /\ errors[j].start \in Nat /\ errors[j].end \in Nat
      /\ e.start \in Nat /\ e.end \in Nat
  <2>1. errors[j] \in Diagnostic
    BY DEF TypeOK
  <2>2. QED
    BY <2>1, DiagnosticsAssumption DEF Diagnostic
<1>2. Before(errors[j], e)
  BY <1>1 DEF Before, Covers
<1>3. j < i
  BY <1>2 DEF IsInsertionPoint
<1>4. QED
  BY <1>3 DEF Restated

(***************************************************************************)
(* An exact duplicate the scan does not find stands behind an entry at its *)
(* span with another message: the one at the insertion point.              *)
(***************************************************************************)
LEMMA DuplicateIsHidden ==
  ASSUME TypeOK, Sorted, NEW e \in Diagnostic, NEW i \in 1 .. Len(errors) + 1,
         IsInsertionPoint(errors, e, i), ~Restated(errors, e, i),
         NEW j \in 1 .. Len(errors), Covers(errors[j], e), SameSpan(errors[j], e)
  PROVE  \E k \in 1 .. Len(errors) : SameSpan(errors[k], e) /\ errors[k].msg # e.msg
<1>1. i \in Nat /\ j \in Nat /\ Len(errors) \in Nat
  BY DEF TypeOK
<1>2. e.start \in Nat /\ e.end \in Nat
  BY DiagnosticsAssumption DEF Diagnostic
<1>3. ~Before(errors[j], e)
  BY <1>2 DEF Before, SameSpan
<1>4. i < j
  <2>1. i <= j
    BY <1>1, <1>3 DEF IsInsertionPoint
  <2>2. i # j
    BY <1>1 DEF Restated
  <2>3. QED
    BY <1>1, <2>1, <2>2
<1>5. i \in 1 .. Len(errors)
  BY <1>1, <1>4
<1>6. errors[i].start \in Nat /\ errors[i].end \in Nat
  <2>1. errors[i] \in Diagnostic
    BY <1>5 DEF TypeOK
  <2>2. QED
    BY <2>1, DiagnosticsAssumption DEF Diagnostic
<1>7. ~Before(errors[i], e) /\ ~Before(e, errors[i])
  <2>1. ~Before(errors[i], e)
    BY <1>1, <1>5 DEF IsInsertionPoint
  <2>2. ~Before(errors[j], errors[i])
    BY <1>4, <1>5 DEF Sorted
  <2>3. QED
    BY <2>1, <2>2 DEF Before, SameSpan
<1>8. SameSpan(errors[i], e)
  BY <1>2, <1>6, <1>7 DEF Before, SameSpan
<1>9. errors[i].msg # e.msg
  <2>1. ~Covers(errors[i], e)
    BY <1>1, <1>5 DEF Restated
  <2>2. QED
    BY <1>2, <1>8, <2>1 DEF Covers, SameSpan
<1>10. QED
  BY <1>5, <1>8, <1>9

(***************************************************************************)
(* What restates a reported error never reaches the list, unless it is an  *)
(* exact duplicate and another message stands at its span.                 *)
(***************************************************************************)
THEOREM RestatementsNotReported == Spec => RestatementsCollapse
<1> DEFINE Step ==
      \A e \in Diagnostic, j \in 1 .. Len(errors) :
        /\ RecordError(e) /\ errors' # errors
        /\ Covers(errors[j], e)
        => /\ SameSpan(errors[j], e)
           /\ \E k \in 1 .. Len(errors) : SameSpan(errors[k], e) /\ errors[k].msg # e.msg
<1>1. TypeOK /\ Sorted => [Step]_vars
  <2> SUFFICES ASSUME TypeOK, Sorted,
                      NEW e \in Diagnostic, NEW j \in 1 .. Len(errors),
                      RecordError(e), errors' # errors, Covers(errors[j], e)
               PROVE  /\ SameSpan(errors[j], e)
                      /\ \E k \in 1 .. Len(errors) :
                           SameSpan(errors[k], e) /\ errors[k].msg # e.msg
    OBVIOUS
  <2>1. PICK p \in 1 .. Len(errors) + 1 :
          IsInsertionPoint(errors, e, p) /\ ~Restated(errors, e, p)
    BY DEF RecordError
  <2>2. SameSpan(errors[j], e)
    BY <2>1, BroaderIsScanned DEF SameSpan
  <2>3. QED
    BY <2>1, <2>2, DuplicateIsHidden
<1>2. QED
  BY <1>1, TypeCorrect, ErrorsSorted, PTL DEF Spec, RestatementsCollapse
=============================================================================
