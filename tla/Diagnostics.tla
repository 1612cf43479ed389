---------------------------- MODULE Diagnostics ----------------------------
(***************************************************************************)
(* The diagnostics a run of eval collects: session.errors, kept sorted and *)
(* free of restatements by recordError, session.warnings, and the counter  *)
(* errorSeq by which a loop notices that its body has failed.              *)
(*                                                                         *)
(* The environment is the rest of the evaluator.  It raises errors and     *)
(* warnings in any order, enters loops (each loop takes an ErrorMark just  *)
(* before its header) and comes back to their back edges, where ErrorSince *)
(* decides whether the loop goes on.                                       *)
(***************************************************************************)
EXTENDS Naturals, Sequences

CONSTANTS
  Offsets,   \* byte offsets a span can start or end at (uint32 in the code)
  Msgs,      \* message texts
  MaxCalls,  \* bound: calls of recordError and recordWarning in a behaviour
  MaxLoops   \* bound: loops open at once

ASSUME DiagnosticsAssumption ==
  /\ Offsets \subseteq Nat
  /\ MaxCalls \in Nat
  /\ MaxLoops \in Nat

Diagnostic ==
  {d \in [start: Offsets, end: Offsets, msg: Msgs] : d.start <= d.end}

VARIABLES
  errors,    \* session.errors
  errorSeq,  \* session.errorSeq
  warnings,  \* session.warnings
  marks,     \* values of the ErrorMarks of the open loops, outermost first
  raised,    \* history: every error given to recordError
  clean      \* history: clean[i] while loop i has seen no error raised

vars == <<errors, errorSeq, warnings, marks, raised, clean>>

(***************************************************************************)
(* errCmp: by start ascending, then by end descending.                     *)
(***************************************************************************)
Before(a, b) == a.start < b.start \/ (a.start = b.start /\ a.end > b.end)

\* The existing span contains e's span, and the message is the same.
Covers(x, e) == x.start <= e.start /\ x.end >= e.end /\ x.msg = e.msg

SameSpan(a, b) == a.start = b.start /\ a.end = b.end

\* slices.BinarySearchFunc: the leftmost position e can be inserted at.
IsInsertionPoint(s, e, i) ==
  /\ i \in 1 .. Len(s) + 1
  /\ \A j \in 1 .. Len(s) : Before(s[j], e) <=> j < i

\* slices.Insert
InsertedAt(s, e, i) ==
  [k \in 1 .. Len(s) + 1 |->
     IF k < i THEN s[k] ELSE IF k = i THEN e ELSE s[k - 1]]

\* Variant for EveryErrorCovered: the scan compares messages only.
RestatedByMessage(s, e, i) == \E j \in 1 .. Len(s) : j <= i /\ s[j].msg = e.msg

\* Variant for RestatementsCollapse: the scan stops after the nearest entry.
RestatedByNeighbour(s, e, i) ==
  \E j \in 1 .. Len(s) : j \in {i, i - 1} /\ Covers(s[j], e)

\* The backward scan starts at the insertion point, or at the last entry.
Restated(s, e, i) == \E j \in 1 .. Len(s) : j <= i /\ Covers(s[j], e)

-----------------------------------------------------------------------------
Init ==
  /\ errors = <<>> /\ errorSeq = 0 /\ warnings = <<>> /\ marks = <<>>
  /\ raised = {} /\ clean = <<>>

\* Variant of RecordError for LoopsSeeFailure: counts reported errors only.
RecordErrorIfReported(e) ==
  /\ errorSeq + Len(warnings) < MaxCalls
  /\ \E i \in 1 .. Len(errors) + 1 :
       /\ IsInsertionPoint(errors, e, i)
       /\ errors' = IF Restated(errors, e, i) THEN errors
                                              ELSE InsertedAt(errors, e, i)
       /\ errorSeq' = IF Restated(errors, e, i) THEN errorSeq ELSE errorSeq + 1
  /\ raised' = raised \cup {e}
  /\ clean' = [i \in DOMAIN clean |-> FALSE]
  /\ UNCHANGED <<warnings, marks>>

RecordError(e) ==
  /\ errorSeq + Len(warnings) < MaxCalls
  /\ errorSeq' = errorSeq + 1
  /\ \E i \in 1 .. Len(errors) + 1 :
       /\ IsInsertionPoint(errors, e, i)
       /\ errors' = IF Restated(errors, e, i) THEN errors
                                              ELSE InsertedAt(errors, e, i)
  /\ raised' = raised \cup {e}
  /\ clean' = [i \in DOMAIN clean |-> FALSE]
  /\ UNCHANGED <<warnings, marks>>

\* A warning at the span of the previous one is dropped, whatever it says.
RecordWarning(w) ==
  /\ errorSeq + Len(warnings) < MaxCalls
  /\ LET repeats == /\ warnings # <<>>
                    /\ warnings[Len(warnings)].start = w.start
                    /\ warnings[Len(warnings)].end = w.end
     IN  warnings' = IF repeats THEN warnings ELSE Append(warnings, w)
  /\ UNCHANGED <<errors, errorSeq, marks, raised, clean>>

\* ErrorMark, emitted just before a loop's header.
EnterLoop ==
  /\ Len(marks) < MaxLoops
  /\ marks' = Append(marks, errorSeq)
  /\ clean' = Append(clean, TRUE)
  /\ UNCHANGED <<errors, errorSeq, warnings, raised>>

ErrorSince(mark) == errorSeq # mark

LeaveLoop ==
  /\ marks' = SubSeq(marks, 1, Len(marks) - 1)
  /\ clean' = SubSeq(clean, 1, Len(clean) - 1)
  /\ UNCHANGED <<errors, errorSeq, warnings, raised>>

\* The back edge takes the exit arm of Branch(ErrorSince(mark), exit, header).
AbandonLoop == marks # <<>> /\ ErrorSince(marks[Len(marks)]) /\ LeaveLoop

\* The header's condition fails, or a break jumps to the exit block.
FinishLoop == marks # <<>> /\ LeaveLoop

Next ==
  \/ \E e \in Diagnostic : RecordError(e)
  \/ \E w \in Diagnostic : RecordWarning(w)
  \/ EnterLoop
  \/ AbandonLoop
  \/ FinishLoop

Spec == Init /\ [][Next]_vars

-----------------------------------------------------------------------------
TypeOK ==
  /\ errors \in Seq(Diagnostic)
  /\ warnings \in Seq(Diagnostic)
  /\ errorSeq \in Nat
  /\ marks \in Seq(Nat)
  /\ clean \in Seq(BOOLEAN)
  /\ Len(clean) = Len(marks)
  /\ \A i \in 1 .. Len(marks) : marks[i] <= errorSeq
  /\ Len(errors) <= errorSeq
  /\ raised \subseteq Diagnostic

(***************************************************************************)
(* The order session.errors documents, on which binary search and the      *)
(* backward scan both rely: no entry sorts before an earlier one.          *)
(***************************************************************************)
Sorted ==
  \A i, j \in 1 .. Len(errors) : i < j => ~Before(errors[j], errors[i])

(***************************************************************************)
(* Suppression loses no message: whatever the order in which errors were   *)
(* raised, each one is reported, or an error that covers it with the same  *)
(* message is, and nothing is reported that was not raised.                *)
(***************************************************************************)
EveryErrorCovered ==
  /\ \A e \in raised : \E i \in 1 .. Len(errors) : Covers(errors[i], e)
  /\ \A i \in 1 .. Len(errors) : errors[i] \in raised

(***************************************************************************)
(* A loop leaves at its back edge exactly when an error was raised since   *)
(* its header was first entered, in its own body or in a loop inside it,   *)
(* the errors recordError suppressed included: a failing `while true` ends.*)
(***************************************************************************)
LoopsSeeFailure ==
  \A i \in 1 .. Len(marks) : ErrorSince(marks[i]) <=> ~clean[i]

(***************************************************************************)
(* What restates a reported error is not reported: recordError adds an     *)
(* entry only if no entry with its message covers it.  The one exception   *)
(* is an exact duplicate, where another message is reported at its span:   *)
(* the scan starts at the first entry of that span and sees no other.      *)
(***************************************************************************)
RestatementsCollapse ==
  [][\A e \in Diagnostic, j \in 1 .. Len(errors) :
       /\ RecordError(e) /\ errors' # errors
       /\ Covers(errors[j], e)
       => /\ SameSpan(errors[j], e)
          /\ \E k \in 1 .. Len(errors) : SameSpan(errors[k], e) /\ errors[k].msg # e.msg]_vars
=============================================================================
