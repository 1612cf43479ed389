------------------------------- MODULE Labels -------------------------------
(***************************************************************************)
(* The labels of one document: attachLabel and RecordRef while its code    *)
(* runs, show rules attaching and dropping during realization,             *)
(* assignHeadingLabels over what is left, and checkRefs at the end.        *)
(*                                                                         *)
(* A label name is a sequence: a base, then the numbers that claim         *)
(* appended to tell it apart from a name already taken.                    *)
(***************************************************************************)
EXTENDS Naturals, Sequences, SequencesExt, FiniteSets

CONSTANTS
  Headings,     \* the headings, in document order
  Metadata,     \* the metadata elements
  SourceNames,  \* names the source may write, and headings slug to
  Spans,        \* where references may stand
  NoName        \* no label

Elements == ToSet(Headings) \cup Metadata

ASSUME LabelsAssumption ==
  /\ Headings \in Seq(ToSet(Headings)) /\ IsInjective(Headings)
  /\ IsFiniteSet(Metadata)
  /\ ToSet(Headings) \cap Metadata = {}
  /\ SourceNames \subseteq Seq(Nat) /\ NoName \notin Seq(Nat)

VARIABLES
  phase,           \* "evaluating", "realizing", "labelling" or "done"
  label,           \* each element's label
  auto,            \* the headings whose label was generated (Label.Auto)
  labels,          \* session.labels
  metadataLabels,  \* session.metadataLabels
  pendingRefs,     \* session.pendingRefs, and seenRefs: {<<target, span>>}
  errors,          \* the pending references checkRefs reported
  present,         \* the elements still in the document
  next,            \* the next heading to label
  warned,          \* the labels a second metadata was warned about
  refs,            \* history: the references evaluated
  carried,         \* history: the names some element has been given
  orphaned         \* history: the names struck while another element had them

sessionVars == <<labels, metadataLabels, pendingRefs>>
vars == <<phase, label, auto, sessionVars, errors, present, next, warned,
          refs, carried, orphaned>>

Init ==
  /\ phase = "evaluating"
  /\ label = [e \in Elements |-> NoName]
  /\ auto = {} /\ labels = {} /\ metadataLabels = {} /\ pendingRefs = {}
  /\ errors = {} /\ present = Elements /\ next = 1
  /\ warned = {} /\ refs = {} /\ carried = {} /\ orphaned = {}

CodeRuns == phase \in {"evaluating", "realizing"}

-----------------------------------------------------------------------------
(* While code runs.                                                        *)

\* The names left once an element's former label is taken away.
Without(names, old) == names \ {old}

Carriers(l) == {e \in Elements : label[e] = l}

\* The orphaned names once e's former label is struck and l registered.
Orphaned(e, l) ==
  (orphaned \cup {n \in {label[e]} : n # NoName /\ Carriers(n) # {e}}) \ {l}

\* Variant: the former label stays registered.
AttachLabelOver(e, l) ==
  /\ CodeRuns
  /\ label' = [label EXCEPT ![e] = l]
  /\ labels' = labels \cup {l}
  /\ IF e \in Metadata
     THEN /\ metadataLabels' = metadataLabels \cup {l}
          /\ warned' = IF l \in metadataLabels THEN warned \cup {l} ELSE warned
     ELSE UNCHANGED <<metadataLabels, warned>>
  /\ carried' = carried \cup {l} /\ orphaned' = Orphaned(e, l)
  /\ UNCHANGED <<phase, auto, pendingRefs, errors, present, next, refs>>

(***************************************************************************)
(* attachLabel.  An element's former label is struck from both sets,       *)
(* whoever else carries it.                                                *)
(***************************************************************************)
AttachLabel(e, l) ==
  /\ CodeRuns
  /\ label' = [label EXCEPT ![e] = l]
  /\ labels' = Without(labels, label[e]) \cup {l}
  /\ LET others == Without(metadataLabels, label[e])
     IN  IF e \in Metadata
         THEN /\ metadataLabels' = others \cup {l}
              /\ warned' = IF l \in others THEN warned \cup {l} ELSE warned
         ELSE metadataLabels' = others /\ UNCHANGED warned
  /\ carried' = carried \cup {l} /\ orphaned' = Orphaned(e, l)
  /\ UNCHANGED <<phase, auto, pendingRefs, errors, present, next, refs>>

\* Variant: one reference per target is kept.
PendingByTarget(target, span) ==
  IF target \in labels \/ \E r \in pendingRefs : r[1] = target
  THEN pendingRefs ELSE pendingRefs \cup {<<target, span>>}

\* RecordRef: nothing to do for a target that is labelled by now; a
\* reference already waiting is not added twice.
Pending(target, span) ==
  IF target \in labels THEN pendingRefs ELSE pendingRefs \cup {<<target, span>>}

RecordRef(target, span) ==
  /\ CodeRuns
  /\ pendingRefs' = Pending(target, span)
  /\ refs' = refs \cup {<<target, span>>}
  /\ UNCHANGED <<phase, label, auto, labels, metadataLabels, errors, present, next, warned, carried, orphaned>>

Realize ==
  /\ phase = "evaluating" /\ phase' = "realizing"
  /\ UNCHANGED <<label, auto, sessionVars, errors, present, next, warned, refs, carried, orphaned>>

\* A show rule replaces an element by something else.
Drop(e) ==
  /\ phase = "realizing"
  /\ e \in present /\ present' = present \ {e}
  /\ UNCHANGED <<phase, label, auto, sessionVars, errors, next, warned, refs, carried, orphaned>>

-----------------------------------------------------------------------------
(* After realization.                                                      *)

StartLabelling ==
  /\ phase = "realizing" /\ phase' = "labelling"
  /\ UNCHANGED <<label, auto, sessionVars, errors, present, next, warned, refs, carried, orphaned>>

\* Variant: only the names generated so far are reserved.
TakenByAuto == {label[h] : h \in auto}

\* What the id pool holds: the names registered, and those generated so far.
Taken == labels \cup {label[h] : h \in auto}

\* Variant: a taken id always gets -1.
ClaimFirst(taken, id) == IF id \notin taken THEN id ELSE Append(id, 1)

\* claim: the id, or the first of id-1, id-2, ... that is free.
Claim(taken, id) ==
  LET free == {i \in 1 .. Cardinality(taken) + 1 : Append(id, i) \notin taken}
  IN  IF id \notin taken THEN id
      ELSE Append(id, CHOOSE i \in free : \A j \in free : i <= j)

\* assignHeadingLabels: the next heading, whose text slugs to slug.
LabelHeading(slug) ==
  /\ phase = "labelling" /\ next <= Len(Headings)
  /\ next' = next + 1
  /\ LET h == Headings[next]
     IN  IF h \in present /\ label[h] = NoName
         THEN /\ label' = [label EXCEPT ![h] = Claim(Taken, slug)]
              /\ auto' = auto \cup {h}
         ELSE UNCHANGED <<label, auto>>
  /\ UNCHANGED <<phase, sessionVars, errors, present, warned, refs, carried, orphaned>>

CheckRefs ==
  /\ phase = "labelling" /\ next > Len(Headings)
  /\ phase' = "done"
  /\ errors' = {r \in pendingRefs : r[1] \notin labels}
  /\ UNCHANGED <<label, auto, sessionVars, present, next, warned, refs, carried, orphaned>>

Next ==
  \/ \E e \in Elements, l \in SourceNames : AttachLabel(e, l)
  \/ \E l \in SourceNames, s \in Spans : RecordRef(l, s)
  \/ Realize \/ StartLabelling \/ CheckRefs
  \/ \E l \in SourceNames : LabelHeading(l)
  \/ \E e \in Elements : Drop(e)

Spec == Init /\ [][Next]_vars

-----------------------------------------------------------------------------
(* Properties.                                                             *)

\* A registered label is carried by an element, and a registered metadata label
\* by a metadata: no reference is let through for a name that was written over.
RegisteredAreCarried ==
  /\ \A l \in labels : Carriers(l) # {}
  /\ \A l \in metadataLabels : l \in labels /\ Carriers(l) \cap Metadata # {}

\* A generated heading label differs from every name `@x` can refer to and from
\* every label an element carries, generated or written, whatever the slugs look
\* like ("intro-1" as a title included).  The one exception is a name that was
\* struck with the label of one element while a second one had it too: attachLabel
\* forgets it, and newIDPool can no longer reserve it as autolabel.go:53-55 says.
GeneratedAreFree ==
  \A h \in auto :
    /\ label[h] \notin labels
    /\ \A e \in Carriers(label[h]) : e # h => e \notin auto /\ label[h] \in orphaned

\* Names stay in step with elements: those written down while labels are moved,
\* shared and written over, and those made up for headings afterwards.
NamesInStep == RegisteredAreCarried /\ GeneratedAreFree

\* A reference to a name that no element was ever given is reported, each place
\* it stands at.
UndefinedAreReported ==
  phase = "done" => \A r \in refs : r[1] \notin carried => r \in errors
=============================================================================
