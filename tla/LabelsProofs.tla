---------------------------- MODULE LabelsProofs ----------------------------
(***************************************************************************)
(* Proofs about Labels for every document: names stay in step with the     *)
(* elements that carry them, the names made up for headings are free       *)
(* whatever they slug to, and a reference to a name nothing was ever given *)
(* is reported at each place it stands.                                    *)
(***************************************************************************)
EXTENDS Labels, FiniteSetTheorems, WellFoundedInduction, TLAPS

-----------------------------------------------------------------------------
(* claim.                                                                  *)

(***************************************************************************)
(* A set of naturals that is not empty has a least element.                *)
(***************************************************************************)
LEMMA LeastNatural ==
  ASSUME NEW S \in SUBSET Nat, S # {}
  PROVE  \E i \in S : \A j \in S : i <= j
<1>1. PICK i \in S : \A j \in S : ~(<<j, i>> \in OpToRel(<, Nat))
  BY WFMin, NatLessThanWellFounded
<1>2. \A j \in S : ~(j < i)
  BY <1>1 DEF OpToRel
<1>3. QED
  BY <1>2

(***************************************************************************)
(* Of the names id-1 .. id-(n+1), one more than are taken, one is free.    *)
(***************************************************************************)
LEMMA SomeSuffixIsFree ==
  ASSUME NEW taken, IsFiniteSet(taken), NEW id \in Seq(Nat)
  PROVE  /\ Cardinality(taken) \in Nat
         /\ \E i \in 1 .. Cardinality(taken) + 1 : Append(id, i) \notin taken
<1> DEFINE n == Cardinality(taken)
           name == [i \in 1 .. n + 1 |-> Append(id, i)]
<1>1. n \in Nat
  BY FS_CardinalityType
<1> HIDE DEF n
<1>2. IsFiniteSet(1 .. n + 1) /\ Cardinality(1 .. n + 1) = n + 1
  BY <1>1, FS_Interval
<1>3. ASSUME \A i \in 1 .. n + 1 : Append(id, i) \in taken
      PROVE  FALSE
  <2>1. name \in [1 .. n + 1 -> taken]
    BY <1>3
  <2>2. n < Cardinality(1 .. n + 1)
    BY <1>1, <1>2
  <2> HIDE DEF name
  <2>3. PICK i, j \in 1 .. n + 1 : i # j /\ name[i] = name[j]
    BY <1>2, <2>1, <2>2, FS_PigeonHole DEF n
  <2>4. Append(id, i) = Append(id, j)
    BY <2>3 DEF name
  <2>5. i \in Nat /\ j \in Nat
    BY <1>1
  <2>6. Append(id, i)[Len(id) + 1] = i /\ Append(id, j)[Len(id) + 1] = j
    BY <2>5
  <2>7. QED
    BY <2>3, <2>4, <2>6
<1>4. QED
  BY <1>1, <1>3 DEF n

(***************************************************************************)
(* claim gives a name that is not taken: the slug itself, or the slug with *)
(* the least number that makes it free.                                    *)
(***************************************************************************)
THEOREM ClaimIsFree ==
  ASSUME NEW taken, IsFiniteSet(taken), NEW id \in Seq(Nat)
  PROVE  /\ Claim(taken, id) \notin taken
         /\ Claim(taken, id) \in Seq(Nat)
<1> DEFINE free == {i \in 1 .. Cardinality(taken) + 1 : Append(id, i) \notin taken}
<1>1. Cardinality(taken) \in Nat /\ free # {}
  BY SomeSuffixIsFree
<1>2. free \in SUBSET Nat
  BY <1>1
<1>3. \E i \in free : \A j \in free : i <= j
  BY <1>1, <1>2, LeastNatural
<1> DEFINE least == CHOOSE i \in free : \A j \in free : i <= j
<1>4. least \in free
  BY <1>3
<1>5. least \in Nat /\ Append(id, least) \notin taken
  BY <1>2, <1>4
<1>6. Claim(taken, id) = IF id \notin taken THEN id ELSE Append(id, least)
  BY DEF Claim
<1> HIDE DEF least
<1>7. QED
  BY <1>5, <1>6

-----------------------------------------------------------------------------
(* The inductive invariant.                                                *)

LabelsTypeOK ==
  /\ phase \in {"evaluating", "realizing", "labelling", "done"}
  /\ label \in [Elements -> Seq(Nat) \cup {NoName}]
  /\ auto \in SUBSET ToSet(Headings)
  /\ labels \in SUBSET SourceNames /\ IsFiniteSet(labels)
  /\ metadataLabels \in SUBSET SourceNames
  /\ pendingRefs \in SUBSET (SourceNames \X Spans)
  /\ errors \in SUBSET (SourceNames \X Spans)
  /\ present \in SUBSET Elements
  /\ next \in 1 .. Len(Headings) + 1
  /\ warned \in SUBSET SourceNames
  /\ refs \in SUBSET (SourceNames \X Spans)
  /\ carried \in SUBSET SourceNames

\* What the source wrote on an element is registered, or was struck while
\* another element had it.
WrittenAreKnown ==
  \A e \in Elements : label[e] = NoName \/ e \in auto \/ label[e] \in labels \cup orphaned

\* Names are only made up when no code runs any more.
GeneratedAfterwards == CodeRuns => auto = {}

\* A name that is registered was given to something, and a reference that is
\* not waiting found its target registered.
RefsAreKept ==
  /\ labels \in SUBSET carried
  /\ \A r \in refs : r[1] \notin carried => r \in pendingRefs
  /\ phase = "done" => \A r \in pendingRefs : r[1] \notin labels => r \in errors

LabelsInv ==
  /\ LabelsTypeOK /\ GeneratedAfterwards /\ RefsAreKept /\ WrittenAreKnown
  /\ RegisteredAreCarried /\ GeneratedAreFree

(***************************************************************************)
(* What the assumptions say of elements: a heading is an element and no    *)
(* metadata, and the headings are finitely many.                           *)
(***************************************************************************)
LEMMA HeadingsAreElements ==
  /\ IsFiniteSet(ToSet(Headings))
  /\ ToSet(Headings) \subseteq Elements
  /\ \A i \in 1 .. Len(Headings) : Headings[i] \in ToSet(Headings)
  /\ Len(Headings) \in Nat
<1>1. Len(Headings) \in Nat /\ DOMAIN Headings = 1 .. Len(Headings)
  BY LabelsAssumption
<1>2. ToSet(Headings) = {Headings[i] : i \in 1 .. Len(Headings)}
  BY <1>1 DEF ToSet
<1>3. Headings \in Surjection(1 .. Len(Headings), ToSet(Headings))
  BY <1>1, <1>2, LabelsAssumption DEF Surjection
<1>4. IsFiniteSet(1 .. Len(Headings))
  BY <1>1, FS_Interval
<1>5. IsFiniteSet(ToSet(Headings))
  BY <1>3, <1>4, FS_Surjection
<1>6. QED
  BY <1>1, <1>2, <1>5 DEF Elements

(***************************************************************************)
(* The id pool is finite.                                                  *)
(***************************************************************************)
LEMMA TakenIsFinite ==
  ASSUME LabelsTypeOK
  PROVE  IsFiniteSet(Taken)
<1> DEFINE generated == {label[h] : h \in auto}
           f == [h \in auto |-> label[h]]
<1>1. IsFiniteSet(auto)
  BY HeadingsAreElements, FS_Subset DEF LabelsTypeOK
<1>2. f \in Surjection(auto, generated)
  BY DEF Surjection
<1>3. IsFiniteSet(generated)
  BY <1>1, <1>2, FS_Surjection
<1>4. QED
  BY <1>3, FS_Union DEF Taken, LabelsTypeOK

(***************************************************************************)
(* attachLabel keeps registered names carried although it strikes the      *)
(* element's former name whoever else carries it: nobody is left with a    *)
(* name that is registered and not his, and a name somebody is left with   *)
(* that is not registered counts as orphaned.                              *)
(***************************************************************************)
LEMMA AttachLabelStep ==
  ASSUME LabelsInv, NEW e \in Elements, NEW l \in SourceNames, AttachLabel(e, l)
  PROVE  LabelsInv'
<1> USE DEF LabelsInv
<1>1. l \in Seq(Nat)
  BY LabelsAssumption
<1>2. label' = [label EXCEPT ![e] = l] /\ label'[e] = l
  BY DEF AttachLabel, LabelsTypeOK
<1>3. IsFiniteSet(labels \ {label[e]})
  BY FS_RemoveElement DEF LabelsTypeOK
<1>4. IsFiniteSet(labels')
  BY <1>3, FS_AddElement DEF AttachLabel, Without
<1>5. LabelsTypeOK'
  BY <1>1, <1>2, <1>4 DEF AttachLabel, LabelsTypeOK, Without
<1>6. GeneratedAfterwards' /\ auto = {} /\ auto' = {}
  BY DEF AttachLabel, GeneratedAfterwards, CodeRuns
<1>7. RefsAreKept'
  BY DEF AttachLabel, RefsAreKept, Without, CodeRuns
<1>8. RegisteredAreCarried'
  <2>1. \A x \in labels' : Carriers(x)' # {}
    BY <1>2 DEF AttachLabel, Without, Carriers, RegisteredAreCarried, LabelsTypeOK
  <2>2. ASSUME NEW x \in metadataLabels', x # l
        PROVE  x \in labels' /\ (Carriers(x) \cap Metadata # {})'
    <3>1. x \in metadataLabels /\ x # label[e]
      BY <2>2 DEF AttachLabel, Without
    <3>2. x \in labels /\ x \in labels'
      BY <3>1 DEF AttachLabel, Without, RegisteredAreCarried
    <3>3. QED
      BY <1>2, <3>1, <3>2 DEF Carriers, RegisteredAreCarried, LabelsTypeOK
  <2>3. ASSUME l \in metadataLabels'
        PROVE  l \in labels' /\ (Carriers(l) \cap Metadata # {})'
    <3>1. l \in labels'
      BY DEF AttachLabel
    <3>2. CASE e \in Metadata
      BY <1>2, <3>1, <3>2 DEF Carriers
    <3>3. CASE e \notin Metadata
      <4>1. l \in metadataLabels /\ l # label[e]
        BY <2>3, <3>3 DEF AttachLabel, Without
      <4>2. QED
        BY <1>2, <3>1, <4>1 DEF Carriers, RegisteredAreCarried, LabelsTypeOK
    <3>4. QED
      BY <3>2, <3>3
  <2>4. QED
    BY <2>1, <2>2, <2>3 DEF RegisteredAreCarried
<1>9. GeneratedAreFree'
  BY <1>6 DEF GeneratedAreFree
<1>10. WrittenAreKnown'
  <2> SUFFICES ASSUME NEW f \in Elements, label'[f] # NoName
               PROVE  label'[f] \in labels' \cup orphaned'
    BY <1>6 DEF WrittenAreKnown
  <2>1. labels' = (labels \ {label[e]}) \cup {l} /\ orphaned' = Orphaned(e, l)
    BY DEF AttachLabel, Without
  <2>2. CASE f = e \/ label[f] = l
    BY <1>2, <2>1, <2>2 DEF LabelsTypeOK
  <2>3. CASE f # e /\ label[f] # l
    <3>1. label'[f] = label[f] /\ label[f] \in labels \cup orphaned
      BY <1>2, <1>6, <2>3 DEF LabelsTypeOK, WrittenAreKnown
    <3>2. label[f] = label[e] => label[f] \in Orphaned(e, l)
      BY <2>3, <3>1 DEF Orphaned, Carriers
    <3>3. label[f] \in orphaned => label[f] \in Orphaned(e, l)
      BY <2>3 DEF Orphaned
    <3>4. QED
      BY <2>1, <3>1, <3>2, <3>3
  <2>4. QED
    BY <2>2, <2>3
<1>11. QED
  BY <1>5, <1>6, <1>7, <1>8, <1>9, <1>10

(***************************************************************************)
(* assignHeadingLabels gives the next heading a free name or leaves it     *)
(* alone; a heading without a name carried nothing that is registered.     *)
(***************************************************************************)
LEMMA LabelHeadingStep ==
  ASSUME LabelsInv, NEW slug \in SourceNames, LabelHeading(slug)
  PROVE  LabelsInv'
<1> DEFINE h == Headings[next]
           id == Claim(Taken, slug)
<1> USE DEF LabelsInv
<1>1. next \in 1 .. Len(Headings) /\ next + 1 \in 1 .. Len(Headings) + 1
  BY HeadingsAreElements DEF LabelHeading, LabelsTypeOK
<1>2. h \in ToSet(Headings) /\ h \in Elements
  BY <1>1, HeadingsAreElements
<1>3. slug \in Seq(Nat)
  BY LabelsAssumption
<1>4. id \notin Taken /\ id \in Seq(Nat)
  BY <1>3, TakenIsFinite, ClaimIsFree
<1>5. ~CodeRuns' /\ ~CodeRuns /\ phase # "done" /\ phase' = phase
  BY DEF LabelHeading, CodeRuns
<1>6. UNCHANGED <<sessionVars, errors, present, warned, refs, carried, orphaned>> /\ next' = next + 1
  BY DEF LabelHeading
<1>7. CASE h \in present /\ label[h] = NoName
  <2>1. label' = [label EXCEPT ![h] = id] /\ auto' = auto \cup {h}
    BY <1>7 DEF LabelHeading
  <2> HIDE DEF h, id
  <2>2. label'[h] = id /\ \A e \in Elements : e # h => label'[e] = label[e]
    BY <1>2, <2>1 DEF LabelsTypeOK
  <2>3. LabelsTypeOK'
    BY <1>1, <1>2, <1>4, <1>5, <1>6, <2>1 DEF LabelsTypeOK, sessionVars
  <2>4. NoName \notin labels /\ NoName \notin metadataLabels
    BY LabelsAssumption DEF LabelsTypeOK
  <2>5. \A x : x # NoName => Carriers(x) \subseteq Carriers(x)'
    BY <1>7, <2>2 DEF Carriers
  <2>6. RegisteredAreCarried'
    BY <1>6, <2>4, <2>5 DEF RegisteredAreCarried, sessionVars
  <2>7. GeneratedAreFree'
    <3>1. id \notin labels /\ \A g \in auto : label[g] # id
      BY <1>4 DEF Taken
    <3>2. id # NoName /\ \A e \in Elements : label[e] = id => id \in orphaned
      BY <1>4, <3>1, LabelsAssumption DEF WrittenAreKnown
    <3>3. \A e \in Elements : e # h /\ label'[e] = id => e \notin auto' /\ id \in orphaned'
      BY <1>6, <2>1, <2>2, <3>1, <3>2
    <3>4. \A g \in auto : g \in Elements
      BY HeadingsAreElements DEF LabelsTypeOK
    <3>5. ASSUME NEW g \in auto'
          PROVE  /\ label'[g] \notin labels'
                 /\ \A e \in Elements : label'[e] = label'[g] /\ e # g
                      => e \notin auto' /\ label'[g] \in orphaned'
      <4>1. CASE g = h
        BY <1>6, <2>2, <3>1, <3>3, <4>1 DEF sessionVars
      <4>2. CASE g \in auto /\ g # h
        BY <1>6, <2>1, <2>2, <3>1, <3>4, <4>2 DEF GeneratedAreFree, Carriers, sessionVars
      <4>3. QED
        BY <2>1, <4>1, <4>2
    <3>6. QED
      BY <3>5 DEF GeneratedAreFree, Carriers
  <2>8. WrittenAreKnown'
    BY <1>6, <2>1, <2>2 DEF WrittenAreKnown, sessionVars
  <2>9. QED
    BY <1>5, <1>6, <2>3, <2>6, <2>7, <2>8 DEF GeneratedAfterwards, RefsAreKept, sessionVars
<1>8. CASE ~(h \in present /\ label[h] = NoName)
  <2>1. UNCHANGED <<label, auto>>
    BY <1>8 DEF LabelHeading
  <2>2. QED
    BY <1>1, <1>5, <1>6, <2>1
       DEF LabelsTypeOK, GeneratedAfterwards, RefsAreKept, RegisteredAreCarried,
           GeneratedAreFree, WrittenAreKnown, Carriers, sessionVars
<1>9. QED
  BY <1>7, <1>8

(***************************************************************************)
(* RecordRef keeps every reference whose target nothing was given.         *)
(***************************************************************************)
LEMMA RecordRefStep ==
  ASSUME LabelsInv, NEW target \in SourceNames, NEW span \in Spans, RecordRef(target, span)
  PROVE  LabelsInv'
<1> USE DEF LabelsInv, RecordRef
<1>1. LabelsTypeOK'
  BY DEF LabelsTypeOK, Pending
<1>2. RefsAreKept'
  <2>1. \A r \in refs' : r[1] \notin carried' => r \in pendingRefs'
    BY DEF RefsAreKept, Pending
  <2>2. QED
    BY <2>1 DEF RefsAreKept, CodeRuns
<1>3. (GeneratedAfterwards /\ WrittenAreKnown /\ RegisteredAreCarried /\ GeneratedAreFree)'
  BY DEF GeneratedAfterwards, WrittenAreKnown, RegisteredAreCarried, GeneratedAreFree, CodeRuns,
         Carriers
<1>4. QED
  BY <1>1, <1>2, <1>3

(***************************************************************************)
(* checkRefs reports what is pending and still not registered.             *)
(***************************************************************************)
LEMMA CheckRefsStep ==
  ASSUME LabelsInv, CheckRefs
  PROVE  LabelsInv'
<1> USE DEF LabelsInv, CheckRefs, sessionVars
<1>1. LabelsTypeOK'
  BY DEF LabelsTypeOK
<1>2. RefsAreKept'
  BY DEF RefsAreKept
<1>3. (GeneratedAfterwards /\ WrittenAreKnown /\ RegisteredAreCarried /\ GeneratedAreFree)'
  BY DEF GeneratedAfterwards, WrittenAreKnown, RegisteredAreCarried, GeneratedAreFree, CodeRuns,
         Carriers
<1>4. QED
  BY <1>1, <1>2, <1>3

(***************************************************************************)
(* The passage from one phase to the next and the dropping of elements     *)
(* touch no name: a dropped element keeps its label, and so keeps the name *)
(* registered.                                                             *)
(***************************************************************************)
LEMMA OtherStep ==
  ASSUME LabelsInv,
         \/ Realize \/ StartLabelling \/ UNCHANGED vars
         \/ \E e \in Elements : Drop(e)
  PROVE  LabelsInv'
<1> USE DEF LabelsInv, Realize, StartLabelling, Drop, vars, sessionVars
<1>1. LabelsTypeOK'
  BY DEF LabelsTypeOK
<1>2. GeneratedAfterwards'
  BY DEF GeneratedAfterwards, CodeRuns
<1>3. RefsAreKept'
  BY DEF RefsAreKept
<1>4. (WrittenAreKnown /\ RegisteredAreCarried /\ GeneratedAreFree)'
  BY DEF WrittenAreKnown, RegisteredAreCarried, GeneratedAreFree, Carriers
<1>5. QED
  BY <1>1, <1>2, <1>3, <1>4

(***************************************************************************)
(* LabelsInv holds throughout.                                             *)
(***************************************************************************)
THEOREM LabelsInvariant == Spec => []LabelsInv
<1>1. Init => LabelsInv
  <2> SUFFICES ASSUME Init PROVE LabelsInv
    OBVIOUS
  <2>1. LabelsTypeOK
    BY HeadingsAreElements, FS_EmptySet DEF Init, LabelsTypeOK
  <2>2. QED
    BY <2>1 DEF Init, LabelsInv, GeneratedAfterwards, RefsAreKept, WrittenAreKnown,
                RegisteredAreCarried, GeneratedAreFree
<1>2. LabelsInv /\ [Next]_vars => LabelsInv'
  BY AttachLabelStep, LabelHeadingStep, RecordRefStep, CheckRefsStep, OtherStep DEF Next
<1>3. QED
  BY <1>1, <1>2, PTL DEF Spec

-----------------------------------------------------------------------------
(* What it shows.                                                          *)

(***************************************************************************)
(* Every registered name is carried by an element, a metadata for a        *)
(* metadata name, and every made-up heading label differs from every name  *)
(* a reference can mean and from every label an element has, but for a     *)
(* name struck with the label of one element while a second one had it.    *)
(***************************************************************************)
THEOREM NamesStayInStep == Spec => []NamesInStep
<1>1. LabelsInv => NamesInStep
  BY DEF LabelsInv, NamesInStep
<1>2. QED
  BY <1>1, LabelsInvariant, PTL

(***************************************************************************)
(* When checkRefs has run, every reference to a name that no element was   *)
(* ever given is reported, at each place it stands.                        *)
(***************************************************************************)
THEOREM UndefinedReported == Spec => []UndefinedAreReported
<1>1. LabelsInv => UndefinedAreReported
  BY DEF LabelsInv, UndefinedAreReported, RefsAreKept
<1>2. QED
  BY <1>1, LabelsInvariant, PTL

(***************************************************************************)
(* Once code has ended nothing a reference can name comes or goes, and a   *)
(* heading that has a name keeps it: what checkRefs and the links of the   *)
(* rendering see is what the labelling started from.                       *)
(***************************************************************************)
THEOREM NamesSettle ==
  Spec => [][~CodeRuns => /\ UNCHANGED <<labels, metadataLabels, refs>>
                          /\ \A e \in Elements : label[e] # NoName => label'[e] = label[e]]_vars
<1>1. LabelsInv /\ [Next]_vars
        => [~CodeRuns => /\ UNCHANGED <<labels, metadataLabels, refs>>
                         /\ \A e \in Elements : label[e] # NoName => label'[e] = label[e]]_vars
  <2> SUFFICES ASSUME LabelsInv, Next, ~CodeRuns
               PROVE  /\ UNCHANGED <<labels, metadataLabels, refs>>
                      /\ \A e \in Elements : label[e] # NoName => label'[e] = label[e]
    OBVIOUS
  <2>1. \/ StartLabelling \/ CheckRefs \/ Realize
        \/ \E slug \in SourceNames : LabelHeading(slug)
        \/ \E e \in Elements : Drop(e)
    BY DEF Next, AttachLabel, RecordRef
  <2>2. CASE StartLabelling \/ CheckRefs \/ Realize \/ \E e \in Elements : Drop(e)
    BY <2>2 DEF StartLabelling, CheckRefs, Realize, Drop, sessionVars
  <2>3. CASE \E slug \in SourceNames : LabelHeading(slug)
    BY <2>3 DEF LabelHeading, sessionVars, LabelsInv, LabelsTypeOK
  <2>4. QED
    BY <2>1, <2>2, <2>3
<1>2. QED
  BY <1>1, LabelsInvariant, PTL DEF Spec
=============================================================================
