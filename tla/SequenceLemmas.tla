--------------------------- MODULE SequenceLemmas ---------------------------
(***************************************************************************)
(* What proofs need to know of recursion over sequences.  Induction is     *)
(* stated with a set of naturals in place of a predicate; from it follows  *)
(* that the folds of the models exist and go step by step, what picking    *)
(* entries of a sequence gives, when pieces laid end to end are the        *)
(* sequence they were cut from, and how the elements of a set of numbers   *)
(* are counted number by number.                                           *)
(***************************************************************************)
EXTENDS Pairs, FiniteSetsExt, FiniteSetTheorems, SequenceTheorems,
        WellFoundedInduction, TLAPS

-----------------------------------------------------------------------------
(* Naturals.                                                               *)

(***************************************************************************)
(* A set of naturals that is not empty has a least element.                *)
(***************************************************************************)
LEMMA LeastNatural ==
  ASSUME NEW S \in SUBSET Nat, S # {}
  PROVE  \E i \in S : \A j \in S : i <= j
<1>1. PICK i \in S : \A j \in S : ~(<<j, i>> \in OpToRel(<, Nat))
  BY WFMin, NatLessThanWellFounded
<1>2. \A j \in S : ~(j < i)
  BY <1>1 DEF OpToRel
<1>3. QED
  BY <1>2

(***************************************************************************)
(* Induction up to n: what holds of 0 and passes from each number to the   *)
(* next holds of all.                                                      *)
(***************************************************************************)
LEMMA InductionUpTo ==
  ASSUME NEW n \in Nat, NEW S, 0 \in S, \A i \in 0 .. n - 1 : i \in S => i + 1 \in S
  PROVE  \A i \in 0 .. n : i \in S
<1> DEFINE missed == {i \in 0 .. n : i \notin S}
<1> SUFFICES ASSUME missed # {} PROVE FALSE
  OBVIOUS
<1>0. missed \in SUBSET Nat
  OBVIOUS
<1>1. PICK i \in missed : \A j \in missed : i <= j
  <2> HIDE DEF missed
  <2>1. QED
    BY <1>0, LeastNatural
<1>2. i # 0 /\ i - 1 \in 0 .. n - 1 /\ i - 1 \notin missed
  BY <1>1
<1>3. i - 1 \in S
  BY <1>2
<1>4. (i - 1) + 1 \in S /\ (i - 1) + 1 = i
  BY <1>2, <1>3
<1>5. QED
  BY <1>4

(***************************************************************************)
(* Min and Max of a set of naturals.                                       *)
(***************************************************************************)
LEMMA MinIsLeast ==
  ASSUME NEW S \in SUBSET Nat, S # {}
  PROVE  Min(S) \in S /\ \A j \in S : Min(S) <= j
BY LeastNatural DEF Min

(***************************************************************************)
(* An integer of a set that none exceeds is its maximum.                   *)
(***************************************************************************)
LEMMA MaxIsGreatest ==
  ASSUME NEW S \in SUBSET Int, NEW m \in S, \A j \in S : j <= m
  PROVE  Max(S) = m
<1>1. m \in S /\ \A j \in S : m >= j
  OBVIOUS
<1>2. Max(S) \in S /\ \A j \in S : Max(S) >= j
  BY <1>1 DEF Max
<1>3. Max(S) \in Int /\ m \in Int /\ Max(S) >= m /\ Max(S) <= m
  BY <1>2
<1>4. QED
  BY <1>3

(***************************************************************************)
(* A bounded set of naturals that is not empty has a maximum.              *)
(***************************************************************************)
LEMMA MaxWithin ==
  ASSUME NEW n \in Nat, NEW S \in SUBSET (1 .. n), S # {}
  PROVE  Max(S) \in S /\ \A j \in S : j <= Max(S)
<1> DEFINE T == {n - i : i \in S}
<1>1. T \in SUBSET Nat /\ T # {}
  <2>1. \A i \in S : n - i \in Nat
    OBVIOUS
  <2>2. T \subseteq Nat
    BY <2>1
  <2>3. PICK i \in S : TRUE
    OBVIOUS
  <2>4. n - i \in T
    BY <2>3
  <2>5. QED
    BY <2>2, <2>4
<1>2. PICK k \in T : \A j \in T : k <= j
  BY <1>1, LeastNatural
<1>3. PICK m \in S : k = n - m
  BY <1>2
<1>4. \A j \in S : j <= m
  <2> SUFFICES ASSUME NEW j \in S PROVE j <= m
    OBVIOUS
  <2>1. n - j \in T
    OBVIOUS
  <2>2. k <= n - j
    BY <1>2, <2>1
  <2>3. QED
    BY <1>3, <2>2
<1>5. Max(S) = m
  BY <1>4, MaxIsGreatest
<1>6. QED
  BY <1>4, <1>5

(***************************************************************************)
(* The lesser of two integers.                                             *)
(***************************************************************************)
LEMMA MinOfTwo ==
  ASSUME NEW a \in Int, NEW b \in Int
  PROVE  Min({a, b}) = IF a <= b THEN a ELSE b
<1> DEFINE S == {a, b}
<1>1. \E x \in S : \A j \in S : x <= j
  OBVIOUS
<1>2. Min(S) \in S /\ \A j \in S : Min(S) <= j
  BY <1>1 DEF Min
<1>3. QED
  BY <1>2

(***************************************************************************)
(* The greater of two integers.                                            *)
(***************************************************************************)
LEMMA MaxOfTwo ==
  ASSUME NEW a \in Int, NEW b \in Int
  PROVE  Max({a, b}) = IF a <= b THEN b ELSE a
<1>1. CASE a <= b
  BY <1>1, MaxIsGreatest
<1>2. CASE b < a
  BY <1>2, MaxIsGreatest
<1>3. QED
  BY <1>1, <1>2

-----------------------------------------------------------------------------
(* Sequences.                                                              *)

(***************************************************************************)
(* What makes a function a sequence.                                       *)
(***************************************************************************)
LEMMA MakesSequence ==
  ASSUME NEW n \in Nat, NEW S, NEW s, s = [i \in 1 .. n |-> s[i]], \A i \in 1 .. n : s[i] \in S
  PROVE  s \in Seq(S) /\ Len(s) = n /\ DOMAIN s = 1 .. n
OBVIOUS

(***************************************************************************)
(* Sequences with the same entries are the same.                           *)
(***************************************************************************)
LEMMA SameEntries ==
  ASSUME NEW S, NEW s \in Seq(S), NEW t \in Seq(S), Len(s) = Len(t),
         \A i \in 1 .. Len(s) : s[i] = t[i]
  PROVE  s = t
OBVIOUS

(***************************************************************************)
(* The entries of two sequences that follow one another.                   *)
(***************************************************************************)
LEMMA ConcatEntries ==
  ASSUME NEW S, NEW a \in Seq(S), NEW b \in Seq(S)
  PROVE  /\ a \o b \in Seq(S)
         /\ Len(a \o b) = Len(a) + Len(b)
         /\ DOMAIN (a \o b) = 1 .. Len(a) + Len(b)
         /\ \A i \in 1 .. Len(a) : (a \o b)[i] = a[i]
         /\ \A i \in Len(a) + 1 .. Len(a) + Len(b) : (a \o b)[i] = b[i - Len(a)]
OBVIOUS

(***************************************************************************)
(* The part of a sequence that is one entry.                               *)
(***************************************************************************)
LEMMA SubSeqOfOne ==
  ASSUME NEW S, NEW s \in Seq(S), NEW x \in 1 .. Len(s)
  PROVE  SubSeq(s, x, x) = <<s[x]>>
<1> DEFINE e == s[x]
           part == SubSeq(s, x, x)
           one == <<e>>
<1>1. part \in Seq(S) /\ Len(part) = 1 /\ part[1] = e
  OBVIOUS
<1>2. one \in Seq(S) /\ Len(one) = 1 /\ one[1] = e
  <2>1. e \in S
    OBVIOUS
  <2> HIDE DEF e
  <2>2. QED
    BY <2>1
<1> HIDE DEF part, one, e
<1>3. \A i \in 1 .. 1 : i = 1
  OBVIOUS
<1>4. part = one
  BY <1>1, <1>2, <1>3, SameEntries
<1>5. QED
  BY <1>4 DEF part, one, e

-----------------------------------------------------------------------------
(* Folds.                                                                  *)

\* A step G leads from an accumulator in A and a position to an accumulator.
StepsWithin(G, A, n) == \A a \in A, i \in 1 .. n : G[<<a, i>>] \in A

\* The function by which the folds are defined.
IsFold(it, base, G, n) ==
  it = [s \in SUBSET (1 .. n) |->
          IF s = {} THEN base ELSE G[<<it[s \ {Max(s)}], Max(s)>>]]

(***************************************************************************)
(* The function by which the folds are defined exists.                     *)
(***************************************************************************)
LEMMA FoldExists ==
  ASSUME NEW n \in Nat, NEW A, NEW base \in A, NEW G, StepsWithin(G, A, n)
  PROVE  \E it \in [SUBSET (1 .. n) -> A] : IsFold(it, base, G, n)
<1> DEFINE S == {k \in 0 .. n : \E it \in [SUBSET (1 .. k) -> A] : IsFold(it, base, G, k)}
<1> USE DEF StepsWithin
<1>1. 0 \in S
  <2> DEFINE it == [s \in SUBSET (1 .. 0) |-> base]
  <2>1. \A s \in SUBSET (1 .. 0) : s = {}
    OBVIOUS
  <2>2. IsFold(it, base, G, 0) /\ it \in [SUBSET (1 .. 0) -> A]
    BY <2>1 DEF IsFold
  <2>3. QED
    BY <2>2
<1>2. ASSUME NEW k \in 0 .. n - 1, k \in S
      PROVE  k + 1 \in S
  <2>1. PICK it \in [SUBSET (1 .. k) -> A] : IsFold(it, base, G, k)
    BY <1>2
  <2> DEFINE more == [s \in SUBSET (1 .. k + 1) |->
                        IF k + 1 \in s THEN G[<<it[s \ {k + 1}], k + 1>>] ELSE it[s]]
  <2>2. \A s \in SUBSET (1 .. k + 1) :
          /\ k + 1 \notin s => s \in SUBSET (1 .. k)
          /\ s \ {k + 1} \in SUBSET (1 .. k)
          /\ k + 1 \in s => Max(s) = k + 1
    <3> SUFFICES ASSUME NEW s \in SUBSET (1 .. k + 1)
                 PROVE  /\ k + 1 \notin s => s \in SUBSET (1 .. k)
                        /\ s \ {k + 1} \in SUBSET (1 .. k)
                        /\ k + 1 \in s => Max(s) = k + 1
      OBVIOUS
    <3>1. \A x \in s : x \in Int /\ x <= k + 1 /\ (x # k + 1 => x \in 1 .. k)
      OBVIOUS
    <3>2. k + 1 \in s => Max(s) = k + 1
      BY <3>1, MaxIsGreatest
    <3>3. QED
      BY <3>1, <3>2
  <2>3. more \in [SUBSET (1 .. k + 1) -> A]
    <3> SUFFICES ASSUME NEW s \in SUBSET (1 .. k + 1) PROVE more[s] \in A
      OBVIOUS
    <3>1. CASE k + 1 \in s
      BY <2>2, <3>1
    <3>2. CASE k + 1 \notin s
      BY <2>2, <3>2
    <3>3. QED
      BY <3>1, <3>2
  <2>4. ASSUME NEW s \in SUBSET (1 .. k + 1)
        PROVE  more[s] = IF s = {} THEN base ELSE G[<<more[s \ {Max(s)}], Max(s)>>]
    <3>1. CASE k + 1 \in s
      <4>1. Max(s) = k + 1 /\ s # {} /\ k + 1 \notin s \ {k + 1} /\ s \ {k + 1} \in SUBSET (1 .. k + 1)
        BY <2>2, <3>1
      <4>2. more[s \ {k + 1}] = it[s \ {k + 1}]
        BY <4>1
      <4>3. QED
        BY <3>1, <4>1, <4>2
    <3>2. CASE k + 1 \notin s
      <4>1. s \in SUBSET (1 .. k) /\ more[s] = it[s]
        BY <2>2, <3>2
      <4>2. it[s] = IF s = {} THEN base ELSE G[<<it[s \ {Max(s)}], Max(s)>>]
        BY <2>1, <4>1 DEF IsFold
      <4>3. s \ {Max(s)} \in SUBSET (1 .. k + 1) /\ k + 1 \notin s \ {Max(s)}
        BY <3>2
      <4>4. more[s \ {Max(s)}] = it[s \ {Max(s)}]
        BY <4>3
      <4>5. QED
        BY <4>1, <4>2, <4>4
    <3>3. QED
      BY <3>1, <3>2
  <2>5. IsFold(more, base, G, k + 1)
    BY <2>4 DEF IsFold
  <2> HIDE DEF more
  <2>6. k + 1 \in 0 .. n
    OBVIOUS
  <2>7. QED
    BY <2>3, <2>5, <2>6
<1> HIDE DEF S
<1>3. \A k \in 0 .. n : k \in S
  BY <1>1, <1>2, InductionUpTo
<1>4. n \in S
  BY <1>3
<1>5. QED
  BY <1>4 DEF S

(***************************************************************************)
(* The prefixes of 1 .. n, which is where the folds go.                    *)
(***************************************************************************)
LEMMA FirstNumbers ==
  ASSUME NEW n \in Nat, NEW i \in 1 .. n
  PROVE  /\ 1 .. i \in SUBSET (1 .. n)
         /\ 1 .. i # {}
         /\ Max(1 .. i) = i
         /\ (1 .. i) \ {i} = 1 .. i - 1
<1>1. Max(1 .. i) = i
  <2>1. 1 .. i \in SUBSET Int /\ i \in 1 .. i /\ \A j \in 1 .. i : j <= i
    OBVIOUS
  <2>2. QED
    BY <2>1, MaxIsGreatest
<1>2. i \in 1 .. i
  OBVIOUS
<1>3. 1 .. i \in SUBSET (1 .. n)
  OBVIOUS
<1>4. (1 .. i) \ {i} = 1 .. i - 1
  OBVIOUS
<1>5. QED
  BY <1>1, <1>2, <1>3, <1>4

(***************************************************************************)
(* A function defined by recursion up to n exists.                         *)
(***************************************************************************)
LEMMA RecursionExists ==
  ASSUME NEW n \in Nat, NEW A, NEW base \in A, NEW G, StepsWithin(G, A, n)
  PROVE  \E f \in [0 .. n -> A] :
           f[0] = base /\ \A i \in 1 .. n : f[i] = G[<<f[i - 1], i>>]
<1>1. PICK it \in [SUBSET (1 .. n) -> A] : IsFold(it, base, G, n)
  BY FoldExists
<1>2. \A s \in SUBSET (1 .. n) : it[s] = IF s = {} THEN base ELSE G[<<it[s \ {Max(s)}], Max(s)>>]
  BY <1>1 DEF IsFold
<1> DEFINE f == [i \in 0 .. n |-> it[1 .. i]]
<1>3. f \in [0 .. n -> A]
  <2>1. \A i \in 0 .. n : 1 .. i \in SUBSET (1 .. n)
    OBVIOUS
  <2>2. QED
    BY <2>1
<1>4. f[0] = base
  <2>1. 1 .. 0 = {} /\ {} \in SUBSET (1 .. n)
    OBVIOUS
  <2>2. it[{}] = base
    BY <1>2, <2>1
  <2>3. QED
    BY <2>1, <2>2
<1>5. ASSUME NEW i \in 1 .. n
      PROVE  f[i] = G[<<f[i - 1], i>>]
  <2>1. it[1 .. i] = G[<<it[1 .. i - 1], i>>]
    BY <1>2, FirstNumbers
  <2>2. i \in 0 .. n /\ i - 1 \in 0 .. n
    OBVIOUS
  <2>3. QED
    BY <2>1, <2>2
<1> HIDE DEF f
<1>6. QED
  BY <1>3, <1>4, <1>5

(***************************************************************************)
(* Two such functions that agree at zero and step alike are the same.      *)
(***************************************************************************)
LEMMA SameSteps ==
  ASSUME NEW n \in Nat, NEW f, NEW g, NEW G,
         f[0] = g[0],
         \A i \in 1 .. n : f[i] = G[<<f[i - 1], i>>] /\ g[i] = G[<<g[i - 1], i>>]
  PROVE  \A i \in 0 .. n : f[i] = g[i]
<1> DEFINE S == {i \in 0 .. n : f[i] = g[i]}
<1>1. 0 \in S
  OBVIOUS
<1>2. ASSUME NEW i \in 0 .. n - 1, i \in S
      PROVE  i + 1 \in S
  <2>1. i + 1 \in 1 .. n /\ i + 1 \in 0 .. n /\ (i + 1) - 1 = i
    OBVIOUS
  <2>2. f[i + 1] = G[<<f[(i + 1) - 1], i + 1>>] /\ g[i + 1] = G[<<g[(i + 1) - 1], i + 1>>]
    BY <2>1
  <2>3. f[i + 1] = g[i + 1]
    BY <1>2, <2>1, <2>2
  <2>4. QED
    BY <2>1, <2>3
<1> HIDE DEF S
<1>3. \A i \in 0 .. n : i \in S
  BY <1>1, <1>2, InductionUpTo
<1>4. QED
  BY <1>3 DEF S

-----------------------------------------------------------------------------
(* Picking entries.                                                        *)

\* f[i] is what is picked from the first i entries.
Picks(f, s, at) ==
  /\ f[0] = <<>>
  /\ \A i \in 1 .. Len(s) : f[i] = IF i \in at THEN Append(f[i - 1], s[i]) ELSE f[i - 1]
  /\ Picked(s, at) = f[Len(s)]

(***************************************************************************)
(* Picked goes over the sequence entry by entry.                           *)
(***************************************************************************)
LEMMA PickedSteps ==
  ASSUME NEW S, NEW s \in Seq(S), NEW at
  PROVE  \E f \in [0 .. Len(s) -> Seq(S)] : Picks(f, s, at)
<1> DEFINE n == Len(s)
           G == [p \in Seq(S) \X (1 .. n) |-> IF p[2] \in at THEN Append(p[1], s[p[2]]) ELSE p[1]]
           Is(f) == f = [i \in 0 .. n |->
                           IF i = 0 THEN <<>>
                           ELSE IF i \in at THEN Append(f[i - 1], s[i]) ELSE f[i - 1]]
<1>1. n \in Nat
  OBVIOUS
<1>2. \A a \in Seq(S), i \in 1 .. n :
        /\ G[<<a, i>>] = IF i \in at THEN Append(a, s[i]) ELSE a
        /\ G[<<a, i>>] \in Seq(S)
  <2> SUFFICES ASSUME NEW a \in Seq(S), NEW i \in 1 .. n
               PROVE  /\ G[<<a, i>>] = IF i \in at THEN Append(a, s[i]) ELSE a
                      /\ G[<<a, i>>] \in Seq(S)
    OBVIOUS
  <2>1. G[<<a, i>>] = IF i \in at THEN Append(a, s[i]) ELSE a
    OBVIOUS
  <2>2. s[i] \in S
    OBVIOUS
  <2>3. QED
    BY <2>1, <2>2
<1> HIDE DEF G, n
<1>3. PICK f \in [0 .. n -> Seq(S)] :
             f[0] = <<>> /\ \A i \in 1 .. n : f[i] = G[<<f[i - 1], i>>]
  <2> DEFINE A == Seq(S)
             none == <<>>
  <2>1. none \in A /\ StepsWithin(G, A, n)
    BY <1>2 DEF StepsWithin
  <2> HIDE DEF A, none
  <2>2. \E f \in [0 .. n -> A] : f[0] = none /\ \A i \in 1 .. n : f[i] = G[<<f[i - 1], i>>]
    BY <1>1, <2>1, RecursionExists, SMTT(30)
  <2>3. QED
    BY <2>2 DEF A, none
<1>4. f[0] = <<>>
  BY <1>3
<1>5. \A i \in 1 .. n : f[i] = IF i \in at THEN Append(f[i - 1], s[i]) ELSE f[i - 1]
  <2> SUFFICES ASSUME NEW i \in 1 .. n
               PROVE  f[i] = IF i \in at THEN Append(f[i - 1], s[i]) ELSE f[i - 1]
    OBVIOUS
  <2>1. i \in 0 .. n /\ i # 0 /\ i - 1 \in 0 .. n
    BY <1>1
  <2>2. f[i] = G[<<f[i - 1], i>>]
    BY <1>3, <2>1
  <2>3. f[i - 1] \in Seq(S)
    BY <2>1
  <2>4. QED
    BY <1>2, <2>2, <2>3
<1>6. Is(f)
  <2>1. \A i \in 0 .. n : i # 0 => i \in 1 .. n
    BY <1>1
  <2>2. \A i \in 0 .. n : f[i] = IF i = 0 THEN <<>>
                                 ELSE IF i \in at THEN Append(f[i - 1], s[i]) ELSE f[i - 1]
    BY <1>4, <1>5, <2>1
  <2>3. QED
    BY <2>2
<1>7. ASSUME NEW g, Is(g)
      PROVE  \A i \in 0 .. n : g[i] = f[i]
  <2> DEFINE same == {i \in 0 .. n : g[i] = f[i]}
  <2>1. 0 \in same
    BY <1>1, <1>4, <1>7
  <2>2. \A i \in 0 .. n - 1 : i \in same => i + 1 \in same
    <3> SUFFICES ASSUME NEW i \in 0 .. n - 1, g[i] = f[i]
                 PROVE  g[i + 1] = f[i + 1] /\ i + 1 \in 0 .. n
      OBVIOUS
    <3>1. i + 1 \in 1 .. n /\ i + 1 \in 0 .. n /\ i + 1 # 0 /\ (i + 1) - 1 = i
      BY <1>1
    <3>2. g[i + 1] = IF i + 1 \in at THEN Append(g[i], s[i + 1]) ELSE g[i]
      BY <1>7, <3>1
    <3>3. f[i + 1] = IF i + 1 \in at THEN Append(f[i], s[i + 1]) ELSE f[i]
      BY <1>5, <3>1
    <3>4. QED
      BY <3>1, <3>2, <3>3
  <2> HIDE DEF same
  <2>3. \A i \in 0 .. n : i \in same
    BY <1>1, <2>1, <2>2, InductionUpTo
  <2>4. QED
    BY <2>3 DEF same
<1>8. Picked(s, at) = f[n]
  <2> DEFINE c == CHOOSE g : Is(g)
  <2>1. Is(c)
    BY <1>6
  <2>2. Picked(s, at) = c[n]
    BY DEF Picked, n
  <2>3. c[n] = f[n]
    <3> HIDE DEF c
    <3>1. n \in 0 .. n
      BY <1>1
    <3>2. QED
      BY <2>1, <3>1, <1>7
  <2>4. QED
    BY <2>2, <2>3
<1>9. QED
  BY <1>3, <1>4, <1>5, <1>8 DEF n, Picks

\* g lists the positions of s, up to i, that are in at.
Lists(g, picked, s, at, i) ==
  /\ g \in [1 .. Len(picked) -> 1 .. i]
  /\ \A j, k \in 1 .. Len(picked) : j < k => g[j] < g[k]
  /\ \A x \in 1 .. i : x \in at <=> \E k \in 1 .. Len(picked) : g[k] = x
  /\ \A k \in 1 .. Len(picked) : picked[k] = s[g[k]]

(***************************************************************************)
(* What is picked are the entries at the given positions, each once and in *)
(* their order.                                                            *)
(***************************************************************************)
LEMMA PickedInOrder ==
  ASSUME NEW S, NEW s \in Seq(S), NEW at
  PROVE  /\ Picked(s, at) \in Seq(S)
         /\ \E g : Lists(g, Picked(s, at), s, at, Len(s))
<1> DEFINE n == Len(s)
<1>1. n \in Nat
  OBVIOUS
<1>0. PICK f \in [0 .. n -> Seq(S)] : Picks(f, s, at)
  BY PickedSteps
<1>2. /\ f[0] = <<>>
      /\ \A i \in 1 .. n : f[i] = IF i \in at THEN Append(f[i - 1], s[i]) ELSE f[i - 1]
      /\ Picked(s, at) = f[n]
  BY <1>0 DEF Picks
<1> DEFINE listed == {i \in 0 .. n : \E g : Lists(g, f[i], s, at, i)}
<1> HIDE DEF n
<1>3. 0 \in listed
  <2>1. Lists([k \in 1 .. 0 |-> 0], f[0], s, at, 0)
    BY <1>2 DEF Lists
  <2>2. QED
    BY <1>1, <2>1
<1>4. ASSUME NEW i \in 0 .. n - 1, i \in listed
      PROVE  i + 1 \in listed
  <2>1. PICK g : Lists(g, f[i], s, at, i)
    BY <1>4
  <2>2. /\ i + 1 \in 1 .. n /\ i + 1 \in 0 .. n /\ (i + 1) - 1 = i /\ i \in 0 .. n /\ i \in Nat
    BY <1>1
  <2>3. f[i + 1] = IF i + 1 \in at THEN Append(f[i], s[i + 1]) ELSE f[i]
    BY <1>2, <2>2
  <2>4. f[i] \in Seq(S) /\ s[i + 1] \in S
    BY <1>2, <2>2 DEF n
  <2> DEFINE m == Len(f[i])
             p == f[i]
             q == f[i + 1]
             x == s[i + 1]
  <2>5. m \in Nat
    BY <2>4
  <2>6. CASE i + 1 \in at
    <3> DEFINE h == [k \in 1 .. m + 1 |-> IF k = m + 1 THEN i + 1 ELSE g[k]]
    <3>1. /\ Len(q) = m + 1 /\ q[m + 1] = x
          /\ \A k \in 1 .. m : q[k] = p[k]
      BY <2>3, <2>4, <2>6
    <3> HIDE DEF m, p, q, x
    <3>2. /\ g \in [1 .. m -> 1 .. i]
          /\ \A j, k \in 1 .. m : j < k => g[j] < g[k]
          /\ \A y \in 1 .. i : y \in at <=> \E k \in 1 .. m : g[k] = y
          /\ \A k \in 1 .. m : p[k] = s[g[k]]
      BY <2>1 DEF Lists, m, p
    <3>3. /\ h \in [1 .. m + 1 -> 1 .. i + 1]
          /\ h[m + 1] = i + 1
          /\ \A k \in 1 .. m : k \in 1 .. m + 1 /\ h[k] = g[k] /\ g[k] <= i
          /\ m + 1 \in 1 .. m + 1
          /\ \A k \in 1 .. m + 1 : k = m + 1 \/ k \in 1 .. m
      BY <2>2, <2>5, <3>2
    <3> HIDE DEF h
    <3>4. \A j, k \in 1 .. m + 1 : j < k => h[j] < h[k]
      <4> SUFFICES ASSUME NEW j \in 1 .. m + 1, NEW k \in 1 .. m + 1, j < k
                   PROVE  h[j] < h[k]
        OBVIOUS
      <4>1. j \in 1 .. m
        BY <2>5
      <4>2. CASE k = m + 1
        BY <2>2, <3>2, <3>3, <4>1, <4>2, SMTT(30)
      <4>3. CASE k \in 1 .. m
        BY <3>2, <3>3, <4>1, <4>3
      <4>4. QED
        BY <3>3, <4>2, <4>3
    <3>5. \A y \in 1 .. i + 1 : y \in at <=> \E k \in 1 .. m + 1 : h[k] = y
      <4> SUFFICES ASSUME NEW y \in 1 .. i + 1
                   PROVE  y \in at <=> \E k \in 1 .. m + 1 : h[k] = y
        OBVIOUS
      <4>1. CASE y = i + 1
        BY <2>6, <3>3, <4>1
      <4>2. CASE y \in 1 .. i
        <5>1. y \in at <=> \E k \in 1 .. m : g[k] = y
          BY <3>2, <4>2
        <5>2. y # i + 1
          BY <2>2, <4>2
        <5>3. QED
          BY <3>3, <5>1, <5>2
      <4>3. QED
        BY <2>2, <4>1, <4>2
    <3>6. \A k \in 1 .. m + 1 : q[k] = s[h[k]]
      BY <3>1, <3>2, <3>3 DEF x
    <3>7. Lists(h, q, s, at, i + 1)
      BY <3>1, <3>3, <3>4, <3>5, <3>6 DEF Lists
    <3>8. QED
      BY <2>2, <3>7 DEF q
  <2>7. CASE i + 1 \notin at
    <3>1. q = p
      BY <2>3, <2>7
    <3> HIDE DEF m, p, q, x
    <3>2. /\ g \in [1 .. m -> 1 .. i]
          /\ \A j, k \in 1 .. m : j < k => g[j] < g[k]
          /\ \A y \in 1 .. i : y \in at <=> \E k \in 1 .. m : g[k] = y
          /\ \A k \in 1 .. m : p[k] = s[g[k]]
          /\ m = Len(p)
      BY <2>1 DEF Lists, m, p
    <3>3. g \in [1 .. m -> 1 .. i + 1] /\ \A k \in 1 .. m : g[k] # i + 1
      BY <2>2, <3>2
    <3>4. \A y \in 1 .. i + 1 : y = i + 1 \/ y \in 1 .. i
      BY <2>2
    <3>5. \A y \in 1 .. i + 1 : y \in at <=> \E k \in 1 .. m : g[k] = y
      BY <2>7, <3>2, <3>3, <3>4
    <3>6. Lists(g, q, s, at, i + 1)
      BY <3>1, <3>2, <3>3, <3>5 DEF Lists
    <3>7. QED
      BY <2>2, <3>6 DEF q
  <2>8. QED
    BY <2>6, <2>7
<1> HIDE DEF listed
<1>5. \A i \in 0 .. n : i \in listed
  BY <1>1, <1>3, <1>4, InductionUpTo
<1>6. n \in listed /\ n \in 0 .. n
  BY <1>1, <1>5
<1>7. QED
  BY <1>2, <1>6 DEF listed, n

(***************************************************************************)
(* What is picked at consecutive positions is that part of the sequence.   *)
(***************************************************************************)
LEMMA PickedPart ==
  ASSUME NEW S, NEW s \in Seq(S), NEW lo \in 0 .. Len(s), NEW hi \in lo .. Len(s),
         NEW at, \A x \in 1 .. Len(s) : x \in at <=> lo < x /\ x <= hi
  PROVE  Picked(s, at) = SubSeq(s, lo + 1, hi)
<1> DEFINE n == Len(s)
           p == Picked(s, at)
           m == Len(p)
<1>1. n \in Nat /\ lo \in Nat /\ hi \in Nat /\ lo <= hi /\ hi <= n
  OBVIOUS
<1>2. p \in Seq(S) /\ m \in Nat
  BY PickedInOrder
<1>3. PICK g : Lists(g, p, s, at, n)
  BY PickedInOrder
<1> HIDE DEF n, p, m
<1>4. /\ g \in [1 .. m -> 1 .. n]
      /\ \A j, k \in 1 .. m : j < k => g[j] < g[k]
      /\ \A x \in 1 .. n : x \in at <=> \E k \in 1 .. m : g[k] = x
      /\ \A k \in 1 .. m : p[k] = s[g[k]]
  BY <1>3 DEF Lists, m
<1>5. \A x \in 1 .. n : (lo < x /\ x <= hi) <=> \E k \in 1 .. m : g[k] = x
  BY <1>4 DEF n
<1>6. \A k \in 1 .. m : g[k] \in Nat /\ lo < g[k] /\ g[k] <= hi
  BY <1>1, <1>4, <1>5
<1> DEFINE S1 == {i \in 0 .. m : \A k \in 1 .. i : g[k] = lo + k}
<1>7. 0 \in S1
  BY <1>2
<1>8. ASSUME NEW i \in 0 .. m - 1, i \in S1
      PROVE  i + 1 \in S1
  <2>1. i \in Nat /\ i + 1 \in 1 .. m /\ i + 1 \in 0 .. m
    BY <1>2
  <2>2. \A k \in 1 .. i : g[k] = lo + k /\ k \in 1 .. m
    BY <1>2, <1>8
  <2>3. g[i + 1] >= lo + i + 1
    <3>1. CASE i = 0
      BY <1>1, <1>6, <2>1, <3>1
    <3>2. CASE i > 0
      <4>1. i \in 1 .. m /\ g[i] = lo + i /\ i < i + 1
        BY <2>1, <2>2, <3>2
      <4>2. g[i] < g[i + 1]
        BY <1>4, <2>1, <4>1
      <4>3. QED
        BY <1>1, <1>6, <2>1, <4>1, <4>2
    <3>3. QED
      BY <2>1, <3>1, <3>2
  <2>4. g[i + 1] <= lo + i + 1
    <3>1. SUFFICES ASSUME g[i + 1] > lo + i + 1 PROVE FALSE
      BY <1>1, <1>6, <2>1
    <3>2. lo + i + 1 \in 1 .. n /\ lo < lo + i + 1 /\ lo + i + 1 <= hi
      BY <1>1, <1>6, <2>1, <3>1
    <3>3. PICK k \in 1 .. m : g[k] = lo + i + 1
      BY <1>5, <3>2
    <3>4. CASE k <= i
      BY <1>1, <2>1, <2>2, <3>3, <3>4
    <3>5. CASE k = i + 1
      BY <1>1, <2>1, <3>1, <3>3, <3>5
    <3>6. CASE k > i + 1
      <4>1. g[i + 1] < g[k]
        BY <1>4, <2>1, <3>6
      <4>2. QED
        BY <1>1, <1>6, <2>1, <3>1, <3>3, <4>1
    <3>7. QED
      BY <2>1, <3>4, <3>5, <3>6
  <2>5. g[i + 1] = lo + (i + 1)
    BY <1>1, <1>6, <2>1, <2>3, <2>4
  <2>6. \A k \in 1 .. i + 1 : k = i + 1 \/ k \in 1 .. i
    BY <2>1
  <2>7. QED
    BY <2>1, <2>2, <2>5, <2>6
<1> HIDE DEF S1
<1>9. m \in S1
  <2>1. \A i \in 0 .. m : i \in S1
    BY <1>2, <1>7, <1>8, InductionUpTo
  <2>2. QED
    BY <1>2, <2>1
<1>10. \A k \in 1 .. m : g[k] = lo + k
  BY <1>9 DEF S1
<1>11. m = hi - lo
  <2>1. m <= hi - lo
    <3>1. CASE m = 0
      BY <1>1, <3>1
    <3>2. CASE m > 0
      <4>1. m \in 1 .. m
        BY <1>2, <3>2
      <4>2. g[m] = lo + m /\ g[m] <= hi
        BY <1>6, <1>10, <4>1
      <4>3. QED
        BY <1>1, <1>2, <4>2
    <3>3. QED
      BY <1>2, <3>1, <3>2
  <2>2. m >= hi - lo
    <3>1. CASE lo = hi
      BY <1>1, <1>2, <3>1
    <3>2. CASE lo < hi
      <4>1. hi \in 1 .. n
        BY <1>1, <3>2
      <4>2. PICK k \in 1 .. m : g[k] = hi
        BY <1>1, <1>5, <3>2, <4>1
      <4>3. hi = lo + k /\ k <= m
        BY <1>2, <1>10, <4>2
      <4>4. QED
        BY <1>1, <1>2, <4>3
    <3>3. QED
      BY <1>1, <3>1, <3>2
  <2>3. QED
    BY <1>1, <1>2, <2>1, <2>2
<1>12. \A k \in 1 .. m : p[k] = s[lo + k]
  BY <1>4, <1>10
<1>13. p = [k \in 1 .. hi - lo |-> s[lo + k]]
  BY <1>2, <1>11, <1>12 DEF m
<1>14. SubSeq(s, lo + 1, hi) = [k \in 1 .. hi - lo |-> s[lo + k]]
  BY <1>1
<1>15. QED
  BY <1>13, <1>14 DEF p

-----------------------------------------------------------------------------
(* Sequences of sequences.                                                 *)

\* f[i] is the first i sequences laid end to end.
Joins(f, seqs) ==
  /\ f[0] = <<>>
  /\ \A i \in 1 .. Len(seqs) : f[i] = f[i - 1] \o seqs[i]

(***************************************************************************)
(* Two functions that lay sequences end to end agree.                      *)
(***************************************************************************)
LEMMA JoinsAgree ==
  ASSUME NEW n \in Nat, NEW seqs, Len(seqs) = n, NEW f, NEW g, Joins(f, seqs), Joins(g, seqs)
  PROVE  \A i \in 0 .. n : f[i] = g[i]
<1> DEFINE same == {i \in 0 .. n : f[i] = g[i]}
<1>1. 0 \in same
  BY DEF Joins
<1>2. ASSUME NEW i \in 0 .. n - 1, i \in same
      PROVE  i + 1 \in same
  <2>1. i + 1 \in 1 .. n /\ i + 1 \in 0 .. n /\ (i + 1) - 1 = i
    OBVIOUS
  <2>2. f[i + 1] = f[i] \o seqs[i + 1] /\ g[i + 1] = g[i] \o seqs[i + 1]
    BY <2>1 DEF Joins
  <2>3. QED
    BY <1>2, <2>1, <2>2
<1> HIDE DEF same
<1>3. \A i \in 0 .. n : i \in same
  BY <1>1, <1>2, InductionUpTo
<1>4. QED
  BY <1>3 DEF same

(***************************************************************************)
(* Sequences can be laid end to end.                                       *)
(***************************************************************************)
LEMMA JoinExists ==
  ASSUME NEW n \in Nat, NEW S, NEW seqs, \A i \in 1 .. n : seqs[i] \in Seq(S)
  PROVE  Len(seqs) = n => \E f \in [0 .. n -> Seq(S)] : Joins(f, seqs)
<1> DEFINE G == [p \in Seq(S) \X (1 .. n) |-> p[1] \o seqs[p[2]]]
<1>1. ASSUME NEW a \in Seq(S), NEW i \in 1 .. n
      PROVE  G[<<a, i>>] = a \o seqs[i] /\ G[<<a, i>>] \in Seq(S)
  <2>1. G[<<a, i>>] = a \o seqs[i]
    OBVIOUS
  <2>2. a \o seqs[i] \in Seq(S)
    OBVIOUS
  <2>3. QED
    BY <2>1, <2>2
<1> HIDE DEF G
<1>2. StepsWithin(G, Seq(S), n)
  BY <1>1 DEF StepsWithin
<1>3. PICK f \in [0 .. n -> Seq(S)] :
             f[0] = <<>> /\ \A i \in 1 .. n : f[i] = G[<<f[i - 1], i>>]
  <2> DEFINE A == Seq(S)
             e == <<>>
  <2>1. e \in A
    OBVIOUS
  <2>2. StepsWithin(G, A, n)
    BY <1>2
  <2> HIDE DEF A, e
  <2>3. \E f \in [0 .. n -> A] : f[0] = e /\ \A i \in 1 .. n : f[i] = G[<<f[i - 1], i>>]
    BY <2>1, <2>2, RecursionExists
  <2>4. QED
    BY <2>3 DEF A, e
<1>4. ASSUME NEW i \in 1 .. n
      PROVE  f[i] = f[i - 1] \o seqs[i]
  <2>1. i - 1 \in 0 .. n
    OBVIOUS
  <2>2. f[i - 1] \in Seq(S)
    BY <2>1
  <2>3. QED
    BY <1>1, <1>3, <2>2
<1>5. Len(seqs) = n => Joins(f, seqs)
  BY <1>3, <1>4 DEF Joins
<1>6. QED
  BY <1>3, <1>5

(***************************************************************************)
(* FlattenSeq lays its sequences end to end.                               *)
(***************************************************************************)
LEMMA FlattenSteps ==
  ASSUME NEW S, NEW seqs \in Seq(Seq(S))
  PROVE  \E f \in [0 .. Len(seqs) -> Seq(S)] :
           Joins(f, seqs) /\ FlattenSeq(seqs) = f[Len(seqs)]
<1> DEFINE n == Len(seqs)
           Is(f) == f = [i \in 1 .. n |-> IF i = 1 THEN seqs[i] ELSE f[i - 1] \o seqs[i]]
<1>1. n \in Nat /\ \A i \in 1 .. n : seqs[i] \in Seq(S)
  OBVIOUS
<1> HIDE DEF n
<1>2. PICK f \in [0 .. n -> Seq(S)] : Joins(f, seqs)
  <2>1. n \in Nat /\ Len(seqs) = n
    BY <1>1 DEF n
  <2>2. \A i \in 1 .. n : seqs[i] \in Seq(S)
    BY <1>1
  <2> HIDE DEF Is
  <2>3. QED
    BY <2>1, <2>2, JoinExists
<1>3. f[0] = <<>> /\ \A i \in 1 .. n : f[i] = f[i - 1] \o seqs[i]
  BY <1>2 DEF Joins, n
<1>4. \A i \in 1 .. n : f[i] = f[i - 1] \o seqs[i]
  BY <1>3
<1>5. Joins(f, seqs)
  BY <1>3, <1>4 DEF Joins, n
<1>6. FlattenSeq(seqs) = f[n]
  <2>1. CASE n = 0
    <3>1. seqs = <<>>
      BY <2>1 DEF n
    <3>2. FlattenSeq(seqs) = seqs
      BY <2>1 DEF FlattenSeq, n
    <3>3. QED
      BY <1>3, <2>1, <3>1, <3>2
  <2>2. CASE n # 0
    <3> DEFINE c == CHOOSE g : Is(g)
               e == [i \in 1 .. n |-> f[i]]
    <3>1. Is(e)
      <4>1. f[1] = seqs[1]
        <5>1. 1 \in 1 .. n /\ 1 - 1 = 0
          BY <1>1, <2>2
        <5>2. f[1] = <<>> \o seqs[1] /\ seqs[1] \in Seq(S)
          BY <1>1, <1>3, <1>4, <5>1
        <5>3. QED
          BY <5>2
      <4>2. \A i \in 1 .. n : i # 1 => i - 1 \in 1 .. n
        BY <1>1
      <4>3. \A i \in 1 .. n : e[i] = IF i = 1 THEN seqs[i] ELSE e[i - 1] \o seqs[i]
        BY <1>4, <4>1, <4>2
      <4>4. QED
        BY <4>3
    <3>2. Is(c)
      BY <3>1
    <3>3. FlattenSeq(seqs) = c[n]
      BY <2>2 DEF FlattenSeq, n
    <3> HIDE DEF c
    <3> DEFINE d == [i \in 0 .. n |-> IF i = 0 THEN <<>> ELSE c[i]]
    <3>4. Joins(d, seqs)
      <4>1. d[0] = <<>>
        BY <1>1
      <4>2. ASSUME NEW i \in 1 .. n
            PROVE  d[i] = d[i - 1] \o seqs[i]
        <5>1. d[i] = c[i] /\ i \in 0 .. n /\ i - 1 \in 0 .. n
          BY <1>1
        <5>2. CASE i = 1
          <6>1. c[1] = seqs[1] /\ d[1 - 1] = <<>> /\ seqs[1] \in Seq(S)
            BY <1>1, <3>2, <5>1, <5>2
          <6>2. QED
            BY <5>1, <5>2, <6>1
        <5>3. CASE i # 1
          <6>1. i - 1 # 0
            BY <5>3
          <6>2. d[i - 1] = c[i - 1]
            BY <5>1, <6>1
          <6>3. c[i] = c[i - 1] \o seqs[i]
            BY <3>2, <5>3
          <6>4. QED
            BY <5>1, <6>2, <6>3
        <5>4. QED
          BY <5>2, <5>3
      <4>3. QED
        BY <4>1, <4>2 DEF Joins, n
    <3>5. d[n] = f[n]
      <4> HIDE DEF d
      <4>1. \A i \in 0 .. n : d[i] = f[i]
        BY <1>1, <1>5, <3>4, JoinsAgree DEF n
      <4>2. QED
        BY <1>1, <4>1
    <3>6. d[n] = c[n]
      BY <1>1, <2>2
    <3>7. QED
      BY <3>3, <3>5, <3>6
  <2>3. QED
    BY <2>1, <2>2
<1>7. QED
  BY <1>3, <1>5, <1>6 DEF n

(***************************************************************************)
(* Whatever lays the sequences end to end ends with what FlattenSeq gives. *)
(***************************************************************************)
LEMMA FlattenIs ==
  ASSUME NEW S, NEW seqs \in Seq(Seq(S)), NEW f, Joins(f, seqs)
  PROVE  FlattenSeq(seqs) = f[Len(seqs)] /\ FlattenSeq(seqs) \in Seq(S)
<1>1. PICK g \in [0 .. Len(seqs) -> Seq(S)] :
             Joins(g, seqs) /\ FlattenSeq(seqs) = g[Len(seqs)]
  BY FlattenSteps
<1>2. Len(seqs) \in Nat /\ Len(seqs) \in 0 .. Len(seqs)
  OBVIOUS
<1>3. \A i \in 0 .. Len(seqs) : f[i] = g[i]
  BY <1>1, <1>2, JoinsAgree
<1>4. QED
  BY <1>1, <1>2, <1>3

(***************************************************************************)
(* Pieces laid end to end are the sequence they were cut from.  c tells    *)
(* how far the pieces have come.                                           *)
(***************************************************************************)
LEMMA PiecesMakeWhole ==
  ASSUME NEW S, NEW s \in Seq(S), NEW seqs \in Seq(Seq(S)),
         NEW c \in [0 .. Len(seqs) -> 0 .. Len(s)], c[0] = 0, c[Len(seqs)] = Len(s),
         \A i \in 1 .. Len(seqs) : c[i - 1] <= c[i] /\ seqs[i] = SubSeq(s, c[i - 1] + 1, c[i])
  PROVE  FlattenSeq(seqs) = s
<1> DEFINE n == Len(seqs)
           f == [i \in 0 .. n |-> SubSeq(s, 1, c[i])]
<1>1. n \in Nat
  OBVIOUS
<1>2. f[0] = <<>>
  BY <1>1
<1>3. ASSUME NEW i \in 1 .. n
      PROVE  f[i] = f[i - 1] \o seqs[i]
  <2>1. i \in 0 .. n /\ i - 1 \in 0 .. n
    BY <1>1
  <2>2. c[i] \in 0 .. Len(s) /\ c[i - 1] \in 0 .. Len(s) /\ c[i - 1] <= c[i]
    BY <2>1
  <2>3. SubSeq(s, 1, c[i]) = SubSeq(s, 1, c[i - 1]) \o SubSeq(s, c[i - 1] + 1, c[i])
    <3> DEFINE a == c[i - 1]
               b == c[i]
    <3>1. a \in Nat /\ b \in Nat /\ a <= b /\ b <= Len(s)
      BY <2>2
    <3> HIDE DEF a, b
    <3>2. SubSeq(s, 1, b) = SubSeq(s, 1, a) \o SubSeq(s, a + 1, b)
      BY <3>1, SMTT(30)
    <3>3. QED
      BY <3>2 DEF a, b
  <2>4. QED
    BY <2>1, <2>3
<1>4. Joins(f, seqs)
  BY <1>2, <1>3 DEF Joins
<1>5. FlattenSeq(seqs) = f[n]
  <2> HIDE DEF f
  <2>1. QED
    BY <1>4, FlattenIs
<1>6. f[n] = s
  <2>1. f[n] = SubSeq(s, 1, Len(s))
    BY <1>1
  <2>2. QED
    BY <2>1
<1>7. QED
  BY <1>5, <1>6

(***************************************************************************)
(* Sequences of sequences that follow one another are laid end to end one  *)
(* after the other.                                                        *)
(***************************************************************************)
LEMMA FlattenConcat ==
  ASSUME NEW S, NEW a \in Seq(Seq(S)), NEW b \in Seq(Seq(S))
  PROVE  FlattenSeq(a \o b) = FlattenSeq(a) \o FlattenSeq(b)
<1>1. PICK f \in [0 .. Len(a) -> Seq(S)] : Joins(f, a) /\ FlattenSeq(a) = f[Len(a)]
  BY FlattenSteps
<1>2. PICK g \in [0 .. Len(b) -> Seq(S)] : Joins(g, b) /\ FlattenSeq(b) = g[Len(b)]
  BY FlattenSteps
<1> DEFINE m == Len(a)
           n == Len(b)
           h == [i \in 0 .. m + n |-> IF i <= m THEN f[i] ELSE f[m] \o g[i - m]]
<1>3. m \in Nat /\ n \in Nat /\ Len(a \o b) = m + n /\ a \o b \in Seq(Seq(S))
  OBVIOUS
<1>4. /\ \A i \in 1 .. m : (a \o b)[i] = a[i]
      /\ \A i \in m + 1 .. m + n : (a \o b)[i] = b[i - m]
  OBVIOUS
<1>5. ASSUME NEW i \in 1 .. m + n
      PROVE  h[i] = h[i - 1] \o (a \o b)[i]
  <2>1. i \in 0 .. m + n /\ i - 1 \in 0 .. m + n
    BY <1>3
  <2>2. CASE i <= m
    <3>1. i \in 1 .. m /\ i - 1 <= m
      BY <1>3, <2>2
    <3>2. h[i] = f[i] /\ h[i - 1] = f[i - 1]
      BY <2>1, <2>2, <3>1
    <3>3. QED
      BY <1>1, <1>4, <3>1, <3>2 DEF Joins
  <2>3. CASE i > m
    <3> DEFINE k == i - m
    <3>1. k \in 1 .. n /\ k - 1 \in 0 .. n /\ i \in m + 1 .. m + n /\ ~(i <= m)
      BY <1>3, <2>3
    <3>2. h[i] = f[m] \o g[k]
      BY <2>1, <3>1
    <3>3. g[k] = g[k - 1] \o b[k]
      BY <1>2, <3>1 DEF Joins
    <3>4. h[i - 1] = f[m] \o g[k - 1]
      <4>1. CASE k = 1
        <5>1. i - 1 = m /\ g[k - 1] = <<>> /\ f[m] \in Seq(S)
          BY <1>2, <1>3, <4>1 DEF Joins
        <5>2. h[i - 1] = f[m]
          BY <1>3, <2>1, <5>1
        <5>3. QED
          BY <5>1, <5>2
      <4>2. CASE k # 1
        <5>1. ~(i - 1 <= m) /\ (i - 1) - m = k - 1
          BY <1>3, <2>1, <3>1, <4>2
        <5>2. QED
          BY <2>1, <5>1
      <4>3. QED
        BY <4>1, <4>2
    <3>5. f[m] \in Seq(S) /\ g[k - 1] \in Seq(S) /\ b[k] \in Seq(S)
      <4>1. m \in 0 .. Len(a)
        BY <1>3
      <4>2. b[k] \in Seq(S)
        BY <3>1
      <4>3. QED
        BY <3>1, <4>1, <4>2
    <3>6. (a \o b)[i] = b[k]
      BY <1>4, <3>1
    <3> HIDE DEF h, k, m, n
    <3>7. f[m] \o (g[k - 1] \o b[k]) = (f[m] \o g[k - 1]) \o b[k]
      <4> DEFINE x == f[m]
                 y == g[k - 1]
                 z == b[k]
      <4>1. x \in Seq(S) /\ y \in Seq(S) /\ z \in Seq(S)
        BY <3>5
      <4> HIDE DEF x, y, z
      <4>2. (x \o y) \o z = x \o (y \o z)
        BY <4>1, ConcatAssociative, SMTT(30)
      <4>3. QED
        BY <4>2 DEF x, y, z
    <3>8. QED
      BY <3>2, <3>3, <3>4, <3>6, <3>7
  <2>4. i <= m \/ i > m
    BY <1>3
  <2>5. QED
    BY <2>2, <2>3, <2>4, Zenon
<1>6. h[0] = <<>>
  BY <1>1, <1>3 DEF Joins
<1>7. Joins(h, a \o b)
  BY <1>3, <1>5, <1>6 DEF Joins
<1>8. FlattenSeq(a \o b) = h[m + n]
  <2> HIDE DEF h
  <2>1. QED
    BY <1>3, <1>7, FlattenIs
<1>9. h[m + n] = f[m] \o g[n]
  <2>1. CASE n = 0
    <3>1. h[m + n] = f[m] /\ g[n] = <<>> /\ f[m] \in Seq(S)
      BY <1>2, <1>3, <2>1 DEF Joins
    <3>2. QED
      BY <3>1
  <2>2. CASE n # 0
    <3>1. m + n \in 0 .. m + n /\ ~(m + n <= m) /\ (m + n) - m = n
      BY <1>3, <2>2
    <3>2. QED
      BY <3>1
  <2>3. QED
    BY <2>1, <2>2
<1>10. QED
  BY <1>1, <1>2, <1>8, <1>9

-----------------------------------------------------------------------------
(* Counting the elements of a set of numbers.                              *)

\* C[j] is how many of the first j numbers are in S.
Ranks(C, S, N) ==
  /\ C \in [0 .. N -> Nat] /\ C[0] = 0
  /\ \A j \in 1 .. N : C[j] = IF j \in S THEN C[j - 1] + 1 ELSE C[j - 1]

\* The elements up to a number.
UpTo(S, j) == {i \in S : i <= j}
CountsUp(S, N) ==
  /\ UpTo(S, 0) = {} /\ UpTo(S, N) = S
  /\ \A j \in 1 .. N : j \in S => UpTo(S, j) = UpTo(S, j - 1) \cup {j} /\ j \notin UpTo(S, j - 1)
  /\ \A j \in 1 .. N : j \notin S => UpTo(S, j) = UpTo(S, j - 1)

(***************************************************************************)
(* Each number adds itself, if it is an element.                           *)
(***************************************************************************)
LEMMA NextUpTo ==
  ASSUME NEW N \in Nat, NEW S, \A x \in S : x \in 1 .. N
  PROVE  CountsUp(S, N)
<1>1. \A x \in S : x \in Int /\ 1 <= x /\ x <= N
  OBVIOUS
<1>2. UpTo(S, 0) = {} /\ UpTo(S, N) = S
  BY <1>1 DEF UpTo
<1>3. ASSUME NEW j \in 1 .. N, j \in S
      PROVE  UpTo(S, j) = UpTo(S, j - 1) \cup {j} /\ j \notin UpTo(S, j - 1)
  <2>1. \A x \in S : x <= j <=> x <= j - 1 \/ x = j
    BY <1>1
  <2>2. ~(j <= j - 1)
    OBVIOUS
  <2>3. QED
    BY <1>3, <2>1, <2>2 DEF UpTo
<1>4. ASSUME NEW j \in 1 .. N, j \notin S
      PROVE  UpTo(S, j) = UpTo(S, j - 1)
  <2>1. \A x \in S : x <= j <=> x <= j - 1
    BY <1>1, <1>4
  <2>2. QED
    BY <2>1 DEF UpTo
<1>5. QED
  BY <1>2, <1>3, <1>4 DEF CountsUp

(***************************************************************************)
(* The elements up to a number are counted number by number.               *)
(***************************************************************************)
LEMMA Counted ==
  ASSUME NEW N \in Nat, NEW S \in SUBSET (1 .. N),
         NEW C, C = [j \in 0 .. N |-> Cardinality(UpTo(S, j))]
  PROVE  Ranks(C, S, N) /\ C[N] = Cardinality(S) /\ IsFiniteSet(S)
<1>0. IsFiniteSet(1 .. N) /\ \A x \in S : x \in 1 .. N
  BY FS_Interval
<1>1. IsFiniteSet(S) /\ CountsUp(S, N)
  BY <1>0, FS_Subset, NextUpTo
<1>2. \A j : IsFiniteSet(UpTo(S, j)) /\ Cardinality(UpTo(S, j)) \in Nat
  <2> SUFFICES ASSUME NEW j PROVE IsFiniteSet(UpTo(S, j)) /\ Cardinality(UpTo(S, j)) \in Nat
    OBVIOUS
  <2>1. UpTo(S, j) \subseteq S
    BY DEF UpTo
  <2>2. QED
    BY <1>1, <2>1, FS_Subset, FS_CardinalityType
<1>3. \A j \in 0 .. N : C[j] = Cardinality(UpTo(S, j))
  OBVIOUS
<1>4. C \in [0 .. N -> Nat]
  BY <1>2
<1>5. C[0] = 0
  <2>1. UpTo(S, 0) = {} /\ 0 \in 0 .. N
    BY <1>1 DEF CountsUp
  <2>2. QED
    BY <1>3, <2>1, FS_EmptySet
<1>6. ASSUME NEW j \in 1 .. N
      PROVE  C[j] = IF j \in S THEN C[j - 1] + 1 ELSE C[j - 1]
  <2>1. j \in 0 .. N /\ j - 1 \in 0 .. N
    OBVIOUS
  <2>2. CASE j \in S
    <3>1. UpTo(S, j) = UpTo(S, j - 1) \cup {j} /\ j \notin UpTo(S, j - 1)
      BY <1>1, <2>2 DEF CountsUp
    <3>2. Cardinality(UpTo(S, j)) = Cardinality(UpTo(S, j - 1)) + 1
      BY <1>2, <3>1, FS_AddElement
    <3>3. QED
      BY <1>3, <2>1, <2>2, <3>2
  <2>3. CASE j \notin S
    <3>1. UpTo(S, j) = UpTo(S, j - 1)
      BY <1>1, <2>3 DEF CountsUp
    <3>2. QED
      BY <1>3, <2>1, <2>3, <3>1
  <2>4. QED
    BY <2>2, <2>3
<1>7. C[N] = Cardinality(S)
  <2>1. UpTo(S, N) = S /\ N \in 0 .. N
    BY <1>1 DEF CountsUp
  <2>2. QED
    BY <1>3, <2>1
<1>8. QED
  BY <1>1, <1>4, <1>5, <1>6, <1>7 DEF Ranks

(***************************************************************************)
(* From one number to a later one there are no more elements than numbers, *)
(* and no more of a smaller set.                                           *)
(***************************************************************************)
LEMMA RankGrows ==
  ASSUME NEW N \in Nat, NEW S, NEW R, R \subseteq S, NEW C, NEW D, Ranks(C, S, N), Ranks(D, R, N),
         NEW j \in 0 .. N
  PROVE  \A k \in j .. N : /\ C[j] <= C[k] /\ C[k] - C[j] <= k - j
                           /\ D[j] <= D[k] /\ D[k] - D[j] <= C[k] - C[j]
<1> DEFINE P(k) == /\ C[j] <= C[k] /\ C[k] - C[j] <= k - j
                   /\ D[j] <= D[k] /\ D[k] - D[j] <= C[k] - C[j]
           n == N - j
           X == {x \in 0 .. n : P(j + x)}
<1>0. n \in Nat /\ \A k \in 0 .. N : C[k] \in Nat /\ D[k] \in Nat
  BY DEF Ranks
<1>1. 0 \in X
  <2>1. j + 0 = j /\ j \in 0 .. N
    OBVIOUS
  <2>2. QED
    BY <1>0, <2>1
<1>2. ASSUME NEW x \in 0 .. n - 1, x \in X
      PROVE  x + 1 \in X
  <2> DEFINE k == j + x
  <2>1. k \in 0 .. N /\ k + 1 \in 1 .. N /\ k + 1 \in 0 .. N /\ (k + 1) - 1 = k /\ j + (x + 1) = k + 1 /\ x + 1 \in 0 .. n
    BY <1>0
  <2>2. C[k + 1] = (IF k + 1 \in S THEN C[k] + 1 ELSE C[k]) /\ D[k + 1] = IF k + 1 \in R THEN D[k] + 1 ELSE D[k]
    BY <2>1 DEF Ranks
  <2>3. P(k)
    BY <1>2
  <2>4. k + 1 \in R => k + 1 \in S
    OBVIOUS
  <2>5. k \in Int /\ j \in Int
    BY <2>1
  <2> HIDE DEF k
  <2>6. P(k + 1)
    BY <1>0, <2>1, <2>2, <2>3, <2>4, <2>5
  <2>7. QED
    BY <2>1, <2>6
<1> HIDE DEF X
<1>3. \A x \in 0 .. n : x \in X
  BY <1>0, <1>1, <1>2, InductionUpTo
<1>4. ASSUME NEW k \in j .. N
      PROVE  P(k)
  <2>1. k - j \in 0 .. n /\ j + (k - j) = k
    OBVIOUS
  <2>2. k - j \in X
    BY <1>3, <2>1
  <2> HIDE DEF P
  <2>3. QED
    BY <2>1, <2>2 DEF X
<1>5. QED
  BY <1>4

(***************************************************************************)
(* How many elements there are where all numbers are elements, or none.    *)
(***************************************************************************)
LEMMA RankBetween ==
  ASSUME NEW N \in Nat, NEW S, NEW C, Ranks(C, S, N), NEW j \in 0 .. N, NEW k \in j .. N
  PROVE  /\ (\A x \in j + 1 .. k : x \in S) => C[k] = C[j] + (k - j)
         /\ (\A x \in j + 1 .. k : x \notin S) => C[k] = C[j]
<1> DEFINE n == k - j
           All == \A x \in j + 1 .. k : x \in S
           None == \A x \in j + 1 .. k : x \notin S
           X == {x \in 0 .. n : (All => C[j + x] = C[j] + x) /\ (None => C[j + x] = C[j])}
<1>0. n \in Nat /\ \A i \in 0 .. N : C[i] \in Nat
  BY DEF Ranks
<1>1. 0 \in X
  <2>1. j + 0 = j /\ j \in 0 .. N
    OBVIOUS
  <2>2. QED
    BY <1>0, <2>1
<1>2. ASSUME NEW x \in 0 .. n - 1, x \in X
      PROVE  x + 1 \in X
  <2> DEFINE i == j + x
  <2>1. i \in 0 .. N /\ i + 1 \in 1 .. N /\ i + 1 \in j + 1 .. k /\ (i + 1) - 1 = i /\ j + (x + 1) = i + 1 /\ x + 1 \in 0 .. n
    BY <1>0
  <2>2. C[i + 1] = IF i + 1 \in S THEN C[i] + 1 ELSE C[i]
    BY <2>1 DEF Ranks
  <2>3. (All => C[i] = C[j] + x) /\ (None => C[i] = C[j])
    BY <1>2
  <2>4. (All => i + 1 \in S) /\ (None => i + 1 \notin S)
    BY <2>1
  <2> HIDE DEF i, All, None
  <2>5. (All => C[i + 1] = C[j] + (x + 1)) /\ (None => C[i + 1] = C[j])
    <3>1. C[j] \in Nat
      BY <1>0
    <3>2. QED
      BY <2>2, <2>3, <2>4, <3>1
  <2>6. QED
    BY <2>1, <2>5
<1> HIDE DEF X
<1>3. n \in X
  <2>1. n \in 0 .. n
    BY <1>0
  <2> HIDE DEF n
  <2>2. QED
    BY <1>0, <1>1, <1>2, <2>1, InductionUpTo
<1>4. j + n = k
  OBVIOUS
<1>5. QED
  BY <1>3, <1>4 DEF X

(***************************************************************************)
(* As many elements as there are, there is one of that rank.               *)
(***************************************************************************)
LEMMA RankReached ==
  ASSUME NEW N \in Nat, NEW S, NEW C, Ranks(C, S, N), NEW i \in Nat, i < C[N]
  PROVE  \E g \in 1 .. N : g \in S /\ C[g] = i + 1 /\ C[g - 1] = i
<1> DEFINE X == {x \in 1 .. N : C[x] > i}
<1>0. C[0] = 0 /\ \A k \in 0 .. N : C[k] \in Nat
  BY DEF Ranks
<1>1. N \in X
  <2>1. N # 0
    BY <1>0
  <2>2. QED
    BY <2>1
<1>2. PICK g \in X : \A x \in X : g <= x
  <2>1. X \in SUBSET Nat /\ X # {}
    BY <1>1
  <2> HIDE DEF X
  <2>2. QED
    BY <2>1, LeastNatural
<1>3. g \in 1 .. N /\ g - 1 \in 0 .. N /\ C[g] > i /\ C[g] = IF g \in S THEN C[g - 1] + 1 ELSE C[g - 1]
  BY DEF Ranks
<1>4. C[g - 1] <= i
  <2>1. CASE g - 1 = 0
    BY <1>0, <2>1
  <2>2. CASE g - 1 \in 1 .. N
    <3>1. g - 1 \notin X
      BY <1>2, <1>3
    <3>2. QED
      BY <1>0, <1>3, <2>2, <3>1
  <2>3. QED
    BY <1>3, <2>1, <2>2
<1>5. C[g] \in Nat /\ C[g - 1] \in Nat
  BY <1>0, <1>3
<1>6. g \in S /\ C[g] = i + 1 /\ C[g - 1] = i
  BY <1>3, <1>4, <1>5
<1>7. QED
  BY <1>3, <1>6
=============================================================================
