---------------------------- MODULE CallsProofs ----------------------------
(***************************************************************************)
(* Arguments arrive, for every function and whatever is written: by        *)
(* position in the order they were supplied in, by name the one that was   *)
(* supplied last.                                                          *)
(* An error about an argument is reported there.  For functions of the     *)
(* shapes that builtins and closures have, binding arguments ahead and     *)
(* calling with the others is calling with all of them, and arguments that *)
(* fit are accepted.                                                       *)
(***************************************************************************)
EXTENDS Calls, SequenceLemmas

-----------------------------------------------------------------------------
(* Named arguments.                                                        *)

NamedArgs == Seq(Idents \X Value)

\* The identity of the last value that a list gives to a name.
LastId(list, name) == list[Max({i \in DOMAIN list : list[i][1] = name})][2].id

\* A map holds each name of a list once, with the value that is last in it.
Collects(named, list) ==
  /\ named \in NamedArgs
  /\ NamedOnce(named)
  /\ Names(named) = Names(list)
  /\ \A i \in DOMAIN named : named[i][2].id = LastId(list, named[i][1])

(***************************************************************************)
(* What is appended to a list decides about the names it gives.            *)
(***************************************************************************)
LEMMA LastOfConcat ==
  ASSUME NEW a \in NamedArgs, NEW b \in NamedArgs, NEW name
  PROVE  /\ name \in Names(b) => LastId(a \o b, name) = LastId(b, name)
         /\ name \in Names(a) \ Names(b) => LastId(a \o b, name) = LastId(a, name)
<1> DEFINE m == Len(a)
           n == Len(b)
           In(s) == {i \in DOMAIN s : s[i][1] = name}
<1>1. m \in Nat /\ n \in Nat /\ DOMAIN a = 1 .. m /\ DOMAIN b = 1 .. n /\ DOMAIN (a \o b) = 1 .. m + n
  BY DEF NamedArgs
<1>2. /\ \A i \in 1 .. m : (a \o b)[i] = a[i]
      /\ \A i \in m + 1 .. m + n : (a \o b)[i] = b[i - m]
  BY DEF NamedArgs
<1> DEFINE c == a \o b
<1> HIDE DEF m, n, c
<1>3. ASSUME name \in Names(b)
      PROVE  c[Max(In(c))] = b[Max(In(b))]
  <2> DEFINE k == Max(In(b))
  <2>1. In(b) \in SUBSET (1 .. n) /\ In(b) # {}
    BY <1>1, <1>3 DEF Names
  <2>2. k \in In(b) /\ \A j \in In(b) : j <= k
    <3> HIDE DEF In
    <3>1. QED
      BY <1>1, <2>1, MaxWithin
  <2> HIDE DEF k
  <2>3. k \in 1 .. n /\ b[k][1] = name /\ \A j \in 1 .. n : b[j][1] = name => j <= k
    BY <1>1, <2>2
  <2>4. m + k \in m + 1 .. m + n /\ (m + k) - m = k /\ m + k \in 1 .. m + n
    BY <1>1, <2>3
  <2>5. c[m + k] = b[k]
    BY <1>2, <2>4 DEF c
  <2>6. m + k \in In(c)
    BY <1>1, <2>3, <2>4, <2>5 DEF c
  <2>7. ASSUME NEW j \in In(c)
        PROVE  j <= m + k
    <3>1. j \in 1 .. m + n /\ c[j][1] = name
      BY <1>1, <2>7 DEF c
    <3>2. CASE j <= m
      BY <1>1, <2>3, <3>1, <3>2
    <3>3. CASE j > m
      <4>1. j \in m + 1 .. m + n /\ j - m \in 1 .. n
        BY <1>1, <3>1, <3>3
      <4>2. b[j - m][1] = name
        BY <1>2, <3>1, <4>1 DEF c
      <4>3. j - m <= k
        BY <2>3, <4>1, <4>2
      <4>4. QED
        BY <1>1, <2>3, <3>1, <4>3
    <3>4. QED
      BY <1>1, <3>1, <3>2, <3>3
  <2>8. In(c) \in SUBSET Int
    BY <1>1 DEF c
  <2>9. Max(In(c)) = m + k
    <3> HIDE DEF In
    <3>1. QED
      BY <2>6, <2>7, <2>8, MaxIsGreatest
  <2>10. QED
    BY <2>5, <2>9 DEF k
<1>4. ASSUME name \in Names(a) \ Names(b)
      PROVE  c[Max(In(c))] = a[Max(In(a))]
  <2>1. \A j \in 1 .. n : b[j][1] # name
    BY <1>1, <1>4 DEF Names
  <2>2. In(c) = In(a)
    <3>1. ASSUME NEW j \in In(c)
          PROVE  j \in In(a)
      <4>1. j \in 1 .. m + n /\ c[j][1] = name
        BY <1>1, <3>1 DEF c
      <4>2. j > m => j \in m + 1 .. m + n /\ j - m \in 1 .. n
        BY <1>1, <4>1
      <4>3. ~(j > m)
        BY <1>2, <2>1, <4>1, <4>2 DEF c
      <4>4. j \in 1 .. m
        BY <1>1, <4>1, <4>3
      <4>5. QED
        BY <1>1, <1>2, <4>1, <4>4 DEF c
    <3>2. ASSUME NEW j \in In(a)
          PROVE  j \in In(c)
      <4>1. j \in 1 .. m /\ j \in 1 .. m + n
        BY <1>1, <3>2
      <4>2. c[j] = a[j]
        BY <1>2, <4>1 DEF c
      <4>3. QED
        BY <1>1, <3>2, <4>1, <4>2 DEF c
    <3>3. QED
      BY <3>1, <3>2
  <2>3. c[Max(In(a))] = a[Max(In(a))]
    <3>0. In(a) # {}
      BY <1>4 DEF Names
    <3>1. In(a) \in SUBSET (1 .. m)
      BY <1>1
    <3>2. Max(In(a)) \in 1 .. m
      <4> HIDE DEF In
      <4>1. QED
        BY <1>1, <3>0, <3>1, MaxWithin
    <3>3. QED
      BY <1>2, <3>2 DEF c
  <2>4. QED
    BY <2>2, <2>3
<1>5. QED
  BY <1>3, <1>4 DEF LastId, c

(***************************************************************************)
(* The names of lists that follow one another.                             *)
(***************************************************************************)
LEMMA NamesOfConcat ==
  ASSUME NEW a \in NamedArgs, NEW b \in NamedArgs
  PROVE  Names(a \o b) = Names(a) \cup Names(b) /\ a \o b \in NamedArgs
<1>1. a \o b \in NamedArgs
  BY DEF NamedArgs
<1> DEFINE m == Len(a)
           n == Len(b)
           c == a \o b
<1>2. m \in Nat /\ n \in Nat /\ DOMAIN a = 1 .. m /\ DOMAIN b = 1 .. n /\ DOMAIN c = 1 .. m + n
  BY DEF NamedArgs
<1>3. /\ \A i \in 1 .. m : c[i] = a[i]
      /\ \A i \in m + 1 .. m + n : c[i] = b[i - m]
  BY DEF NamedArgs
<1> HIDE DEF m, n, c
<1>4. ASSUME NEW i \in 1 .. m + n
      PROVE  c[i][1] \in Names(a) \cup Names(b)
  <2>1. CASE i <= m
    <3>1. i \in 1 .. m
      BY <1>2, <2>1
    <3>2. QED
      BY <1>2, <1>3, <3>1 DEF Names
  <2>2. CASE i > m
    <3>1. i \in m + 1 .. m + n /\ i - m \in 1 .. n
      BY <1>2, <2>2
    <3>2. QED
      BY <1>2, <1>3, <3>1 DEF Names
  <2>3. QED
    BY <1>2, <2>1, <2>2
<1>5. ASSUME NEW i \in 1 .. m
      PROVE  a[i][1] \in Names(c)
  <2>1. i \in 1 .. m + n
    BY <1>2
  <2>2. QED
    BY <1>2, <1>3, <2>1 DEF Names
<1>6. ASSUME NEW i \in 1 .. n
      PROVE  b[i][1] \in Names(c)
  <2>1. m + i \in 1 .. m + n /\ m + i \in m + 1 .. m + n /\ (m + i) - m = i
    BY <1>2
  <2>2. QED
    BY <1>2, <1>3, <2>1 DEF Names
<1>7. Names(c) = Names(a) \cup Names(b)
  <2>1. Names(c) \subseteq Names(a) \cup Names(b)
    BY <1>2, <1>4 DEF Names
  <2>2. Names(a) \subseteq Names(c)
    BY <1>2, <1>5 DEF Names
  <2>3. Names(b) \subseteq Names(c)
    BY <1>2, <1>6 DEF Names
  <2>4. QED
    BY <2>1, <2>2, <2>3
<1>8. QED
  BY <1>1, <1>7 DEF c

(***************************************************************************)
(* Put replaces the value of a name that is there, or appends the pair.    *)
(***************************************************************************)
LEMMA PutEntries ==
  ASSUME NEW named \in NamedArgs, NEW e \in Idents \X Value
  PROVE  LET p == Put(named, e[1], e[2])
         IN  /\ p \in NamedArgs
             /\ e[1] \in Names(named) =>
                  /\ Len(p) = Len(named)
                  /\ \A i \in 1 .. Len(named) : p[i] = IF named[i][1] = e[1] THEN e ELSE named[i]
             /\ e[1] \notin Names(named) =>
                  /\ Len(p) = Len(named) + 1
                  /\ p[Len(named) + 1] = e
                  /\ \A i \in 1 .. Len(named) : p[i] = named[i]
<1> DEFINE m == Len(named)
           p == Put(named, e[1], e[2])
<1>1. m \in Nat /\ DOMAIN named = 1 .. m /\ \A i \in 1 .. m : named[i] \in Idents \X Value
  BY DEF NamedArgs
<1>2. e = <<e[1], e[2]>>
  OBVIOUS
<1>3. ASSUME e[1] \in Names(named)
      PROVE  /\ p \in NamedArgs
             /\ Len(p) = m
             /\ \A i \in 1 .. m : p[i] = IF named[i][1] = e[1] THEN e ELSE named[i]
  <2>1. p = [i \in 1 .. m |-> IF named[i][1] = e[1] THEN e ELSE named[i]]
    BY <1>1, <1>2, <1>3 DEF Put
  <2> HIDE DEF m, p
  <2>2. \A i \in 1 .. m : p[i] = IF named[i][1] = e[1] THEN e ELSE named[i]
    BY <2>1
  <2>3. \A i \in 1 .. m : p[i] \in Idents \X Value
    BY <1>1, <1>2, <2>2
  <2>4. p = [i \in 1 .. m |-> p[i]]
    BY <2>1
  <2>5. p \in Seq(Idents \X Value) /\ Len(p) = m
    BY <1>1, <2>3, <2>4, MakesSequence
  <2>6. QED
    BY <2>2, <2>5 DEF NamedArgs
<1>4. ASSUME e[1] \notin Names(named)
      PROVE  /\ p \in NamedArgs
             /\ Len(p) = m + 1
             /\ p[m + 1] = e
             /\ \A i \in 1 .. m : p[i] = named[i]
  <2>1. p = Append(named, e)
    BY <1>2, <1>4 DEF Put
  <2> DEFINE X == Idents \X Value
  <2>2. named \in Seq(X) /\ e \in X
    BY DEF NamedArgs
  <2> HIDE DEF X
  <2>3. /\ Append(named, e) \in Seq(X)
        /\ Len(Append(named, e)) = m + 1
        /\ Append(named, e)[m + 1] = e
        /\ \A i \in 1 .. m : Append(named, e)[i] = named[i]
    BY <2>2
  <2>4. QED
    BY <2>1, <2>3 DEF NamedArgs, X
<1>5. QED
  BY <1>3, <1>4

(***************************************************************************)
(* Put keeps what is collected: the value that is put last wins.           *)
(***************************************************************************)
LEMMA PutCollects ==
  ASSUME NEW named, NEW list \in NamedArgs, Collects(named, list),
         NEW e \in Idents \X Value
  PROVE  Collects(Put(named, e[1], e[2]), list \o <<e>>)
<1> DEFINE p == Put(named, e[1], e[2])
           more == <<e>>
           n == e[1]
           v == e[2]
           m == Len(named)
<1>1. named \in NamedArgs /\ NamedOnce(named) /\ Names(named) = Names(list)
  BY DEF Collects
<1>2. more \in NamedArgs /\ Names(more) = {n}
  <2>1. <<e>> \in Seq(Idents \X Value)
    <3> DEFINE X == Idents \X Value
    <3>1. e \in X
      OBVIOUS
    <3> HIDE DEF X
    <3>2. <<e>> \in Seq(X)
      BY <3>1
    <3>3. QED
      BY <3>2 DEF X
  <2>2. DOMAIN more = {1} /\ more[1][1] = n
    OBVIOUS
  <2>3. QED
    BY <2>1, <2>2 DEF NamedArgs, Names
<1>3. LastId(more, n) = v.id
  <2> DEFINE S == {i \in DOMAIN more : more[i][1] = n}
  <2>0. DOMAIN more = {1} /\ more[1][1] = n
    OBVIOUS
  <2>1. S \in SUBSET Int /\ 1 \in S /\ \A j \in S : j <= 1
    BY <2>0
  <2>2. Max(S) = 1
    <3> HIDE DEF S
    <3>1. QED
      BY <2>1, MaxIsGreatest
  <2>3. QED
    BY <2>2 DEF LastId
<1>4. Names(list \o more) = Names(list) \cup {n}
  BY <1>2, NamesOfConcat
<1>5. LastId(list \o more, n) = v.id
  BY <1>2, <1>3, LastOfConcat
<1>6. \A name \in Names(list) \ {n} : LastId(list \o more, name) = LastId(list, name)
  BY <1>2, LastOfConcat
<1>7. m \in Nat /\ DOMAIN named = 1 .. m
  BY <1>1 DEF NamedArgs
<1>8. \A i \in 1 .. m : named[i][1] \in Names(list) /\ named[i][2].id = LastId(list, named[i][1])
  BY <1>1, <1>7 DEF Collects, Names
<1>9. \A i, j \in 1 .. m : named[i][1] = named[j][1] => i = j
  BY <1>1, <1>7 DEF NamedOnce
<1>10. p \in NamedArgs
  BY <1>1, PutEntries
<1>0. e[1] = n /\ e[2] = v
  OBVIOUS
<1> HIDE DEF p, more, m, n, v
<1>11. ASSUME n \in Names(named)
       PROVE  Collects(p, list \o more)
  <2>1. Len(p) = m /\ \A i \in 1 .. m : p[i] = IF named[i][1] = n THEN e ELSE named[i]
    BY <1>1, <1>11, PutEntries DEF p, m, n
  <2>2. ASSUME NEW i \in 1 .. m PROVE p[i][1] = named[i][1]
    <3>1. CASE named[i][1] = n
      BY <1>0, <2>1, <3>1
    <3>2. CASE named[i][1] # n
      BY <2>1, <3>2
    <3>3. QED
      BY <3>1, <3>2
  <2>3. DOMAIN p = 1 .. m
    BY <1>10, <2>1 DEF NamedArgs
  <2>4. NamedOnce(p)
    BY <1>9, <2>2, <2>3 DEF NamedOnce
  <2>5. Names(p) = Names(list \o more)
    <3>1. Names(p) = Names(named)
      BY <1>7, <2>2, <2>3 DEF Names
    <3>2. QED
      BY <1>1, <1>4, <1>11, <3>1
  <2>6. ASSUME NEW i \in 1 .. m
        PROVE  p[i][2].id = LastId(list \o more, p[i][1])
    <3>1. CASE named[i][1] = n
      <4>1. p[i] = e
        BY <2>1, <3>1
      <4>2. QED
        BY <1>0, <1>5, <4>1
    <3>2. CASE named[i][1] # n
      <4>1. p[i] = named[i]
        BY <2>1, <3>2
      <4>2. QED
        BY <1>6, <1>8, <3>2, <4>1
    <3>3. QED
      BY <3>1, <3>2
  <2>7. QED
    BY <1>10, <2>3, <2>4, <2>5, <2>6 DEF Collects
<1>12. ASSUME n \notin Names(named)
       PROVE  Collects(p, list \o more)
  <2>1. Len(p) = m + 1 /\ p[m + 1] = e /\ \A i \in 1 .. m : p[i] = named[i]
    BY <1>1, <1>12, PutEntries DEF p, m, n
  <2>2. DOMAIN p = 1 .. m + 1
    BY <1>10, <2>1 DEF NamedArgs
  <2>3. \A i \in 1 .. m + 1 : i = m + 1 \/ i \in 1 .. m
    BY <1>7
  <2>4. \A i \in 1 .. m : named[i][1] # n
    BY <1>7, <1>12 DEF Names
  <2>5. NamedOnce(p)
    <3> SUFFICES ASSUME NEW i \in 1 .. m + 1, NEW j \in 1 .. m + 1, p[i][1] = p[j][1]
                 PROVE  i = j
      BY <2>2 DEF NamedOnce
    <3>1. p[m + 1][1] = n
      BY <1>0, <2>1
    <3>2. QED
      BY <1>9, <2>1, <2>3, <2>4, <3>1
  <2>6. Names(p) = Names(list \o more)
    <3>1. m + 1 \in 1 .. m + 1 /\ \A i \in 1 .. m : i \in 1 .. m + 1
      BY <1>7
    <3>2. Names(p) = Names(named) \cup {n}
      <4>1. ASSUME NEW i \in 1 .. m + 1
            PROVE  p[i][1] \in Names(named) \cup {n}
        <5>1. CASE i = m + 1
          BY <1>0, <2>1, <5>1
        <5>2. CASE i \in 1 .. m
          BY <1>7, <2>1, <5>2 DEF Names
        <5>3. QED
          BY <2>3, <5>1, <5>2
      <4>2. n \in Names(p)
        BY <1>0, <2>1, <2>2, <3>1 DEF Names
      <4>3. \A i \in 1 .. m : named[i][1] \in Names(p)
        BY <2>1, <2>2, <3>1 DEF Names
      <4>4. Names(p) \subseteq Names(named) \cup {n}
        BY <2>2, <4>1 DEF Names
      <4>5. Names(named) \subseteq Names(p)
        BY <1>7, <4>3 DEF Names
      <4>6. QED
        BY <4>2, <4>4, <4>5
    <3>3. QED
      BY <1>1, <1>4, <3>2
  <2>7. ASSUME NEW i \in 1 .. m + 1
        PROVE  p[i][2].id = LastId(list \o more, p[i][1])
    <3>1. CASE i = m + 1
      BY <1>0, <1>5, <2>1, <3>1
    <3>2. CASE i \in 1 .. m
      <4>1. p[i] = named[i]
        BY <2>1, <3>2
      <4>2. QED
        BY <1>6, <1>8, <2>4, <3>2, <4>1
    <3>3. QED
      BY <2>3, <3>1, <3>2
  <2>8. QED
    BY <1>10, <2>2, <2>5, <2>6, <2>7 DEF Collects
<1>13. QED
  BY <1>11, <1>12 DEF p, more, n, v

(***************************************************************************)
(* PutAll puts pair after pair.                                            *)
(***************************************************************************)
LEMMA PutAllSteps ==
  ASSUME NEW named \in NamedArgs, NEW more \in NamedArgs
  PROVE  \E r \in [0 .. Len(more) -> NamedArgs] :
           /\ r[0] = named
           /\ \A i \in 1 .. Len(more) : r[i] = Put(r[i - 1], more[i][1], more[i][2])
           /\ PutAll(named, more) = r[Len(more)]
<1> DEFINE n == Len(more)
           G == [p \in NamedArgs \X (1 .. n) |-> Put(p[1], more[p[2]][1], more[p[2]][2])]
           Is(g) == g = [s \in SUBSET (1 .. n) |->
                           IF s = {} THEN named
                           ELSE Put(g[s \ {Max(s)}], more[Max(s)][1], more[Max(s)][2])]
           c == CHOOSE g : Is(g)
<1>1. n \in Nat /\ DOMAIN more = 1 .. n /\ \A i \in 1 .. n : more[i] \in Idents \X Value
  BY DEF NamedArgs
<1>2. PutAll(named, more) = c[1 .. n]
  BY <1>1 DEF PutAll, FoldLeft, MapThenFoldSet
<1> HIDE DEF n
<1>3. \A a \in NamedArgs, i \in 1 .. n :
        G[<<a, i>>] = Put(a, more[i][1], more[i][2]) /\ G[<<a, i>>] \in NamedArgs
  <2> SUFFICES ASSUME NEW a \in NamedArgs, NEW i \in 1 .. n
               PROVE  G[<<a, i>>] = Put(a, more[i][1], more[i][2]) /\ G[<<a, i>>] \in NamedArgs
    OBVIOUS
  <2>1. G[<<a, i>>] = Put(a, more[i][1], more[i][2])
    OBVIOUS
  <2>2. Put(a, more[i][1], more[i][2]) \in NamedArgs
    BY <1>1, PutEntries
  <2>3. QED
    BY <2>1, <2>2
<1> HIDE DEF G
<1>4. PICK it \in [SUBSET (1 .. n) -> NamedArgs] : IsFold(it, named, G, n)
  <2>1. StepsWithin(G, NamedArgs, n)
    BY <1>3 DEF StepsWithin
  <2>2. QED
    BY <1>1, <2>1, FoldExists
<1>5. Is(it)
  <2>1. ASSUME NEW s \in SUBSET (1 .. n), s # {}
        PROVE  it[s] = Put(it[s \ {Max(s)}], more[Max(s)][1], more[Max(s)][2])
    <3>1. Max(s) \in 1 .. n
      BY <1>1, <2>1, MaxWithin
    <3>2. it[s \ {Max(s)}] \in NamedArgs
      OBVIOUS
    <3>3. it[s] = G[<<it[s \ {Max(s)}], Max(s)>>]
      BY <1>4, <2>1 DEF IsFold
    <3>4. QED
      BY <1>3, <3>1, <3>2, <3>3
  <2>2. it[{}] = named
    BY <1>4 DEF IsFold
  <2>3. QED
    BY <2>1, <2>2
<1>6. Is(c)
  BY <1>5
<1> HIDE DEF c
<1> DEFINE r == [i \in 0 .. n |-> c[1 .. i]]
<1>7. r[0] = named
  <2>1. 1 .. 0 = {} /\ {} \in SUBSET (1 .. n) /\ 0 \in 0 .. n
    BY <1>1
  <2>2. c[{}] = named
    BY <1>6, <2>1
  <2>3. QED
    BY <2>1, <2>2
<1>8. ASSUME NEW i \in 1 .. n
      PROVE  r[i] = Put(r[i - 1], more[i][1], more[i][2])
  <2>1. /\ 1 .. i \in SUBSET (1 .. n)
        /\ 1 .. i # {}
        /\ Max(1 .. i) = i
        /\ (1 .. i) \ {i} = 1 .. i - 1
    BY <1>1, FirstNumbers
  <2>2. c[1 .. i] = Put(c[(1 .. i) \ {Max(1 .. i)}], more[Max(1 .. i)][1], more[Max(1 .. i)][2])
    BY <1>6, <2>1
  <2>3. c[1 .. i] = Put(c[1 .. i - 1], more[i][1], more[i][2])
    BY <2>1, <2>2
  <2>4. i \in 0 .. n /\ i - 1 \in 0 .. n
    BY <1>1
  <2>5. QED
    BY <2>3, <2>4
<1>9. r[n] = c[1 .. n]
  BY <1>1
<1> DEFINE S == {i \in 0 .. n : r[i] \in NamedArgs}
<1> HIDE DEF r
<1>10. \A i \in 0 .. n : i \in S
  <2>1. 0 \in S
    BY <1>1, <1>7
  <2>2. ASSUME NEW i \in 0 .. n - 1, i \in S
        PROVE  i + 1 \in S
    <3>1. i + 1 \in 1 .. n /\ i + 1 \in 0 .. n /\ (i + 1) - 1 = i
      BY <1>1
    <3>2. r[i + 1] = Put(r[i], more[i + 1][1], more[i + 1][2])
      BY <1>8, <3>1
    <3>3. r[i + 1] \in NamedArgs
      BY <1>1, <2>2, <3>1, <3>2, PutEntries
    <3>4. QED
      BY <3>1, <3>3
  <2> HIDE DEF S
  <2>3. QED
    BY <1>1, <2>1, <2>2, InductionUpTo
<1>11. r \in [0 .. n -> NamedArgs]
  <2>1. r = [i \in 0 .. n |-> r[i]]
    BY DEF r
  <2>2. QED
    BY <1>10, <2>1
<1>12. QED
  BY <1>2, <1>7, <1>8, <1>9, <1>11 DEF n

(***************************************************************************)
(* PutAll collects what it is given behind what was collected before.      *)
(***************************************************************************)
LEMMA PutAllCollects ==
  ASSUME NEW named, NEW list \in NamedArgs, Collects(named, list), NEW more \in NamedArgs
  PROVE  Collects(PutAll(named, more), list \o more)
<1> DEFINE n == Len(more)
           First(i) == SubSeq(more, 1, i)
<1>1. n \in Nat /\ \A i \in 1 .. n : more[i] \in Idents \X Value
  BY DEF NamedArgs
<1>2. PICK r \in [0 .. n -> NamedArgs] :
             /\ r[0] = named
             /\ \A i \in 1 .. n : r[i] = Put(r[i - 1], more[i][1], more[i][2])
             /\ PutAll(named, more) = r[n]
  <2>1. named \in NamedArgs
    BY DEF Collects
  <2>2. QED
    BY <2>1, PutAllSteps
<1>3. \A i \in 0 .. n : First(i) \in NamedArgs
  BY DEF NamedArgs
<1>4. ASSUME NEW i \in 0 .. n - 1
      PROVE  list \o First(i + 1) = (list \o First(i)) \o <<more[i + 1]>>
  <2> DEFINE X == Idents \X Value
             a == First(i)
             b == <<more[i + 1]>>
  <2>1. i + 1 \in 1 .. n /\ i \in 0 .. n
    BY <1>1
  <2>2. list \in Seq(X) /\ a \in Seq(X) /\ more[i + 1] \in X /\ more \in Seq(X)
    BY <1>1, <1>3, <2>1 DEF NamedArgs
  <2> HIDE DEF X
  <2>3. b \in Seq(X)
    BY <2>2
  <2>4. First(i + 1) = a \o b
    BY <2>1, <2>2
  <2> HIDE DEF a, b
  <2>5. (list \o a) \o b = list \o (a \o b)
    <3>1. list \in Seq(X) /\ a \in Seq(X) /\ b \in Seq(X)
      BY <2>2, <2>3
    <3>2. QED
      BY <3>1, ConcatAssociative, SMTT(30)
  <2>6. QED
    BY <2>4, <2>5 DEF a, b
<1>5. list \o First(0) = list /\ First(n) = more
  <2> DEFINE X == Idents \X Value
  <2>1. list \in Seq(X) /\ more \in Seq(X)
    BY DEF NamedArgs
  <2> HIDE DEF X
  <2>2. First(0) = <<>> /\ First(n) = more
    BY <2>1
  <2>3. QED
    BY <2>1, <2>2
<1> DEFINE S == {i \in 0 .. n : Collects(r[i], list \o First(i))}
<1> HIDE DEF First, n
<1>6. 0 \in S
  <2>1. Collects(r[0], list \o First(0))
    BY <1>2, <1>5
  <2>2. QED
    BY <1>1, <2>1
<1>7. ASSUME NEW i \in 0 .. n - 1, i \in S
      PROVE  i + 1 \in S
  <2>1. i + 1 \in 1 .. n /\ i + 1 \in 0 .. n /\ (i + 1) - 1 = i /\ i \in 0 .. n
    BY <1>1
  <2>2. r[i + 1] = Put(r[i], more[i + 1][1], more[i + 1][2])
    BY <1>2, <2>1
  <2>3. list \o First(i) \in NamedArgs
    BY <1>3, <2>1, NamesOfConcat
  <2>4. Collects(r[i + 1], (list \o First(i)) \o <<more[i + 1]>>)
    BY <1>1, <1>7, <2>1, <2>2, <2>3, PutCollects
  <2>5. QED
    BY <1>4, <2>1, <2>4
<1> HIDE DEF S
<1>8. \A i \in 0 .. n : i \in S
  BY <1>1, <1>6, <1>7, InductionUpTo
<1>9. n \in S
  BY <1>1, <1>8
<1>10. QED
  BY <1>2, <1>5, <1>9 DEF S

(***************************************************************************)
(* Merging two maps collects what each of them has collected.              *)
(***************************************************************************)
LEMMA MergedCollects ==
  ASSUME NEW a, NEW b, NEW first \in NamedArgs, NEW then \in NamedArgs,
         Collects(a, first), Collects(b, then)
  PROVE  Collects(PutAll(a, b), first \o then)
<1> DEFINE p == PutAll(a, b)
<1>1. b \in NamedArgs /\ NamedOnce(b) /\ Names(b) = Names(then)
  BY DEF Collects
<1>2. Collects(p, first \o b)
  BY <1>1, PutAllCollects
<1> HIDE DEF p
<1>3. Names(first \o b) = Names(first \o then)
  BY <1>1, NamesOfConcat
<1>4. \A name \in Names(b) : LastId(b, name) = LastId(then, name)
  <2> SUFFICES ASSUME NEW name \in Names(b) PROVE LastId(b, name) = LastId(then, name)
    OBVIOUS
  <2>1. PICK i \in DOMAIN b : b[i][1] = name
    BY DEF Names
  <2>2. b[i][2].id = LastId(then, name)
    BY <2>1 DEF Collects
  <2> DEFINE S == {j \in DOMAIN b : b[j][1] = name}
  <2>3. \A j \in S : j = i
    BY <1>1, <2>1 DEF NamedOnce
  <2>4. i \in S /\ S \in SUBSET Int /\ i \in Int
    BY <1>1, <2>1 DEF NamedArgs
  <2>5. Max(S) = i
    <3>1. \A j \in S : j <= i
      BY <2>3, <2>4
    <3> HIDE DEF S
    <3>2. QED
      BY <2>4, <3>1, MaxIsGreatest
  <2>6. QED
    BY <2>2, <2>5 DEF LastId
<1>5. \A name \in Names(first \o b) : LastId(first \o b, name) = LastId(first \o then, name)
  <2> SUFFICES ASSUME NEW name \in Names(first \o b)
               PROVE  LastId(first \o b, name) = LastId(first \o then, name)
    OBVIOUS
  <2>1. name \in Names(first) \cup Names(b)
    BY <1>1, NamesOfConcat
  <2>2. CASE name \in Names(b)
    <3>1. LastId(first \o b, name) = LastId(b, name)
      BY <1>1, <2>2, LastOfConcat
    <3>2. LastId(first \o then, name) = LastId(then, name)
      BY <1>1, <2>2, LastOfConcat
    <3>3. QED
      BY <1>4, <2>2, <3>1, <3>2
  <2>3. CASE name \in Names(first) \ Names(b)
    <3>1. LastId(first \o b, name) = LastId(first, name)
      BY <1>1, <2>3, LastOfConcat
    <3>2. LastId(first \o then, name) = LastId(first, name)
      BY <1>1, <2>3, LastOfConcat
    <3>3. QED
      BY <3>1, <3>2
  <2>4. QED
    BY <2>1, <2>2, <2>3
<1>6. \A i \in DOMAIN p : p[i][1] \in Names(first \o b)
  BY <1>2 DEF Collects, Names
<1>7. QED
  BY <1>2, <1>3, <1>5, <1>6 DEF Collects, p

-----------------------------------------------------------------------------
(* Parameters before the sink.                                             *)

Fronts(f, count) == [mapping : [Slots(f) -> Int], lo : Nat, required : Int, failed : 0 .. count]

\* c tells how many arguments the first parameters have taken.
TakesNone(c, mapping, j) == mapping[j] \in {Missing, Default} /\ c[j] = c[j - 1]
TakesOne(c, mapping, j) == mapping[j] = c[j] /\ c[j] = c[j - 1] + 1

FrontCut(c, f, s, i) ==
  /\ s.lo \in 1 .. PreSink(f) + 1
  /\ c \in [0 .. PreSink(f) -> 0 .. i]
  /\ c[0] = 0
  /\ \A j \in s.lo - 1 .. PreSink(f) : c[j] = i
  /\ \A j \in 1 .. PreSink(f) : TakesNone(c, s.mapping, j) \/ TakesOne(c, s.mapping, j)

(***************************************************************************)
(* The parameters of a function and those before its sink.                 *)
(***************************************************************************)
LEMMA Shape ==
  ASSUME NEW f, IsFunction(f)
  PROVE  /\ Len(f.params) \in Nat /\ f.sink \in Nat /\ f.sink <= Len(f.params)
         /\ Slots(f) = 1 .. Len(f.params)
         /\ PreSink(f) \in Nat /\ PreSink(f) <= Len(f.params)
         /\ f.sink = 0 => PreSink(f) = Len(f.params) /\ PostSink(f) = 0
         /\ f.sink # 0 => PreSink(f) = f.sink - 1 /\ PostSink(f) = Len(f.params) - f.sink
<1>1. Len(f.params) \in Nat /\ f.sink \in 0 .. Len(f.params)
  BY DEF IsFunction
<1>2. QED
  BY <1>1 DEF PreSink, PostSink, Slots

(***************************************************************************)
(* What a taken slot changes.                                              *)
(***************************************************************************)
LEMMA FillGives ==
  ASSUME NEW f, IsFunction(f), NEW count \in Nat, NEW s \in Fronts(f, count),
         NEW i \in 1 .. count, NEW slot \in Nat,
         NEW t, t = Fill(f, s, i, slot)
  PROVE  /\ t \in Fronts(f, count)
         /\ t.lo = slot + 1 /\ t.failed = s.failed
         /\ \A j \in Slots(f) :
              t.mapping[j] = IF j = slot THEN i
                             ELSE IF j \in s.lo .. slot - 1 /\ ~f.params[j].required THEN Default
                             ELSE s.mapping[j]
<1> DEFINE new == [j \in Slots(f) |-> IF j = slot THEN i
                                      ELSE IF j \in s.lo .. slot - 1 /\ ~f.params[j].required THEN Default
                                      ELSE s.mapping[j]]
           left == IF f.params[slot].required THEN s.required - 1 ELSE s.required
<1>1. s = [mapping |-> s.mapping, lo |-> s.lo, required |-> s.required, failed |-> s.failed]
  BY DEF Fronts
<1>2. s.mapping \in [Slots(f) -> Int] /\ s.lo \in Nat /\ s.required \in Int /\ s.failed \in 0 .. count
  BY DEF Fronts
<1>3. t = [mapping |-> new, lo |-> slot + 1, required |-> left, failed |-> s.failed]
  <2> DEFINE raw == [j \in DOMAIN s.mapping |->
                       IF j = slot THEN i
                       ELSE IF j \in s.lo .. slot - 1 /\ ~f.params[j].required THEN Default
                       ELSE s.mapping[j]]
  <2>1. t = [s EXCEPT !.mapping = raw, !.required = left, !.lo = slot + 1]
    BY DEF Fill
  <2>2. raw = new
    BY <1>2
  <2> HIDE DEF raw, new, left
  <2>3. QED
    BY <1>1, <2>1, <2>2
<1>4. new \in [Slots(f) -> Int]
  BY <1>2, Shape DEF Default
<1>5. left \in Int
  BY <1>2
<1> HIDE DEF new, left
<1>6. t \in Fronts(f, count) /\ t.mapping = new /\ t.lo = slot + 1 /\ t.failed = s.failed
  BY <1>2, <1>3, <1>4, <1>5 DEF Fronts
<1>7. QED
  BY <1>6 DEF new

(***************************************************************************)
(* An argument fails, or takes one of the slots that fit it.               *)
(***************************************************************************)
LEMMA TakeOneGives ==
  ASSUME NEW f, IsFunction(f), NEW count \in 0 .. PreSink(f), NEW pos,
         NEW s \in Fronts(f, count), NEW i \in 1 .. count,
         NEW t, t = TakeOne(f, s, i, count, pos)
  PROVE  /\ t \in Fronts(f, count)
         /\ s.failed # 0 => t = s
         /\ s.failed = 0 /\ t.failed = 0 =>
              \E slot \in Nat : /\ s.lo <= slot /\ slot <= PreSink(f) - count + i
                                /\ Takes(f.params[slot].types, pos[i])
                                /\ t = Fill(f, s, i, slot)
         /\ s.failed = 0 /\ t.failed # 0 =>
              t.failed = i /\ Fitting(f, s, i, count, pos) = {}
<1> DEFINE fitting == Fitting(f, s, i, count, pos)
           hi == PreSink(f) - count + i
<1>0. count \in Nat /\ i \in Nat /\ PreSink(f) \in Nat /\ hi \in Int /\ i # 0
  BY Shape
<1>1. s.lo \in Nat /\ s.failed \in 0 .. count
  BY DEF Fronts
<1>2. CASE s.failed # 0
  BY <1>2 DEF TakeOne
<1>3. CASE s.failed = 0 /\ fitting = {}
  <2>1. t = [s EXCEPT !.failed = i]
    BY <1>3 DEF TakeOne, FillOneOf
  <2>2. t \in Fronts(f, count) /\ t.failed = i
    BY <1>0, <2>1 DEF Fronts
  <2>3. QED
    BY <1>0, <1>3, <2>2
<1>4. CASE s.failed = 0 /\ fitting # {}
  <2> DEFINE slot == Min(fitting)
  <2>1. t = Fill(f, s, i, slot)
    BY <1>4 DEF TakeOne, FillOneOf
  <2>2. \A x \in fitting : x \in s.lo .. hi /\ Takes(f.params[x].types, pos[i])
    BY DEF Fitting
  <2>3. fitting \in SUBSET Nat
    BY <1>0, <1>1, <2>2
  <2> HIDE DEF fitting
  <2>4. slot \in fitting
    BY <1>4, <2>3, MinIsLeast
  <2> HIDE DEF slot
  <2>5. slot \in Nat /\ s.lo <= slot /\ slot <= hi /\ Takes(f.params[slot].types, pos[i])
    BY <1>0, <1>1, <2>2, <2>3, <2>4
  <2>6. t \in Fronts(f, count) /\ t.failed = s.failed
    <3>1. Fill(f, s, i, slot) \in Fronts(f, count) /\ Fill(f, s, i, slot).failed = s.failed
      BY <1>0, <2>5, FillGives
    <3>2. QED
      BY <2>1, <3>1
  <2>7. QED
    BY <1>4, <2>1, <2>5, <2>6
<1>5. QED
  BY <1>2, <1>3, <1>4

(***************************************************************************)
(* Before any argument is taken.                                           *)
(***************************************************************************)
LEMMA NoneTakenIs ==
  ASSUME NEW f, IsFunction(f), NEW count \in Nat
  PROVE  NoneTaken(f) \in Fronts(f, count)
<1> DEFINE empty == [j \in Slots(f) |-> IF j = f.sink THEN InSink ELSE Missing]
           needed == {j \in 1 .. PreSink(f) : f.params[j].required}
<1>1. empty \in [Slots(f) -> Int]
  BY DEF InSink, Missing
<1>2. Cardinality(needed) \in Int
  <2>1. IsFiniteSet(1 .. PreSink(f))
    BY Shape, FS_Interval
  <2>2. IsFiniteSet(needed)
    BY <2>1, FS_Subset
  <2>3. QED
    BY <2>2, FS_CardinalityType
<1>3. NoneTaken(f) = [mapping |-> empty, lo |-> 1, required |-> Cardinality(needed), failed |-> 0]
  BY DEF NoneTaken
<1> HIDE DEF empty, needed
<1>4. QED
  BY <1>1, <1>2, <1>3 DEF Fronts

(***************************************************************************)
(* The parameters before the sink take argument after argument.            *)
(***************************************************************************)
LEMMA TakeFrontSteps ==
  ASSUME NEW f, IsFunction(f), NEW count \in 0 .. PreSink(f), NEW pos
  PROVE  \E r \in [0 .. count -> Fronts(f, count)] :
           /\ r[0] = NoneTaken(f)
           /\ \A i \in 1 .. count : r[i] = TakeOne(f, r[i - 1], i, count, pos)
           /\ TakeFront(f, count, pos) = r[count]
<1> DEFINE A == Fronts(f, count)
           G == [p \in A \X (1 .. count) |-> TakeOne(f, p[1], p[2], count, pos)]
           Is(g) == g = [s \in SUBSET (1 .. count) |->
                           IF s = {} THEN NoneTaken(f)
                           ELSE TakeOne(f, g[s \ {Max(s)}], [i \in 1 .. count |-> i][Max(s)], count, pos)]
           c == CHOOSE g : Is(g)
<1>1. count \in Nat
  BY Shape
<1>2. TakeFront(f, count, pos) = c[1 .. count]
  <2>1. DOMAIN [i \in 1 .. count |-> i] = 1 .. count
    OBVIOUS
  <2>2. QED
    BY <2>1 DEF TakeFront, FoldLeft, MapThenFoldSet
<1>3. \A a \in A, i \in 1 .. count :
        G[<<a, i>>] = TakeOne(f, a, i, count, pos) /\ G[<<a, i>>] \in A
  <2> SUFFICES ASSUME NEW a \in A, NEW i \in 1 .. count
               PROVE  G[<<a, i>>] = TakeOne(f, a, i, count, pos) /\ G[<<a, i>>] \in A
    OBVIOUS
  <2>1. G[<<a, i>>] = TakeOne(f, a, i, count, pos)
    OBVIOUS
  <2>2. TakeOne(f, a, i, count, pos) \in A
    BY TakeOneGives
  <2>3. QED
    BY <2>1, <2>2
<1>0. NoneTaken(f) \in A
  BY <1>1, NoneTakenIs
<1> HIDE DEF G, A
<1>4. PICK it \in [SUBSET (1 .. count) -> A] : IsFold(it, NoneTaken(f), G, count)
  <2>1. StepsWithin(G, A, count)
    BY <1>3 DEF StepsWithin
  <2>2. QED
    BY <1>0, <1>1, <2>1, FoldExists
<1>5. Is(it)
  <2>1. ASSUME NEW s \in SUBSET (1 .. count), s # {}
        PROVE  it[s] = TakeOne(f, it[s \ {Max(s)}], [i \in 1 .. count |-> i][Max(s)], count, pos)
    <3>1. Max(s) \in 1 .. count
      BY <1>1, <2>1, MaxWithin
    <3>2. it[s \ {Max(s)}] \in A
      OBVIOUS
    <3>3. it[s] = G[<<it[s \ {Max(s)}], Max(s)>>]
      BY <1>4, <2>1 DEF IsFold
    <3>4. [i \in 1 .. count |-> i][Max(s)] = Max(s)
      BY <3>1
    <3>5. QED
      BY <1>3, <3>1, <3>2, <3>3, <3>4
  <2>2. it[{}] = NoneTaken(f)
    BY <1>4 DEF IsFold
  <2>3. QED
    BY <2>1, <2>2
<1>6. Is(c)
  BY <1>5
<1> HIDE DEF c
<1> DEFINE r == [i \in 0 .. count |-> c[1 .. i]]
<1>7. r[0] = NoneTaken(f)
  <2>1. 1 .. 0 = {} /\ {} \in SUBSET (1 .. count) /\ 0 \in 0 .. count
    BY <1>1
  <2>2. c[{}] = NoneTaken(f)
    BY <1>6, <2>1
  <2>3. QED
    BY <2>1, <2>2
<1>8. ASSUME NEW i \in 1 .. count
      PROVE  r[i] = TakeOne(f, r[i - 1], i, count, pos)
  <2>1. /\ 1 .. i \in SUBSET (1 .. count)
        /\ 1 .. i # {}
        /\ Max(1 .. i) = i
        /\ (1 .. i) \ {i} = 1 .. i - 1
    BY <1>1, FirstNumbers
  <2>2. c[1 .. i] = TakeOne(f, c[(1 .. i) \ {Max(1 .. i)}], [j \in 1 .. count |-> j][Max(1 .. i)], count, pos)
    BY <1>6, <2>1
  <2>3. [j \in 1 .. count |-> j][i] = i
    OBVIOUS
  <2>4. c[1 .. i] = TakeOne(f, c[1 .. i - 1], i, count, pos)
    BY <2>1, <2>2, <2>3
  <2>5. i \in 0 .. count /\ i - 1 \in 0 .. count
    BY <1>1
  <2>6. QED
    BY <2>4, <2>5
<1>9. r[count] = c[1 .. count]
  BY <1>1
<1> DEFINE S == {i \in 0 .. count : r[i] \in A}
<1> HIDE DEF r
<1>10. \A i \in 0 .. count : i \in S
  <2>1. 0 \in S
    BY <1>0, <1>1, <1>7
  <2>2. ASSUME NEW i \in 0 .. count - 1, i \in S
        PROVE  i + 1 \in S
    <3>1. i + 1 \in 1 .. count /\ i + 1 \in 0 .. count /\ (i + 1) - 1 = i
      BY <1>1
    <3>2. r[i + 1] = TakeOne(f, r[i], i + 1, count, pos)
      BY <1>8, <3>1
    <3>3. r[i + 1] \in A
      BY <1>3, <2>2, <3>1, <3>2
    <3>4. QED
      BY <3>1, <3>3
  <2> HIDE DEF S
  <2>3. QED
    BY <1>1, <2>1, <2>2, InductionUpTo
<1>11. r \in [0 .. count -> A]
  <2>1. r = [i \in 0 .. count |-> r[i]]
    BY DEF r
  <2>2. QED
    BY <1>10, <2>1
<1>12. QED
  BY <1>2, <1>7, <1>8, <1>9, <1>11 DEF A

(***************************************************************************)
(* As long as nothing fails the arguments are taken in order.              *)
(***************************************************************************)
LEMMA FrontStep ==
  ASSUME NEW f, IsFunction(f), NEW count \in 0 .. PreSink(f),
         NEW i \in 1 .. count, NEW s \in Fronts(f, count), NEW c, FrontCut(c, f, s, i - 1),
         NEW slot \in Nat, s.lo <= slot, slot <= PreSink(f) - count + i
  PROVE  \E d : FrontCut(d, f, Fill(f, s, i, slot), i)
<1> DEFINE P == PreSink(f)
           t == Fill(f, s, i, slot)
           d == [j \in 0 .. P |-> IF j < slot THEN c[j] ELSE i]
<1>1. P \in Nat /\ count \in Nat /\ i \in Nat /\ i <= count /\ count <= P /\ slot <= P /\ 1 <= i
  BY Shape
<1>2. /\ s.lo \in 1 .. P + 1
      /\ c \in [0 .. P -> 0 .. i - 1]
      /\ c[0] = 0
      /\ \A j \in s.lo - 1 .. P : c[j] = i - 1
      /\ \A j \in 1 .. P : TakesNone(c, s.mapping, j) \/ TakesOne(c, s.mapping, j)
  BY DEF FrontCut
<1>3. /\ t.lo = slot + 1
      /\ \A j \in 1 .. P : t.mapping[j] = IF j = slot THEN i
                                          ELSE IF j \in s.lo .. slot - 1 /\ ~f.params[j].required THEN Default
                                          ELSE s.mapping[j]
  <2>1. count \in Nat /\ \A j \in 1 .. P : j \in Slots(f)
    BY Shape
  <2>2. QED
    BY <2>1, FillGives, SMTT(30)
<1>4. s.lo \in Nat /\ 1 <= s.lo /\ slot \in 1 .. P
  BY <1>1, <1>2
<1> HIDE DEF P, t
<1>5. d \in [0 .. P -> 0 .. i]
  <2> SUFFICES ASSUME NEW j \in 0 .. P PROVE d[j] \in 0 .. i
    OBVIOUS
  <2>1. c[j] \in 0 .. i - 1
    BY <1>2
  <2>2. QED
    BY <1>1, <2>1
<1>6. d[0] = 0
  BY <1>1, <1>2, <1>4
<1>7. \A j \in t.lo - 1 .. P : d[j] = i
  BY <1>1, <1>3, <1>4
<1>8. ASSUME NEW j \in 1 .. P
      PROVE  TakesNone(d, t.mapping, j) \/ TakesOne(d, t.mapping, j)
  <2>1. j \in 0 .. P /\ j - 1 \in 0 .. P
    BY <1>1
  <2>2. CASE j < s.lo
    <3>1. j < slot /\ j - 1 < slot /\ j # slot /\ j \notin s.lo .. slot - 1
      BY <1>1, <1>4, <2>2
    <3>2. d[j] = c[j] /\ d[j - 1] = c[j - 1] /\ t.mapping[j] = s.mapping[j]
      BY <1>3, <2>1, <3>1
    <3>3. QED
      BY <1>2, <3>2 DEF TakesNone, TakesOne
  <2>3. CASE s.lo <= j
    <3>1. c[j] = i - 1 /\ c[j - 1] = i - 1
      <4>1. j \in s.lo - 1 .. P /\ j - 1 \in s.lo - 1 .. P
        BY <1>1, <1>4, <2>3
      <4>2. QED
        BY <1>2, <4>1
    <3>2. ~TakesOne(c, s.mapping, j)
      BY <1>1, <3>1 DEF TakesOne
    <3>3. s.mapping[j] \in {Missing, Default}
      BY <1>2, <3>2 DEF TakesNone
    <3>4. CASE j < slot
      <4>1. d[j] = i - 1 /\ d[j - 1] = i - 1
        BY <1>1, <1>4, <2>1, <3>1, <3>4
      <4>2. t.mapping[j] \in {Missing, Default}
        BY <1>1, <1>3, <3>3, <3>4
      <4>3. QED
        BY <4>1, <4>2 DEF TakesNone
    <3>5. CASE j = slot
      <4>1. d[j] = i /\ d[j - 1] = i - 1 /\ t.mapping[j] = i
        BY <1>1, <1>3, <1>4, <2>1, <3>1, <3>5
      <4>2. QED
        BY <1>1, <4>1 DEF TakesOne
    <3>6. CASE slot < j
      <4>1. d[j] = i /\ d[j - 1] = i
        BY <1>1, <1>4, <2>1, <3>6
      <4>2. j # slot /\ j \notin s.lo .. slot - 1
        BY <1>1, <1>4, <3>6
      <4>3. t.mapping[j] \in {Missing, Default}
        BY <1>3, <3>3, <4>2
      <4>4. QED
        BY <4>1, <4>3 DEF TakesNone
    <3>7. QED
      BY <1>4, <3>4, <3>5, <3>6
  <2>4. QED
    BY <1>4, <2>2, <2>3
<1>9. t.lo \in 1 .. P + 1
  BY <1>1, <1>3, <1>4
<1> HIDE DEF d
<1>10. FrontCut(d, f, t, i)
  BY <1>5, <1>6, <1>7, <1>8, <1>9 DEF FrontCut, P
<1>11. QED
  BY <1>10 DEF t

(***************************************************************************)
(* Unless one of them fits nowhere, the parameters in front of the sink    *)
(* cut the arguments from the front into pieces of at most one.            *)
(***************************************************************************)
LEMMA FrontIsCut ==
  ASSUME NEW f, IsFunction(f), NEW count \in 0 .. PreSink(f), NEW pos
  PROVE  LET s == TakeFront(f, count, pos)
         IN  s \in Fronts(f, count) /\ (s.failed = 0 => \E c : FrontCut(c, f, s, count))
<1>1. count \in Nat /\ PreSink(f) \in Nat
  BY Shape
<1>2. PICK r \in [0 .. count -> Fronts(f, count)] :
             /\ r[0] = NoneTaken(f)
             /\ \A i \in 1 .. count : r[i] = TakeOne(f, r[i - 1], i, count, pos)
             /\ TakeFront(f, count, pos) = r[count]
  BY TakeFrontSteps
<1> DEFINE S == {i \in 0 .. count : r[i].failed = 0 => \E c : FrontCut(c, f, r[i], i)}
<1>3. 0 \in S
  <2> DEFINE c == [j \in 0 .. PreSink(f) |-> 0]
  <2>1. r[0].lo = 1 /\ \A j \in 1 .. PreSink(f) : r[0].mapping[j] = Missing
    BY <1>2, Shape DEF NoneTaken
  <2>2. \A j \in 1 .. PreSink(f) : TakesNone(c, r[0].mapping, j)
    <3>1. \A j \in 1 .. PreSink(f) : j \in 0 .. PreSink(f) /\ j - 1 \in 0 .. PreSink(f)
      BY <1>1
    <3>2. QED
      BY <2>1, <3>1 DEF TakesNone
  <2>3. c \in [0 .. PreSink(f) -> 0 .. 0] /\ c[0] = 0 /\ \A j \in 0 .. PreSink(f) : c[j] = 0
    BY <1>1
  <2> HIDE DEF c
  <2>4. FrontCut(c, f, r[0], 0)
    BY <1>1, <2>1, <2>2, <2>3 DEF FrontCut
  <2>5. QED
    BY <1>1, <2>4
<1>4. ASSUME NEW k \in 0 .. count - 1, k \in S
      PROVE  k + 1 \in S
  <2> DEFINE i == k + 1
             s == r[k]
             t == r[i]
  <2>1. i \in 1 .. count /\ i \in 0 .. count /\ i - 1 = k /\ k \in 0 .. count
    BY <1>1
  <2>2. s \in Fronts(f, count) /\ t = TakeOne(f, s, i, count, pos)
    BY <1>2, <2>1
  <2> SUFFICES ASSUME t.failed = 0 PROVE \E c : FrontCut(c, f, t, i)
    BY <2>1
  <2>0. s.failed = 0 => \E c : FrontCut(c, f, s, i - 1)
    BY <1>4, <2>1
  <2> HIDE DEF S, i, s, t
  <2>3. s.failed = 0
    <3>1. s.failed # 0 => t = s
      BY <2>1, <2>2, TakeOneGives
    <3>2. QED
      BY <3>1
  <2>4. PICK c : FrontCut(c, f, s, i - 1)
    BY <2>0, <2>3
  <2>5. PICK slot \in Nat : s.lo <= slot /\ slot <= PreSink(f) - count + i /\ t = Fill(f, s, i, slot)
    <3>1. s.failed = 0 /\ t.failed = 0 =>
            \E slot \in Nat : /\ s.lo <= slot /\ slot <= PreSink(f) - count + i
                              /\ Takes(f.params[slot].types, pos[i])
                              /\ t = Fill(f, s, i, slot)
      BY <2>1, <2>2, TakeOneGives
    <3>2. QED
      BY <2>3, <3>1
  <2>6. QED
    BY <2>1, <2>2, <2>4, <2>5, FrontStep
<1> HIDE DEF S
<1>5. \A i \in 0 .. count : i \in S
  BY <1>1, <1>3, <1>4, InductionUpTo
<1>6. count \in S
  BY <1>1, <1>5
<1>7. QED
  BY <1>1, <1>2, <1>6 DEF S

-----------------------------------------------------------------------------
(* All parameters.                                                         *)

\* c tells how many of m arguments the first parameters and the sink have.
Cut(c, f, mapping, m) ==
  /\ c \in [0 .. Len(f.params) -> 0 .. m]
  /\ c[0] = 0
  /\ c[Len(f.params)] = m
  /\ \A j \in Slots(f) :
       IF j = f.sink THEN mapping[j] = InSink /\ c[j - 1] <= c[j]
       ELSE TakesNone(c, mapping, j) \/ TakesOne(c, mapping, j)

(***************************************************************************)
(* The sink takes what the parameters before and behind it cannot.         *)
(***************************************************************************)
LEMMA SinkStarts ==
  ASSUME NEW f, IsFunction(f), f.sink # 0, NEW m \in Nat, NEW count, count = Min({m, PreSink(f)}),
         NEW start, start = count + SinkSize(f, m)
  PROVE  start \in Nat /\ count <= start /\ start <= m /\ m <= start + PostSink(f)
<1> DEFINE P == PreSink(f)
           Q == PostSink(f)
<1>1. P \in Nat /\ Q \in Nat
  BY Shape
<1>2. SinkSize(f, m) = Max({0, m - (P + Q)})
  BY DEF SinkSize
<1> HIDE DEF P, Q
<1>3. SinkSize(f, m) = IF 0 <= m - (P + Q) THEN m - (P + Q) ELSE 0
  BY <1>1, <1>2, MaxOfTwo
<1>4. count = IF m <= P THEN m ELSE P
  BY <1>1, MinOfTwo DEF P
<1>5. QED
  BY <1>1, <1>3, <1>4 DEF Q

(***************************************************************************)
(* Whatever is bound is cut into pieces for the parameters.                *)
(***************************************************************************)
LEMMA SlotsAreCut ==
  ASSUME NEW f, IsFunction(f), NEW pos, NEW m \in Nat, m = Len(pos),
         f.sink # 0 \/ m <= Len(f.params),
         NEW count, count = Min({m, PreSink(f)}),
         NEW taken, taken = TakeSlots(f, count, pos), taken.failed = 0
  PROVE  taken.mapping \in [Slots(f) -> Int] /\ \E c : Cut(c, f, taken.mapping, m)
<1> DEFINE P == PreSink(f)
           n == Len(f.params)
           sink == f.sink
           front == TakeFront(f, count, pos)
           start == count + SinkSize(f, m)
           new == [j \in Slots(f) |->
                     IF j <= P THEN IF j < front.lo THEN front.mapping[j] ELSE Unfilled(f, j)
                     ELSE IF j = sink THEN InSink
                     ELSE IF start + (j - sink) <= m THEN start + (j - sink)
                     ELSE Unfilled(f, j)]
<1>1. /\ n \in Nat /\ P \in Nat /\ P <= n /\ sink \in Nat /\ sink <= n
      /\ sink = 0 => P = n
      /\ sink # 0 => P = sink - 1 /\ PostSink(f) = n - sink
      /\ Slots(f) = 1 .. n
  BY Shape
<1>2. count = IF m <= P THEN m ELSE P
  BY <1>1, MinOfTwo
<1>3. count \in 0 .. P
  BY <1>1, <1>2
<1>4. front \in Fronts(f, count) /\ (front.failed = 0 => \E c : FrontCut(c, f, front, count))
  BY <1>3, FrontIsCut
<1>5. taken = [front EXCEPT !.mapping = new]
  <2>1. taken = TakeRest(f, front, start, m)
    BY DEF TakeSlots
  <2> HIDE DEF front, start
  <2>2. DOMAIN front.mapping = Slots(f)
    BY <1>4 DEF Fronts
  <2>3. QED
    BY <2>1, <2>2 DEF TakeRest
<1>6. taken.mapping = new /\ front.failed = 0
  <2> HIDE DEF front, new
  <2>1. QED
    BY <1>4, <1>5 DEF Fronts
<1>7. start \in Int
  <2>1. CASE sink = 0
    BY <1>1, <1>2, <2>1 DEF SinkSize
  <2>2. CASE sink # 0
    BY <2>2, SinkStarts
  <2>3. QED
    BY <2>1, <2>2
<1>8. PICK c : FrontCut(c, f, front, count)
  BY <1>4, <1>6
<1> HIDE DEF front, start, P, n, sink
<1>9. \A j \in Slots(f) :
        new[j] = IF j <= P THEN IF j < front.lo THEN front.mapping[j] ELSE Unfilled(f, j)
                 ELSE IF j = sink THEN InSink
                 ELSE IF start + (j - sink) <= m THEN start + (j - sink)
                 ELSE Unfilled(f, j)
  OBVIOUS
<1>10. \A j \in Slots(f) : Unfilled(f, j) \in {Missing, Default}
  BY DEF Unfilled
<1>11. new \in [Slots(f) -> Int]
  <2> SUFFICES ASSUME NEW j \in Slots(f) PROVE new[j] \in Int
    OBVIOUS
  <2>1. Unfilled(f, j) \in Int /\ InSink \in Int
    BY <1>10 DEF Missing, Default, InSink
  <2>2. front.mapping[j] \in Int
    BY <1>4 DEF Fronts
  <2>3. j \in Int
    BY <1>1
  <2>4. QED
    BY <1>1, <1>7, <1>9, <2>1, <2>2, <2>3
<1> HIDE DEF new
<1>12. /\ front.lo \in 1 .. P + 1
       /\ c \in [0 .. P -> 0 .. count]
       /\ c[0] = 0
       /\ \A j \in front.lo - 1 .. P : c[j] = count
       /\ \A j \in 1 .. P : TakesNone(c, front.mapping, j) \/ TakesOne(c, front.mapping, j)
  BY <1>8 DEF FrontCut, P
<1>13. c[P] = count
  BY <1>1, <1>12, SMTT(30)
<1>14. ASSUME NEW j \in 1 .. P
       PROVE  TakesNone(c, new, j) \/ TakesOne(c, new, j)
  <2>1. j \in Slots(f) /\ j <= P
    BY <1>1
  <2>2. CASE j < front.lo
    <3>1. new[j] = front.mapping[j]
      BY <1>9, <2>1, <2>2
    <3>2. QED
      BY <1>12, <3>1 DEF TakesNone, TakesOne
  <2>3. CASE ~(j < front.lo)
    <3>1. new[j] \in {Missing, Default}
      BY <1>9, <1>10, <2>1, <2>3
    <3>2. j \in front.lo - 1 .. P /\ j - 1 \in front.lo - 1 .. P
      BY <1>1, <1>12, <2>3
    <3>3. c[j] = c[j - 1]
      BY <1>12, <3>2
    <3>4. QED
      BY <3>1, <3>3 DEF TakesNone
  <2>4. QED
    BY <2>2, <2>3
<1>15. CASE sink = 0
  <2>1. count = m /\ P = n
    BY <1>1, <1>2, <1>15 DEF n, sink
  <2>2. \A j \in Slots(f) : j \in 1 .. P /\ j # sink
    BY <1>1, <1>15, <2>1
  <2>3. Cut(c, f, new, m)
    BY <1>12, <1>13, <1>14, <2>1, <2>2 DEF Cut, n, sink
  <2>4. QED
    BY <1>6, <1>11, <2>3
<1>16. CASE sink # 0
  <2>1. start \in Nat /\ count <= start /\ start <= m /\ m <= start + (n - sink)
    <3>1. start \in Nat /\ count <= start /\ start <= m /\ m <= start + PostSink(f)
      BY <1>16, SinkStarts DEF sink, start
    <3>2. QED
      BY <1>1, <1>16, <3>1
  <2>2. P = sink - 1 /\ 1 <= sink /\ sink <= n
    BY <1>1, <1>16
  <2> DEFINE d == [j \in 0 .. n |-> IF j <= P THEN c[j]
                                    ELSE IF start + (j - sink) <= m THEN start + (j - sink) ELSE m]
  <2>3. d \in [0 .. n -> 0 .. m]
    <3> SUFFICES ASSUME NEW j \in 0 .. n PROVE d[j] \in 0 .. m
      OBVIOUS
    <3>1. CASE j <= P
      <4>1. j \in 0 .. P /\ d[j] = c[j]
        BY <1>1, <3>1
      <4>2. c[j] \in 0 .. count
        BY <1>12, <4>1
      <4>3. QED
        BY <1>1, <1>2, <4>1, <4>2
    <3>2. CASE ~(j <= P)
      BY <1>1, <2>1, <2>2, <3>2
    <3>3. QED
      BY <3>1, <3>2
  <2>4. d[0] = 0
    BY <1>1, <1>12
  <2>5. d[n] = m
    BY <1>1, <2>1, <2>2
  <2>6. ASSUME NEW j \in Slots(f)
        PROVE  IF j = sink THEN new[j] = InSink /\ d[j - 1] <= d[j]
               ELSE TakesNone(d, new, j) \/ TakesOne(d, new, j)
    <3>1. j \in 1 .. n /\ j \in 0 .. n /\ j - 1 \in 0 .. n
      BY <1>1
    <3>2. CASE j <= P
      <4>1. j \in 1 .. P /\ j # sink /\ d[j] = c[j] /\ d[j - 1] = c[j - 1]
        BY <1>1, <2>2, <3>1, <3>2
      <4>2. QED
        BY <1>14, <4>1 DEF TakesNone, TakesOne
    <3>3. CASE j = sink
      <4>1. new[j] = InSink
        BY <1>9, <2>2, <3>1, <3>3
      <4>2. d[j - 1] = count
        BY <1>1, <1>13, <2>2, <3>1, <3>3
      <4>3. d[j] = start
        BY <1>1, <2>1, <2>2, <3>1, <3>3
      <4>4. QED
        BY <2>1, <3>3, <4>1, <4>2, <4>3
    <3>4. CASE j > sink
      <4>1. ~(j <= P) /\ ~(j - 1 <= P) /\ j # sink
        BY <1>1, <2>2, <3>1, <3>4
      <4>2. d[j - 1] = IF start + ((j - 1) - sink) <= m THEN start + ((j - 1) - sink) ELSE m
        BY <3>1, <4>1
      <4>3. CASE start + (j - sink) <= m
        <5>1. new[j] = start + (j - sink) /\ d[j] = start + (j - sink)
          BY <1>9, <3>1, <4>1, <4>3
        <5>2. d[j - 1] = start + ((j - 1) - sink)
          BY <1>1, <2>1, <3>1, <4>2, <4>3
        <5>3. TakesOne(d, new, j)
          BY <1>1, <2>1, <3>1, <5>1, <5>2 DEF TakesOne
        <5>4. QED
          BY <4>1, <5>3
      <4>4. CASE ~(start + (j - sink) <= m)
        <5>1. new[j] \in {Missing, Default} /\ d[j] = m
          BY <1>9, <1>10, <3>1, <4>1, <4>4
        <5>2. d[j - 1] = m
          BY <1>1, <2>1, <3>1, <4>2, <4>4
        <5>3. TakesNone(d, new, j)
          BY <5>1, <5>2 DEF TakesNone
        <5>4. QED
          BY <4>1, <5>3
      <4>5. QED
        BY <4>3, <4>4
    <3>5. QED
      BY <1>1, <2>2, <3>1, <3>2, <3>3, <3>4
  <2> HIDE DEF d
  <2>7. Cut(d, f, new, m)
    BY <2>3, <2>4, <2>5, <2>6 DEF Cut, n, sink
  <2>8. QED
    BY <1>6, <1>11, <2>7
<1>17. QED
  BY <1>15, <1>16

(***************************************************************************)
(* Later parameters have no fewer arguments before them.                   *)
(***************************************************************************)
LEMMA CutGrows ==
  ASSUME NEW f, IsFunction(f), NEW m \in Nat, NEW mapping, NEW c, Cut(c, f, mapping, m)
  PROVE  \A k \in 0 .. Len(f.params) : \A j \in 0 .. k : c[j] <= c[k]
<1> DEFINE n == Len(f.params)
           S == {k \in 0 .. n : \A j \in 0 .. k : c[j] <= c[k]}
<1>1. n \in Nat /\ Slots(f) = 1 .. n
  BY Shape
<1>2. \A k \in 0 .. n : c[k] \in Nat
  BY DEF Cut
<1>3. \A k \in 1 .. n : c[k - 1] <= c[k]
  <2> SUFFICES ASSUME NEW k \in 1 .. n PROVE c[k - 1] <= c[k]
    OBVIOUS
  <2>1. k \in 0 .. n /\ k - 1 \in 0 .. n
    BY <1>1
  <2>2. c[k] \in Nat /\ c[k - 1] \in Nat
    BY <1>2, <2>1
  <2>3. c[k - 1] <= c[k] \/ c[k] = c[k - 1] \/ c[k] = c[k - 1] + 1
    BY <1>1 DEF Cut, TakesNone, TakesOne
  <2>4. QED
    BY <2>2, <2>3
<1> HIDE DEF n
<1>4. 0 \in S
  <2>1. \A j \in 0 .. 0 : j = 0
    OBVIOUS
  <2>2. 0 \in 0 .. n /\ c[0] \in Nat
    BY <1>1, <1>2
  <2>3. QED
    BY <2>1, <2>2
<1>5. ASSUME NEW k \in 0 .. n - 1, k \in S
      PROVE  k + 1 \in S
  <2>1. k + 1 \in 1 .. n /\ k + 1 \in 0 .. n /\ (k + 1) - 1 = k /\ k \in 0 .. n
    BY <1>1
  <2>2. c[k] <= c[k + 1] /\ c[k] \in Nat /\ c[k + 1] \in Nat
    BY <1>2, <1>3, <2>1
  <2>3. ASSUME NEW j \in 0 .. k + 1
        PROVE  c[j] <= c[k + 1]
    <3>1. CASE j = k + 1
      BY <2>2, <3>1
    <3>2. CASE j # k + 1
      <4>1. j \in 0 .. k /\ j \in 0 .. n
        BY <1>1, <3>2
      <4>2. c[j] <= c[k] /\ c[j] \in Nat
        BY <1>2, <1>5, <4>1
      <4>3. QED
        BY <2>2, <4>2
    <3>3. QED
      BY <3>1, <3>2
  <2>4. QED
    BY <2>1, <2>3
<1> HIDE DEF S
<1>6. \A k \in 0 .. n : k \in S
  BY <1>1, <1>4, <1>5, InductionUpTo
<1>7. QED
  BY <1>6 DEF S, n

(***************************************************************************)
(* What no parameter has is what the sink gets.                            *)
(***************************************************************************)
LEMMA SinkIsRest ==
  ASSUME NEW f, IsFunction(f), f.sink # 0, NEW m \in Nat, NEW mapping, NEW c, Cut(c, f, mapping, m),
         NEW x \in 1 .. m
  PROVE  (\A j \in Slots(f) : mapping[j] # x) <=> c[f.sink - 1] < x /\ x <= c[f.sink]
<1> DEFINE n == Len(f.params)
           sink == f.sink
<1>1. n \in Nat /\ Slots(f) = 1 .. n /\ sink \in 1 .. n
  BY Shape
<1>2. /\ \A k \in 0 .. n : c[k] \in Nat
      /\ c[0] = 0
      /\ c[n] = m
      /\ \A j \in 1 .. n : IF j = sink THEN mapping[j] = InSink /\ c[j - 1] <= c[j]
                           ELSE TakesNone(c, mapping, j) \/ TakesOne(c, mapping, j)
  BY <1>1, SMTT(30) DEF Cut
<1>3. \A k \in 0 .. n : \A j \in 0 .. k : c[j] <= c[k]
  BY CutGrows
<1> HIDE DEF n, sink
<1>4. ASSUME \A j \in 1 .. n : mapping[j] # x
      PROVE  c[sink - 1] < x /\ x <= c[sink]
  <2> DEFINE S == {k \in 0 .. n : x <= c[k]}
  <2>1. n \in S /\ S \in SUBSET Nat
    BY <1>1, <1>2
  <2>2. PICK k \in S : \A j \in S : k <= j
    <3> HIDE DEF S
    <3>1. QED
      BY <2>1, LeastNatural
  <2>3. k \in 0 .. n /\ x <= c[k] /\ k # 0
    BY <1>2, <2>2
  <2>4. k \in 1 .. n /\ k - 1 \in 0 .. n /\ k - 1 < k
    BY <1>1, <2>3
  <2>5. k - 1 \notin S
    BY <2>2, <2>4
  <2>6. c[k - 1] < x
    BY <1>2, <2>4, <2>5
  <2>7. k = sink
    <3> SUFFICES ASSUME k # sink PROVE FALSE
      OBVIOUS
    <3>1. TakesNone(c, mapping, k) \/ TakesOne(c, mapping, k)
      BY <1>2, <2>4
    <3>2. ~TakesNone(c, mapping, k)
      BY <1>2, <2>3, <2>4, <2>6 DEF TakesNone
    <3>3. mapping[k] = c[k] /\ c[k] = c[k - 1] + 1
      BY <3>1, <3>2 DEF TakesOne
    <3>4. mapping[k] = x
      BY <1>2, <2>3, <2>4, <2>6, <3>3
    <3>5. QED
      BY <1>4, <2>4, <3>4
  <2>8. QED
    BY <2>3, <2>6, <2>7
<1>5. ASSUME c[sink - 1] < x, x <= c[sink], NEW j \in 1 .. n, mapping[j] = x
      PROVE  FALSE
  <2>1. j # sink
    BY <1>2, <1>5 DEF InSink
  <2>2. ~TakesNone(c, mapping, j)
    BY <1>5 DEF TakesNone, Missing, Default
  <2>3. c[j] = x /\ c[j] = c[j - 1] + 1
    BY <1>2, <1>5, <2>1, <2>2 DEF TakesOne
  <2>4. j \in 0 .. n /\ j - 1 \in 0 .. n /\ sink \in 0 .. n /\ sink - 1 \in 0 .. n
    BY <1>1
  <2>5. CASE j < sink
    <3>1. j \in 0 .. sink - 1
      BY <1>1, <2>5
    <3>2. c[j] <= c[sink - 1]
      BY <1>3, <2>4, <3>1
    <3>3. QED
      BY <1>2, <1>5, <2>3, <2>4, <3>2
  <2>6. CASE sink < j
    <3>1. sink \in 0 .. j - 1
      BY <1>1, <2>6
    <3>2. c[sink] <= c[j - 1]
      BY <1>3, <2>4, <3>1
    <3>3. QED
      BY <1>2, <1>5, <2>3, <2>4, <3>2
  <2>7. QED
    BY <1>1, <2>1, <2>5, <2>6
<1>6. QED
  BY <1>1, <1>4, <1>5 DEF sink

(***************************************************************************)
(* Every parameter is passed its piece of the arguments.                   *)
(***************************************************************************)
LEMMA PassedPieces ==
  ASSUME NEW f, IsFunction(f), NEW args \in Arguments, NEW m, m = Len(args.pos),
         NEW mapping \in [Slots(f) -> Int], NEW c, Cut(c, f, mapping, m),
         NEW j \in Slots(f), mapping[j] # Missing
  PROVE  Passed(f, Bound(args, mapping)).pos[j].args.pos = SubSeq(args.pos, c[j - 1] + 1, c[j])
<1> DEFINE p == Passed(f, Bound(args, mapping)).pos[j]
           n == Len(f.params)
           pos == args.pos
<1>1. /\ n \in Nat /\ Slots(f) = 1 .. n /\ f.sink \in Nat
      /\ pos \in Seq(Value) /\ m \in Nat
      /\ DOMAIN mapping = Slots(f)
      /\ DOMAIN pos = 1 .. m
  BY Shape DEF Arguments
<1>2. p = CASE mapping[j] = InSink -> PassSink(SinkOf(f, mapping, args))
            [] mapping[j] = Default -> PassDefault
            [] OTHER -> PassValue(pos[mapping[j]])
  BY DEF Passed, Bound
<1>3. j \in 0 .. n /\ j - 1 \in 0 .. n
  BY <1>1
<1>4. c[j] \in 0 .. m /\ c[j - 1] \in 0 .. m
  BY <1>3 DEF Cut
<1>5. IF j = f.sink THEN mapping[j] = InSink /\ c[j - 1] <= c[j]
      ELSE TakesNone(c, mapping, j) \/ TakesOne(c, mapping, j)
  BY DEF Cut
<1> HIDE DEF p, n, pos
<1>6. CASE j = f.sink
  <2> DEFINE at == {i \in DOMAIN pos : \A k \in DOMAIN mapping : mapping[k] # i}
  <2>1. p.args.pos = Picked(pos, at)
    <3>1. p = PassSink(SinkOf(f, mapping, args))
      BY <1>2, <1>5, <1>6 DEF InSink, Default
    <3>2. QED
      BY <3>1 DEF PassSink, SinkOf, pos
  <2>2. f.sink # 0
    BY <1>1, <1>6
  <2>3. \A x \in 1 .. m : x \in at <=> c[j - 1] < x /\ x <= c[j]
    <3> SUFFICES ASSUME NEW x \in 1 .. m
                 PROVE  (\A k \in Slots(f) : mapping[k] # x) <=> c[j - 1] < x /\ x <= c[j]
      BY <1>1
    <3>1. (\A k \in Slots(f) : mapping[k] # x) <=> c[f.sink - 1] < x /\ x <= c[f.sink]
      BY <1>1, <2>2, SinkIsRest
    <3>2. QED
      BY <1>6, <3>1
  <2> HIDE DEF at
  <2>4. Picked(pos, at) = SubSeq(pos, c[j - 1] + 1, c[j])
    <3> DEFINE lo == c[j - 1]
               hi == c[j]
    <3>1. Len(pos) = m /\ lo \in 0 .. Len(pos) /\ hi \in lo .. Len(pos)
      BY <1>1, <1>4, <1>5, <1>6 DEF pos
    <3>2. \A x \in 1 .. Len(pos) : x \in at <=> lo < x /\ x <= hi
      BY <2>3, <3>1
    <3> HIDE DEF lo, hi
    <3>3. Picked(pos, at) = SubSeq(pos, lo + 1, hi)
      BY <1>1, <3>1, <3>2, PickedPart
    <3>4. QED
      BY <3>3 DEF lo, hi
  <2>5. QED
    BY <2>1, <2>4 DEF p, pos
<1>7. CASE j # f.sink /\ TakesNone(c, mapping, j)
  <2>1. mapping[j] = Default /\ c[j] = c[j - 1]
    BY <1>7 DEF TakesNone
  <2>2. p.args.pos = <<>>
    BY <1>2, <2>1 DEF PassDefault, NoArguments, Default, InSink
  <2>3. SubSeq(pos, c[j - 1] + 1, c[j]) = <<>>
    BY <1>1, <1>4, <2>1
  <2>4. QED
    BY <2>2, <2>3 DEF p, pos
<1>8. CASE j # f.sink /\ TakesOne(c, mapping, j)
  <2>1. mapping[j] = c[j] /\ c[j] = c[j - 1] + 1
    BY <1>8 DEF TakesOne
  <2>2. mapping[j] # InSink /\ mapping[j] # Default
    BY <1>4, <2>1 DEF InSink, Default
  <2>3. p = PassValue(pos[c[j]])
    BY <1>2, <2>1, <2>2
  <2>4. p.args.pos = <<pos[c[j]]>>
    BY <2>3 DEF PassValue
  <2>5. SubSeq(pos, c[j], c[j]) = <<pos[c[j]]>>
    <3> DEFINE x == c[j]
    <3>1. x \in 1 .. Len(pos)
      BY <1>4, <2>1 DEF pos
    <3> HIDE DEF x
    <3>2. SubSeq(pos, x, x) = <<pos[x]>>
      BY <1>1, <3>1, SubSeqOfOne
    <3>3. QED
      BY <3>2 DEF x
  <2>6. QED
    BY <1>4, <2>1, <2>4, <2>5 DEF p, pos
<1>9. QED
  BY <1>5, <1>6, <1>7, <1>8

-----------------------------------------------------------------------------
(* Binding.                                                                *)

\* Two lists of named arguments that differ in the types of values.
SameNamed(a, b) ==
  /\ a \in NamedArgs /\ b \in NamedArgs /\ Len(a) = Len(b)
  /\ \A i \in 1 .. Len(a) : a[i][1] = b[i][1] /\ a[i][2].id = b[i][2].id

(***************************************************************************)
(* A value that is coerced stays the value it is.                          *)
(***************************************************************************)
LEMMA CoercedValue ==
  ASSUME NEW types, NEW value \in Value
  PROVE  CallableAsFunction(types, value) \in Value /\ CallableAsFunction(types, value).id = value.id
<1> DEFINE called == [value EXCEPT !.type = "function"]
<1>1. value = [type |-> value.type, id |-> value.id] /\ value.type \in Types /\ value.id \in Identities
  BY DEF Value
<1>2. called = [type |-> "function", id |-> value.id]
  BY <1>1
<1> HIDE DEF called
<1>0. "function" \in Types
  BY DEF Types
<1>3. called \in Value /\ called.id = value.id
  BY <1>0, <1>1, <1>2 DEF Value
<1>4. CallableAsFunction(types, value) \in {called, value}
  BY DEF CallableAsFunction, called
<1>5. QED
  BY <1>3, <1>4

(***************************************************************************)
(* Coercion changes neither order, names nor identities.                   *)
(***************************************************************************)
LEMMA CoercedGives ==
  ASSUME NEW f, NEW args \in Arguments, NEW mapping, NEW co, co = Coerced(f, mapping, args)
  PROVE  /\ co \in Arguments
         /\ Len(co.pos) = Len(args.pos)
         /\ Ids(co.pos) = Ids(args.pos)
         /\ SameNamed(co.named, args.named)
<1> DEFINE n == Len(args.pos)
           m == Len(args.named)
           slots(i) == {j \in DOMAIN mapping : mapping[j] = i}
           pos == [i \in 1 .. n |-> IF slots(i) = {} THEN args.pos[i]
                                    ELSE CallableAsFunction(f.params[Min(slots(i))].types, args.pos[i])]
           named == [i \in 1 .. m |->
                       IF args.named[i][1] \in DOMAIN f.named
                       THEN <<args.named[i][1],
                              CallableAsFunction(f.named[args.named[i][1]], args.named[i][2])>>
                       ELSE args.named[i]]
<1>1. /\ args.pos \in Seq(Value) /\ args.named \in NamedArgs
      /\ n \in Nat /\ DOMAIN args.pos = 1 .. n
      /\ m \in Nat /\ DOMAIN args.named = 1 .. m
      /\ \A i \in 1 .. n : args.pos[i] \in Value
      /\ \A i \in 1 .. m : args.named[i] \in Idents \X Value
  BY DEF Arguments, NamedArgs
<1>2. co = [pos |-> pos, named |-> named]
  BY <1>1 DEF Coerced
<1> HIDE DEF n, m
<1>3. \A i \in 1 .. n : pos[i] \in Value /\ pos[i].id = args.pos[i].id
  <2> SUFFICES ASSUME NEW i \in 1 .. n
               PROVE  pos[i] \in Value /\ pos[i].id = args.pos[i].id
    OBVIOUS
  <2>1. CASE slots(i) = {}
    BY <1>1, <2>1
  <2>2. CASE slots(i) # {}
    <3>1. pos[i] = CallableAsFunction(f.params[Min(slots(i))].types, args.pos[i])
      BY <2>2
    <3>2. QED
      BY <1>1, <3>1, CoercedValue
  <2>3. QED
    BY <2>1, <2>2
<1>4. pos \in Seq(Value) /\ Len(pos) = n /\ DOMAIN pos = 1 .. n
  <2>1. pos = [i \in 1 .. n |-> pos[i]]
    OBVIOUS
  <2> HIDE DEF pos
  <2>2. QED
    BY <1>1, <1>3, <2>1, MakesSequence
<1>5. Ids(pos) = Ids(args.pos)
  <2> HIDE DEF pos
  <2>1. QED
    BY <1>1, <1>3, <1>4 DEF Ids
<1>6. ASSUME NEW i \in 1 .. m
      PROVE  /\ named[i] \in Idents \X Value
             /\ named[i][1] = args.named[i][1]
             /\ named[i][2].id = args.named[i][2].id
  <2> DEFINE name == args.named[i][1]
             value == CallableAsFunction(f.named[name], args.named[i][2])
  <2>1. name \in Idents /\ args.named[i][2] \in Value
    BY <1>1
  <2>2. value \in Value /\ value.id = args.named[i][2].id
    BY <2>1, CoercedValue
  <2>3. CASE name \in DOMAIN f.named
    <3>1. named[i] = <<name, value>>
      BY <2>3
    <3> HIDE DEF name, value, named
    <3>2. QED
      BY <2>1, <2>2, <3>1 DEF name
  <2>4. CASE name \notin DOMAIN f.named
    <3>1. named[i] = args.named[i]
      BY <2>4
    <3>2. QED
      BY <1>1, <3>1
  <2>5. QED
    BY <2>3, <2>4
<1>7. named \in NamedArgs /\ Len(named) = m
  <2>1. named = [i \in 1 .. m |-> named[i]]
    OBVIOUS
  <2> DEFINE X == Idents \X Value
  <2>2. \A i \in 1 .. m : named[i] \in X
    BY <1>6
  <2> HIDE DEF named, X
  <2>3. named \in Seq(X) /\ Len(named) = m
    BY <1>1, <2>1, <2>2, MakesSequence
  <2>4. QED
    BY <2>3 DEF X, NamedArgs
<1> HIDE DEF pos, named
<1>8. SameNamed(named, args.named)
  BY <1>1, <1>6, <1>7 DEF SameNamed, m
<1>9. co \in Arguments
  BY <1>2, <1>4, <1>7 DEF Arguments, NamedArgs
<1>10. co.pos = pos /\ co.named = named
  BY <1>2
<1>11. QED
  BY <1>4, <1>5, <1>8, <1>9, <1>10 DEF n

(***************************************************************************)
(* What is the same list for names collects the same.                      *)
(***************************************************************************)
LEMMA SameCollects ==
  ASSUME NEW a, NEW b, SameNamed(a, b), NEW list, Collects(b, list)
  PROVE  Collects(a, list)
<1> DEFINE n == Len(a)
<1>1. /\ a \in NamedArgs /\ b \in NamedArgs
      /\ n \in Nat /\ DOMAIN a = 1 .. n /\ DOMAIN b = 1 .. n
      /\ \A i \in 1 .. n : a[i][1] = b[i][1] /\ a[i][2].id = b[i][2].id
  BY DEF SameNamed, NamedArgs
<1> HIDE DEF n
<1>2. NamedOnce(a)
  BY <1>1 DEF Collects, NamedOnce
<1>3. Names(a) = Names(b)
  BY <1>1 DEF Names
<1>4. QED
  BY <1>1, <1>2, <1>3 DEF Collects

(***************************************************************************)
(* Merging keeps the order of positions and puts the names.                *)
(***************************************************************************)
LEMMA MergeGives ==
  ASSUME NEW a \in Arguments, NEW b \in Arguments, NEW merged, merged = Merge(a, b)
  PROVE  /\ merged \in Arguments
         /\ merged.pos = a.pos \o b.pos
         /\ merged.named = PutAll(a.named, b.named)
<1>1. a.pos \in Seq(Value) /\ b.pos \in Seq(Value) /\ a.named \in NamedArgs /\ b.named \in NamedArgs
  BY DEF Arguments, NamedArgs
<1>2. PutAll(a.named, b.named) \in NamedArgs
  <2>1. PICK r \in [0 .. Len(b.named) -> NamedArgs] : PutAll(a.named, b.named) = r[Len(b.named)]
    BY <1>1, PutAllSteps, ZenonT(30)
  <2>2. Len(b.named) \in 0 .. Len(b.named)
    BY <1>1 DEF NamedArgs
  <2>3. QED
    BY <2>1, <2>2
<1>3. a.pos \o b.pos \in Seq(Value)
  BY <1>1
<1>4. merged = [pos |-> a.pos \o b.pos, named |-> PutAll(a.named, b.named)]
  BY DEF Merge
<1>5. QED
  BY <1>2, <1>3, <1>4 DEF Arguments, NamedArgs

(***************************************************************************)
(* Arguments that are bound are cut into pieces and coerced.               *)
(***************************************************************************)
LEMMA BindGives ==
  ASSUME NEW f, IsFunction(f), NEW args \in Arguments, NEW merged, merged = Merge(f.withArgs, args),
         NEW b, b = Bind(f, args), b.faults = {}
  PROVE  /\ merged \in Arguments
         /\ FirstNamedFault(f, merged.named) = {}
         /\ \E mapping \in [Slots(f) -> Int] :
              /\ b = Bound(Coerced(f, mapping, merged), mapping)
              /\ \E c : Cut(c, f, mapping, Len(merged.pos))
<1> DEFINE m == Len(merged.pos)
           count == Min({m, PreSink(f)})
           taken == TakeSlots(f, count, merged.pos)
           unfit == UnfitBack(f, taken.mapping, merged.pos)
           faults == FirstNamedFault(f, merged.named)
           co == Coerced(f, taken.mapping, merged)
<1>1. merged \in Arguments /\ m \in Nat
  <2>1. merged \in Arguments
    BY MergeGives DEF IsFunction
  <2>2. QED
    BY <2>1 DEF Arguments
<1>2. b = IF f.sink = 0 /\ m > Len(f.params) THEN Fault(AtPos(Len(f.params) + 1))
          ELSE BindTo(f, merged, taken)
  BY DEF Bind, BindMerged
<1>3. \A at : Fault(at).faults # {}
  BY DEF Fault
<1>4. (f.sink # 0 \/ m <= Len(f.params)) /\ b = BindTo(f, merged, taken)
  <2> HIDE DEF taken, m
  <2>1. ~(f.sink = 0 /\ m > Len(f.params))
    BY <1>2, <1>3
  <2>2. Len(f.params) \in Nat
    BY Shape
  <2>3. QED
    BY <1>1, <1>2, <2>1, <2>2
<1>5. b = IF taken.failed # 0 THEN Fault(AtPos(taken.failed))
          ELSE IF unfit # {} THEN Fault(AtPos(Min(unfit)))
          ELSE BindNamed(f, merged, taken.mapping, faults)
  BY <1>4 DEF BindTo
<1>6. taken.failed = 0 /\ b = BindNamed(f, merged, taken.mapping, faults)
  <2> HIDE DEF taken, unfit, faults
  <2>1. QED
    BY <1>3, <1>5
<1>7. b = IF faults # {} THEN [Fault(Nowhere) EXCEPT !.faults = faults]
          ELSE Validated(f, co, taken.mapping)
  BY <1>6 DEF BindNamed
<1>8. faults = {} /\ b = Validated(f, co, taken.mapping)
  <2> HIDE DEF taken, faults, co
  <2>1. [Fault(Nowhere) EXCEPT !.faults = faults].faults = faults
    BY DEF Fault
  <2>2. QED
    BY <1>7, <2>1
<1>9. b = Bound(co, taken.mapping)
  <2> HIDE DEF taken, co
  <2>1. QED
    BY <1>3, <1>8 DEF Validated
<1>10. taken.mapping \in [Slots(f) -> Int] /\ \E c : Cut(c, f, taken.mapping, m)
  <2> HIDE DEF taken, count, m
  <2>1. m = Len(merged.pos) /\ count = Min({m, PreSink(f)}) /\ taken = TakeSlots(f, count, merged.pos)
    BY DEF m, count, taken
  <2>2. QED
    BY <1>1, <1>4, <1>6, <2>1, SlotsAreCut
<1> HIDE DEF taken
<1>11. QED
  BY <1>1, <1>8, <1>9, <1>10

-----------------------------------------------------------------------------
(* What is written.                                                        *)

PosOf(w) == [k \in DOMAIN w |-> w[k].args.pos]
NamedOf(w) == [k \in DOMAIN w |-> w[k].args.named]

(***************************************************************************)
(* The positional and the named arguments of what is written.              *)
(***************************************************************************)
LEMMA WrittenLists ==
  ASSUME NEW w \in Seq(Spelt)
  PROVE  /\ Len(w) \in Nat /\ DOMAIN w = 1 .. Len(w)
         /\ \A k \in 1 .. Len(w) : /\ w[k].args \in Arguments
                                   /\ w[k].args.pos \in Seq(Value)
                                   /\ w[k].args.named \in NamedArgs
         /\ PosOf(w) \in Seq(Seq(Value)) /\ Len(PosOf(w)) = Len(w)
         /\ NamedOf(w) \in Seq(NamedArgs) /\ Len(NamedOf(w)) = Len(w)
         /\ \A k \in 1 .. Len(w) : PosOf(w)[k] = w[k].args.pos /\ NamedOf(w)[k] = w[k].args.named
<1> DEFINE n == Len(w)
           ps == PosOf(w)
           ns == NamedOf(w)
<1>1. n \in Nat /\ DOMAIN w = 1 .. n /\ \A k \in 1 .. n : w[k] \in Spelt
  OBVIOUS
<1>2. \A k \in 1 .. n : /\ w[k].args \in Arguments
                        /\ w[k].args.pos \in Seq(Value)
                        /\ w[k].args.named \in NamedArgs
  BY <1>1 DEF Spelt, Arguments, NamedArgs
<1> HIDE DEF n
<1>3. ps = [k \in 1 .. n |-> ps[k]] /\ \A k \in 1 .. n : ps[k] = w[k].args.pos
  BY <1>1 DEF PosOf
<1>4. ns = [k \in 1 .. n |-> ns[k]] /\ \A k \in 1 .. n : ns[k] = w[k].args.named
  BY <1>1 DEF NamedOf
<1> DEFINE V == Seq(Value)
<1>5. \A k \in 1 .. n : ps[k] \in V
  BY <1>2, <1>3
<1>6. \A k \in 1 .. n : ns[k] \in NamedArgs
  BY <1>2, <1>4
<1> HIDE DEF ps, ns, V
<1>7. ps \in Seq(V) /\ Len(ps) = n
  BY <1>1, <1>3, <1>5, MakesSequence
<1>8. ns \in Seq(NamedArgs) /\ Len(ns) = n
  BY <1>1, <1>4, <1>6, MakesSequence
<1>9. QED
  BY <1>1, <1>2, <1>3, <1>4, <1>7, <1>8 DEF n, ps, ns, V

(***************************************************************************)
(* The arguments of a call are merged one after the other.                 *)
(***************************************************************************)
LEMMA BuildSteps ==
  ASSUME NEW w \in Seq(Spelt), NEW blocks
  PROVE  \E r \in [0 .. Len(w) -> Arguments] :
           /\ r[0] = NoArguments
           /\ \A i \in 1 .. Len(w) : r[i] = Merge(r[i - 1], w[i].args)
           /\ BuildCallArgs(w, blocks) = [r[Len(w)] EXCEPT !.pos = @ \o blocks]
<1> DEFINE n == Len(w)
           G == [p \in Arguments \X (1 .. n) |-> Merge(p[1], w[p[2]].args)]
           Is(g) == g = [s \in SUBSET (1 .. n) |->
                           IF s = {} THEN NoArguments ELSE Merge(g[s \ {Max(s)}], w[Max(s)].args)]
           c == CHOOSE g : Is(g)
<1>1. n \in Nat /\ DOMAIN w = 1 .. n /\ \A i \in 1 .. n : w[i].args \in Arguments
  BY WrittenLists
<1>2. BuildCallArgs(w, blocks) = [c[1 .. n] EXCEPT !.pos = @ \o blocks]
  BY <1>1 DEF BuildCallArgs, FoldLeft, MapThenFoldSet
<1> HIDE DEF n
<1>3. \A a \in Arguments, i \in 1 .. n :
        G[<<a, i>>] = Merge(a, w[i].args) /\ G[<<a, i>>] \in Arguments
  <2> SUFFICES ASSUME NEW a \in Arguments, NEW i \in 1 .. n
               PROVE  G[<<a, i>>] = Merge(a, w[i].args) /\ G[<<a, i>>] \in Arguments
    OBVIOUS
  <2>1. G[<<a, i>>] = Merge(a, w[i].args)
    OBVIOUS
  <2>2. Merge(a, w[i].args) \in Arguments
    BY <1>1, MergeGives
  <2>3. QED
    BY <2>1, <2>2
<1>0. NoArguments \in Arguments
  BY DEF NoArguments, Arguments
<1> HIDE DEF G
<1>4. PICK it \in [SUBSET (1 .. n) -> Arguments] : IsFold(it, NoArguments, G, n)
  <2>1. StepsWithin(G, Arguments, n)
    BY <1>3 DEF StepsWithin
  <2>2. QED
    BY <1>0, <1>1, <2>1, FoldExists
<1>5. Is(it)
  <2>1. ASSUME NEW s \in SUBSET (1 .. n), s # {}
        PROVE  it[s] = Merge(it[s \ {Max(s)}], w[Max(s)].args)
    <3>1. Max(s) \in 1 .. n
      BY <1>1, <2>1, MaxWithin
    <3>2. it[s \ {Max(s)}] \in Arguments
      OBVIOUS
    <3>3. it[s] = G[<<it[s \ {Max(s)}], Max(s)>>]
      BY <1>4, <2>1 DEF IsFold
    <3>4. QED
      BY <1>3, <3>1, <3>2, <3>3
  <2>2. it[{}] = NoArguments
    BY <1>4 DEF IsFold
  <2>3. QED
    BY <2>1, <2>2
<1>6. Is(c)
  BY <1>5
<1> HIDE DEF c
<1> DEFINE r == [i \in 0 .. n |-> c[1 .. i]]
<1>7. r[0] = NoArguments
  <2>1. 1 .. 0 = {} /\ {} \in SUBSET (1 .. n) /\ 0 \in 0 .. n
    BY <1>1
  <2>2. c[{}] = NoArguments
    BY <1>6, <2>1
  <2>3. QED
    BY <2>1, <2>2
<1>8. ASSUME NEW i \in 1 .. n
      PROVE  r[i] = Merge(r[i - 1], w[i].args)
  <2>1. /\ 1 .. i \in SUBSET (1 .. n)
        /\ 1 .. i # {}
        /\ Max(1 .. i) = i
        /\ (1 .. i) \ {i} = 1 .. i - 1
    BY <1>1, FirstNumbers
  <2>2. c[1 .. i] = Merge(c[(1 .. i) \ {Max(1 .. i)}], w[Max(1 .. i)].args)
    BY <1>6, <2>1
  <2>3. c[1 .. i] = Merge(c[1 .. i - 1], w[i].args)
    BY <2>1, <2>2
  <2>4. i \in 0 .. n /\ i - 1 \in 0 .. n
    BY <1>1
  <2>5. QED
    BY <2>3, <2>4
<1>9. r[n] = c[1 .. n]
  BY <1>1
<1> DEFINE S == {i \in 0 .. n : r[i] \in Arguments}
<1> HIDE DEF r
<1>10. \A i \in 0 .. n : i \in S
  <2>1. 0 \in S
    BY <1>0, <1>1, <1>7
  <2>2. ASSUME NEW i \in 0 .. n - 1, i \in S
        PROVE  i + 1 \in S
    <3>1. i + 1 \in 1 .. n /\ i + 1 \in 0 .. n /\ (i + 1) - 1 = i
      BY <1>1
    <3>2. r[i + 1] = Merge(r[i], w[i + 1].args)
      BY <1>8, <3>1
    <3>3. r[i + 1] \in Arguments
      BY <1>1, <2>2, <3>1, <3>2, MergeGives
    <3>4. QED
      BY <3>1, <3>3
  <2> HIDE DEF S
  <2>3. QED
    BY <1>1, <2>1, <2>2, InductionUpTo
<1>11. r \in [0 .. n -> Arguments]
  <2>1. r = [i \in 0 .. n |-> r[i]]
    BY DEF r
  <2>2. QED
    BY <1>10, <2>1
<1>12. QED
  BY <1>2, <1>7, <1>8, <1>9, <1>11 DEF n

(***************************************************************************)
(* A call passes its positional arguments in the order they are written,   *)
(* blocks last, and of each name the last value.                           *)
(***************************************************************************)
LEMMA BuildGives ==
  ASSUME NEW w \in Seq(Spelt), NEW blocks \in Seq(Value), NEW args, args = BuildCallArgs(w, blocks)
  PROVE  /\ args \in Arguments
         /\ FlattenSeq(PosOf(w)) \in Seq(Value)
         /\ args.pos = FlattenSeq(PosOf(w)) \o blocks
         /\ FlattenSeq(NamedOf(w)) \in NamedArgs
         /\ Collects(args.named, FlattenSeq(NamedOf(w)))
<1> DEFINE n == Len(w)
           ps == PosOf(w)
           ns == NamedOf(w)
           X == Idents \X Value
<1>1. /\ n \in Nat
      /\ \A k \in 1 .. n : /\ w[k].args \in Arguments
                           /\ w[k].args.pos \in Seq(Value)
                           /\ w[k].args.named \in NamedArgs
                           /\ ps[k] = w[k].args.pos
                           /\ ns[k] = w[k].args.named
      /\ Len(ps) = n /\ Len(ns) = n
  BY WrittenLists
<1>2. PICK r \in [0 .. n -> Arguments] :
             /\ r[0] = NoArguments
             /\ \A i \in 1 .. n : r[i] = Merge(r[i - 1], w[i].args)
             /\ args = [r[n] EXCEPT !.pos = @ \o blocks]
  BY BuildSteps
<1> HIDE DEF n, ps, ns
<1>3. ASSUME NEW i \in 1 .. n
      PROVE  /\ r[i].pos = r[i - 1].pos \o ps[i]
             /\ r[i].named = PutAll(r[i - 1].named, ns[i])
  <2>1. i - 1 \in 0 .. n /\ i \in 0 .. n
    BY <1>1
  <2>2. r[i - 1] \in Arguments /\ w[i].args \in Arguments /\ r[i] = Merge(r[i - 1], w[i].args)
    BY <1>1, <1>2, <2>1
  <2>3. r[i].pos = r[i - 1].pos \o w[i].args.pos /\ r[i].named = PutAll(r[i - 1].named, w[i].args.named)
    <3> DEFINE a == r[i - 1]
               b == w[i].args
               merged == r[i]
    <3>1. a \in Arguments /\ b \in Arguments /\ merged = Merge(a, b)
      BY <2>2
    <3> HIDE DEF a, b, merged
    <3>2. merged.pos = a.pos \o b.pos /\ merged.named = PutAll(a.named, b.named)
      BY <3>1, MergeGives
    <3>3. QED
      BY <3>2 DEF a, b, merged
  <2>4. QED
    BY <1>1, <2>3
<1>4. r[n] \in Arguments
  BY <1>1, <1>2
<1>5. FlattenSeq(ps) = r[n].pos /\ FlattenSeq(ps) \in Seq(Value)
  <2> DEFINE f == [i \in 0 .. n |-> r[i].pos]
  <2>1. f[0] = <<>>
    BY <1>1, <1>2 DEF NoArguments
  <2>2. ASSUME NEW i \in 1 .. n
        PROVE  f[i] = f[i - 1] \o ps[i]
    <3>1. i - 1 \in 0 .. n /\ i \in 0 .. n
      BY <1>1
    <3>2. QED
      BY <1>3, <3>1
  <2>3. f[n] = r[n].pos
    BY <1>1
  <2> HIDE DEF f
  <2>4. Joins(f, ps)
    BY <1>1, <2>1, <2>2 DEF Joins
  <2>5. ps \in Seq(Seq(Value))
    BY WrittenLists DEF ps
  <2>6. QED
    BY <1>1, <2>3, <2>4, <2>5, FlattenIs
<1>6. FlattenSeq(ns) \in NamedArgs /\ Collects(r[n].named, FlattenSeq(ns))
  <2>1. ns \in Seq(Seq(X))
    BY WrittenLists DEF ns, NamedArgs
  <2> HIDE DEF X
  <2>2. PICK g \in [0 .. n -> Seq(X)] : Joins(g, ns) /\ FlattenSeq(ns) = g[n]
    <3>1. ns \in Seq(Seq(X)) /\ Len(ns) = n
      BY <1>1, <2>1
    <3>2. \E g \in [0 .. Len(ns) -> Seq(X)] : Joins(g, ns) /\ FlattenSeq(ns) = g[Len(ns)]
      BY <3>1, FlattenSteps
    <3>3. QED
      BY <3>1, <3>2
  <2>3. \A i \in 0 .. n : g[i] \in NamedArgs
    BY DEF NamedArgs, X
  <2>4. g[0] = <<>> /\ \A i \in 1 .. n : g[i] = g[i - 1] \o ns[i]
    BY <1>1, <2>2 DEF Joins
  <2> DEFINE S == {i \in 0 .. n : Collects(r[i].named, g[i])}
  <2>5. 0 \in S
    <3>1. r[0].named = <<>>
      BY <1>2 DEF NoArguments
    <3>2. Collects(<<>>, <<>>)
      <4>1. <<>> \in NamedArgs /\ DOMAIN <<>> = {}
        BY DEF NamedArgs
      <4>2. QED
        BY <4>1 DEF Collects, NamedOnce, Names
    <3>3. QED
      BY <1>1, <2>4, <3>1, <3>2
  <2>6. ASSUME NEW i \in 0 .. n - 1, i \in S
        PROVE  i + 1 \in S
    <3>1. i + 1 \in 1 .. n /\ i + 1 \in 0 .. n /\ (i + 1) - 1 = i /\ i \in 0 .. n
      BY <1>1
    <3>2. r[i + 1].named = PutAll(r[i].named, ns[i + 1]) /\ ns[i + 1] \in NamedArgs
      BY <1>1, <1>3, <3>1
    <3>3. g[i] \in NamedArgs /\ g[i + 1] = g[i] \o ns[i + 1]
      BY <2>3, <2>4, <3>1
    <3>4. Collects(PutAll(r[i].named, ns[i + 1]), g[i] \o ns[i + 1])
      BY <2>6, <3>2, <3>3, PutAllCollects
    <3>5. QED
      BY <3>1, <3>2, <3>3, <3>4
  <2> HIDE DEF S
  <2>7. n \in S
    <3>1. \A i \in 0 .. n : i \in S
      BY <1>1, <2>5, <2>6, InductionUpTo
    <3>2. QED
      BY <1>1, <3>1
  <2>8. QED
    BY <1>1, <2>2, <2>3, <2>7 DEF S
<1>7. args = [pos |-> r[n].pos \o blocks, named |-> r[n].named]
  BY <1>2, <1>4 DEF Arguments
<1>8. r[n].pos \in Seq(Value) /\ r[n].named \in NamedArgs
  BY <1>4 DEF Arguments, NamedArgs
<1>9. r[n].pos \o blocks \in Seq(Value)
  BY <1>8
<1>10. args \in Arguments
  BY <1>7, <1>8, <1>9 DEF Arguments, NamedArgs
<1>11. QED
  BY <1>5, <1>6, <1>7, <1>10 DEF ps, ns

-----------------------------------------------------------------------------
(* What arrives by name.                                                   *)

\* A map holds each of names once, with the value that is last in a list.
Gathers(named, names, list) ==
  /\ named \in NamedArgs
  /\ NamedOnce(named)
  /\ Names(named) = names
  /\ \A i \in DOMAIN named : named[i][2].id = LastId(list, named[i][1])

(***************************************************************************)
(* Nothing gathers no names.                                               *)
(***************************************************************************)
LEMMA NothingGathers ==
  ASSUME NEW list
  PROVE  Gathers(<<>>, {}, list)
<1>1. <<>> \in NamedArgs /\ DOMAIN <<>> = {}
  BY DEF NamedArgs
<1>2. QED
  BY <1>1 DEF Gathers, NamedOnce, Names

(***************************************************************************)
(* One pair gathers its name.                                              *)
(***************************************************************************)
LEMMA OneGathers ==
  ASSUME NEW list, NEW e \in Idents \X Value, e[2].id = LastId(list, e[1])
  PROVE  Gathers(<<e>>, {e[1]}, list)
<1>1. <<e>> \in NamedArgs /\ DOMAIN <<e>> = {1} /\ <<e>>[1] = e
  BY DEF NamedArgs
<1>2. QED
  BY <1>1 DEF Gathers, NamedOnce, Names

(***************************************************************************)
(* Maps of different names, one after the other, gather the names of both. *)
(***************************************************************************)
LEMMA BothGather ==
  ASSUME NEW list, NEW a, NEW A, Gathers(a, A, list), NEW b, NEW B, Gathers(b, B, list),
         A \cap B = {}
  PROVE  Gathers(a \o b, A \cup B, list)
<1> DEFINE n == Len(a)
           m == Len(b)
           s == a \o b
<1>1. /\ a \in NamedArgs /\ b \in NamedArgs /\ n \in Nat /\ m \in Nat
      /\ DOMAIN a = 1 .. n /\ DOMAIN b = 1 .. m
  BY DEF Gathers, NamedArgs
<1>2. /\ DOMAIN s = 1 .. n + m
      /\ \A i \in 1 .. n : s[i] = a[i]
      /\ \A i \in n + 1 .. n + m : s[i] = b[i - n]
  BY <1>1, ConcatEntries DEF NamedArgs
<1>3. Names(s) = A \cup B /\ s \in NamedArgs
  BY <1>1, NamesOfConcat DEF Gathers
<1> HIDE DEF n, m, s
<1>4. \A i \in 1 .. n + m : i \in 1 .. n \/ (i \in n + 1 .. n + m /\ i - n \in 1 .. m)
  BY <1>1
<1>5. ASSUME NEW i \in 1 .. n + m
      PROVE  s[i][2].id = LastId(list, s[i][1])
  <2>1. CASE i \in 1 .. n
    BY <1>1, <1>2, <2>1 DEF Gathers
  <2>2. CASE i \in n + 1 .. n + m
    <3>1. i - n \in 1 .. m /\ s[i] = b[i - n]
      BY <1>1, <1>2, <2>2
    <3>2. QED
      BY <1>1, <3>1 DEF Gathers
  <2>3. QED
    BY <1>4, <2>1, <2>2
<1>6. ASSUME NEW i \in 1 .. n + m, NEW j \in 1 .. n + m, s[i][1] = s[j][1]
      PROVE  i = j
  <2>1. \A k \in 1 .. n : s[k][1] \in A
    BY <1>1, <1>2 DEF Gathers, Names
  <2>2. \A k \in n + 1 .. n + m : s[k][1] \in B
    <3> SUFFICES ASSUME NEW k \in n + 1 .. n + m PROVE s[k][1] \in B
      OBVIOUS
    <3>1. k - n \in 1 .. m
      BY <1>1
    <3>2. QED
      BY <1>1, <1>2, <3>1 DEF Gathers, Names
  <2>3. CASE i \in 1 .. n
    <3>1. j \in 1 .. n
      BY <1>4, <1>6, <2>1, <2>2, <2>3
    <3>2. QED
      BY <1>1, <1>2, <1>6, <2>3, <3>1 DEF Gathers, NamedOnce
  <2>4. CASE i \in n + 1 .. n + m
    <3>1. j \in n + 1 .. n + m
      BY <1>4, <1>6, <2>1, <2>2, <2>4
    <3>2. i - n \in 1 .. m /\ j - n \in 1 .. m
      BY <1>1, <2>4, <3>1
    <3>3. i - n = j - n
      BY <1>1, <1>2, <1>6, <2>4, <3>1, <3>2 DEF Gathers, NamedOnce
    <3>4. QED
      BY <1>1, <3>3
  <2>5. QED
    BY <1>4, <2>3, <2>4
<1>7. QED
  BY <1>2, <1>3, <1>5, <1>6 DEF Gathers, NamedOnce, s

(***************************************************************************)
(* What is picked from a map gathers the names at these positions.         *)
(***************************************************************************)
LEMMA PickedGathers ==
  ASSUME NEW list, NEW named, NEW names, Gathers(named, names, list), NEW at \in SUBSET DOMAIN named
  PROVE  Gathers(Picked(named, at), {named[i][1] : i \in at}, list)
<1> DEFINE p == Picked(named, at)
           n == Len(named)
           m == Len(p)
           X == Idents \X Value
<1>1. named \in Seq(X) /\ n \in Nat /\ DOMAIN named = 1 .. n
  BY DEF Gathers, NamedArgs
<1> HIDE DEF X
<1>2. p \in Seq(X) /\ \E g : Lists(g, p, named, at, n)
  BY <1>1, PickedInOrder
<1>3. PICK g : Lists(g, p, named, at, n)
  BY <1>2
<1>4. m \in Nat /\ DOMAIN p = 1 .. m
  BY <1>2
<1> HIDE DEF p, n, m
<1>5. /\ \A k \in 1 .. m : g[k] \in 1 .. n
      /\ \A j, k \in 1 .. m : j < k => g[j] < g[k]
      /\ \A x \in 1 .. n : x \in at <=> \E k \in 1 .. m : g[k] = x
      /\ \A k \in 1 .. m : p[k] = named[g[k]]
  BY <1>3 DEF Lists, m
<1>6. NamedOnce(p)
  <2> SUFFICES ASSUME NEW i \in 1 .. m, NEW j \in 1 .. m, p[i][1] = p[j][1]
               PROVE  i = j
    BY <1>4 DEF NamedOnce
  <2>1. g[i] = g[j]
    BY <1>1, <1>5 DEF Gathers, NamedOnce
  <2>2. \A x \in 1 .. n : ~(x < x)
    BY <1>1
  <2>3. ~(i < j) /\ ~(j < i)
    BY <1>5, <2>1, <2>2
  <2>4. QED
    BY <1>4, <2>3
<1>7. Names(p) = {named[i][1] : i \in at}
  <2>1. \A k \in 1 .. m : g[k] \in at
    BY <1>5
  <2>2. \A x \in at : \E k \in 1 .. m : g[k] = x
    BY <1>1, <1>5
  <2>3. QED
    BY <1>4, <1>5, <2>1, <2>2 DEF Names
<1>8. \A i \in 1 .. m : p[i][2].id = LastId(list, p[i][1])
  BY <1>1, <1>5 DEF Gathers
<1>9. QED
  BY <1>2, <1>4, <1>6, <1>7, <1>8 DEF Gathers, NamedArgs, p, X

(***************************************************************************)
(* Maps of different names, laid end to end, gather the names of all.      *)
(***************************************************************************)
LEMMA AllGather ==
  ASSUME NEW list, NEW seqs \in Seq(NamedArgs), NEW names,
         \A k \in 1 .. Len(seqs) : Gathers(seqs[k], names[k], list),
         \A j, k \in 1 .. Len(seqs) : j # k => names[j] \cap names[k] = {}
  PROVE  Gathers(FlattenSeq(seqs), UNION {names[k] : k \in 1 .. Len(seqs)}, list)
<1> DEFINE n == Len(seqs)
           X == Idents \X Value
           upTo(i) == UNION {names[k] : k \in 1 .. i}
<1>1. n \in Nat /\ seqs \in Seq(Seq(X))
  BY DEF NamedArgs
<1> HIDE DEF X
<1>2. PICK f \in [0 .. n -> Seq(X)] : Joins(f, seqs) /\ FlattenSeq(seqs) = f[n]
  BY <1>1, FlattenSteps
<1>3. f[0] = <<>> /\ \A i \in 1 .. n : f[i] = f[i - 1] \o seqs[i]
  BY <1>2 DEF Joins
<1>0. /\ \A k \in 1 .. n : Gathers(seqs[k], names[k], list)
      /\ \A j, k \in 1 .. n : j # k => names[j] \cap names[k] = {}
  OBVIOUS
<1> HIDE DEF n
<1> DEFINE S == {i \in 0 .. n : Gathers(f[i], upTo(i), list)}
<1>4. 0 \in S
  <2>1. upTo(0) = {}
    OBVIOUS
  <2> HIDE DEF upTo
  <2>2. Gathers(f[0], upTo(0), list)
    BY <1>3, <2>1, NothingGathers
  <2>3. QED
    BY <1>1, <2>2
<1>5. ASSUME NEW i \in 0 .. n - 1, i \in S
      PROVE  i + 1 \in S
  <2>1. i + 1 \in 1 .. n /\ i + 1 \in 0 .. n /\ (i + 1) - 1 = i
    BY <1>1
  <2>2. f[i + 1] = f[i] \o seqs[i + 1]
    BY <1>3, <2>1
  <2>3. upTo(i + 1) = upTo(i) \cup names[i + 1]
    <3>1. 1 .. i + 1 = (1 .. i) \cup {i + 1}
      BY <1>1
    <3>2. QED
      BY <3>1
  <2>4. upTo(i) \cap names[i + 1] = {}
    <3>1. \A k \in 1 .. i : k \in 1 .. n /\ k # i + 1
      BY <1>1
    <3>2. QED
      BY <1>0, <2>1, <3>1
  <2>5. Gathers(f[i], upTo(i), list) /\ Gathers(seqs[i + 1], names[i + 1], list)
    BY <1>0, <1>5, <2>1
  <2> HIDE DEF upTo
  <2>6. Gathers(f[i] \o seqs[i + 1], upTo(i) \cup names[i + 1], list)
    BY <2>4, <2>5, BothGather
  <2>7. QED
    BY <2>1, <2>2, <2>3, <2>6
<1> HIDE DEF S
<1>6. n \in S
  <2>1. \A i \in 0 .. n : i \in S
    BY <1>1, <1>4, <1>5, InductionUpTo
  <2>2. QED
    BY <1>1, <2>1
<1>7. QED
  BY <1>2, <1>6 DEF S, n

(***************************************************************************)
(* A map that gathers all names of a list has each once, with the value    *)
(* the list has last.                                                      *)
(***************************************************************************)
LEMMA GatheredOnce ==
  ASSUME NEW list, NEW seen, Gathers(seen, Names(list), list)
  PROVE  /\ Names(seen) = Names(list)
         /\ Len(seen) = Cardinality(Names(seen))
         /\ \A name \in Names(seen) : Named(seen, name).id = LastId(list, name)
<1> DEFINE n == Len(seen)
           g == [i \in 1 .. n |-> seen[i][1]]
<1>1. n \in Nat /\ DOMAIN seen = 1 .. n
  BY DEF Gathers, NamedArgs
<1>2. Names(seen) = Names(list)
  BY DEF Gathers
<1>3. n = Cardinality(Names(seen))
  <2> HIDE DEF n
  <2>1. g \in Surjection(1 .. n, Names(seen))
    BY <1>1 DEF Surjection, Names
  <2>2. g \in Injection(1 .. n, Names(seen))
    BY <1>1, <2>1 DEF Surjection, Injection, IsInjective, Gathers, NamedOnce
  <2>3. IsFiniteSet(1 .. n) /\ Cardinality(1 .. n) = n
    BY <1>1, FS_Interval
  <2> HIDE DEF g
  <2>4. Cardinality(Names(seen)) = Cardinality(1 .. n)
    BY <2>1, <2>2, <2>3, FS_Surjection
  <2>5. QED
    BY <2>3, <2>4
<1>4. ASSUME NEW name \in Names(seen)
      PROVE  Named(seen, name).id = LastId(list, name)
  <2> DEFINE i == CHOOSE k \in DOMAIN seen : seen[k][1] = name
  <2>1. i \in DOMAIN seen /\ seen[i][1] = name
    BY DEF Names
  <2>2. Named(seen, name) = seen[i][2]
    BY DEF Named
  <2>3. QED
    BY <2>1, <2>2 DEF Gathers
<1>5. QED
  BY <1>2, <1>3, <1>4

-----------------------------------------------------------------------------
(* Applying.                                                               *)

(***************************************************************************)
(* What is passed was bound, and no parameter is missing.                  *)
(***************************************************************************)
LEMMA ApplyGives ==
  ASSUME NEW f, NEW args, NEW result, result = Apply(f, args), result.faults = {}
  PROVE  /\ Bind(f, args).faults = {}
         /\ \A j \in Slots(f) : Bind(f, args).mapping[j] # Missing
         /\ result.passed = Passed(f, Bind(f, args))
<1> DEFINE b == Bind(f, args)
<1>1. result = IF b.faults # {} THEN [faults |-> b.faults, passed |-> <<>>]
               ELSE IF \E j \in Slots(f) : b.mapping[j] = Missing
               THEN [faults |-> {Nowhere}, passed |-> <<>>]
               ELSE [faults |-> {}, passed |-> Passed(f, b)]
  BY DEF Apply, ApplyBound
<1> HIDE DEF b
<1>2. b.faults = {}
  BY <1>1
<1>3. ~ \E j \in Slots(f) : b.mapping[j] = Missing
  BY <1>1, <1>2
<1>4. QED
  BY <1>1, <1>2, <1>3 DEF b

(***************************************************************************)
(* Identities of values that follow one another.                           *)
(***************************************************************************)
LEMMA IdsOfConcat ==
  ASSUME NEW a \in Seq(Value), NEW b \in Seq(Value), NEW c \in Seq(Value), NEW d \in Seq(Value),
         Ids(a) = Ids(c), Ids(b) = Ids(d)
  PROVE  Ids(a \o b) = Ids(c \o d)
<1> DEFINE n == Len(a)
           m == Len(b)
           s == a \o b
           t == c \o d
<1>1. /\ n \in Nat /\ m \in Nat /\ DOMAIN a = 1 .. n /\ DOMAIN b = 1 .. m
      /\ DOMAIN Ids(a) = DOMAIN a /\ DOMAIN Ids(b) = DOMAIN b
      /\ DOMAIN Ids(c) = DOMAIN c /\ DOMAIN Ids(d) = DOMAIN d
  BY DEF Ids
<1>2. Len(c) = n /\ Len(d) = m /\ DOMAIN c = 1 .. n /\ DOMAIN d = 1 .. m
  BY <1>1
<1>3. \A i \in 1 .. n : a[i].id = c[i].id
  <2> SUFFICES ASSUME NEW i \in 1 .. n PROVE a[i].id = c[i].id
    OBVIOUS
  <2>1. Ids(a)[i] = a[i].id /\ Ids(c)[i] = c[i].id
    BY <1>1, <1>2 DEF Ids
  <2>2. QED
    BY <2>1
<1>4. \A i \in 1 .. m : b[i].id = d[i].id
  <2> SUFFICES ASSUME NEW i \in 1 .. m PROVE b[i].id = d[i].id
    OBVIOUS
  <2>1. Ids(b)[i] = b[i].id /\ Ids(d)[i] = d[i].id
    BY <1>1, <1>2 DEF Ids
  <2>2. QED
    BY <2>1
<1>5. /\ DOMAIN s = 1 .. n + m
      /\ \A i \in 1 .. n : s[i] = a[i]
      /\ \A i \in n + 1 .. n + m : s[i] = b[i - n]
  BY ConcatEntries
<1>6. /\ DOMAIN t = 1 .. n + m
      /\ \A i \in 1 .. n : t[i] = c[i]
      /\ \A i \in n + 1 .. n + m : t[i] = d[i - n]
  <2>1. /\ DOMAIN (c \o d) = 1 .. Len(c) + Len(d)
        /\ \A i \in 1 .. Len(c) : (c \o d)[i] = c[i]
        /\ \A i \in Len(c) + 1 .. Len(c) + Len(d) : (c \o d)[i] = d[i - Len(c)]
    BY ConcatEntries
  <2> HIDE DEF n, m
  <2>2. QED
    BY <1>2, <2>1
<1> HIDE DEF n, m, s, t
<1>7. ASSUME NEW i \in 1 .. n + m
      PROVE  s[i].id = t[i].id
  <2>1. CASE i \in 1 .. n
    BY <1>3, <1>5, <1>6, <2>1
  <2>2. CASE i \in n + 1 .. n + m
    <3>1. i - n \in 1 .. m
      BY <1>1, <2>2
    <3>2. QED
      BY <1>4, <1>5, <1>6, <2>2, <3>1
  <2>3. QED
    BY <1>1, <2>1, <2>2
<1>8. QED
  BY <1>5, <1>6, <1>7 DEF Ids, s, t

-----------------------------------------------------------------------------
(* The call of with.                                                       *)

Self == [type |-> "function", id |-> "self"]

(***************************************************************************)
(* function.with has its receiver and a sink.                              *)
(***************************************************************************)
LEMMA WithShape ==
  /\ IsFunction(FunctionWith)
  /\ Slots(FunctionWith) = 1 .. 2 /\ Len(FunctionWith.params) = 2
  /\ PreSink(FunctionWith) = 1 /\ FunctionWith.sink = 2
  /\ FunctionWith.params[1].required
  /\ FunctionWith.params[1].types = {"function"}
  /\ DOMAIN FunctionWith.named = {} /\ FunctionWith.refused = {}
  /\ FunctionWith.withArgs.pos = <<Self>> /\ FunctionWith.withArgs.named = <<>>
  /\ Self \in Value /\ Takes({"function"}, Self)
<1> DEFINE f == FunctionWith
           P == [name : Idents, types : SUBSET Types, required : BOOLEAN]
           p == Parameter("self", {"function"}, TRUE)
           q == Parameter("args", {"arguments"}, TRUE)
           none == [n \in {} |-> {}]
           bound == [pos |-> <<Self>>, named |-> <<>>]
<1>1. f = [params |-> <<p, q>>, sink |-> 2, named |-> none, refused |-> {}, closure |-> <<>>,
           withArgs |-> bound]
  BY DEF FunctionWith, Self
<1>2. p \in P /\ q \in P
  <2>1. "function" \in Types /\ "arguments" \in Types
    BY DEF Types
  <2>2. "self" \in Idents /\ "args" \in Idents
    BY NamesAssumption
  <2>3. QED
    BY <2>1, <2>2 DEF Parameter
<1>3. Self \in Value
  <2>1. "function" \in Types
    BY DEF Types
  <2>2. QED
    BY <2>1, NamesAssumption DEF Self, Value
<1>4. bound \in Arguments
  <2> DEFINE X == Idents \X Value
  <2> HIDE DEF X
  <2>1. <<>> \in Seq(X)
    OBVIOUS
  <2>2. <<Self>> \in Seq(Value)
    BY <1>3
  <2>3. QED
    BY <2>1, <2>2 DEF Arguments, X
<1>5. none \in [DOMAIN none -> SUBSET Types] /\ DOMAIN none = {}
  OBVIOUS
<1>6. <<p, q>> \in Seq(P) /\ Len(<<p, q>>) = 2 /\ <<p, q>>[1] = p
  <2> HIDE DEF p, q, P
  <2>1. QED
    BY <1>2
<1>7. p.required = TRUE /\ p.types = {"function"}
  BY DEF Parameter
<1> HIDE DEF none, bound, p, q
<1>8. IsFunction(f)
  <2>1. f.params \in Seq(P)
    BY <1>1, <1>6
  <2>2. f.sink \in 0 .. Len(f.params)
    BY <1>1, <1>6
  <2>3. f.named \in [DOMAIN f.named -> SUBSET Types] /\ DOMAIN f.named \subseteq Idents
    BY <1>1, <1>5
  <2>4. f.withArgs \in Arguments
    BY <1>1, <1>4
  <2>5. f = [params |-> f.params, sink |-> f.sink, named |-> f.named, refused |-> f.refused,
             closure |-> f.closure, withArgs |-> f.withArgs]
    BY <1>1
  <2>6. QED
    BY <2>1, <2>2, <2>3, <2>4, <2>5 DEF IsFunction
<1>9. Takes({"function"}, Self)
  BY DEF Takes, CallableAsFunction, Self
<1>10. f.withArgs.pos = <<Self>> /\ f.withArgs.named = <<>>
  BY <1>1 DEF bound
<1>11. PreSink(f) = 1 /\ Slots(f) = 1 .. 2
  BY <1>1, <1>6 DEF PreSink, Slots
<1>12. QED
  BY <1>1, <1>3, <1>5, <1>6, <1>7, <1>8, <1>9, <1>10, <1>11

(***************************************************************************)
(* A required parameter takes the only argument before the sink, if it     *)
(* fits.                                                                   *)
(***************************************************************************)
LEMMA OnlyOneTaken ==
  ASSUME NEW f, IsFunction(f), NEW one \in Nat \ {0}, one < 2, PreSink(f) = one,
         NEW pos, f.params[one].required, Takes(f.params[one].types, pos[one]),
         NEW t, t = TakeFront(f, one, pos)
  PROVE  t \in Fronts(f, one) /\ t.failed = 0 /\ t.lo = one + 1 /\ t.mapping[one] = one
<1> DEFINE s == NoneTaken(f)
<1>1. /\ one \in Nat /\ one \in 0 .. PreSink(f) /\ one \in 1 .. one
      /\ one - 1 = 0 /\ one \in Slots(f)
  BY Shape
<1>2. s \in Fronts(f, one) /\ s.failed = 0 /\ s.lo = one
  BY <1>1, NoneTakenIs DEF NoneTaken
<1>3. t = TakeOne(f, s, one, one, pos)
  <2>1. PICK r \in [0 .. one -> Fronts(f, one)] :
               /\ r[0] = NoneTaken(f)
               /\ \A i \in 1 .. one : r[i] = TakeOne(f, r[i - 1], i, one, pos)
               /\ TakeFront(f, one, pos) = r[one]
    BY <1>1, TakeFrontSteps, ZenonT(30)
  <2>2. r[one] = TakeOne(f, r[one - 1], one, one, pos)
    BY <1>1, <2>1
  <2>3. QED
    BY <1>1, <2>1, <2>2
<1>4. one \in Fitting(f, s, one, one, pos)
  <2>1. one \in s.lo .. PreSink(f) - one + one
    BY <1>1, <1>2
  <2>2. QED
    BY <2>1 DEF Fitting
<1> HIDE DEF s
<1>5. /\ t \in Fronts(f, one)
      /\ t.failed = 0 => \E slot \in Nat : /\ s.lo <= slot /\ slot <= PreSink(f) - one + one
                                           /\ t = Fill(f, s, one, slot)
      /\ t.failed # 0 => Fitting(f, s, one, one, pos) = {}
  BY <1>1, <1>2, <1>3, TakeOneGives
<1>6. t.failed = 0
  BY <1>4, <1>5
<1>7. PICK slot \in Nat : /\ s.lo <= slot /\ slot <= PreSink(f) - one + one
                         /\ t = Fill(f, s, one, slot)
  BY <1>5, <1>6
<1>8. slot = one
  BY <1>1, <1>2, <1>7
<1>9. /\ t.lo = slot + 1
      /\ \A j \in Slots(f) :
           t.mapping[j] = IF j = slot THEN one
                          ELSE IF j \in s.lo .. slot - 1 /\ ~f.params[j].required THEN Default
                          ELSE s.mapping[j]
  BY <1>1, <1>2, <1>7, FillGives
<1>10. t.mapping[slot] = one
  BY <1>1, <1>8, <1>9
<1>11. QED
  BY <1>5, <1>6, <1>8, <1>9, <1>10

(***************************************************************************)
(* The receiver is taken by its parameter, everything else by the sink.    *)
(***************************************************************************)
LEMMA WithTakes ==
  ASSUME NEW pos \in Seq(Value), Len(pos) > 0, pos[1] = Self,
         NEW taken, taken = TakeSlots(FunctionWith, 1, pos)
  PROVE  /\ taken.failed = 0
         /\ taken.mapping \in [1 .. 2 -> Int]
         /\ taken.mapping[1] = 1 /\ taken.mapping[2] = InSink
<1> DEFINE f == FunctionWith
           t == TakeFront(f, 1, pos)
           m == Len(pos)
           start == 1 + SinkSize(f, m)
<1>1. /\ IsFunction(f) /\ Slots(f) = 1 .. 2 /\ Len(f.params) = 2 /\ PreSink(f) = 1 /\ f.sink = 2
      /\ f.params[1].required /\ Takes(f.params[1].types, Self)
  BY WithShape
<1> HIDE DEF f
<1>2. t \in Fronts(f, 1) /\ t.failed = 0 /\ t.lo = 2 /\ t.mapping[1] = 1
  <2> DEFINE one == 1
  <2>1. one \in Nat \ {0} /\ one < 2 /\ one = 1 /\ t = TakeFront(f, one, pos)
    OBVIOUS
  <2> HIDE DEF one, t
  <2>2. t \in Fronts(f, one) /\ t.failed = 0 /\ t.lo = one + 1 /\ t.mapping[one] = one
    BY <1>1, <2>1, OnlyOneTaken
  <2>3. QED
    BY <2>1, <2>2
<1>3. taken = TakeRest(f, t, start, m)
  BY DEF TakeSlots, f
<1> HIDE DEF t, start, m
<1>4. /\ taken.failed = t.failed
      /\ taken.mapping =
           [j \in DOMAIN t.mapping |->
               IF j <= PreSink(f) THEN IF j < t.lo THEN t.mapping[j] ELSE Unfilled(f, j)
               ELSE IF j = f.sink THEN InSink
               ELSE IF start + (j - f.sink) <= m THEN start + (j - f.sink)
               ELSE Unfilled(f, j)]
  BY <1>2, <1>3 DEF TakeRest, Fronts
<1>5. DOMAIN t.mapping = 1 .. 2
  BY <1>1, <1>2 DEF Fronts
<1>6. taken.mapping[1] = 1 /\ taken.mapping[2] = InSink
  BY <1>1, <1>2, <1>4, <1>5
<1>7. taken.mapping \in [1 .. 2 -> Int]
  <2>1. DOMAIN taken.mapping = 1 .. 2 /\ taken.mapping = [j \in 1 .. 2 |-> taken.mapping[j]]
    BY <1>4, <1>5
  <2>2. \A j \in 1 .. 2 : j = 1 \/ j = 2
    OBVIOUS
  <2>3. \A j \in 1 .. 2 : taken.mapping[j] \in Int
    BY <1>6, <2>2 DEF InSink
  <2>4. QED
    BY <2>1, <2>3
<1>8. QED
  BY <1>2, <1>4, <1>6, <1>7

(***************************************************************************)
(* Whatever with is called with is bound.                                  *)
(***************************************************************************)
LEMMA WithBinds ==
  ASSUME NEW args \in Arguments, NEW merged, merged = Merge(FunctionWith.withArgs, args)
  PROVE  /\ merged \in Arguments
         /\ merged.pos = <<Self>> \o args.pos
         /\ merged.named = PutAll(<<>>, args.named)
         /\ \E mapping \in [1 .. 2 -> Int] :
              /\ mapping[1] = 1 /\ mapping[2] = InSink
              /\ Bind(FunctionWith, args) = Bound(Coerced(FunctionWith, mapping, merged), mapping)
<1> DEFINE f == FunctionWith
           pos == merged.pos
           m == Len(pos)
           count == Min({m, PreSink(f)})
           taken == TakeSlots(f, count, pos)
           unfit == UnfitBack(f, taken.mapping, pos)
           faults == FirstNamedFault(f, merged.named)
           co == Coerced(f, taken.mapping, merged)
           b == Bind(f, args)
<1>1. /\ IsFunction(f) /\ Slots(f) = 1 .. 2 /\ Len(f.params) = 2 /\ PreSink(f) = 1 /\ f.sink = 2
      /\ DOMAIN f.named = {} /\ f.refused = {}
      /\ f.withArgs.pos = <<Self>> /\ f.withArgs.named = <<>> /\ Self \in Value
  BY WithShape
<1>2. /\ merged \in Arguments
      /\ merged.pos = <<Self>> \o args.pos
      /\ merged.named = PutAll(<<>>, args.named)
  <2>1. f.withArgs \in Arguments
    BY <1>1 DEF IsFunction
  <2> DEFINE a == f.withArgs
  <2>2. a \in Arguments /\ merged = Merge(a, args) /\ a.pos = <<Self>> /\ a.named = <<>>
    BY <1>1, <2>1
  <2> HIDE DEF a
  <2>3. merged \in Arguments /\ merged.pos = a.pos \o args.pos /\ merged.named = PutAll(a.named, args.named)
    BY <2>2, MergeGives
  <2>4. QED
    BY <2>2, <2>3
<1>3. pos \in Seq(Value) /\ m \in Nat /\ m > 0 /\ pos[1] = Self
  <2>1. args.pos \in Seq(Value)
    BY DEF Arguments
  <2>2. QED
    BY <1>1, <1>2, <2>1
<1>4. count = 1
  <2> HIDE DEF m
  <2>1. QED
    BY <1>1, <1>3, MinOfTwo
<1>5. taken.failed = 0 /\ taken.mapping \in [1 .. 2 -> Int] /\ taken.mapping[1] = 1 /\ taken.mapping[2] = InSink
  <2>1. taken = TakeSlots(FunctionWith, 1, pos)
    BY <1>4
  <2> HIDE DEF taken, pos
  <2>2. QED
    BY <1>3, <2>1, WithTakes DEF m
<1>6. b = IF f.sink = 0 /\ m > Len(f.params) THEN Fault(AtPos(Len(f.params) + 1))
          ELSE BindTo(f, merged, taken)
  BY DEF Bind, BindMerged
<1> HIDE DEF count, taken, m
<1>7. b = BindTo(f, merged, taken)
  <2> HIDE DEF f, b
  <2>1. QED
    BY <1>1, <1>6
<1>8. b = IF unfit # {} THEN Fault(AtPos(Min(unfit)))
          ELSE BindNamed(f, merged, taken.mapping, faults)
  <2>1. b = IF taken.failed # 0 THEN Fault(AtPos(taken.failed))
            ELSE IF unfit # {} THEN Fault(AtPos(Min(unfit)))
            ELSE BindNamed(f, merged, taken.mapping, faults)
    BY <1>7 DEF BindTo
  <2> HIDE DEF f, b, unfit, faults
  <2>2. QED
    BY <1>5, <2>1
<1>9. unfit = {}
  <2> HIDE DEF f, pos
  <2>1. \A k \in Slots(f) : ~(k > f.sink)
    BY <1>1
  <2>2. QED
    BY <2>1 DEF UnfitBack
<1>10. b = BindNamed(f, merged, taken.mapping, faults)
  <2> HIDE DEF f, b, unfit, faults
  <2>1. QED
    BY <1>8, <1>9
<1>11. faults = {}
  <2> HIDE DEF f
  <2>1. \A pair : NamedFault(f, pair) = {}
    BY <1>1 DEF NamedFault
  <2>2. QED
    BY <2>1 DEF FirstNamedFault
<1>12. b = Validated(f, co, taken.mapping)
  <2>1. b = IF faults # {} THEN [Fault(Nowhere) EXCEPT !.faults = faults]
            ELSE Validated(f, co, taken.mapping)
    BY <1>10 DEF BindNamed
  <2> HIDE DEF f, b, co, faults
  <2>2. QED
    BY <1>11, <2>1
<1>13. b = Bound(co, taken.mapping)
  <2> HIDE DEF f, b, co
  <2>1. Refused(f, co.named) = {}
    BY <1>1 DEF Refused
  <2>2. QED
    BY <1>12, <2>1 DEF Validated
<1>14. QED
  BY <1>2, <1>5, <1>13

(***************************************************************************)
(* The arguments of with arrive in its sink, the receiver aside.           *)
(***************************************************************************)
LEMMA WithReceives ==
  ASSUME NEW args \in Arguments, NEW list \in NamedArgs, Collects(args.named, list),
         NEW got, got = Apply(FunctionWith, args).passed.pos[2].args
  PROVE  /\ got \in Arguments
         /\ Ids(got.pos) = Ids(args.pos)
         /\ Collects(got.named, list)
<1> DEFINE f == FunctionWith
           merged == Merge(f.withArgs, args)
<1>1. /\ merged \in Arguments
      /\ merged.pos = <<Self>> \o args.pos
      /\ merged.named = PutAll(<<>>, args.named)
      /\ \E mapping \in [1 .. 2 -> Int] :
           /\ mapping[1] = 1 /\ mapping[2] = InSink
           /\ Bind(f, args) = Bound(Coerced(f, mapping, merged), mapping)
  BY WithBinds
<1>2. PICK mapping \in [1 .. 2 -> Int] :
             /\ mapping[1] = 1 /\ mapping[2] = InSink
             /\ Bind(f, args) = Bound(Coerced(f, mapping, merged), mapping)
  BY <1>1
<1>0. Slots(f) = 1 .. 2 /\ DOMAIN f.named = {} /\ Self \in Value
  BY WithShape
<1> HIDE DEF f, merged
<1> DEFINE co == Coerced(f, mapping, merged)
           b == Bound(co, mapping)
           n == Len(co.pos)
           m == Len(co.named)
           rest == {i \in DOMAIN co.pos : \A j \in DOMAIN mapping : mapping[j] # i}
<1>3. /\ co \in Arguments
      /\ Len(co.pos) = Len(merged.pos)
      /\ Ids(co.pos) = Ids(merged.pos)
      /\ SameNamed(co.named, merged.named)
  BY <1>1, CoercedGives
<1>4. Apply(f, args).passed = Passed(f, b)
  <2>1. Apply(f, args) = IF b.faults # {} THEN [faults |-> b.faults, passed |-> <<>>]
                         ELSE IF \E j \in Slots(f) : b.mapping[j] = Missing
                         THEN [faults |-> {Nowhere}, passed |-> <<>>]
                         ELSE [faults |-> {}, passed |-> Passed(f, b)]
    BY <1>2 DEF Apply, ApplyBound
  <2>2. b.faults = {} /\ b.mapping = mapping
    BY DEF Bound
  <2>3. \A j \in Slots(f) : mapping[j] # Missing
    <3>1. \A j \in Slots(f) : j = 1 \/ j = 2
      BY <1>0
    <3>2. QED
      BY <1>2, <3>1 DEF Missing, InSink
  <2> HIDE DEF b
  <2>4. QED
    BY <2>1, <2>2, <2>3
<1>5. Passed(f, b).pos[2] = PassSink(SinkOf(f, mapping, co))
  <2>1. 2 \in Slots(f)
    BY <1>0
  <2>2. b.mapping = mapping /\ b.args = co
    BY DEF Bound
  <2> HIDE DEF b, co
  <2>3. QED
    BY <1>2, <2>1, <2>2 DEF Passed, InSink, Default
<1>6. got = [pos |-> Picked(co.pos, rest), named |-> Picked(co.named, Unmatched(f, co.named))]
  <2> HIDE DEF b, co
  <2>1. got = SinkOf(f, mapping, co)
    BY <1>4, <1>5 DEF PassSink, f
  <2>2. QED
    BY <2>1 DEF SinkOf
<1> HIDE DEF b, co
<1>7. /\ co.pos \in Seq(Value) /\ co.named \in NamedArgs
      /\ n \in Nat /\ DOMAIN co.pos = 1 .. n /\ m \in Nat /\ DOMAIN co.named = 1 .. m
  BY <1>3 DEF Arguments, NamedArgs
<1>8. args.pos \in Seq(Value) /\ args.named \in NamedArgs
  BY DEF Arguments, NamedArgs
<1>9. n = 1 + Len(args.pos)
  BY <1>0, <1>1, <1>3, <1>8
<1>10. Picked(co.pos, rest) = SubSeq(co.pos, 2, n)
  <2>1. \A x \in 1 .. n : x \in rest <=> 1 < x /\ x <= n
    <3> SUFFICES ASSUME NEW x \in 1 .. n
                 PROVE  (\A j \in DOMAIN mapping : mapping[j] # x) <=> 1 < x
      BY <1>7
    <3>1. DOMAIN mapping = 1 .. 2 /\ \A j \in 1 .. 2 : j = 1 \/ j = 2
      OBVIOUS
    <3>2. QED
      BY <1>2, <1>7, <3>1 DEF InSink
  <2> DEFINE lo == 1
             s == co.pos
  <2>2. lo \in 0 .. Len(s) /\ Len(s) \in lo .. Len(s) /\ s \in Seq(Value) /\ lo + 1 = 2
    BY <1>7, <1>8, <1>9
  <2>3. \A x \in 1 .. Len(s) : x \in rest <=> lo < x /\ x <= Len(s)
    BY <2>1
  <2> HIDE DEF lo, s, rest
  <2>4. Picked(s, rest) = SubSeq(s, lo + 1, Len(s))
    BY <2>2, <2>3, PickedPart
  <2>5. QED
    BY <2>2, <2>4 DEF s
<1> HIDE DEF rest
<1>11. got.pos \in Seq(Value) /\ Ids(got.pos) = Ids(args.pos)
  <2> DEFINE s == SubSeq(co.pos, 2, n)
             k == Len(args.pos)
  <2>0. k \in Nat /\ DOMAIN args.pos = 1 .. k /\ n = 1 + k
    BY <1>8, <1>9
  <2>1. s \in Seq(Value) /\ Len(s) = k /\ DOMAIN s = 1 .. k /\ \A i \in 1 .. k : s[i] = co.pos[i + 1]
    BY <1>7, <2>0
  <2>2. \A i \in 1 .. k : merged.pos[i + 1] = args.pos[i]
    BY <1>0, <1>1, <1>8
  <2>3. \A i \in 1 .. k : co.pos[i + 1].id = merged.pos[i + 1].id
    <3> SUFFICES ASSUME NEW i \in 1 .. k PROVE co.pos[i + 1].id = merged.pos[i + 1].id
      OBVIOUS
    <3>0. DOMAIN merged.pos = 1 .. Len(merged.pos)
      BY <1>1 DEF Arguments
    <3>1. i + 1 \in DOMAIN co.pos /\ i + 1 \in DOMAIN merged.pos
      BY <1>3, <1>7, <2>0, <3>0
    <3>2. Ids(co.pos)[i + 1] = co.pos[i + 1].id /\ Ids(merged.pos)[i + 1] = merged.pos[i + 1].id
      BY <3>1 DEF Ids
    <3>3. QED
      BY <1>3, <3>2
  <2> HIDE DEF s, k
  <2>4. Ids(s) = Ids(args.pos)
    BY <2>0, <2>1, <2>2, <2>3 DEF Ids
  <2>5. got.pos = s
    BY <1>6, <1>10 DEF s
  <2>6. QED
    BY <2>1, <2>4, <2>5
<1>12. got.named = co.named
  <2>1. Unmatched(f, co.named) = 1 .. m
    BY <1>0, <1>7 DEF Unmatched, Matched
  <2> DEFINE lo == 0
             s == co.named
             at == Unmatched(f, co.named)
             X == Idents \X Value
  <2>2. s \in Seq(X) /\ lo \in 0 .. Len(s) /\ Len(s) \in lo .. Len(s) /\ lo + 1 = 1
    BY <1>7 DEF NamedArgs
  <2>3. \A x \in 1 .. Len(s) : x \in at <=> lo < x /\ x <= Len(s)
    BY <1>7, <2>1
  <2>4. got.named = Picked(s, at)
    BY <1>6
  <2> HIDE DEF lo, s, at, X
  <2>5. Picked(s, at) = SubSeq(s, lo + 1, Len(s))
    BY <2>2, <2>3, PickedPart
  <2>6. SubSeq(s, 1, Len(s)) = s
    BY <2>2
  <2>7. QED
    BY <2>2, <2>4, <2>5, <2>6 DEF s
<1>13. Collects(merged.named, list)
  <2>1. Collects(<<>>, <<>>) /\ <<>> \in NamedArgs
    <3>1. <<>> \in NamedArgs /\ DOMAIN <<>> = {}
      BY DEF NamedArgs
    <3>2. QED
      BY <3>1 DEF Collects, NamedOnce, Names
  <2>2. Collects(PutAll(<<>>, args.named), <<>> \o list)
    BY <2>1, MergedCollects
  <2>3. <<>> \o list = list
    BY DEF NamedArgs
  <2>4. QED
    BY <1>1, <2>2, <2>3
<1>14. Collects(co.named, list)
  BY <1>3, <1>13, SameCollects
<1>15. got \in Arguments
  <2>1. got.named \in NamedArgs
    BY <1>7, <1>12
  <2>2. got = [pos |-> got.pos, named |-> got.named]
    BY <1>6
  <2>3. QED
    BY <1>11, <2>1, <2>2 DEF Arguments, NamedArgs
<1>16. QED
  BY <1>11, <1>12, <1>14, <1>15

-----------------------------------------------------------------------------
(* What the implementation sees.                                           *)

(***************************************************************************)
(* The parameters of a closure that are not named are its slots, in order. *)
(***************************************************************************)
LEMMA ClosureSlots ==
  ASSUME NEW f, IsClosure(f), f.closure # <<>>, NEW k, k = Len(f.closure)
  PROVE  /\ k \in Nat /\ DOMAIN f.closure = 1 .. k
         /\ SlotOf(f, 0) = 0 /\ SlotOf(f, k) = Len(f.params)
         /\ \A i \in 0 .. k : SlotOf(f, i) \in Nat
         /\ \A i \in 1 .. k :
              SlotOf(f, i) = IF IsNamedParam(f, i) THEN SlotOf(f, i - 1) ELSE SlotOf(f, i - 1) + 1
         /\ \A j \in 0 .. k : \A i \in 0 .. j : SlotOf(f, i) <= SlotOf(f, j)
<1> DEFINE unnamed(i) == {j \in 1 .. i : f.closure[j].kind # "named"}
<1>1. k \in Nat /\ DOMAIN f.closure = 1 .. k /\ SlotOf(f, k) = Len(f.params)
  BY DEF IsClosure
<1>2. \A i : SlotOf(f, i) = Cardinality(unnamed(i))
  BY DEF SlotOf
<1>3. \A i \in 0 .. k : IsFiniteSet(unnamed(i))
  <2> SUFFICES ASSUME NEW i \in 0 .. k PROVE IsFiniteSet(unnamed(i))
    OBVIOUS
  <2>1. IsFiniteSet(1 .. i) /\ unnamed(i) \in SUBSET (1 .. i)
    BY <1>1, FS_Interval
  <2> HIDE DEF unnamed
  <2>2. QED
    BY <2>1, FS_Subset
<1>4. SlotOf(f, 0) = 0
  <2>1. unnamed(0) = {}
    OBVIOUS
  <2> HIDE DEF unnamed
  <2>2. QED
    BY <1>2, <2>1, FS_EmptySet
<1>5. \A i \in 0 .. k : SlotOf(f, i) \in Nat
  <2> HIDE DEF unnamed
  <2>1. QED
    BY <1>2, <1>3, FS_CardinalityType
<1>6. ASSUME NEW i \in 1 .. k
      PROVE  SlotOf(f, i) = IF IsNamedParam(f, i) THEN SlotOf(f, i - 1) ELSE SlotOf(f, i - 1) + 1
  <2>1. 1 .. i = (1 .. i - 1) \cup {i} /\ i \notin 1 .. i - 1 /\ i - 1 \in 0 .. k
    BY <1>1
  <2>2. IsNamedParam(f, i) <=> f.closure[i].kind = "named"
    BY DEF IsNamedParam
  <2>3. CASE IsNamedParam(f, i)
    <3>1. unnamed(i) = unnamed(i - 1)
      BY <2>1, <2>2, <2>3
    <3> HIDE DEF unnamed
    <3>2. SlotOf(f, i) = SlotOf(f, i - 1)
      BY <1>2, <3>1
    <3>3. QED
      BY <2>3, <3>2
  <2>4. CASE ~IsNamedParam(f, i)
    <3>1. unnamed(i) = unnamed(i - 1) \cup {i} /\ i \notin unnamed(i - 1)
      BY <2>1, <2>2, <2>4
    <3> HIDE DEF unnamed
    <3>2. Cardinality(unnamed(i)) = Cardinality(unnamed(i - 1)) + 1
      BY <1>3, <2>1, <3>1, FS_AddElement
    <3>3. SlotOf(f, i) = SlotOf(f, i - 1) + 1
      BY <1>2, <3>2
    <3>4. QED
      BY <2>4, <3>3
  <2>5. QED
    BY <2>3, <2>4
<1>7. ASSUME NEW j \in 0 .. k, NEW i \in 0 .. j
      PROVE  SlotOf(f, i) <= SlotOf(f, j)
  <2>1. unnamed(i) \in SUBSET unnamed(j)
    BY <1>1
  <2> HIDE DEF unnamed
  <2>2. Cardinality(unnamed(i)) <= Cardinality(unnamed(j))
    BY <1>3, <2>1, FS_Subset
  <2>3. QED
    BY <1>2, <2>2
<1>8. QED
  BY <1>1, <1>4, <1>5, <1>6, <1>7

(***************************************************************************)
(* Every slot is one parameter of the closure.                             *)
(***************************************************************************)
LEMMA ClosureHasSlots ==
  ASSUME NEW f, IsClosure(f), f.closure # <<>>, NEW k, k = Len(f.closure)
  PROVE  /\ \A i \in 1 .. k : ~IsNamedParam(f, i) => SlotOf(f, i) \in 1 .. Len(f.params)
         /\ \A slot \in 1 .. Len(f.params) :
              \E i \in 1 .. k : ~IsNamedParam(f, i) /\ SlotOf(f, i) = slot
         /\ \A i, j \in 1 .. k :
              ~IsNamedParam(f, i) /\ ~IsNamedParam(f, j) /\ SlotOf(f, i) = SlotOf(f, j) => i = j
<1> DEFINE n == Len(f.params)
           at(i) == SlotOf(f, i)
<1>1. /\ k \in Nat
      /\ at(0) = 0 /\ at(k) = n
      /\ \A i \in 0 .. k : at(i) \in Nat
      /\ \A i \in 1 .. k : at(i) = IF IsNamedParam(f, i) THEN at(i - 1) ELSE at(i - 1) + 1
      /\ \A j \in 0 .. k : \A i \in 0 .. j : at(i) <= at(j)
  BY ClosureSlots
<1>2. n \in Nat
  <2>1. k \in 0 .. k
    BY <1>1
  <2>2. QED
    BY <1>1, <2>1
<1> HIDE DEF n, at
<1>3. ASSUME NEW i \in 1 .. k, ~IsNamedParam(f, i)
      PROVE  at(i) \in 1 .. n
  <2>1. i \in 0 .. k /\ i - 1 \in 0 .. k /\ k \in 0 .. k /\ i \in 0 .. k
    BY <1>1
  <2>2. at(i) = at(i - 1) + 1 /\ at(i - 1) \in Nat /\ at(i) <= n
    BY <1>1, <1>3, <2>1
  <2>3. QED
    BY <1>2, <2>2
<1>4. ASSUME NEW slot \in 1 .. n
      PROVE  \E i \in 1 .. k : ~IsNamedParam(f, i) /\ at(i) = slot
  <2> DEFINE S == {i \in 0 .. k : slot <= at(i)}
  <2>1. k \in S /\ S \in SUBSET Nat
    BY <1>1, <1>2
  <2>2. PICK i \in S : \A j \in S : i <= j
    <3> HIDE DEF S
    <3>1. QED
      BY <2>1, LeastNatural
  <2>3. i \in 0 .. k /\ slot <= at(i) /\ i # 0
    BY <1>1, <2>2
  <2>4. i \in 1 .. k /\ i - 1 \in 0 .. k /\ i - 1 < i
    BY <1>1, <2>3
  <2>5. at(i - 1) < slot
    <3>1. i - 1 \notin S
      BY <2>2, <2>4
    <3>2. QED
      BY <1>1, <1>2, <2>4, <3>1
  <2>6. ~IsNamedParam(f, i)
    BY <1>1, <1>2, <2>3, <2>4, <2>5
  <2>7. at(i) = slot
    BY <1>1, <1>2, <2>3, <2>4, <2>5, <2>6
  <2>8. QED
    BY <2>4, <2>6, <2>7
<1>5. ASSUME NEW i \in 1 .. k, NEW j \in 1 .. k, i < j, ~IsNamedParam(f, j)
      PROVE  at(i) < at(j)
  <2>1. i \in 0 .. j - 1 /\ j - 1 \in 0 .. k /\ i \in 0 .. k
    BY <1>1, <1>5
  <2>2. at(i) <= at(j - 1) /\ at(j) = at(j - 1) + 1 /\ at(i) \in Nat /\ at(j - 1) \in Nat
    BY <1>1, <1>5, <2>1
  <2>3. QED
    BY <2>2
<1>6. ASSUME NEW i \in 1 .. k, NEW j \in 1 .. k, ~IsNamedParam(f, i), ~IsNamedParam(f, j), at(i) = at(j)
      PROVE  i = j
  <2>1. at(i) \in 1 .. n
    BY <1>3, <1>6
  <2>2. ~(at(i) < at(j)) /\ ~(at(j) < at(i))
    BY <1>2, <1>6, <2>1
  <2>3. ~(i < j) /\ ~(j < i)
    BY <1>5, <1>6, <2>2
  <2>4. QED
    BY <1>1, <2>3
<1>7. QED
  BY <1>3, <1>4, <1>6 DEF n, at

\* No parameter is left without an argument.
NoneMissing(f, mapping) == \A j \in Slots(f) : mapping[j] # Missing

\* What the implementation of a function sees, and in it the positions.
SeenBy(f, p) == IF f.closure = <<>> THEN p ELSE [pos |-> Route(f, p), named |-> <<>>]
SeenPieces(f, pos) == [i \in DOMAIN pos |-> IF IsNamedParam(f, i) THEN <<>> ELSE pos[i].args.pos]

\* It sees all positions, in order.
AllSeen(f, seen, pos) == FlattenSeq(SeenPieces(f, seen.pos)) = pos

(***************************************************************************)
(* From the first parameter to the last it sees all positional arguments.  *)
(***************************************************************************)
LEMMA SeesPositions ==
  ASSUME NEW f, IsFunction(f), f.closure # <<>> => IsClosure(f),
         NEW args \in Arguments, NEW mapping \in [Slots(f) -> Int],
         NEW c, Cut(c, f, mapping, Len(args.pos)), NoneMissing(f, mapping),
         NEW p, p = Passed(f, Bound(args, mapping)),
         NEW seen, seen = SeenBy(f, p)
  PROVE  AllSeen(f, seen, args.pos)
<1> DEFINE n == Len(f.params)
           m == Len(args.pos)
           pos == args.pos
           V == Seq(Value)
           pieces == SeenPieces(f, seen.pos)
<1>1. /\ n \in Nat /\ Slots(f) = 1 .. n
      /\ pos \in Seq(Value) /\ m \in Nat /\ m = Len(pos)
  BY Shape DEF Arguments
<1>2. DOMAIN p.pos = 1 .. n
  BY <1>1 DEF Passed
<1>3. /\ c \in [0 .. n -> 0 .. m] /\ c[0] = 0 /\ c[n] = m
      /\ \A j \in 1 .. n : c[j - 1] <= c[j]
  <2>1. c \in [0 .. n -> 0 .. m] /\ c[0] = 0 /\ c[n] = m
    BY DEF Cut
  <2>2. \A k \in 0 .. n : \A j \in 0 .. k : c[j] <= c[k]
    BY <1>1, CutGrows
  <2>3. \A j \in 1 .. n : j \in 0 .. n /\ j - 1 \in 0 .. j
    BY <1>1
  <2>4. QED
    BY <2>1, <2>2, <2>3
<1>4. \A j \in 1 .. n : p.pos[j].args.pos = SubSeq(pos, c[j - 1] + 1, c[j])
  <2> SUFFICES ASSUME NEW j \in 1 .. n PROVE p.pos[j].args.pos = SubSeq(pos, c[j - 1] + 1, c[j])
    OBVIOUS
  <2>1. j \in Slots(f) /\ mapping[j] # Missing /\ m = Len(args.pos) /\ Cut(c, f, mapping, m)
    BY <1>1 DEF NoneMissing
  <2> HIDE DEF m
  <2>2. Passed(f, Bound(args, mapping)).pos[j].args.pos = SubSeq(args.pos, c[j - 1] + 1, c[j])
    BY <2>1, PassedPieces, SMTT(30)
  <2>3. QED
    BY <2>2
<1>5. \A a, b \in 0 .. m : SubSeq(pos, a + 1, b) \in V
  <2> SUFFICES ASSUME NEW a \in 0 .. m, NEW b \in 0 .. m PROVE SubSeq(pos, a + 1, b) \in V
    OBVIOUS
  <2> DEFINE lo == a + 1
  <2>1. lo \in Nat \ {0} /\ b <= m /\ b \in Nat
    BY <1>1
  <2> HIDE DEF lo
  <2>2. SubSeq(pos, lo, b) \in Seq(Value)
    BY <1>1, <2>1
  <2>3. QED
    BY <2>2 DEF lo
<1> HIDE DEF n, m, pos, V
<1>6. CASE f.closure = <<>>
  <2>1. seen.pos = p.pos /\ \A i : ~IsNamedParam(f, i)
    BY <1>6 DEF SeenBy, IsNamedParam
  <2>2. pieces = [i \in 1 .. n |-> p.pos[i].args.pos]
    BY <1>2, <2>1 DEF SeenPieces
  <2> HIDE DEF pieces
  <2>3. \A i \in 1 .. n : pieces[i] = SubSeq(pos, c[i - 1] + 1, c[i])
    BY <1>4, <2>2
  <2>4. \A i \in 1 .. n : pieces[i] \in V
    <3> SUFFICES ASSUME NEW i \in 1 .. n PROVE pieces[i] \in V
      OBVIOUS
    <3>1. i \in 0 .. n /\ i - 1 \in 0 .. n
      BY <1>1
    <3>2. c[i] \in 0 .. m /\ c[i - 1] \in 0 .. m
      BY <1>3, <3>1
    <3>3. QED
      BY <1>5, <2>3, <3>2
  <2>5. pieces = [i \in 1 .. n |-> pieces[i]]
    BY <2>2
  <2>6. pieces \in Seq(V) /\ Len(pieces) = n
    BY <1>1, <2>4, <2>5, MakesSequence
  <2>7. pieces \in Seq(Seq(Value))
    BY <2>6 DEF V
  <2>8. FlattenSeq(pieces) = pos
    BY <1>1, <1>3, <2>3, <2>6, <2>7, PiecesMakeWhole
  <2>9. QED
    BY <2>8 DEF pieces, pos, AllSeen
<1>7. CASE f.closure # <<>>
  <2> DEFINE k == Len(f.closure)
             at(i) == SlotOf(f, i)
             d == [i \in 0 .. k |-> c[at(i)]]
  <2>1. /\ k \in Nat /\ DOMAIN f.closure = 1 .. k
        /\ at(0) = 0 /\ at(k) = n
        /\ \A i \in 0 .. k : at(i) \in Nat
        /\ \A i \in 1 .. k : at(i) = IF IsNamedParam(f, i) THEN at(i - 1) ELSE at(i - 1) + 1
        /\ \A j \in 0 .. k : \A i \in 0 .. j : at(i) <= at(j)
    BY <1>7, ClosureSlots DEF n
  <2>2. pieces = [i \in 1 .. k |-> IF IsNamedParam(f, i) THEN <<>> ELSE p.pos[at(i)].args.pos]
    <3>1. seen.pos = Route(f, p)
      BY <1>7 DEF SeenBy
    <3>2. DOMAIN seen.pos = 1 .. k
      BY <2>1, <3>1 DEF Route
    <3>3. \A i \in 1 .. k : ~IsNamedParam(f, i) => seen.pos[i] = p.pos[at(i)]
      BY <2>1, <3>1 DEF Route
    <3> HIDE DEF k, at
    <3>4. QED
      BY <3>2, <3>3 DEF SeenPieces
  <2> HIDE DEF k, at, pieces
  <2>3. \A i \in 0 .. k : at(i) \in 0 .. n
    <3> SUFFICES ASSUME NEW i \in 0 .. k PROVE at(i) \in 0 .. n
      OBVIOUS
    <3>1. k \in 0 .. k /\ i \in 0 .. k
      BY <2>1
    <3>2. at(i) <= n /\ at(i) \in Nat
      BY <2>1, <3>1
    <3>3. QED
      BY <1>1, <3>2
  <2>4. \A i \in 0 .. k : d[i] = c[at(i)] /\ d[i] \in 0 .. m
    BY <1>3, <2>3
  <2>5. d[0] = 0 /\ d[k] = m
    BY <1>3, <2>1
  <2>6. ASSUME NEW i \in 1 .. k
        PROVE  d[i - 1] <= d[i] /\ pieces[i] = SubSeq(pos, d[i - 1] + 1, d[i]) /\ pieces[i] \in V
    <3>1. i \in 0 .. k /\ i - 1 \in 0 .. k
      BY <2>1
    <3>2. d[i] \in 0 .. m /\ d[i - 1] \in 0 .. m /\ d[i] = c[at(i)] /\ d[i - 1] = c[at(i - 1)]
      BY <2>4, <3>1
    <3>3. CASE IsNamedParam(f, i)
      <4>1. d[i] = d[i - 1]
        BY <2>1, <3>2, <3>3
      <4>2. pieces[i] = <<>>
        BY <2>2, <3>3
      <4>3. SubSeq(pos, d[i] + 1, d[i]) = <<>>
        BY <1>1, <3>2
      <4>4. d[i - 1] <= d[i]
        BY <1>1, <3>2, <4>1
      <4>5. <<>> \in V
        BY DEF V
      <4> HIDE DEF d
      <4>6. QED
        BY <4>1, <4>2, <4>3, <4>4, <4>5
    <3>4. CASE ~IsNamedParam(f, i)
      <4>1. at(i) = at(i - 1) + 1 /\ at(i) \in 0 .. n /\ at(i - 1) \in 0 .. n
        BY <2>1, <2>3, <3>1, <3>4
      <4>2. at(i) \in 1 .. n /\ at(i) - 1 = at(i - 1)
        <5> DEFINE x == at(i)
                   y == at(i - 1)
        <5>1. x = y + 1 /\ x \in 0 .. n /\ y \in 0 .. n
          BY <4>1
        <5> HIDE DEF x, y
        <5>2. x \in 1 .. n /\ x - 1 = y
          BY <1>1, <5>1
        <5>3. QED
          BY <5>2 DEF x, y
      <4>3. pieces[i] = p.pos[at(i)].args.pos
        BY <2>2, <3>4
      <4>4. c[at(i - 1)] <= c[at(i)] /\ p.pos[at(i)].args.pos = SubSeq(pos, c[at(i - 1)] + 1, c[at(i)])
        <5> DEFINE j == at(i)
        <5>1. j \in 1 .. n /\ j - 1 = at(i - 1)
          BY <4>2
        <5> HIDE DEF j
        <5>2. c[j - 1] <= c[j] /\ p.pos[j].args.pos = SubSeq(pos, c[j - 1] + 1, c[j])
          BY <1>3, <1>4, <5>1
        <5>3. QED
          BY <5>1, <5>2 DEF j
      <4> HIDE DEF d
      <4>5. d[i - 1] <= d[i] /\ pieces[i] = SubSeq(pos, d[i - 1] + 1, d[i])
        BY <3>2, <4>3, <4>4
      <4>6. QED
        BY <1>5, <3>2, <4>5
    <3>5. QED
      BY <3>3, <3>4
  <2>7. pieces = [i \in 1 .. k |-> pieces[i]]
    BY <2>2
  <2>8. pieces \in Seq(V) /\ Len(pieces) = k
    BY <2>1, <2>6, <2>7, MakesSequence
  <2>9. pieces \in Seq(Seq(Value))
    BY <2>8 DEF V
  <2>10. d \in [0 .. k -> 0 .. m]
    BY <2>4
  <2> HIDE DEF d
  <2>11. FlattenSeq(pieces) = pos
    BY <1>1, <2>5, <2>6, <2>8, <2>9, <2>10, PiecesMakeWhole
  <2>12. QED
    BY <2>11 DEF pieces, pos, AllSeen
<1>8. QED
  BY <1>6, <1>7

\* The sink has all of some names, another parameter none.
IfSink(f, j, names) == IF j = f.sink THEN names ELSE {}

NamedPieces(f, pos) ==
  [i \in DOMAIN pos |->
     IF IsNamedParam(f, i) /\ pos[i].by = "value" THEN << <<f.closure[i].name, pos[i].args.pos[1]>> >>
     ELSE pos[i].args.named]

(***************************************************************************)
(* A named parameter of a closure sees the value that has its name.        *)
(***************************************************************************)
LEMMA ClosureSeesName ==
  ASSUME NEW f, NEW p, NEW list, NEW own, Gathers(p.named, own, list),
         NEW i \in DOMAIN f.closure, IsNamedParam(f, i), f.closure[i].name \in Idents,
         NEW name, name = f.closure[i].name,
         NEW seen, seen = Route(f, p)
  PROVE  Gathers(NamedPieces(f, seen)[i], own \cap {name}, list)
<1>1. Names(p.named) = own /\ p.named \in NamedArgs
  BY DEF Gathers
<1>2. DOMAIN seen = DOMAIN f.closure
  BY DEF Route
<1>3. seen[i] = IF name \in own THEN PassValue(Named(p.named, name)) ELSE PassDefault
  BY <1>1 DEF Route
<1>4. NamedPieces(f, seen)[i] = IF seen[i].by = "value" THEN << <<name, seen[i].args.pos[1]>> >>
                                ELSE seen[i].args.named
  BY <1>2 DEF NamedPieces
<1>5. CASE name \in own
  <2> DEFINE value == Named(p.named, name)
             k == CHOOSE x \in DOMAIN p.named : p.named[x][1] = name
             e == <<name, value>>
  <2>1. k \in DOMAIN p.named /\ p.named[k][1] = name
    BY <1>1, <1>5 DEF Names
  <2>2. value = p.named[k][2]
    BY DEF Named
  <2>3. p.named[k] \in Idents \X Value
    <3> DEFINE X == Idents \X Value
    <3>1. p.named \in Seq(X)
      BY <1>1 DEF NamedArgs
    <3> HIDE DEF X, k
    <3>2. p.named[k] \in X
      BY <2>1, <3>1
    <3>3. QED
      BY <3>2 DEF X
  <2>4. value \in Value /\ value.id = LastId(list, name)
    <3> HIDE DEF k, value
    <3>1. p.named[k][2] \in Value
      BY <2>3
    <3>2. p.named[k][2].id = LastId(list, p.named[k][1])
      BY <2>1 DEF Gathers
    <3>3. QED
      BY <2>1, <2>2, <3>1, <3>2
  <2>5. NamedPieces(f, seen)[i] = <<e>>
    <3> HIDE DEF value
    <3>1. seen[i].by = "value" /\ seen[i].args.pos[1] = value
      BY <1>3, <1>5 DEF PassValue, value
    <3>2. QED
      BY <1>4, <3>1
  <2> HIDE DEF value
  <2>6. e \in Idents \X Value /\ e[1] = name /\ e[2] = value
    BY <2>4
  <2> HIDE DEF e
  <2>7. Gathers(<<e>>, {e[1]}, list)
    BY <2>4, <2>6, OneGathers
  <2>8. own \cap {name} = {e[1]}
    BY <1>5, <2>6
  <2>9. QED
    BY <2>5, <2>7, <2>8
<1>6. CASE name \notin own
  <2>1. seen[i] = PassDefault
    BY <1>3, <1>6
  <2>2. NamedPieces(f, seen)[i] = <<>>
    BY <1>4, <2>1 DEF PassDefault, NoArguments
  <2>3. own \cap {name} = {}
    BY <1>6
  <2>4. QED
    BY <2>2, <2>3, NothingGathers
<1>7. QED
  BY <1>5, <1>6

(***************************************************************************)
(* The parameters of a closure see their names and its sink the others.    *)
(***************************************************************************)
LEMMA ClosureSeesNames ==
  ASSUME NEW f, IsFunction(f), IsClosure(f), f.closure # <<>>,
         NEW p, NEW list, NEW own, NEW other,
         own \cup other = Names(list),
         own \subseteq DOMAIN f.named, other \cap DOMAIN f.named = {}, f.sink = 0 => other = {},
         Gathers(p.named, own, list),
         \A j \in Slots(f) : Gathers(p.pos[j].args.named, IfSink(f, j, other), list),
         NEW pieces, pieces = NamedPieces(f, Route(f, p))
  PROVE  Gathers(FlattenSeq(pieces), Names(list), list)
<1> DEFINE k == Len(f.closure)
           n == Len(f.params)
           name(i) == f.closure[i].name
           at(i) == SlotOf(f, i)
           names == [i \in 1 .. k |-> IF IsNamedParam(f, i) THEN own \cap {name(i)}
                                      ELSE IfSink(f, at(i), other)]
<1>1. k \in Nat /\ DOMAIN f.closure = 1 .. k /\ Slots(f) = 1 .. n
  BY ClosureSlots, Shape
<1>2. /\ \A i \in 1 .. k : ~IsNamedParam(f, i) => at(i) \in 1 .. n
      /\ \A slot \in 1 .. n : \E i \in 1 .. k : ~IsNamedParam(f, i) /\ at(i) = slot
      /\ \A i, j \in 1 .. k : ~IsNamedParam(f, i) /\ ~IsNamedParam(f, j) /\ at(i) = at(j) => i = j
  BY ClosureHasSlots
<1>3. /\ \A i \in 1 .. k : name(i) \in Idents
      /\ DOMAIN f.named = {name(i) : i \in {j \in 1 .. k : IsNamedParam(f, j)}}
      /\ \A i, j \in 1 .. k :
           IsNamedParam(f, i) /\ IsNamedParam(f, j) /\ name(i) = name(j) => i = j
  <2>1. \A i \in 1 .. k : name(i) \in Idents
    <3> DEFINE P == [kind : {"positional", "named", "sink"}, name : Idents]
    <3>1. f.closure \in Seq(P)
      BY DEF IsClosure
    <3>2. \A x \in P : x.name \in Idents
      OBVIOUS
    <3> HIDE DEF P, k
    <3>3. \A i \in 1 .. k : f.closure[i] \in P
      BY <1>1, <3>1
    <3>4. QED
      BY <3>2, <3>3
  <2>2. DOMAIN f.named = {name(i) : i \in {j \in 1 .. k : IsNamedParam(f, j)}}
    BY <1>1 DEF IsClosure
  <2>3. \A i, j \in 1 .. k :
          IsNamedParam(f, i) /\ IsNamedParam(f, j) /\ name(i) = name(j) => i = j
    BY <1>1 DEF IsClosure
  <2>4. QED
    BY <2>1, <2>2, <2>3
<1>4. f.sink \in 0 .. n
  BY DEF IsFunction
<1>5. DOMAIN pieces = 1 .. k /\ pieces = [i \in 1 .. k |-> pieces[i]]
  BY <1>1 DEF NamedPieces, Route
<1>6. ASSUME NEW i \in 1 .. k, ~IsNamedParam(f, i)
      PROVE  pieces[i] = p.pos[at(i)].args.named
  BY <1>1, <1>6 DEF NamedPieces, Route
<1> HIDE DEF k, n, at, name
<1>7. ASSUME NEW i \in 1 .. k
      PROVE  Gathers(pieces[i], names[i], list)
  <2>1. CASE IsNamedParam(f, i)
    <3>1. names[i] = own \cap {name(i)}
      BY <2>1
    <3>2. Gathers(NamedPieces(f, Route(f, p))[i], own \cap {name(i)}, list)
      BY <1>1, <1>3, <2>1, ClosureSeesName DEF name
    <3>3. QED
      BY <3>1, <3>2
  <2>2. CASE ~IsNamedParam(f, i)
    <3>1. names[i] = IfSink(f, at(i), other)
      BY <2>2
    <3>2. at(i) \in Slots(f)
      BY <1>1, <1>2, <2>2
    <3>3. pieces[i] = p.pos[at(i)].args.named
      BY <1>6, <2>2
    <3> HIDE DEF names
    <3>4. Gathers(p.pos[at(i)].args.named, IfSink(f, at(i), other), list)
      BY <3>2
    <3>5. QED
      BY <3>1, <3>3, <3>4
  <2>3. QED
    BY <2>1, <2>2
<1>8. pieces \in Seq(NamedArgs) /\ Len(pieces) = k
  <2>1. \A i \in 1 .. k : pieces[i] \in NamedArgs
    BY <1>7 DEF Gathers
  <2>2. QED
    BY <1>1, <1>5, <2>1, MakesSequence
<1>9. ASSUME NEW i \in 1 .. k, NEW j \in 1 .. k, i # j
      PROVE  names[i] \cap names[j] = {}
  <2>1. \A x \in 1 .. k : IsNamedParam(f, x) => name(x) \in DOMAIN f.named /\ names[x] \subseteq {name(x)}
    BY <1>3
  <2>2. \A x \in 1 .. k : ~IsNamedParam(f, x) =>
          names[x] \subseteq other /\ (at(x) # f.sink => names[x] = {})
    BY DEF IfSink
  <2> HIDE DEF names
  <2>3. CASE IsNamedParam(f, i) /\ IsNamedParam(f, j)
    BY <1>3, <1>9, <2>1, <2>3
  <2>4. CASE IsNamedParam(f, i) /\ ~IsNamedParam(f, j)
    <3>1. names[i] \subseteq DOMAIN f.named /\ names[j] \subseteq other
      BY <2>1, <2>2, <2>4
    <3>2. QED
      BY <3>1
  <2>5. CASE ~IsNamedParam(f, i) /\ IsNamedParam(f, j)
    <3>1. names[j] \subseteq DOMAIN f.named /\ names[i] \subseteq other
      BY <2>1, <2>2, <2>5
    <3>2. QED
      BY <3>1
  <2>6. CASE ~IsNamedParam(f, i) /\ ~IsNamedParam(f, j)
    <3>1. at(i) # f.sink \/ at(j) # f.sink
      BY <1>2, <1>9, <2>6
    <3>2. names[i] = {} \/ names[j] = {}
      BY <2>2, <2>6, <3>1
    <3>3. QED
      BY <3>2
  <2>7. QED
    BY <2>3, <2>4, <2>5, <2>6
<1>10. UNION {names[i] : i \in 1 .. k} = Names(list)
  <2>1. \A i \in 1 .. k : names[i] \subseteq own \cup other
    BY DEF IfSink
  <2>2. ASSUME NEW x \in own
        PROVE  \E i \in 1 .. k : x \in names[i]
    <3>1. PICK i \in 1 .. k : IsNamedParam(f, i) /\ name(i) = x
      BY <1>3
    <3>2. x \in names[i]
      BY <3>1
    <3>3. QED
      BY <3>2
  <2>3. ASSUME NEW x \in other
        PROVE  \E i \in 1 .. k : x \in names[i]
    <3>1. f.sink \in 1 .. n
      BY <1>4, <2>3
    <3>2. PICK i \in 1 .. k : ~IsNamedParam(f, i) /\ at(i) = f.sink
      BY <1>2, <3>1
    <3>3. x \in names[i]
      BY <3>2 DEF IfSink
    <3>4. QED
      BY <3>3
  <2> HIDE DEF names
  <2>4. QED
    BY <2>1, <2>2, <2>3
<1> HIDE DEF names
<1>11. Gathers(FlattenSeq(pieces), UNION {names[i] : i \in 1 .. k}, list)
  BY <1>7, <1>8, <1>9, AllGather
<1>12. QED
  BY <1>10, <1>11

(***************************************************************************)
(* The implementation of a builtin sees its own names apart from those in  *)
(* the sink.                                                               *)
(***************************************************************************)
LEMMA BuiltinSeesNames ==
  ASSUME NEW f, IsFunction(f), f.closure = <<>>,
         NEW p, DOMAIN p.pos = Slots(f), NEW list, NEW own, NEW other,
         own \cup other = Names(list), own \cap other = {}, f.sink = 0 => other = {},
         Gathers(p.named, own, list),
         \A j \in Slots(f) : Gathers(p.pos[j].args.named, IfSink(f, j, other), list),
         NEW pieces, pieces = NamedPieces(f, p.pos)
  PROVE  Gathers(p.named \o FlattenSeq(pieces), Names(list), list)
<1> DEFINE n == Len(f.params)
           names == [j \in 1 .. n |-> IfSink(f, j, other)]
<1>1. n \in Nat /\ Slots(f) = 1 .. n /\ f.sink \in 0 .. n
  BY Shape DEF IsFunction
<1>2. pieces = [i \in 1 .. n |-> p.pos[i].args.named]
  <2>1. \A i : ~IsNamedParam(f, i)
    BY DEF IsNamedParam
  <2>2. QED
    BY <1>1, <2>1 DEF NamedPieces
<1> HIDE DEF n
<1>3. \A i \in 1 .. n : Gathers(pieces[i], names[i], list)
  BY <1>1, <1>2
<1>4. \A i, j \in 1 .. n : i # j => names[i] \cap names[j] = {}
  BY DEF IfSink
<1>5. UNION {names[i] : i \in 1 .. n} = other
  <2>1. \A i \in 1 .. n : names[i] \subseteq other
    BY DEF IfSink
  <2>2. other # {} => f.sink \in 1 .. n /\ names[f.sink] = other
    BY <1>1 DEF IfSink
  <2> HIDE DEF names
  <2>3. QED
    BY <2>1, <2>2
<1> HIDE DEF names
<1>6. pieces \in Seq(NamedArgs) /\ Len(pieces) = n
  <2>1. \A i \in 1 .. n : pieces[i] \in NamedArgs
    BY <1>3 DEF Gathers
  <2>2. pieces = [i \in 1 .. n |-> pieces[i]]
    BY <1>2
  <2>3. QED
    BY <1>1, <2>1, <2>2, MakesSequence
<1>7. Gathers(FlattenSeq(pieces), UNION {names[i] : i \in 1 .. n}, list)
  BY <1>3, <1>4, <1>6, AllGather
<1>8. Gathers(p.named \o FlattenSeq(pieces), own \cup other, list)
  BY <1>5, <1>7, BothGather
<1>9. QED
  BY <1>8

(***************************************************************************)
(* An implementation sees every name that was passed.  The parameters and  *)
(* the sink share them.                                                    *)
(***************************************************************************)
LEMMA SeesNames ==
  ASSUME NEW f, IsFunction(f), f.closure # <<>> => IsClosure(f),
         NEW args \in Arguments, NEW mapping \in [Slots(f) -> Int],
         NEW c, Cut(c, f, mapping, Len(args.pos)),
         NEW p, p = Passed(f, Bound(args, mapping)),
         NEW list, Gathers(args.named, Names(list), list),
         f.sink = 0 => \A i \in DOMAIN args.named : args.named[i][1] \in DOMAIN f.named,
         NEW seen, seen = SeenBy(f, p)
  PROVE  Gathers(seen.named \o FlattenSeq(NamedPieces(f, seen.pos)), Names(list), list)
<1> DEFINE named == args.named
           matched == Matched(f, named)
           unmatched == Unmatched(f, named)
           n == Len(f.params)
           m == Len(args.pos)
           own == {named[i][1] : i \in matched}
           other == {named[i][1] : i \in unmatched}
<1>1. matched \in SUBSET DOMAIN named /\ unmatched = DOMAIN named \ matched
  BY DEF Matched, Unmatched
<1>2. \A i \in DOMAIN named : i \in matched <=> named[i][1] \in DOMAIN f.named
  BY DEF Matched
<1> HIDE DEF matched, unmatched
<1>4. own \cup other = Names(list)
  <2>1. Names(named) = Names(list)
    BY DEF Gathers
  <2>2. own \cup other = Names(named)
    BY <1>1 DEF Names
  <2>3. QED
    BY <2>1, <2>2
<1>5. own \subseteq DOMAIN f.named /\ other \cap DOMAIN f.named = {}
  BY <1>1, <1>2
<1>6. f.sink = 0 => other = {}
  BY <1>1, <1>2
<1>7. p.named = Picked(named, matched)
  BY DEF Passed, Bound, matched
<1>8. Gathers(Picked(named, matched), own, list)
  <2> HIDE DEF named
  <2>1. Gathers(named, Names(list), list) /\ matched \in SUBSET DOMAIN named
    BY <1>1 DEF named
  <2>2. QED
    BY <2>1, PickedGathers
<1>9. Gathers(Picked(named, unmatched), other, list)
  <2> HIDE DEF named
  <2>1. Gathers(named, Names(list), list) /\ unmatched \in SUBSET DOMAIN named
    BY <1>1 DEF named
  <2>2. QED
    BY <2>1, PickedGathers
<1>10. ASSUME NEW j \in Slots(f)
       PROVE  Gathers(p.pos[j].args.named, IfSink(f, j, other), list)
  <2>0. n \in Nat /\ Slots(f) = 1 .. n /\ m \in Nat
    BY Shape DEF Arguments
  <2>1. p.pos[j] = CASE mapping[j] = InSink -> PassSink(SinkOf(f, mapping, args))
                     [] mapping[j] = Default -> PassDefault
                     [] OTHER -> PassValue(args.pos[mapping[j]])
    BY DEF Passed, Bound
  <2>2. CASE j = f.sink
    <3>1. mapping[j] = InSink
      BY <2>2 DEF Cut
    <3>2. p.pos[j] = PassSink(SinkOf(f, mapping, args))
      BY <2>1, <3>1 DEF InSink, Default
    <3>3. p.pos[j].args.named = Picked(named, unmatched)
      BY <3>2 DEF PassSink, SinkOf, unmatched
    <3>4. IfSink(f, j, other) = other
      BY <2>2 DEF IfSink
    <3>5. QED
      BY <1>9, <3>3, <3>4
  <2>3. CASE j # f.sink
    <3>1. TakesNone(c, mapping, j) \/ TakesOne(c, mapping, j)
      BY <2>3 DEF Cut
    <3>2. mapping[j] # InSink
      <4>1. CASE TakesNone(c, mapping, j)
        BY <4>1 DEF TakesNone, Missing, Default, InSink
      <4>2. CASE TakesOne(c, mapping, j)
        <5>1. j \in 0 .. n
          BY <2>0
        <5>2. c[j] \in Nat
          BY <5>1 DEF Cut
        <5>3. mapping[j] = c[j]
          BY <4>2 DEF TakesOne
        <5>4. QED
          BY <5>2, <5>3 DEF InSink
      <4>3. QED
        BY <3>1, <4>1, <4>2
    <3>3. p.pos[j] = PassDefault \/ p.pos[j] = PassValue(args.pos[mapping[j]])
      BY <2>1, <3>2
    <3>4. p.pos[j].args.named = <<>>
      BY <3>3 DEF PassDefault, PassValue, NoArguments
    <3>5. IfSink(f, j, other) = {}
      BY <2>3 DEF IfSink
    <3>6. QED
      BY <3>4, <3>5, NothingGathers
  <2>4. QED
    BY <2>2, <2>3
<1> HIDE DEF own, other
<1>11. DOMAIN p.pos = Slots(f)
  BY DEF Passed
<1>12. CASE f.closure # <<>>
  <2> DEFINE pieces == NamedPieces(f, seen.pos)
  <2>1. seen.named = <<>> /\ seen.pos = Route(f, p)
    BY <1>12 DEF SeenBy
  <2>2. pieces = NamedPieces(f, Route(f, p)) /\ IsClosure(f)
    BY <1>12, <2>1
  <2>3. Gathers(p.named, own, list)
    BY <1>7, <1>8
  <2> HIDE DEF pieces
  <2>4. Gathers(FlattenSeq(pieces), Names(list), list)
    BY <1>4, <1>5, <1>6, <1>10, <1>12, <2>2, <2>3, ClosureSeesNames
  <2>5. <<>> \o FlattenSeq(pieces) = FlattenSeq(pieces)
    BY <2>4 DEF Gathers, NamedArgs
  <2>6. QED
    BY <2>1, <2>4, <2>5 DEF pieces
<1>13. CASE f.closure = <<>>
  <2> DEFINE pieces == NamedPieces(f, p.pos)
  <2>1. seen = p
    BY <1>13 DEF SeenBy
  <2>2. own \cap other = {}
    BY <1>5
  <2>3. Gathers(p.named, own, list)
    BY <1>7, <1>8
  <2> HIDE DEF pieces
  <2>4. Gathers(p.named \o FlattenSeq(pieces), Names(list), list)
    BY <1>4, <1>6, <1>10, <1>11, <1>13, <2>2, <2>3, BuiltinSeesNames DEF pieces
  <2>5. QED
    BY <2>1, <2>4 DEF pieces
<1>14. QED
  BY <1>12, <1>13

-----------------------------------------------------------------------------
(* What was supplied.                                                      *)

(***************************************************************************)
(* What is given ahead comes before what is written in the call.           *)
(***************************************************************************)
LEMMA SuppliedLists ==
  ASSUME NEW v \in Seq(Spelt), NEW w \in Seq(Spelt)
  PROVE  /\ v \o w \in Seq(Spelt)
         /\ FlattenSeq(PosOf(v)) \in Seq(Value) /\ FlattenSeq(PosOf(w)) \in Seq(Value)
         /\ FlattenSeq(PosOf(v \o w)) = FlattenSeq(PosOf(v)) \o FlattenSeq(PosOf(w))
         /\ FlattenSeq(NamedOf(v)) \in NamedArgs /\ FlattenSeq(NamedOf(w)) \in NamedArgs
         /\ FlattenSeq(NamedOf(v \o w)) = FlattenSeq(NamedOf(v)) \o FlattenSeq(NamedOf(w))
<1> DEFINE vw == v \o w
           X == Idents \X Value
           V == Seq(Value)
           n == Len(v)
           m == Len(w)
<1>1. /\ vw \in Seq(Spelt) /\ n \in Nat /\ m \in Nat /\ Len(vw) = n + m
      /\ \A i \in 1 .. n : vw[i] = v[i]
      /\ \A i \in n + 1 .. n + m : vw[i] = w[i - n]
  BY ConcatEntries
<1> HIDE DEF vw, n, m
<1>2. /\ PosOf(v) \in Seq(V) /\ PosOf(w) \in Seq(V) /\ PosOf(vw) \in Seq(V)
      /\ Len(PosOf(v)) = n /\ Len(PosOf(w)) = m /\ Len(PosOf(vw)) = n + m
      /\ \A k \in 1 .. n : PosOf(v)[k] = v[k].args.pos
      /\ \A k \in 1 .. m : PosOf(w)[k] = w[k].args.pos
      /\ \A k \in 1 .. n + m : PosOf(vw)[k] = vw[k].args.pos
  BY <1>1, WrittenLists DEF n, m
<1>3. /\ NamedOf(v) \in Seq(NamedArgs) /\ NamedOf(w) \in Seq(NamedArgs) /\ NamedOf(vw) \in Seq(NamedArgs)
      /\ Len(NamedOf(v)) = n /\ Len(NamedOf(w)) = m /\ Len(NamedOf(vw)) = n + m
      /\ \A k \in 1 .. n : NamedOf(v)[k] = v[k].args.named
      /\ \A k \in 1 .. m : NamedOf(w)[k] = w[k].args.named
      /\ \A k \in 1 .. n + m : NamedOf(vw)[k] = vw[k].args.named
  BY <1>1, WrittenLists DEF n, m
<1>4. \A i \in 1 .. n + m : i \in 1 .. n \/ (i \in n + 1 .. n + m /\ i - n \in 1 .. m)
  BY <1>1
<1>5. PosOf(vw) = PosOf(v) \o PosOf(w)
  <2> DEFINE a == PosOf(v)
             b == PosOf(w)
             s == PosOf(vw)
  <2>1. a \in Seq(V) /\ b \in Seq(V) /\ s \in Seq(V) /\ Len(a) = n /\ Len(b) = m /\ Len(s) = n + m
    BY <1>2
  <2>2. /\ a \o b \in Seq(V)
        /\ Len(a \o b) = Len(a) + Len(b)
        /\ \A i \in 1 .. Len(a) : (a \o b)[i] = a[i]
        /\ \A i \in Len(a) + 1 .. Len(a) + Len(b) : (a \o b)[i] = b[i - Len(a)]
    <3> HIDE DEF a, b, s, V
    <3>1. QED
      BY <2>1, ConcatEntries
  <2>3. \A i \in 1 .. n + m : s[i] = (a \o b)[i]
    <3> SUFFICES ASSUME NEW i \in 1 .. n + m PROVE s[i] = (a \o b)[i]
      OBVIOUS
    <3>1. CASE i \in 1 .. n
      BY <1>1, <1>2, <2>1, <2>2, <3>1
    <3>2. CASE i \in n + 1 .. n + m /\ i - n \in 1 .. m
      BY <1>1, <1>2, <2>1, <2>2, <3>2, ZenonT(30)
    <3>3. QED
      BY <1>4, <3>1, <3>2
  <2> HIDE DEF a, b, s, V
  <2>4. s = a \o b
    BY <2>1, <2>2, <2>3, SameEntries
  <2>5. QED
    BY <2>4 DEF a, b, s
<1>6. NamedOf(vw) = NamedOf(v) \o NamedOf(w)
  <2> DEFINE a == NamedOf(v)
             b == NamedOf(w)
             s == NamedOf(vw)
  <2>1. /\ a \in Seq(NamedArgs) /\ b \in Seq(NamedArgs) /\ s \in Seq(NamedArgs)
        /\ Len(a) = n /\ Len(b) = m /\ Len(s) = n + m
    BY <1>3
  <2>2. /\ a \o b \in Seq(NamedArgs)
        /\ Len(a \o b) = Len(a) + Len(b)
        /\ \A i \in 1 .. Len(a) : (a \o b)[i] = a[i]
        /\ \A i \in Len(a) + 1 .. Len(a) + Len(b) : (a \o b)[i] = b[i - Len(a)]
    <3> HIDE DEF a, b, s
    <3>1. QED
      BY <2>1, ConcatEntries
  <2>3. \A i \in 1 .. n + m : s[i] = (a \o b)[i]
    <3> SUFFICES ASSUME NEW i \in 1 .. n + m PROVE s[i] = (a \o b)[i]
      OBVIOUS
    <3>1. CASE i \in 1 .. n
      BY <1>1, <1>3, <2>1, <2>2, <3>1
    <3>2. CASE i \in n + 1 .. n + m /\ i - n \in 1 .. m
      BY <1>1, <1>3, <2>1, <2>2, <3>2, ZenonT(30)
    <3>3. QED
      BY <1>4, <3>1, <3>2
  <2> HIDE DEF a, b, s
  <2>4. s = a \o b
    BY <2>1, <2>2, <2>3, SameEntries
  <2>5. QED
    BY <2>4 DEF a, b, s
<1>7. /\ FlattenSeq(PosOf(v)) \in Seq(Value) /\ FlattenSeq(PosOf(w)) \in Seq(Value)
      /\ FlattenSeq(NamedOf(v)) \in NamedArgs /\ FlattenSeq(NamedOf(w)) \in NamedArgs
  <2> DEFINE none == <<>>
  <2>1. none \in Seq(Value)
    OBVIOUS
  <2> HIDE DEF none
  <2>2. QED
    BY <2>1, BuildGives
<1>8. FlattenSeq(PosOf(v) \o PosOf(w)) = FlattenSeq(PosOf(v)) \o FlattenSeq(PosOf(w))
  BY <1>2, FlattenConcat DEF V
<1>9. FlattenSeq(NamedOf(v) \o NamedOf(w)) = FlattenSeq(NamedOf(v)) \o FlattenSeq(NamedOf(w))
  <2>1. NamedOf(v) \in Seq(Seq(X)) /\ NamedOf(w) \in Seq(Seq(X))
    BY <1>3 DEF NamedArgs
  <2> HIDE DEF X
  <2>2. QED
    BY <2>1, FlattenConcat
<1>10. QED
  BY <1>1, <1>5, <1>6, <1>7, <1>8, <1>9 DEF vw

\* What is bound are the positions and the last values of a list of names, and
\* it is cut into pieces for the parameters.
BoundAs(f, b, mapping, co, pos, list) ==
  /\ b = Bound(co, mapping)
  /\ \E c : Cut(c, f, mapping, Len(co.pos))
  /\ Ids(co.pos) = Ids(pos)
  /\ Collects(co.named, list)
  /\ f.sink = 0 => \A i \in DOMAIN co.named : co.named[i][1] \in DOMAIN f.named

(***************************************************************************)
(* Binding keeps what is bound ahead in front of what is passed.           *)
(***************************************************************************)
LEMMA BoundSupplied ==
  ASSUME NEW f, IsFunction(f), NEW args \in Arguments,
         NEW ahead \in Seq(Value), Ids(f.withArgs.pos) = Ids(ahead),
         NEW first \in NamedArgs, Collects(f.withArgs.named, first),
         NEW pos \in Seq(Value), Ids(args.pos) = Ids(pos),
         NEW then \in NamedArgs, Collects(args.named, then),
         NEW b, b = Bind(f, args), b.faults = {}
  PROVE  \E mapping \in [Slots(f) -> Int], co \in Arguments :
           BoundAs(f, b, mapping, co, ahead \o pos, first \o then)
<1> DEFINE merged == Merge(f.withArgs, args)
           m == Len(merged.pos)
<1>0. f.withArgs \in Arguments
  BY DEF IsFunction
<1>1. /\ merged \in Arguments
      /\ merged.pos = f.withArgs.pos \o args.pos
      /\ merged.named = PutAll(f.withArgs.named, args.named)
  <2> DEFINE a == f.withArgs
  <2>1. a \in Arguments /\ merged = Merge(a, args)
    BY <1>0
  <2> HIDE DEF a, merged
  <2>2. merged \in Arguments /\ merged.pos = a.pos \o args.pos /\ merged.named = PutAll(a.named, args.named)
    BY <2>1, MergeGives
  <2>3. QED
    BY <2>2 DEF a
<1>2. merged = Merge(f.withArgs, args)
  OBVIOUS
<1> HIDE DEF merged
<1>3. /\ FirstNamedFault(f, merged.named) = {}
      /\ \E mapping \in [Slots(f) -> Int] :
           /\ b = Bound(Coerced(f, mapping, merged), mapping)
           /\ \E c : Cut(c, f, mapping, Len(merged.pos))
  BY <1>2, BindGives
<1>4. PICK mapping \in [Slots(f) -> Int] :
             /\ b = Bound(Coerced(f, mapping, merged), mapping)
             /\ \E c : Cut(c, f, mapping, Len(merged.pos))
  BY <1>3
<1> DEFINE co == Coerced(f, mapping, merged)
<1>5. /\ co \in Arguments
      /\ Len(co.pos) = Len(merged.pos)
      /\ Ids(co.pos) = Ids(merged.pos)
      /\ SameNamed(co.named, merged.named)
  BY <1>1, CoercedGives
<1> HIDE DEF co
<1>6. Ids(merged.pos) = Ids(ahead \o pos)
  <2>1. f.withArgs.pos \in Seq(Value) /\ args.pos \in Seq(Value)
    BY <1>0 DEF Arguments
  <2>2. Ids(f.withArgs.pos \o args.pos) = Ids(ahead \o pos)
    BY <2>1, IdsOfConcat
  <2>3. QED
    BY <1>1, <2>2
<1>7. Collects(merged.named, first \o then)
  BY <1>1, MergedCollects
<1>8. Collects(co.named, first \o then)
  BY <1>5, <1>7, SameCollects
<1>9. ASSUME f.sink = 0, NEW i \in DOMAIN co.named
      PROVE  co.named[i][1] \in DOMAIN f.named
  <2> DEFINE named == merged.named
             faulty == {k \in DOMAIN named : NamedFault(f, named[k]) # {}}
  <2>1. named \in NamedArgs /\ i \in DOMAIN named /\ co.named[i][1] = named[i][1]
    <3> DEFINE a == co.named
    <3>1. a \in NamedArgs /\ named \in NamedArgs /\ Len(a) = Len(named) /\ i \in DOMAIN a
          /\ \A k \in 1 .. Len(a) : a[k][1] = named[k][1]
      BY <1>5, <1>9 DEF SameNamed
    <3> HIDE DEF a, named
    <3>2. DOMAIN a = 1 .. Len(a) /\ DOMAIN named = 1 .. Len(named)
      BY <3>1 DEF NamedArgs
    <3>3. i \in DOMAIN named /\ a[i][1] = named[i][1]
      BY <3>1, <3>2
    <3>4. QED
      BY <3>1, <3>3 DEF a
  <2> HIDE DEF named
  <2>2. faulty = {}
    <3>1. FirstNamedFault(f, named) = IF faulty = {} THEN {} ELSE NamedFault(f, named[Min(faulty)])
      BY DEF FirstNamedFault
    <3>2. FirstNamedFault(f, named) = {}
      BY <1>3 DEF named
    <3>3. ASSUME faulty # {} PROVE FALSE
      <4>1. faulty \in SUBSET Nat
        BY <2>1 DEF NamedArgs
      <4>2. Min(faulty) \in faulty
        <5> HIDE DEF faulty
        <5>1. QED
          BY <3>3, <4>1, MinIsLeast
      <4>3. NamedFault(f, named[Min(faulty)]) # {}
        BY <4>2
      <4> HIDE DEF faulty
      <4>4. QED
        BY <3>1, <3>2, <3>3, <4>3
    <3>4. QED
      BY <3>3
  <2>3. NamedFault(f, named[i]) = {}
    BY <2>1, <2>2
  <2>4. ASSUME named[i][1] \notin DOMAIN f.named PROVE FALSE
    <3>1. NamedFault(f, named[i]) =
            CASE f.sink # 0 -> {}
              [] f.sink = 0 /\ \E j \in Slots(f) : f.params[j].name = named[i][1]
                   -> {At("named", 0, named[i][1])}
              [] OTHER -> {At("pair", 0, named[i][1])}
      BY <2>4 DEF NamedFault
    <3>2. NamedFault(f, named[i]) # {}
      BY <1>9, <3>1
    <3>3. QED
      BY <2>3, <3>2
  <2>5. QED
    BY <2>1, <2>4
<1>10. BoundAs(f, b, mapping, co, ahead \o pos, first \o then)
  BY <1>4, <1>5, <1>6, <1>8, <1>9 DEF co, BoundAs
<1>11. QED
  BY <1>5, <1>10

(***************************************************************************)
(* A call that passes its arguments passes what was supplied.              *)
(***************************************************************************)
LEMMA CallGives ==
  ASSUME NEW f, IsFunction(f), f.closure # <<>> => IsClosure(f),
         NEW v \in Seq(Spelt), NEW w \in Seq(Spelt), NEW blocks \in Seq(Value),
         Ids(f.withArgs.pos) = Ids(FlattenSeq(PosOf(v))),
         Collects(f.withArgs.named, FlattenSeq(NamedOf(v))),
         NEW r, r = Apply(f, BuildCallArgs(w, blocks)), r.faults = {},
         NEW seen, seen = SeenBy(f, r.passed),
         NEW list, list = FlattenSeq(NamedOf(v \o w))
  PROVE  /\ Ids(FlattenSeq(SeenPieces(f, seen.pos))) = Ids(FlattenSeq(PosOf(v \o w)) \o blocks)
         /\ Gathers(seen.named \o FlattenSeq(NamedPieces(f, seen.pos)), Names(list), list)
<1> DEFINE args == BuildCallArgs(w, blocks)
           b == Bind(f, args)
           ahead == FlattenSeq(PosOf(v))
           first == FlattenSeq(NamedOf(v))
           written_ == FlattenSeq(PosOf(w))
           pos == written_ \o blocks
           then == FlattenSeq(NamedOf(w))
<1>1. /\ args \in Arguments /\ written_ \in Seq(Value) /\ args.pos = pos
      /\ then \in NamedArgs /\ Collects(args.named, then)
  <2>1. args = BuildCallArgs(w, blocks)
    OBVIOUS
  <2> HIDE DEF args
  <2>2. QED
    BY <2>1, BuildGives
<1>2. /\ ahead \in Seq(Value) /\ first \in NamedArgs
      /\ FlattenSeq(PosOf(v \o w)) = ahead \o written_
      /\ list = first \o then
  BY SuppliedLists
<1>3. /\ b.faults = {} /\ \A j \in Slots(f) : b.mapping[j] # Missing
      /\ r.passed = Passed(f, b)
  BY ApplyGives
<1>4. Ids(f.withArgs.pos) = Ids(ahead) /\ Collects(f.withArgs.named, first)
  OBVIOUS
<1>5. b = Bind(f, args)
  OBVIOUS
<1> HIDE DEF args, b, ahead, first, written_, then
<1>6. pos \in Seq(Value)
  BY <1>1
<1> HIDE DEF pos
<1>7. PICK mapping \in [Slots(f) -> Int], co \in Arguments :
             BoundAs(f, b, mapping, co, ahead \o pos, first \o then)
  BY <1>1, <1>2, <1>3, <1>4, <1>5, <1>6, BoundSupplied
<1>8. PICK c : Cut(c, f, mapping, Len(co.pos))
  BY <1>7 DEF BoundAs
<1>9. b.mapping = mapping /\ b.args = co /\ b = Bound(co, mapping)
  BY <1>7 DEF Bound, BoundAs
<1>10. NoneMissing(f, mapping)
  BY <1>3, <1>9 DEF NoneMissing
<1> DEFINE p == r.passed
<1>11. p = Passed(f, Bound(co, mapping)) /\ seen = SeenBy(f, p)
  BY <1>3, <1>9
<1> HIDE DEF p
<1>12. FlattenSeq(SeenPieces(f, seen.pos)) = co.pos
  <2>1. AllSeen(f, seen, co.pos)
    BY <1>8, <1>10, <1>11, SeesPositions
  <2>2. QED
    BY <2>1 DEF AllSeen
<1>13. FlattenSeq(PosOf(v \o w)) \o blocks = ahead \o pos
  <2> DEFINE x == FlattenSeq(PosOf(v \o w))
  <2>1. x = ahead \o written_
    BY <1>2
  <2> HIDE DEF x
  <2>2. x \o blocks = ahead \o (written_ \o blocks)
    BY <1>1, <1>2, <2>1, SMTT(30)
  <2>3. QED
    BY <2>2 DEF x, pos
<1>14. Gathers(co.named, Names(list), list)
  BY <1>2, <1>7 DEF Collects, Gathers, BoundAs
<1>15. Gathers(seen.named \o FlattenSeq(NamedPieces(f, seen.pos)), Names(list), list)
  BY <1>7, <1>8, <1>11, <1>14, SeesNames DEF BoundAs
<1>16. QED
  BY <1>7, <1>11, <1>12, <1>13, <1>15 DEF BoundAs

(***************************************************************************)
(* What with binds is bound ahead, behind what was before.                 *)
(***************************************************************************)
LEMMA WithGives ==
  ASSUME NEW f, IsFunction(f), NEW v \in Seq(Spelt), NEW w \in Seq(Spelt),
         Ids(f.withArgs.pos) = Ids(FlattenSeq(PosOf(v))),
         Collects(f.withArgs.named, FlattenSeq(NamedOf(v))),
         NEW r, r = FunctionWithImpl(f, BuildCallArgs(w, <<>>)), r.faults = {}
  PROVE  \E co \in Arguments :
           /\ r.fn = [f EXCEPT !.withArgs = co, !.refused = {}]
           /\ Ids(co.pos) = Ids(FlattenSeq(PosOf(v \o w)))
           /\ Collects(co.named, FlattenSeq(NamedOf(v \o w)))
<1> DEFINE none == <<>>
           args == BuildCallArgs(w, none)
           got == Apply(FunctionWith, args).passed.pos[2].args
           b == Bind(f, got)
           ahead == FlattenSeq(PosOf(v))
           first == FlattenSeq(NamedOf(v))
           pos == FlattenSeq(PosOf(w))
           then == FlattenSeq(NamedOf(w))
<1>1. /\ args \in Arguments /\ pos \in Seq(Value) /\ args.pos = pos
      /\ then \in NamedArgs /\ Collects(args.named, then)
  <2>1. args = BuildCallArgs(w, none) /\ none \in Seq(Value)
    OBVIOUS
  <2> HIDE DEF args, none, pos, then
  <2>2. args \in Arguments /\ pos \in Seq(Value) /\ args.pos = pos \o none
        /\ then \in NamedArgs /\ Collects(args.named, then)
    BY <2>1, BuildGives DEF pos, then
  <2>3. pos \o none = pos
    BY <2>2 DEF none
  <2>4. QED
    BY <2>2, <2>3
<1>2. /\ ahead \in Seq(Value) /\ first \in NamedArgs
      /\ FlattenSeq(PosOf(v \o w)) = ahead \o pos
      /\ FlattenSeq(NamedOf(v \o w)) = first \o then
  BY SuppliedLists
<1>3. Ids(f.withArgs.pos) = Ids(ahead) /\ Collects(f.withArgs.named, first)
  OBVIOUS
<1>4. r = IF b.faults # {} THEN [faults |-> b.faults, fn |-> f]
          ELSE [faults |-> {}, fn |-> [f EXCEPT !.withArgs = b.args, !.refused = {}]]
  BY DEF FunctionWithImpl, With, WithBound
<1>5. got = Apply(FunctionWith, args).passed.pos[2].args /\ b = Bind(f, got)
  OBVIOUS
<1> HIDE DEF none, args, got, b, ahead, first, pos, then
<1>6. got \in Arguments /\ Ids(got.pos) = Ids(args.pos) /\ Collects(got.named, then)
  BY <1>1, <1>5, WithReceives
<1>7. b.faults = {} /\ r.fn = [f EXCEPT !.withArgs = b.args, !.refused = {}]
  <2>1. b.faults = {}
    BY <1>4
  <2>2. r = [faults |-> {}, fn |-> [f EXCEPT !.withArgs = b.args, !.refused = {}]]
    BY <1>4, <2>1
  <2>3. QED
    BY <2>1, <2>2
<1>8. PICK mapping \in [Slots(f) -> Int], co \in Arguments :
             BoundAs(f, b, mapping, co, ahead \o pos, first \o then)
  <2>1. Ids(got.pos) = Ids(pos)
    BY <1>1, <1>6
  <2>2. QED
    BY <1>1, <1>2, <1>3, <1>5, <1>6, <1>7, <2>1, BoundSupplied
<1>9. b.args = co
  BY <1>8 DEF Bound, BoundAs
<1>10. QED
  BY <1>2, <1>7, <1>8, <1>9 DEF BoundAs

-----------------------------------------------------------------------------
(* The invariant.                                                          *)

\* What is bound ahead is what was given to with.
BoundAhead ==
  /\ fn.withArgs \in Arguments
  /\ Ids(fn.withArgs.pos) = Ids(FlattenSeq(PosOf(given)))
  /\ Collects(fn.withArgs.named, FlattenSeq(NamedOf(given)))

\* fn differs from its base in what with changes.
CallsInv ==
  /\ base \in Functions
  /\ fn = [base EXCEPT !.withArgs = fn.withArgs, !.refused = fn.refused]
  /\ written \in Seq(Spelt) /\ given \in Seq(Spelt)
  /\ BoundAhead
  /\ ArriveOnceInOrder

(***************************************************************************)
(* Binding arguments ahead leaves a function what it is.                   *)
(***************************************************************************)
LEMMA FunctionStays ==
  ASSUME CallsInv
  PROVE  /\ IsFunction(fn)
         /\ fn.closure = base.closure
         /\ fn.closure # <<>> => IsClosure(fn)
         /\ \A i : IsNamedParam(base, i) = IsNamedParam(fn, i)
<1>1. IsFunction(base) /\ (base.closure # <<>> => IsClosure(base))
  BY FunctionsAssumption DEF CallsInv
<1>2. base = [params |-> base.params, sink |-> base.sink, named |-> base.named,
              refused |-> base.refused, closure |-> base.closure, withArgs |-> base.withArgs]
  BY <1>1 DEF IsFunction
<1> DEFINE args == fn.withArgs
           refused == fn.refused
<1>3. fn = [base EXCEPT !.withArgs = args, !.refused = refused] /\ args \in Arguments
  BY DEF CallsInv, BoundAhead
<1> HIDE DEF args, refused
<1>4. fn = [params |-> base.params, sink |-> base.sink, named |-> base.named,
            refused |-> refused, closure |-> base.closure, withArgs |-> args]
  BY <1>2, <1>3
<1>5. /\ fn.params = base.params /\ fn.sink = base.sink /\ fn.named = base.named
      /\ fn.closure = base.closure /\ fn.refused = refused /\ fn.withArgs = args
  BY <1>4
<1>6. IsFunction(fn)
  <2>1. fn = [params |-> fn.params, sink |-> fn.sink, named |-> fn.named, refused |-> fn.refused,
              closure |-> fn.closure, withArgs |-> fn.withArgs]
    BY <1>4, <1>5
  <2>2. /\ base.params \in Seq([name : Idents, types : SUBSET Types, required : BOOLEAN])
        /\ base.sink \in 0 .. Len(base.params)
        /\ DOMAIN base.named \subseteq Idents
        /\ base.named \in [DOMAIN base.named -> SUBSET Types]
    BY <1>1 DEF IsFunction
  <2>3. QED
    BY <1>3, <1>5, <2>1, <2>2 DEF IsFunction
<1>7. fn.closure # <<>> => IsClosure(fn)
  <2>1. \A i : SlotOf(fn, i) = SlotOf(base, i)
    BY <1>5 DEF SlotOf
  <2>2. \A i : IsNamedParam(fn, i) <=> IsNamedParam(base, i)
    BY <1>5 DEF IsNamedParam
  <2>3. IsClosure(base) => IsClosure(fn)
    BY <1>5, <2>1, <2>2 DEF IsClosure
  <2>4. QED
    BY <1>1, <1>5, <2>3
<1>8. \A i : IsNamedParam(base, i) = IsNamedParam(fn, i)
  BY <1>5 DEF IsNamedParam
<1>9. QED
  BY <1>5, <1>6, <1>7, <1>8

(***************************************************************************)
(* What arrived is what an implementation sees of what was supplied.       *)
(***************************************************************************)
LEMMA Arrived ==
  ASSUME CallsInv, UNCHANGED <<fn, written, base, given>>,
         NEW list, list = FlattenSeq(NamedOf(given \o written)),
         outcome'.result = "passed" =>
           /\ Ids(FlattenSeq(SeenPieces(fn, outcome'.passed.pos)))
                = Ids(FlattenSeq(PosOf(given \o written)) \o outcome'.blocks)
           /\ Gathers(outcome'.passed.named \o FlattenSeq(NamedPieces(fn, outcome'.passed.pos)),
                      Names(list), list)
  PROVE  ArriveOnceInOrder'
<1> SUFFICES ASSUME outcome'.result = "passed" PROVE ArriveOnceInOrder'
  BY DEF ArriveOnceInOrder, PassedInOrder, NamedArriveOnce
<1>1. fn.closure = base.closure /\ \A i : IsNamedParam(base, i) = IsNamedParam(fn, i)
  BY FunctionStays
<1>2. SeenPos' = FlattenSeq(SeenPieces(fn, outcome'.passed.pos))
  BY <1>1 DEF SeenPos, Seen, SeenPieces
<1>3. SuppliedPos' = FlattenSeq(PosOf(given \o written)) \o outcome'.blocks
  BY DEF SuppliedPos, Supplied, PosOf
<1>4. SuppliedNamed' = list
  BY DEF SuppliedNamed, Supplied, NamedOf
<1>5. SeenNamed' = outcome'.passed.named \o FlattenSeq(NamedPieces(fn, outcome'.passed.pos))
  BY <1>1 DEF SeenNamed, Seen, NamedPieces
<1>6. PassedInOrder'
  BY <1>2, <1>3 DEF PassedInOrder
<1>7. NamedArriveOnce'
  <2> DEFINE seen == SeenNamed'
  <2>1. Gathers(seen, Names(list), list)
    BY <1>5
  <2> HIDE DEF seen
  <2>2. /\ Names(seen) = Names(list)
        /\ Len(seen) = Cardinality(Names(seen))
        /\ \A name \in Names(seen) : Named(seen, name).id = LastId(list, name)
    BY <2>1, GatheredOnce
  <2>3. \A name \in Names(seen) :
          Named(seen, name).id = list[Max({i \in DOMAIN list : list[i][1] = name})][2].id
    BY <2>2 DEF LastId
  <2>4. QED
    BY <1>4, <2>2, <2>3 DEF NamedArriveOnce, seen
<1>8. QED
  BY <1>6, <1>7 DEF ArriveOnceInOrder

(***************************************************************************)
(* The invariant holds before anything is written.                         *)
(***************************************************************************)
LEMMA CallsInit ==
  ASSUME Init
  PROVE  CallsInv
<1> DEFINE V == Seq(Value)
           none == <<>>
           X == Idents \X Value
<1>1. /\ base \in Functions /\ fn = base /\ written = none /\ given = none /\ outcome = NotCalled
      /\ IsFunction(base) /\ base.withArgs = NoArguments
  BY FunctionsAssumption DEF Init
<1>2. fn = [base EXCEPT !.withArgs = fn.withArgs, !.refused = fn.refused]
  <2>1. base = [params |-> base.params, sink |-> base.sink, named |-> base.named,
                refused |-> base.refused, closure |-> base.closure, withArgs |-> base.withArgs]
    BY <1>1 DEF IsFunction
  <2>2. QED
    BY <1>1, <2>1
<1>3. written \in Seq(Spelt) /\ given \in Seq(Spelt)
  BY <1>1
<1>4. FlattenSeq(PosOf(given)) = none
  <2>1. PosOf(given) = none /\ none \in Seq(V) /\ Len(none) = 0
    BY <1>1 DEF PosOf
  <2> HIDE DEF none
  <2>2. PICK f \in [0 .. Len(none) -> Seq(Value)] : Joins(f, none) /\ FlattenSeq(none) = f[Len(none)]
    BY <2>1, FlattenSteps DEF V
  <2>3. FlattenSeq(none) = f[0] /\ f[0] = <<>>
    BY <2>1, <2>2 DEF Joins
  <2>4. QED
    BY <2>1, <2>3 DEF none
<1>5. FlattenSeq(NamedOf(given)) = none
  <2>1. NamedOf(given) = none /\ none \in Seq(Seq(X)) /\ Len(none) = 0
    BY <1>1 DEF NamedOf
  <2> HIDE DEF none, X
  <2>2. PICK f \in [0 .. Len(none) -> Seq(X)] : Joins(f, none) /\ FlattenSeq(none) = f[Len(none)]
    BY <2>1, FlattenSteps
  <2>3. FlattenSeq(none) = f[0] /\ f[0] = <<>>
    BY <2>1, <2>2 DEF Joins
  <2>4. QED
    BY <2>1, <2>3 DEF none
<1>6. fn.withArgs = NoArguments /\ NoArguments \in Arguments /\ NoArguments.pos = none
      /\ NoArguments.named = none
  <2>1. none \in Seq(X) /\ none \in V
    OBVIOUS
  <2> HIDE DEF X, V
  <2>2. QED
    BY <1>1, <2>1 DEF NoArguments, Arguments, X, V
<1>7. Collects(none, none)
  <2>1. none \in NamedArgs /\ DOMAIN none = {}
    BY DEF NamedArgs
  <2>2. QED
    BY <2>1 DEF Collects, NamedOnce, Names
<1>8. BoundAhead
  <2> HIDE DEF none
  <2>1. QED
    BY <1>4, <1>5, <1>6, <1>7 DEF BoundAhead
<1>9. outcome.result # "passed"
  BY <1>1 DEF NotCalled, Outcomes
<1>10. QED
  BY <1>1, <1>2, <1>3, <1>8, <1>9 DEF CallsInv, ArriveOnceInOrder, PassedInOrder, NamedArriveOnce

(***************************************************************************)
(* A call that did not pass anything has nothing to arrive.                *)
(***************************************************************************)
LEMMA NothingArrives ==
  ASSUME outcome'.result # "passed"
  PROVE  ArriveOnceInOrder'
<1>1. QED
  BY DEF ArriveOnceInOrder, PassedInOrder, NamedArriveOnce

(***************************************************************************)
(* Writing an argument keeps the invariant.                                *)
(***************************************************************************)
LEMMA WriteKeeps ==
  ASSUME CallsInv, NEW spelling \in Spellings(base), Write(spelling)
  PROVE  CallsInv'
<1>1. IsSpelling(spelling)
  BY FunctionsAssumption DEF CallsInv
<1>2. spelling \in Spelt
  BY <1>1 DEF IsSpelling
<1>3. /\ outcome = NotCalled
      /\ written' = Append(written, spelling)
      /\ UNCHANGED <<fn, outcome, base, stages, given>>
  BY DEF Write
<1>4. written' \in Seq(Spelt)
  BY <1>2, <1>3 DEF CallsInv
<1>5. BoundAhead'
  <2>1. PosOf(given)' = PosOf(given) /\ NamedOf(given)' = NamedOf(given)
    BY <1>3
  <2>2. QED
    BY <1>3, <2>1 DEF CallsInv, BoundAhead
<1>6. ArriveOnceInOrder'
  <2>1. outcome'.result # "passed"
    BY <1>3 DEF NotCalled, Outcomes
  <2>2. QED
    BY <2>1, NothingArrives
<1>7. base' \in Functions /\ (fn = [base EXCEPT !.withArgs = fn.withArgs, !.refused = fn.refused])'
  BY <1>3 DEF CallsInv
<1>8. given' \in Seq(Spelt)
  BY <1>3 DEF CallsInv
<1>9. QED
  BY <1>4, <1>5, <1>6, <1>7, <1>8 DEF CallsInv

(***************************************************************************)
(* What is passed by a call arrives.                                       *)
(***************************************************************************)
LEMMA CallArrives ==
  ASSUME CallsInv, NEW blocks \in Blocks, Call(blocks)
  PROVE  ArriveOnceInOrder'
<1> DEFINE r == Apply(fn, BuildCallArgs(written, blocks))
           list == FlattenSeq(NamedOf(given \o written))
<1>1. UNCHANGED <<fn, written, base, given>>
  BY DEF Call
<1>2. CASE ~Spreads
  <2>1. outcome' = Outcomes("error", Nowhere, Min(Unspreadable(written)), <<>>, blocks)
    BY <1>2 DEF Call
  <2>2. outcome'.result # "passed"
    BY <2>1 DEF Outcomes
  <2>3. QED
    BY <2>2, NothingArrives
<1>3. CASE Spreads /\ r.faults # {}
  <2>1. EndCall(r, blocks)
    BY <1>3 DEF Call
  <2> HIDE DEF r
  <2>2. outcome'.result = "error"
    BY <1>3, <2>1 DEF EndCall, Outcomes
  <2>3. QED
    BY <2>2, NothingArrives
<1>4. CASE Spreads /\ r.faults = {}
  <2>1. EndCall(r, blocks)
    BY <1>4 DEF Call
  <2>2. r = Apply(fn, BuildCallArgs(written, blocks)) /\ list = FlattenSeq(NamedOf(given \o written))
    OBVIOUS
  <2> HIDE DEF r, list
  <2>3. outcome' = Outcomes("passed", Nowhere, AtCall, SeenBy(fn, r.passed), blocks)
    BY <1>4, <2>1 DEF EndCall, SeenBy
  <2> DEFINE seen == SeenBy(fn, r.passed)
  <2>4. outcome'.passed = seen /\ outcome'.blocks = blocks
    BY <2>3 DEF Outcomes
  <2>5. /\ IsFunction(fn)
        /\ fn.closure # <<>> => IsClosure(fn)
    BY FunctionStays
  <2>6. blocks \in Seq(Value)
    BY BlocksAssumption
  <2>7. /\ written \in Seq(Spelt) /\ given \in Seq(Spelt)
        /\ Ids(fn.withArgs.pos) = Ids(FlattenSeq(PosOf(given)))
        /\ Collects(fn.withArgs.named, FlattenSeq(NamedOf(given)))
    BY DEF CallsInv, BoundAhead
  <2>8. seen = SeenBy(fn, r.passed)
    OBVIOUS
  <2> HIDE DEF seen
  <2>9. /\ Ids(FlattenSeq(SeenPieces(fn, seen.pos))) = Ids(FlattenSeq(PosOf(given \o written)) \o blocks)
        /\ Gathers(seen.named \o FlattenSeq(NamedPieces(fn, seen.pos)), Names(list), list)
    BY <1>4, <2>2, <2>5, <2>6, <2>7, <2>8, CallGives
  <2>10. /\ Ids(FlattenSeq(SeenPieces(fn, outcome'.passed.pos)))
              = Ids(FlattenSeq(PosOf(given \o written)) \o outcome'.blocks)
         /\ Gathers(outcome'.passed.named \o FlattenSeq(NamedPieces(fn, outcome'.passed.pos)),
                    Names(list), list)
    BY <2>4, <2>9
  <2>11. QED
    BY <1>1, <2>2, <2>10, Arrived
<1>5. QED
  BY <1>2, <1>3, <1>4

(***************************************************************************)
(* A call keeps the invariant.                                             *)
(***************************************************************************)
LEMMA CallKeeps ==
  ASSUME CallsInv, NEW blocks \in Blocks, Call(blocks)
  PROVE  CallsInv'
<1>1. UNCHANGED <<fn, written, base, given>>
  BY DEF Call
<1>2. ArriveOnceInOrder'
  BY CallArrives
<1>3. BoundAhead'
  <2>1. PosOf(given)' = PosOf(given) /\ NamedOf(given)' = NamedOf(given)
    BY <1>1
  <2>2. QED
    BY <1>1, <2>1 DEF CallsInv, BoundAhead
<1>4. base' \in Functions /\ (fn = [base EXCEPT !.withArgs = fn.withArgs, !.refused = fn.refused])'
  BY <1>1 DEF CallsInv
<1>5. written' \in Seq(Spelt) /\ given' \in Seq(Spelt)
  BY <1>1 DEF CallsInv
<1>6. QED
  BY <1>2, <1>3, <1>4, <1>5 DEF CallsInv

(***************************************************************************)
(* What with binds is behind what it bound before, and nothing is passed.  *)
(***************************************************************************)
LEMMA PartiallyApplyKeeps ==
  ASSUME CallsInv, PartiallyApply
  PROVE  CallsInv'
<1> DEFINE none == <<>>
           r == FunctionWithImpl(fn, BuildCallArgs(written, none))
<1>1. outcome = NotCalled /\ EndWith(r)
  BY DEF PartiallyApply
<1>2. r = FunctionWithImpl(fn, BuildCallArgs(written, <<>>))
  OBVIOUS
<1> HIDE DEF r
<1>3. CASE r.faults # {}
  <2>1. outcome'.result = "unbound" /\ UNCHANGED <<fn, written, base, stages, given>>
    BY <1>1, <1>3 DEF EndWith, Outcomes
  <2>2. ArriveOnceInOrder'
    BY <2>1, NothingArrives
  <2>3. BoundAhead'
    <3>1. PosOf(given)' = PosOf(given) /\ NamedOf(given)' = NamedOf(given)
      BY <2>1
    <3>2. QED
      BY <2>1, <3>1 DEF CallsInv, BoundAhead
  <2>4. base' \in Functions /\ (fn = [base EXCEPT !.withArgs = fn.withArgs, !.refused = fn.refused])'
    BY <2>1 DEF CallsInv
  <2>5. written' \in Seq(Spelt) /\ given' \in Seq(Spelt)
    BY <2>1 DEF CallsInv
  <2>6. QED
    BY <2>2, <2>3, <2>4, <2>5 DEF CallsInv
<1>4. CASE r.faults = {}
  <2>1. /\ fn' = r.fn
        /\ written' = none
        /\ given' = given \o written
        /\ UNCHANGED <<outcome, base>>
    BY <1>1, <1>4 DEF EndWith
  <2>2. IsFunction(fn)
    BY FunctionStays
  <2>3. /\ written \in Seq(Spelt) /\ given \in Seq(Spelt)
        /\ Ids(fn.withArgs.pos) = Ids(FlattenSeq(PosOf(given)))
        /\ Collects(fn.withArgs.named, FlattenSeq(NamedOf(given)))
    BY DEF CallsInv, BoundAhead
  <2>4. PICK co \in Arguments :
          /\ r.fn = [fn EXCEPT !.withArgs = co, !.refused = {}]
          /\ Ids(co.pos) = Ids(FlattenSeq(PosOf(given \o written)))
          /\ Collects(co.named, FlattenSeq(NamedOf(given \o written)))
    BY <1>2, <1>4, <2>2, <2>3, WithGives
  <2>5. IsFunction(base)
    BY FunctionsAssumption DEF CallsInv
  <2>6. base = [params |-> base.params, sink |-> base.sink, named |-> base.named,
                refused |-> base.refused, closure |-> base.closure, withArgs |-> base.withArgs]
    BY <2>5 DEF IsFunction
  <2>7. fn' = [base EXCEPT !.withArgs = co, !.refused = {}]
    <3> DEFINE args == fn.withArgs
               refused == fn.refused
    <3>1. fn = [base EXCEPT !.withArgs = args, !.refused = refused]
      BY DEF CallsInv
    <3> HIDE DEF args, refused
    <3>2. [fn EXCEPT !.withArgs = co, !.refused = {}] = [base EXCEPT !.withArgs = co, !.refused = {}]
      BY <2>6, <3>1
    <3>3. QED
      BY <2>1, <2>4, <3>2
  <2>8. fn'.withArgs = co /\ fn'.refused = {}
    BY <2>6, <2>7
  <2>9. (fn = [base EXCEPT !.withArgs = fn.withArgs, !.refused = fn.refused])'
    BY <2>1, <2>7, <2>8
  <2>10. BoundAhead'
    <3>1. PosOf(given)' = PosOf(given \o written) /\ NamedOf(given)' = NamedOf(given \o written)
      BY <2>1 DEF PosOf, NamedOf
    <3>2. QED
      BY <2>4, <2>8, <3>1 DEF BoundAhead
  <2>11. ArriveOnceInOrder'
    <3>1. outcome'.result # "passed"
      BY <1>1, <2>1 DEF NotCalled, Outcomes
    <3>2. QED
      BY <3>1, NothingArrives
  <2>12. written' \in Seq(Spelt) /\ given' \in Seq(Spelt)
    <3>1. given \o written \in Seq(Spelt)
      BY <2>3, SuppliedLists
    <3>2. none \in Seq(Spelt)
      OBVIOUS
    <3>3. QED
      BY <2>1, <3>1, <3>2
  <2>13. base' \in Functions
    BY <2>1 DEF CallsInv
  <2>14. QED
    BY <2>9, <2>10, <2>11, <2>12, <2>13 DEF CallsInv
<1>5. QED
  BY <1>3, <1>4

(***************************************************************************)
(* What a function binds ahead is always what was given to its calls of    *)
(* with, in their order, and a call leaves it alone.                       *)
(***************************************************************************)
THEOREM CallsInvariant == Spec => []CallsInv
<1>1. Init => CallsInv
  BY CallsInit
<1>2. CallsInv /\ [Next]_vars => CallsInv'
  <2> SUFFICES ASSUME CallsInv, [Next]_vars PROVE CallsInv'
    OBVIOUS
  <2>1. ASSUME NEW spelling \in Spellings(base), Write(spelling) PROVE CallsInv'
    BY <2>1, WriteKeeps
  <2>2. ASSUME NEW blocks \in Blocks, Call(blocks) PROVE CallsInv'
    BY <2>2, CallKeeps
  <2>3. CASE PartiallyApply
    BY <2>3, PartiallyApplyKeeps
  <2>4. CASE UNCHANGED vars
    <3>1. fn' = fn /\ written' = written /\ outcome' = outcome /\ base' = base /\ given' = given
      BY <2>4 DEF vars
    <3>2. PosOf(given)' = PosOf(given) /\ NamedOf(given)' = NamedOf(given)
      BY <3>1
    <3>3. BoundAhead'
      BY <3>1, <3>2 DEF CallsInv, BoundAhead
    <3>4. ArriveOnceInOrder'
      <4>1. SeenPos' = SeenPos /\ SeenNamed' = SeenNamed
        BY <3>1 DEF SeenPos, SeenNamed, Seen, IsNamedParam
      <4>2. SuppliedPos' = SuppliedPos /\ SuppliedNamed' = SuppliedNamed
        BY <3>1 DEF SuppliedPos, SuppliedNamed, Supplied
      <4>3. PassedInOrder' = PassedInOrder
        BY <3>1, <4>1, <4>2 DEF PassedInOrder
      <4>4. NamedArriveOnce' = NamedArriveOnce
        BY <3>1, <4>1, <4>2 DEF NamedArriveOnce
      <4>5. QED
        BY <4>3, <4>4 DEF CallsInv, ArriveOnceInOrder
    <3>5. QED
      BY <3>1, <3>3, <3>4 DEF CallsInv
  <2>5. QED
    BY <2>1, <2>2, <2>3, <2>4 DEF Next
<1>3. QED
  BY <1>1, <1>2, PTL DEF Spec

(***************************************************************************)
(* Whatever is written, spread, bound ahead or passed as a block arrives:  *)
(* each position once and in order, each name once with its last value,    *)
(* for every function and every call.                                      *)
(***************************************************************************)
THEOREM ArgumentsArrive == Spec => []ArriveOnceInOrder
<1>1. CallsInv => ArriveOnceInOrder
  BY DEF CallsInv
<1>2. QED
  BY <1>1, CallsInvariant, PTL

-----------------------------------------------------------------------------
(* Where an error is reported.                                             *)

\* What the error of a call with m positional arguments may be about.
IsFault(at, m) ==
  \/ at = Nowhere
  \/ \E i \in 1 .. m : at = AtPos(i)
  \/ \E place \in {"named", "pair"} : \E name : at = At(place, 0, name)

(***************************************************************************)
(* A named argument is at fault by its name.                               *)
(***************************************************************************)
LEMMA NamedFaultForms ==
  ASSUME NEW f, NEW named \in NamedArgs, NEW m, NEW at \in FirstNamedFault(f, named)
  PROVE  IsFault(at, m)
<1> DEFINE faulty == {i \in DOMAIN named : NamedFault(f, named[i]) # {}}
           i == Min(faulty)
<1>1. at \in NamedFault(f, named[i])
  BY DEF FirstNamedFault
<1> HIDE DEF i
<1>2. CASE named[i][1] \notin DOMAIN f.named
  <2>1. NamedFault(f, named[i]) =
          CASE f.sink # 0 -> {}
            [] f.sink = 0 /\ \E j \in Slots(f) : f.params[j].name = named[i][1]
                 -> {At("named", 0, named[i][1])}
            [] OTHER -> {At("pair", 0, named[i][1])}
    BY <1>2 DEF NamedFault
  <2>2. at = At("named", 0, named[i][1]) \/ at = At("pair", 0, named[i][1])
    BY <1>1, <2>1
  <2>3. QED
    BY <2>2 DEF IsFault
<1>3. CASE named[i][1] \in DOMAIN f.named
  <2>1. at = At("named", 0, named[i][1])
    BY <1>1, <1>3 DEF NamedFault
  <2>2. QED
    BY <2>1 DEF IsFault
<1>4. QED
  BY <1>2, <1>3

(***************************************************************************)
(* What is validated is a named argument.                                  *)
(***************************************************************************)
LEMMA ValidatedFaults ==
  ASSUME NEW f, NEW args, NEW mapping, NEW m, NEW at \in Validated(f, args, mapping).faults
  PROVE  IsFault(at, m)
<1> DEFINE name == args.named[Min(Refused(f, args.named))][1]
<1>1. Validated(f, args, mapping) = IF Refused(f, args.named) = {} THEN Bound(args, mapping)
                                    ELSE Fault(At("named", 0, name))
  BY DEF Validated
<1> HIDE DEF name
<1>2. at = At("named", 0, name)
  BY <1>1 DEF Bound, Fault
<1>3. QED
  BY <1>2 DEF IsFault

(***************************************************************************)
(* What does not fit behind the sink is one of the arguments.              *)
(***************************************************************************)
LEMMA UnfitWithin ==
  ASSUME NEW f, IsFunction(f), NEW pos, NEW m \in Nat, m = Len(pos), NEW count,
         NEW taken, taken = TakeSlots(f, count, pos),
         TakeFront(f, count, pos) \in Fronts(f, count),
         NEW start \in Int, start = count + SinkSize(f, m)
  PROVE  UnfitBack(f, taken.mapping, pos) \in SUBSET (1 .. m)
<1> DEFINE front == TakeFront(f, count, pos)
           n == Len(f.params)
           sink == f.sink
           P == PreSink(f)
           new == [j \in Slots(f) |->
                     IF j <= P THEN IF j < front.lo THEN front.mapping[j] ELSE Unfilled(f, j)
                     ELSE IF j = sink THEN InSink
                     ELSE IF start + (j - sink) <= m THEN start + (j - sink)
                     ELSE Unfilled(f, j)]
<1>1. /\ n \in Nat /\ P \in Nat /\ sink \in Nat /\ Slots(f) = 1 .. n
      /\ sink # 0 => P = sink - 1
  BY Shape
<1>2. taken.mapping = new
  <2>1. front \in Fronts(f, count)
    OBVIOUS
  <2> HIDE DEF front
  <2>2. DOMAIN front.mapping = Slots(f)
    BY <2>1 DEF Fronts
  <2>3. taken = TakeRest(f, front, start, m)
    BY DEF TakeSlots, front
  <2>4. front = [mapping |-> front.mapping, lo |-> front.lo, required |-> front.required,
                 failed |-> front.failed]
    BY <2>1 DEF Fronts
  <2>5. taken.mapping = [j \in DOMAIN front.mapping |->
                     IF j <= P THEN IF j < front.lo THEN front.mapping[j] ELSE Unfilled(f, j)
                     ELSE IF j = sink THEN InSink
                     ELSE IF start + (j - sink) <= m THEN start + (j - sink)
                     ELSE Unfilled(f, j)]
    BY <2>3, <2>4 DEF TakeRest
  <2>6. QED
    BY <2>2, <2>5
<1> HIDE DEF front
<1>3. ASSUME NEW k \in Slots(f), sink # 0, k > sink, new[k] > 0
      PROVE  new[k] \in 1 .. m
  <2>1. k \in Nat /\ ~(k <= P) /\ k # sink
    BY <1>1, <1>3
  <2>2. new[k] = IF start + (k - sink) <= m THEN start + (k - sink) ELSE Unfilled(f, k)
    BY <2>1
  <2>3. Unfilled(f, k) \in {Missing, Default}
    BY DEF Unfilled
  <2>4. CASE start + (k - sink) <= m
    BY <1>1, <1>3, <2>1, <2>2, <2>4
  <2>5. CASE ~(start + (k - sink) <= m)
    BY <1>3, <2>2, <2>3, <2>5 DEF Missing, Default
  <2>6. QED
    BY <2>4, <2>5
<1> HIDE DEF new
<1>4. QED
  BY <1>2, <1>3 DEF UnfitBack

(***************************************************************************)
(* An error of a call is about the call, an argument or a name.            *)
(***************************************************************************)
LEMMA FaultForms ==
  ASSUME NEW f, IsFunction(f), NEW args \in Arguments,
         NEW merged, merged = Merge(f.withArgs, args), NEW m \in Nat, m = Len(merged.pos),
         NEW at \in Apply(f, args).faults
  PROVE  IsFault(at, m)
<1> DEFINE b == Bind(f, args)
           count == Min({m, PreSink(f)})
           taken == TakeSlots(f, count, merged.pos)
           unfit == UnfitBack(f, taken.mapping, merged.pos)
           faults == FirstNamedFault(f, merged.named)
<1>1. f.withArgs \in Arguments
  BY DEF IsFunction
<1>2. merged \in Arguments /\ merged.named \in NamedArgs
  <2>1. merged \in Arguments
    BY <1>1, MergeGives
  <2>2. QED
    BY <2>1 DEF Arguments, NamedArgs
<1>3. /\ Len(f.params) \in Nat /\ PreSink(f) \in Nat
  BY Shape
<1>4. count \in 0 .. PreSink(f) /\ count <= m
  <2>1. count = IF m <= PreSink(f) THEN m ELSE PreSink(f)
    BY <1>3, MinOfTwo
  <2>2. QED
    BY <1>3, <2>1
<1>5. at \in b.faults \/ at = Nowhere
  <2>1. Apply(f, args) = IF b.faults # {} THEN [faults |-> b.faults, passed |-> <<>>]
                         ELSE IF \E j \in Slots(f) : b.mapping[j] = Missing
                         THEN [faults |-> {Nowhere}, passed |-> <<>>]
                         ELSE [faults |-> {}, passed |-> Passed(f, b)]
    BY DEF Apply, ApplyBound
  <2> HIDE DEF b
  <2>2. QED
    BY <2>1
<1>6. b = IF f.sink = 0 /\ m > Len(f.params) THEN Fault(AtPos(Len(f.params) + 1))
          ELSE BindTo(f, merged, taken)
  BY <1>2 DEF Bind, BindMerged
<1>7. TakeFront(f, count, merged.pos) \in Fronts(f, count)
  BY <1>4, FrontIsCut
<1>8. taken.failed \in 0 .. count
  <2> DEFINE front == TakeFront(f, count, merged.pos)
  <2>1. front \in Fronts(f, count)
    BY <1>7
  <2> HIDE DEF front
  <2>2. front = [mapping |-> front.mapping, lo |-> front.lo, required |-> front.required,
                 failed |-> front.failed] /\ front.failed \in 0 .. count
    BY <2>1 DEF Fronts
  <2>3. taken.failed = front.failed
    BY <2>2 DEF TakeSlots, TakeRest, front
  <2>4. QED
    BY <2>2, <2>3
<1>9. unfit \in SUBSET (1 .. m)
  <2> DEFINE start == count + SinkSize(f, m)
             p == merged.pos
  <2>1. start \in Int
    <3>1. PostSink(f) \in Int
      BY <1>3, Shape DEF PostSink
    <3>2. SinkSize(f, m) \in Int
      <4> DEFINE d == m - (PreSink(f) + PostSink(f))
      <4>1. d \in Int
        BY <1>3, <3>1
      <4>2. SinkSize(f, m) = IF f.sink = 0 THEN 0 ELSE Max({0, d})
        BY DEF SinkSize
      <4> HIDE DEF d
      <4>3. Max({0, d}) = IF 0 <= d THEN d ELSE 0
        BY <4>1, MaxOfTwo
      <4>4. QED
        BY <4>1, <4>2, <4>3
    <3>3. QED
      BY <1>4, <3>2
  <2>2. m = Len(p) /\ taken = TakeSlots(f, count, p) /\ start = count + SinkSize(f, m)
        /\ TakeFront(f, count, p) \in Fronts(f, count)
    BY <1>2, <1>7
  <2> HIDE DEF start, taken, count, p
  <2>3. UnfitBack(f, taken.mapping, p) \in SUBSET (1 .. m)
    BY <1>2, <2>1, <2>2, UnfitWithin
  <2>4. QED
    BY <2>3 DEF p
<1>10. CASE at = Nowhere
  BY <1>10 DEF IsFault
<1>11. CASE at \in b.faults /\ f.sink = 0 /\ m > Len(f.params)
  <2>1. at = AtPos(Len(f.params) + 1)
    <3> HIDE DEF taken
    <3>1. b = Fault(AtPos(Len(f.params) + 1))
      BY <1>6, <1>11
    <3> HIDE DEF b
    <3>2. QED
      BY <1>11, <3>1 DEF Fault
  <2>2. Len(f.params) + 1 \in 1 .. m
    BY <1>3, <1>11
  <2>3. QED
    BY <2>1, <2>2 DEF IsFault
<1>12. CASE at \in b.faults /\ ~(f.sink = 0 /\ m > Len(f.params))
  <2>1. b = IF taken.failed # 0 THEN Fault(AtPos(taken.failed))
            ELSE IF unfit # {} THEN Fault(AtPos(Min(unfit)))
            ELSE BindNamed(f, merged, taken.mapping, faults)
    BY <1>6, <1>12 DEF BindTo
  <2> DEFINE co == Coerced(f, taken.mapping, merged)
             mapping == taken.mapping
  <2>2. BindNamed(f, merged, mapping, faults)
          = IF faults # {} THEN [Fault(Nowhere) EXCEPT !.faults = faults]
            ELSE Validated(f, co, mapping)
    BY DEF BindNamed
  <2>3. at \in faults => IsFault(at, m)
    <3>1. merged.named \in NamedArgs
      BY <1>2
    <3>2. QED
      BY <3>1, NamedFaultForms
  <2>4. at \in Validated(f, co, mapping).faults => IsFault(at, m)
    <3> HIDE DEF co, mapping
    <3>1. QED
      BY ValidatedFaults
  <2> DEFINE failed == taken.failed
  <2>5. /\ b = IF failed # 0 THEN Fault(AtPos(failed))
               ELSE IF unfit # {} THEN Fault(AtPos(Min(unfit)))
               ELSE BindNamed(f, merged, mapping, faults)
        /\ failed \in 0 .. count
    BY <1>8, <2>1
  <2> HIDE DEF b, taken, unfit, faults, co, mapping, failed, count
  <2>6. CASE failed # 0
    <3>1. at = AtPos(failed)
      BY <1>12, <2>5, <2>6 DEF Fault
    <3>2. failed \in 1 .. m
      BY <1>3, <1>4, <2>5, <2>6
    <3>3. QED
      BY <3>1, <3>2 DEF IsFault
  <2>7. CASE failed = 0 /\ unfit # {}
    <3>1. at = AtPos(Min(unfit))
      BY <1>12, <2>5, <2>7 DEF Fault
    <3>2. unfit \in SUBSET Nat
      <4>1. 1 .. m \in SUBSET Nat
        OBVIOUS
      <4>2. QED
        BY <1>9, <4>1
    <3>3. Min(unfit) \in unfit
      BY <2>7, <3>2, MinIsLeast
    <3>4. Min(unfit) \in 1 .. m
      BY <1>9, <3>3
    <3>5. QED
      BY <3>1, <3>4 DEF IsFault
  <2>8. CASE failed = 0 /\ unfit = {}
    <3>1. b = IF faults # {} THEN [Fault(Nowhere) EXCEPT !.faults = faults]
              ELSE Validated(f, co, mapping)
      BY <2>2, <2>5, <2>8
    <3>2. CASE faults # {}
      <4>1. at \in faults
        BY <1>12, <3>1, <3>2 DEF Fault
      <4>2. QED
        BY <2>3, <4>1
    <3>3. CASE faults = {}
      BY <1>12, <2>4, <3>1, <3>3
    <3>4. QED
      BY <3>2, <3>3
  <2>9. QED
    BY <2>6, <2>7, <2>8
<1>13. QED
  BY <1>5, <1>10, <1>11, <1>12

\* How many of the first k arguments are written by position.
Place(w, k) == Cardinality({j \in 1 .. k : w[j].kind = "positional"})

\* The arguments are written in place or by name.
WrittenInPlace(w) == \A k \in DOMAIN w : IsSpelling(w[k]) /\ w[k].kind \in {"positional", "named"}

\* Which of the arguments supplied which position.
Origins(w) == [k \in DOMAIN w |-> [i \in DOMAIN w[k].args.pos |-> k]]

\* flat holds the arguments that are written by position among the first k.
HoldsPlaces(flat, w, k) ==
  /\ flat \in Seq(Nat)
  /\ Len(flat) = Place(w, k)
  /\ \A c \in 1 .. Len(flat) :
       flat[c] \in 1 .. k /\ w[flat[c]].kind = "positional" /\ Place(w, flat[c]) = c
  /\ \A j \in 1 .. k : w[j].kind = "positional" => Place(w, j) \in 1 .. Len(flat) /\ flat[Place(w, j)] = j

(***************************************************************************)
(* Each argument by position has the place after the one before it.        *)
(***************************************************************************)
LEMMA PlaceSteps ==
  ASSUME NEW w
  PROVE  /\ Place(w, 0) = 0
         /\ \A k \in Nat : Place(w, k) \in Nat
         /\ \A k \in Nat : Place(w, k + 1) = IF w[k + 1].kind = "positional" THEN Place(w, k) + 1
                                             ELSE Place(w, k)
<1> DEFINE those(i) == {j \in 1 .. i : w[j].kind = "positional"}
<1>1. \A i : Place(w, i) = Cardinality(those(i))
  BY DEF Place
<1>2. \A i \in Nat : IsFiniteSet(those(i))
  <2> SUFFICES ASSUME NEW i \in Nat PROVE IsFiniteSet(those(i))
    OBVIOUS
  <2>1. IsFiniteSet(1 .. i) /\ those(i) \in SUBSET (1 .. i)
    BY FS_Interval
  <2> HIDE DEF those
  <2>2. QED
    BY <2>1, FS_Subset
<1>3. Place(w, 0) = 0
  <2>1. those(0) = {}
    OBVIOUS
  <2> HIDE DEF those
  <2>2. QED
    BY <1>1, <2>1, FS_EmptySet
<1>4. \A i \in Nat : Place(w, i) \in Nat
  <2> HIDE DEF those
  <2>1. QED
    BY <1>1, <1>2, FS_CardinalityType
<1>5. ASSUME NEW k \in Nat
      PROVE  Place(w, k + 1) = IF w[k + 1].kind = "positional" THEN Place(w, k) + 1 ELSE Place(w, k)
  <2>1. 1 .. k + 1 = (1 .. k) \cup {k + 1} /\ k + 1 \notin 1 .. k
    OBVIOUS
  <2>2. CASE w[k + 1].kind = "positional"
    <3>1. those(k + 1) = those(k) \cup {k + 1} /\ k + 1 \notin those(k)
      BY <2>1, <2>2
    <3> HIDE DEF those
    <3>2. Cardinality(those(k + 1)) = Cardinality(those(k)) + 1
      BY <1>2, <3>1, FS_AddElement
    <3>3. QED
      BY <1>1, <2>2, <3>2
  <2>3. CASE w[k + 1].kind # "positional"
    <3>1. those(k + 1) = those(k)
      BY <2>1, <2>3
    <3> HIDE DEF those
    <3>2. QED
      BY <1>1, <2>3, <3>1
  <2>4. QED
    BY <2>2, <2>3
<1>6. QED
  BY <1>3, <1>4, <1>5

(***************************************************************************)
(* One more argument by position is the next place.                        *)
(***************************************************************************)
LEMMA NextPlace ==
  ASSUME NEW w, NEW k \in Nat, NEW flat, HoldsPlaces(flat, w, k), w[k + 1].kind = "positional",
         NEW e, e = k + 1
  PROVE  HoldsPlaces(flat \o <<e>>, w, e)
<1> DEFINE n == Len(flat)
           more == flat \o <<e>>
<1>1. /\ flat \in Seq(Nat) /\ n = Place(w, k) /\ n \in Nat
      /\ \A c \in 1 .. n : flat[c] \in 1 .. k /\ w[flat[c]].kind = "positional" /\ Place(w, flat[c]) = c
      /\ \A j \in 1 .. k : w[j].kind = "positional" => Place(w, j) \in 1 .. n /\ flat[Place(w, j)] = j
  BY DEF HoldsPlaces
<1>2. /\ more \in Seq(Nat) /\ Len(more) = n + 1 /\ more[n + 1] = e
      /\ \A i \in 1 .. n : more[i] = flat[i]
  BY <1>1
<1>3. Place(w, e) = n + 1 /\ w[e].kind = "positional"
  <2>1. Place(w, k + 1) = Place(w, k) + 1
    BY PlaceSteps
  <2>2. QED
    BY <1>1, <2>1
<1> HIDE DEF n, more
<1>4. ASSUME NEW c \in 1 .. n + 1
      PROVE  more[c] \in 1 .. e /\ w[more[c]].kind = "positional" /\ Place(w, more[c]) = c
  <2>1. CASE c = n + 1
    BY <1>1, <1>2, <1>3, <2>1
  <2>2. CASE c # n + 1
    <3>1. c \in 1 .. n
      BY <1>1, <2>2
    <3>2. more[c] = flat[c] /\ flat[c] \in 1 .. k
      BY <1>1, <1>2, <3>1
    <3>3. QED
      BY <1>1, <3>1, <3>2
  <2>3. QED
    BY <2>1, <2>2
<1>5. ASSUME NEW j \in 1 .. e, w[j].kind = "positional"
      PROVE  Place(w, j) \in 1 .. n + 1 /\ more[Place(w, j)] = j
  <2>1. CASE j = e
    BY <1>1, <1>2, <1>3, <2>1
  <2>2. CASE j # e
    <3>1. j \in 1 .. k
      BY <2>2
    <3>2. Place(w, j) \in 1 .. n /\ flat[Place(w, j)] = j
      BY <1>1, <1>5, <3>1
    <3>3. QED
      BY <1>1, <1>2, <3>2
  <2>3. QED
    BY <2>1, <2>2
<1>6. QED
  BY <1>2, <1>3, <1>4, <1>5 DEF HoldsPlaces, more

(***************************************************************************)
(* What supplied the positions of a call that spreads nothing.             *)
(***************************************************************************)
LEMMA OriginsOf ==
  ASSUME NEW w \in Seq(Spelt), WrittenInPlace(w)
  PROVE  /\ HoldsPlaces(FlattenSeq(Origins(w)), w, Len(w))
         /\ Len(FlattenSeq(Origins(w))) = Len(FlattenSeq(PosOf(w)))
<1> DEFINE n == Len(w)
           os == Origins(w)
           ps == PosOf(w)
           N == Seq(Nat)
           V == Seq(Value)
<1>1. /\ n \in Nat /\ DOMAIN w = 1 .. n
      /\ ps \in Seq(V) /\ Len(ps) = n
      /\ \A k \in 1 .. n : ps[k] = w[k].args.pos /\ w[k].args.pos \in V
  BY WrittenLists
<1>2. ASSUME NEW k \in 1 .. n
      PROVE  IF w[k].kind = "positional" THEN os[k] = <<k>> /\ Len(ps[k]) = 1
             ELSE os[k] = <<>> /\ Len(ps[k]) = 0
  <2> DEFINE pos == w[k].args.pos
  <2>1. IsSpelling(w[k]) /\ w[k].kind \in {"positional", "named"}
    BY <1>1 DEF WrittenInPlace
  <2>2. pos \in V /\ os[k] = [i \in DOMAIN pos |-> k]
    BY <1>1 DEF Origins
  <2>3. CASE w[k].kind = "positional"
    <3>1. Len(pos) = 1
      BY <2>1, <2>3 DEF IsSpelling
    <3>2. DOMAIN pos = 1 .. 1
      BY <2>2, <3>1
    <3>3. os[k] = <<k>>
      BY <2>2, <3>2
    <3>4. QED
      BY <1>1, <2>3, <3>1, <3>3
  <2>4. CASE w[k].kind = "named"
    <3>1. pos = <<>>
      BY <2>1, <2>4 DEF IsSpelling
    <3>2. Len(pos) = 0 /\ DOMAIN pos = {}
      BY <3>1
    <3>3. os[k] = <<>>
      BY <2>2, <3>2
    <3>4. QED
      BY <1>1, <2>4, <3>2, <3>3
  <2>5. QED
    BY <2>1, <2>3, <2>4
<1>3. ASSUME NEW k \in 1 .. n
      PROVE  os[k] \in N
  <2>1. k \in Nat
    BY <1>1
  <2>2. <<k>> \in N /\ <<>> \in N
    BY <2>1
  <2>3. os[k] = <<k>> \/ os[k] = <<>>
    BY <1>2
  <2> HIDE DEF os, N
  <2>4. QED
    BY <2>2, <2>3
<1>4. os \in Seq(N) /\ Len(os) = n
  <2>1. os = [k \in 1 .. n |-> os[k]]
    BY <1>1 DEF Origins
  <2> HIDE DEF os, N, n
  <2>2. QED
    BY <1>1, <1>3, <2>1, MakesSequence
<1> HIDE DEF n, os, ps
<1>5. PICK g \in [0 .. n -> Seq(Nat)] : Joins(g, os) /\ FlattenSeq(os) = g[n]
  BY <1>4, FlattenSteps
<1>6. PICK f \in [0 .. n -> Seq(Value)] : Joins(f, ps) /\ FlattenSeq(ps) = f[n]
  BY <1>1, FlattenSteps
<1>7. /\ g[0] = <<>> /\ \A i \in 1 .. n : g[i] = g[i - 1] \o os[i]
      /\ f[0] = <<>> /\ \A i \in 1 .. n : f[i] = f[i - 1] \o ps[i]
  BY <1>1, <1>4, <1>5, <1>6 DEF Joins
<1> DEFINE S == {i \in 0 .. n : HoldsPlaces(g[i], w, i) /\ Len(g[i]) = Len(f[i])}
<1>8. 0 \in S
  <2>1. Place(w, 0) = 0
    BY PlaceSteps
  <2>2. HoldsPlaces(<<>>, w, 0)
    BY <2>1 DEF HoldsPlaces
  <2>3. QED
    BY <1>1, <1>7, <2>2
<1>9. ASSUME NEW i \in 0 .. n - 1, i \in S
      PROVE  i + 1 \in S
  <2> DEFINE e == i + 1
             gi == g[i]
             fi == f[i]
  <2>1. e \in 1 .. n /\ e \in 0 .. n /\ e - 1 = i /\ i \in Nat /\ i \in 0 .. n
    BY <1>1
  <2>2. /\ HoldsPlaces(gi, w, i) /\ Len(gi) = Len(fi)
        /\ g[e] = gi \o os[e] /\ f[e] = fi \o ps[e]
        /\ gi \in Seq(Nat) /\ fi \in Seq(Value) /\ ps[e] \in Seq(Value)
    BY <1>1, <1>7, <1>9, <2>1
  <2>3. IF w[e].kind = "positional" THEN os[e] = <<e>> /\ Len(ps[e]) = 1
        ELSE os[e] = <<>> /\ Len(ps[e]) = 0
    BY <1>2, <2>1
  <2> HIDE DEF gi, fi
  <2>4. Len(f[e]) = Len(fi) + Len(ps[e])
    BY <2>2
  <2>5. CASE w[e].kind = "positional"
    <3>1. HoldsPlaces(gi \o <<e>>, w, e)
      BY <2>1, <2>2, <2>5, NextPlace
    <3>2. Len(gi \o <<e>>) = Len(gi) + 1
      BY <2>1, <2>2
    <3>3. g[e] = gi \o <<e>>
      BY <2>2, <2>3, <2>5
    <3>4. Len(g[e]) = Len(f[e])
      BY <2>2, <2>3, <2>4, <2>5, <3>2, <3>3
    <3>5. QED
      BY <2>1, <3>1, <3>3, <3>4
  <2>6. CASE w[e].kind # "positional"
    <3>1. g[e] = gi
      BY <2>2, <2>3, <2>6
    <3>2. HoldsPlaces(gi, w, e)
      <4>1. Place(w, e) = Place(w, i)
        BY <2>1, <2>6, PlaceSteps
      <4>2. \A j \in 1 .. e : w[j].kind = "positional" => j \in 1 .. i
        BY <2>1, <2>6
      <4>3. 1 .. i \in SUBSET (1 .. e)
        BY <2>1
      <4> HIDE DEF e
      <4>4. QED
        BY <2>2, <4>1, <4>2, <4>3 DEF HoldsPlaces
    <3>3. Len(g[e]) = Len(f[e])
      <4>1. Len(fi) \in Nat
        BY <2>2
      <4>2. QED
        BY <2>2, <2>3, <2>4, <2>6, <3>1, <4>1
    <3>4. QED
      BY <2>1, <3>1, <3>2, <3>3
  <2>7. QED
    BY <2>5, <2>6
<1> HIDE DEF S
<1>10. \A i \in 0 .. n : i \in S
  BY <1>1, <1>8, <1>9, InductionUpTo
<1>11. HoldsPlaces(g[n], w, n) /\ Len(g[n]) = Len(f[n])
  BY <1>1, <1>10 DEF S
<1>12. QED
  BY <1>5, <1>6, <1>11 DEF n, os, ps

\* A name is written once in a call.
NamesWrittenOnce(w) ==
  \A j, k \in DOMAIN w : w[j].kind = "named" /\ w[k].kind = "named" /\ w[j].name = w[k].name => j = k

\* The argument that supplies a position, and the one that supplies a name.
OriginIn(flat, ahead, behind) ==
  ([i \in 1 .. ahead |-> AtCall] \o flat) \o [i \in 1 .. behind |-> AtCall]
HasOrigin(origin, flat, ahead, p, i) ==
  IF i \in ahead + 1 .. ahead + p THEN origin = flat[i - ahead] ELSE origin = AtCall
NameOrigin(w, name) ==
  LET naming == {k \in DOMAIN w : name \in Names(w[k].args.named)}
  IN  IF naming = {} THEN AtCall ELSE Max(naming)

\* Who supplied what an error is about.
OriginOf(at, origins, w) ==
  CASE at.place = "positional" -> origins[at.index]
    [] at.place = "nowhere" -> AtCall
    [] OTHER -> NameOrigin(w, at.name)

\* The arguments that an error is located at.
Hits(f, w, at) ==
  {k \in DOMAIN w : \/ w[k].kind = "positional" /\ at = AtPos(Len(f.withArgs.pos) + Place(w, k))
                    \/ w[k].kind = "named" /\ at.place \in {"named", "pair"} /\ at.name = w[k].name}

FirstHit(hits) == IF hits = {} THEN AtCall ELSE Min(hits)

(***************************************************************************)
(* The positions between those bound ahead and those of blocks have their  *)
(* arguments.                                                              *)
(***************************************************************************)
LEMMA OriginAt ==
  ASSUME NEW flat \in Seq(Nat), NEW p, p = Len(flat), NEW ahead \in Nat, NEW behind \in Nat,
         NEW i \in 1 .. ahead + p + behind
  PROVE  HasOrigin(OriginIn(flat, ahead, behind)[i], flat, ahead, p, i)
<1> DEFINE first == [j \in 1 .. ahead |-> AtCall]
           last == [j \in 1 .. behind |-> AtCall]
           both == first \o flat
<1> SUFFICES OriginIn(flat, ahead, behind)[i]
               = IF i \in ahead + 1 .. ahead + p THEN flat[i - ahead] ELSE AtCall
  BY DEF HasOrigin
<1>1. /\ first \in Seq(Nat) /\ Len(first) = ahead /\ \A j \in 1 .. ahead : first[j] = AtCall
      /\ last \in Seq(Nat) /\ Len(last) = behind /\ \A j \in 1 .. behind : last[j] = AtCall
  BY DEF AtCall
<1>2. OriginIn(flat, ahead, behind) = both \o last
  BY DEF OriginIn
<1> HIDE DEF first, last
<1>3. /\ both \in Seq(Nat)
      /\ Len(both) = Len(first) + Len(flat)
      /\ \A j \in 1 .. Len(first) : both[j] = first[j]
      /\ \A j \in Len(first) + 1 .. Len(first) + Len(flat) : both[j] = flat[j - Len(first)]
  <2>1. first \in Seq(Nat) /\ flat \in Seq(Nat)
    BY <1>1
  <2>2. QED
    BY <2>1, ConcatEntries, SMTT(30)
<1> HIDE DEF both
<1>4. /\ \A j \in 1 .. Len(both) : (both \o last)[j] = both[j]
      /\ \A j \in Len(both) + 1 .. Len(both) + Len(last) : (both \o last)[j] = last[j - Len(both)]
  BY <1>1, <1>3, ConcatEntries, SMTT(30)
<1> DEFINE r == both \o last
<1> HIDE DEF r
<1>5. /\ \A j \in 1 .. ahead + p : r[j] = both[j]
      /\ \A j \in ahead + p + 1 .. ahead + p + behind : r[j] = last[j - (ahead + p)]
      /\ \A j \in 1 .. ahead : both[j] = AtCall
      /\ \A j \in ahead + 1 .. ahead + p : both[j] = flat[j - ahead]
  BY <1>1, <1>3, <1>4 DEF r
<1>6. p \in Nat
  OBVIOUS
<1>7. CASE i \in ahead + 1 .. ahead + p
  <2>1. i \in 1 .. ahead + p
    BY <1>6, <1>7
  <2>2. QED
    BY <1>2, <1>5, <1>7, <2>1 DEF r
<1>8. CASE i \in 1 .. ahead
  <2>1. i \in 1 .. ahead + p /\ i \notin ahead + 1 .. ahead + p
    BY <1>6, <1>8
  <2>2. QED
    BY <1>2, <1>5, <1>8, <2>1 DEF r
<1>9. CASE i \in ahead + p + 1 .. ahead + p + behind
  <2>1. i \notin ahead + 1 .. ahead + p /\ i - (ahead + p) \in 1 .. behind
    BY <1>6, <1>9
  <2>2. r[i] = AtCall
    BY <1>1, <1>5, <1>9, <2>1
  <2>3. QED
    BY <1>2, <2>1, <2>2 DEF r
<1>10. QED
  BY <1>6, <1>7, <1>8, <1>9

(***************************************************************************)
(* An error at a position is located at the argument that supplies it.     *)
(***************************************************************************)
LEMMA PositionLocated ==
  ASSUME NEW f, NEW w \in Seq(Spelt), WrittenInPlace(w),
         NEW ahead \in Nat, ahead = Len(f.withArgs.pos), NEW behind \in Nat,
         NEW flat, flat = FlattenSeq(Origins(w)),
         NEW i \in 1 .. ahead + Len(flat) + behind,
         NEW at, at = AtPos(i), NEW hits, hits = Hits(f, w, at)
  PROVE  FirstHit(hits) = OriginIn(flat, ahead, behind)[i]
<1> DEFINE n == Len(w)
           p == Len(flat)
           o == OriginIn(flat, ahead, behind)[i]
<1> SUFFICES (IF hits = {} THEN AtCall ELSE Min(hits)) = o
  BY DEF FirstHit
<1>1. n \in Nat /\ DOMAIN w = 1 .. n
  OBVIOUS
<1>2. /\ flat \in Seq(Nat) /\ p \in Nat
      /\ \A c \in 1 .. p : flat[c] \in 1 .. n /\ w[flat[c]].kind = "positional" /\ Place(w, flat[c]) = c
      /\ \A j \in 1 .. n : w[j].kind = "positional" => Place(w, j) \in 1 .. p /\ flat[Place(w, j)] = j
  <2>1. HoldsPlaces(flat, w, n)
    BY OriginsOf
  <2> HIDE DEF n
  <2>2. QED
    BY <2>1 DEF HoldsPlaces
<1>3. hits = {k \in 1 .. n : w[k].kind = "positional" /\ i = ahead + Place(w, k)}
  <2>1. at.place = "positional" /\ at.index = i
    BY DEF AtPos, At
  <2>2. ASSUME NEW k \in 1 .. n
        PROVE  at = AtPos(ahead + Place(w, k)) <=> i = ahead + Place(w, k)
    <3> DEFINE q == ahead + Place(w, k)
    <3> HIDE DEF q
    <3>1. AtPos(q).index = q
      BY DEF AtPos, At
    <3>2. at = AtPos(q) <=> i = q
      BY <2>1, <3>1
    <3>3. QED
      BY <3>2 DEF q
  <2>3. QED
    BY <1>1, <2>1, <2>2 DEF Hits
<1>4. o = IF i \in ahead + 1 .. ahead + p THEN flat[i - ahead] ELSE AtCall
  <2>1. flat \in Seq(Nat) /\ p = Len(flat) /\ i \in 1 .. ahead + p + behind
    BY <1>2
  <2> HIDE DEF p
  <2>2. HasOrigin(OriginIn(flat, ahead, behind)[i], flat, ahead, p, i)
    BY <2>1, OriginAt
  <2>3. QED
    BY <2>2 DEF HasOrigin
<1> HIDE DEF n, p, o
<1>5. CASE i \in ahead + 1 .. ahead + p
  <2> DEFINE c == i - ahead
             k == flat[c]
  <2>1. c \in 1 .. p /\ i = ahead + c
    BY <1>2, <1>5
  <2> HIDE DEF c
  <2>2. k \in 1 .. n /\ w[k].kind = "positional" /\ Place(w, k) = c
    BY <1>2, <2>1
  <2>3. ASSUME NEW j \in 1 .. n, w[j].kind = "positional", i = ahead + Place(w, j)
        PROVE  j = k
    <3>1. Place(w, j) \in 1 .. p /\ flat[Place(w, j)] = j
      BY <1>2, <2>3
    <3>2. Place(w, j) = c
      <4> DEFINE q == Place(w, j)
      <4>1. q \in 1 .. p /\ i = ahead + q
        BY <2>3, <3>1
      <4> HIDE DEF q
      <4>2. q = c
        BY <1>2, <2>1, <4>1
      <4>3. QED
        BY <4>2 DEF q
    <3>3. QED
      BY <3>1, <3>2
  <2>4. o = k
    BY <1>4, <1>5 DEF c
  <2> HIDE DEF k
  <2>5. hits = {k}
    BY <1>3, <2>1, <2>2, <2>3
  <2>6. hits \in SUBSET Nat /\ hits # {}
    BY <1>1, <2>2, <2>5
  <2>7. Min(hits) \in hits
    BY <2>6, MinIsLeast
  <2>8. QED
    BY <2>4, <2>5, <2>6, <2>7 DEF o
<1>6. CASE i \notin ahead + 1 .. ahead + p
  <2>1. ASSUME NEW j \in 1 .. n, w[j].kind = "positional", i = ahead + Place(w, j)
        PROVE  FALSE
    <3> DEFINE q == Place(w, j)
    <3>1. q \in 1 .. p /\ i = ahead + q
      BY <1>2, <2>1
    <3> HIDE DEF q
    <3>2. i \in ahead + 1 .. ahead + p
      BY <1>2, <3>1
    <3>3. QED
      BY <1>6, <3>2
  <2>2. hits = {}
    BY <1>3, <2>1
  <2>3. QED
    BY <1>4, <1>6, <2>2 DEF o
<1>7. QED
  BY <1>5, <1>6

(***************************************************************************)
(* An error at a name is located at the argument that is written with it.  *)
(***************************************************************************)
LEMMA NameLocated ==
  ASSUME NEW f, NEW w \in Seq(Spelt), WrittenInPlace(w), NamesWrittenOnce(w),
         NEW place \in {"named", "pair"}, NEW name,
         NEW at, at = At(place, 0, name), NEW hits, hits = Hits(f, w, at)
  PROVE  FirstHit(hits) = NameOrigin(w, name)
<1> DEFINE n == Len(w)
           naming == {k \in DOMAIN w : name \in Names(w[k].args.named)}
<1> SUFFICES (IF hits = {} THEN AtCall ELSE Min(hits)) = NameOrigin(w, name)
  BY DEF FirstHit
<1>1. n \in Nat /\ DOMAIN w = 1 .. n
  OBVIOUS
<1>2. at.place = place /\ at.name = name /\ place # "positional"
  BY DEF At
<1>3. \A q : at # AtPos(q)
  <2>1. \A q : AtPos(q).place = "positional"
    BY DEF AtPos, At
  <2>2. QED
    BY <1>2, <2>1
<1>4. hits = {k \in 1 .. n : w[k].kind = "named" /\ name = w[k].name}
  BY <1>1, <1>2, <1>3 DEF Hits
<1>5. ASSUME NEW k \in 1 .. n
      PROVE  name \in Names(w[k].args.named) <=> w[k].kind = "named" /\ name = w[k].name
  <2> DEFINE named == w[k].args.named
  <2>1. IsSpelling(w[k]) /\ w[k].kind \in {"positional", "named"}
    BY <1>1 DEF WrittenInPlace
  <2>2. Names(named) = {named[i][1] : i \in DOMAIN named}
    BY DEF Names
  <2>3. CASE w[k].kind = "positional"
    <3>1. named = <<>>
      BY <2>1, <2>3 DEF IsSpelling
    <3>2. DOMAIN named = {}
      BY <3>1
    <3>3. QED
      BY <2>2, <2>3, <3>2
  <2>4. CASE w[k].kind = "named"
    <3>1. Len(named) = 1 /\ named[1][1] = w[k].name
      BY <2>1, <2>4 DEF IsSpelling
    <3>2. DOMAIN named = 1 .. 1
      <4>1. named \in NamedArgs
        BY <1>1, WrittenLists
      <4>2. DOMAIN named = 1 .. Len(named)
        BY <4>1 DEF NamedArgs
      <4>3. QED
        BY <3>1, <4>2
    <3>3. QED
      BY <2>2, <2>4, <3>1, <3>2
  <2>5. QED
    BY <2>1, <2>3, <2>4
<1>6. hits = naming
  BY <1>1, <1>4, <1>5
<1>7. NameOrigin(w, name) = IF naming = {} THEN AtCall ELSE Max(naming)
  BY DEF NameOrigin
<1> HIDE DEF naming
<1>8. CASE hits # {}
  <2>1. PICK k \in hits : TRUE
    BY <1>8
  <2>2. k \in 1 .. n /\ hits = {k}
    <3>1. ASSUME NEW j \in hits PROVE j = k
      BY <1>1, <1>4, <2>1 DEF NamesWrittenOnce
    <3>2. QED
      BY <1>4, <2>1, <3>1
  <2>3. hits \in SUBSET Nat /\ hits \in SUBSET (1 .. n)
    BY <1>1, <2>2
  <2>4. Min(hits) \in hits
    BY <1>8, <2>3, MinIsLeast
  <2>5. Max(hits) \in hits
    BY <1>1, <1>8, <2>3, MaxWithin
  <2>6. Min(hits) = k /\ Max(hits) = k
    BY <2>2, <2>4, <2>5
  <2>7. NameOrigin(w, name) = Max(hits)
    BY <1>6, <1>7, <1>8
  <2>8. QED
    BY <1>8, <2>6, <2>7
<1>9. CASE hits = {}
  BY <1>6, <1>7, <1>9
<1>10. QED
  BY <1>8, <1>9

(***************************************************************************)
(* An error about the whole call is located at the call.                   *)
(***************************************************************************)
LEMMA CallLocated ==
  ASSUME NEW f, NEW w, NEW at, at = Nowhere
  PROVE  Hits(f, w, at) = {}
<1>1. at.place = "nowhere"
  BY DEF Nowhere, At
<1>2. \A q : at # AtPos(q)
  <2>1. \A q : AtPos(q).place = "positional"
    BY DEF AtPos, At
  <2>2. QED
    BY <1>1, <2>1
<1>3. QED
  BY <1>1, <1>2 DEF Hits

\* An error is located at who supplied what it is about.
IsLocated(f, w, at, origins) == LocateArgErrSpan(f, w, at) = OriginOf(at, origins, w)

(***************************************************************************)
(* An error of a call that spreads nothing is located at what it is about. *)
(***************************************************************************)
LEMMA Located ==
  ASSUME NEW f, NEW w \in Seq(Spelt), WrittenInPlace(w), NamesWrittenOnce(w),
         NEW ahead \in Nat, ahead = Len(f.withArgs.pos), NEW behind \in Nat,
         NEW flat, flat = FlattenSeq(Origins(w)),
         NEW m, m = ahead + Len(flat) + behind,
         NEW at, IsFault(at, m)
  PROVE  IsLocated(f, w, at, OriginIn(flat, ahead, behind))
<1> DEFINE hits == Hits(f, w, at)
           origins == OriginIn(flat, ahead, behind)
<1> SUFFICES LocateArgErrSpan(f, w, at) = OriginOf(at, origins, w)
  BY DEF IsLocated
<1>1. LocateArgErrSpan(f, w, at) = FirstHit(hits)
  BY DEF LocateArgErrSpan, Hits, Place, FirstHit
<1>2. OriginOf(at, origins, w)
        = CASE at.place = "positional" -> origins[at.index]
            [] at.place = "nowhere" -> AtCall
            [] OTHER -> NameOrigin(w, at.name)
  BY DEF OriginOf
<1>3. hits = Hits(f, w, at)
  OBVIOUS
<1> HIDE DEF hits
<1>4. CASE at = Nowhere
  <2>1. hits = {}
    BY <1>3, <1>4, CallLocated
  <2>2. at.place = "nowhere"
    BY <1>4 DEF Nowhere, At
  <2>3. OriginOf(at, origins, w) = AtCall
    BY <1>2, <2>2
  <2>4. QED
    BY <1>1, <2>1, <2>3 DEF FirstHit
<1>5. ASSUME NEW i \in 1 .. m, at = AtPos(i)
      PROVE  LocateArgErrSpan(f, w, at) = OriginOf(at, origins, w)
  <2>1. at.place = "positional" /\ at.index = i
    BY <1>5 DEF AtPos, At
  <2>2. FirstHit(hits) = origins[i]
    BY <1>3, <1>5, PositionLocated
  <2>3. OriginOf(at, origins, w) = origins[i]
    BY <1>2, <2>1
  <2>4. QED
    BY <1>1, <2>2, <2>3
<1>6. ASSUME NEW place \in {"named", "pair"}, NEW name, at = At(place, 0, name)
      PROVE  LocateArgErrSpan(f, w, at) = OriginOf(at, origins, w)
  <2>1. at.place = place /\ at.name = name
    BY <1>6 DEF At
  <2>2. FirstHit(hits) = NameOrigin(w, name)
    BY <1>3, <1>6, NameLocated, SMTT(30)
  <2>3. OriginOf(at, origins, w) = NameOrigin(w, name)
    BY <1>2, <2>1
  <2>4. QED
    BY <1>1, <2>2, <2>3
<1>7. QED
  BY <1>4, <1>5, <1>6 DEF IsFault

(***************************************************************************)
(* An error of a call that spreads nothing is reported at the argument it  *)
(* is about, or at the call.                                               *)
(***************************************************************************)
LEMMA FaultLocated ==
  ASSUME NEW f, IsFunction(f), NEW v \in Seq(Spelt), NEW w \in Seq(Spelt), NEW blocks \in Seq(Value),
         Ids(f.withArgs.pos) = Ids(FlattenSeq(PosOf(v))),
         WrittenInPlace(w), NamesWrittenOnce(w),
         NEW at \in Apply(f, BuildCallArgs(w, blocks)).faults,
         NEW ahead, ahead = Len(FlattenSeq(PosOf(v))), NEW behind, behind = Len(blocks),
         NEW flat, flat = FlattenSeq(Origins(w))
  PROVE  LocateArgErrSpan(f, w, at) = OriginOf(at, OriginIn(flat, ahead, behind), w)
<1> DEFINE args == BuildCallArgs(w, blocks)
           first == FlattenSeq(PosOf(v))
           own == FlattenSeq(PosOf(w))
           bound == f.withArgs.pos
           merged == Merge(f.withArgs, args)
           m == Len(merged.pos)
<1>1. f.withArgs \in Arguments /\ bound \in Seq(Value)
  BY DEF IsFunction, Arguments
<1>2. first \in Seq(Value)
  BY SuppliedLists
<1>3. ahead \in Nat /\ ahead = Len(bound) /\ behind \in Nat
  <2>1. DOMAIN Ids(bound) = DOMAIN bound /\ DOMAIN Ids(first) = DOMAIN first
    BY DEF Ids
  <2>2. Ids(bound) = Ids(first) /\ ahead = Len(first)
    OBVIOUS
  <2> HIDE DEF first, bound
  <2>3. DOMAIN bound = DOMAIN first
    BY <2>1, <2>2
  <2>4. QED
    BY <1>1, <1>2, <2>2, <2>3
<1>4. args \in Arguments /\ own \in Seq(Value) /\ args.pos = own \o blocks
  BY BuildGives
<1>5. Len(flat) = Len(own) /\ Len(flat) \in Nat
  <2>1. Len(flat) = Len(own)
    BY OriginsOf
  <2> HIDE DEF own
  <2>2. QED
    BY <1>4, <2>1
<1> HIDE DEF args
<1>6. merged.pos = bound \o args.pos
  BY <1>1, <1>4, MergeGives
<1>7. m = ahead + Len(flat) + behind /\ m \in Nat
  <2> HIDE DEF merged, own, bound
  <2>1. Len(args.pos) = Len(own) + Len(blocks) /\ args.pos \in Seq(Value)
    BY <1>4
  <2>2. Len(merged.pos) = Len(bound) + Len(args.pos)
    <3>1. \A a, b \in Seq(Value) : Len(a \o b) = Len(a) + Len(b)
      OBVIOUS
    <3>2. QED
      BY <1>1, <1>6, <2>1, <3>1
  <2>3. QED
    BY <1>3, <1>5, <2>1, <2>2
<1>8. IsFault(at, m)
  <2>1. at \in Apply(f, args).faults /\ merged = Merge(f.withArgs, args)
    BY DEF args
  <2>2. m = Len(merged.pos) /\ m \in Nat
    BY <1>7
  <2> HIDE DEF merged, m
  <2>3. QED
    BY <1>4, <2>1, <2>2, FaultForms
<1>9. ahead = Len(f.withArgs.pos)
  BY <1>3
<1> HIDE DEF m, bound
<1>10. /\ w \in Seq(Spelt) /\ WrittenInPlace(w) /\ NamesWrittenOnce(w)
       /\ ahead \in Nat /\ ahead = Len(f.withArgs.pos) /\ behind \in Nat
       /\ flat = FlattenSeq(Origins(w))
       /\ m = ahead + Len(flat) + behind
       /\ IsFault(at, m)
  BY <1>3, <1>7, <1>8, <1>9
<1>11. IsLocated(f, w, at, OriginIn(flat, ahead, behind))
  BY <1>10, Located
<1>12. QED
  BY <1>11 DEF IsLocated

\* The arguments of a call are spelt as they may be, and a name is written once.
WrittenOnce == (\A k \in DOMAIN written : IsSpelling(written[k])) /\ NamesWrittenOnce(written)
OffenderInv == WrittenOnce /\ ErrorAtOffender

(***************************************************************************)
(* A name is not written twice.                                            *)
(***************************************************************************)
LEMMA WriteOnce ==
  ASSUME CallsInv, WrittenOnce, NEW spelling \in Spellings(base), Write(spelling)
  PROVE  WrittenOnce'
<1> DEFINE w == written
           n == Len(w)
           more == Append(w, spelling)
<1>1. IsSpelling(spelling)
  BY FunctionsAssumption DEF CallsInv
<1>2. spelling \in Spelt /\ w \in Seq(Spelt)
  BY <1>1 DEF IsSpelling, CallsInv
<1>3. n \in Nat /\ DOMAIN w = 1 .. n
  BY <1>2
<1>4. /\ DOMAIN more = 1 .. n + 1
      /\ more[n + 1] = spelling
      /\ \A k \in 1 .. n : more[k] = w[k]
  BY <1>2, <1>3
<1>5. written' = more /\ (spelling.kind = "named" => \A k \in 1 .. n : w[k].name # spelling.name)
  BY <1>3 DEF Write
<1>6. (\A k \in 1 .. n : IsSpelling(w[k])) /\ NamesWrittenOnce(w)
  BY <1>3 DEF WrittenOnce
<1> HIDE DEF n, more
<1>7. \A k \in 1 .. n + 1 : IsSpelling(more[k])
  <2> SUFFICES ASSUME NEW k \in 1 .. n + 1 PROVE IsSpelling(more[k])
    OBVIOUS
  <2>1. k = n + 1 \/ k \in 1 .. n
    BY <1>3
  <2>2. QED
    BY <1>1, <1>4, <1>6, <2>1
<1>8. NamesWrittenOnce(more)
  <2> SUFFICES ASSUME NEW j \in 1 .. n + 1, NEW k \in 1 .. n + 1,
                      more[j].kind = "named", more[k].kind = "named", more[j].name = more[k].name
               PROVE  j = k
    BY <1>4 DEF NamesWrittenOnce
  <2>1. (j = n + 1 \/ j \in 1 .. n) /\ (k = n + 1 \/ k \in 1 .. n)
    BY <1>3
  <2>2. CASE j \in 1 .. n /\ k \in 1 .. n
    BY <1>3, <1>4, <1>6, <2>2 DEF NamesWrittenOnce
  <2>3. CASE j = n + 1 /\ k \in 1 .. n
    BY <1>4, <1>5, <2>3
  <2>4. CASE j \in 1 .. n /\ k = n + 1
    BY <1>4, <1>5, <2>4
  <2>5. CASE j = n + 1 /\ k = n + 1
    BY <2>5
  <2>6. QED
    BY <2>1, <2>2, <2>3, <2>4, <2>5
<1>9. QED
  BY <1>4, <1>5, <1>7, <1>8 DEF WrittenOnce

(***************************************************************************)
(* An error of a call is reported at its offender.                         *)
(***************************************************************************)
LEMMA CallLocates ==
  ASSUME CallsInv, WrittenOnce, NEW blocks \in Blocks, Call(blocks)
  PROVE  ErrorAtOffender'
<1> SUFFICES ASSUME outcome'.result = "error", Unspreadable(written)' = {},
                    \A k \in DOMAIN written' : ~IsSpread(k)'
             PROVE  outcome'.at = Offender'
  BY DEF ErrorAtOffender
<1>1. UNCHANGED <<fn, written, base, given>>
  BY DEF Call
<1> DEFINE r == Apply(fn, BuildCallArgs(written, blocks))
           at == CHOOSE x \in r.faults : TRUE
           ahead == Len(FlattenSeq(PosOf(given)))
           behind == Len(blocks)
           flat == FlattenSeq(Origins(written))
           origins == OriginIn(flat, ahead, behind)
<1>2. Unspreadable(written) = {} /\ \A k \in DOMAIN written : written[k].kind # "spread"
  BY <1>1 DEF Unspreadable, IsSpread
<1>3. EndCall(r, blocks)
  BY <1>2 DEF Call, Spreads
<1> HIDE DEF r
<1>4. /\ r.faults # {}
      /\ outcome' = Outcomes("error", at, LocateArgErrSpan(fn, written, at), <<>>, blocks)
  <2>1. CASE r.faults = {}
    <3>1. outcome'.result = "passed"
      BY <1>3, <2>1 DEF EndCall, Outcomes
    <3>2. QED
      BY <3>1
  <2>2. CASE r.faults # {}
    BY <1>3, <2>2 DEF EndCall
  <2>3. QED
    BY <2>1, <2>2
<1>5. at \in r.faults
  BY <1>4
<1> HIDE DEF at
<1>6. outcome'.fault = at /\ outcome'.at = LocateArgErrSpan(fn, written, at) /\ outcome'.blocks = blocks
  BY <1>4 DEF Outcomes
<1>7. written \in Seq(Spelt) /\ given \in Seq(Spelt) /\ Ids(fn.withArgs.pos) = Ids(FlattenSeq(PosOf(given)))
  BY DEF CallsInv, BoundAhead
<1>8. WrittenInPlace(written) /\ NamesWrittenOnce(written)
  <2>1. ASSUME NEW k \in DOMAIN written
        PROVE  IsSpelling(written[k]) /\ written[k].kind \in {"positional", "named"}
    <3>1. IsSpelling(written[k])
      BY DEF WrittenOnce
    <3>2. written[k].kind \in {"positional", "named", "spread", "unspreadable"}
      BY <3>1 DEF IsSpelling, Spelt
    <3>3. written[k].kind # "unspreadable" /\ written[k].kind # "spread"
      BY <1>2 DEF Unspreadable
    <3>4. QED
      BY <3>1, <3>2, <3>3
  <2>2. QED
    BY <2>1 DEF WrittenInPlace, WrittenOnce
<1>9. IsFunction(fn)
  BY FunctionStays
<1>10. blocks \in Seq(Value)
  BY BlocksAssumption
<1>11. at \in Apply(fn, BuildCallArgs(written, blocks)).faults
  BY <1>5 DEF r
<1>12. ahead = Len(FlattenSeq(PosOf(given))) /\ behind = Len(blocks) /\ flat = FlattenSeq(Origins(written))
  OBVIOUS
<1>13. PosOrigins' = origins
  <2> DEFINE first == FlattenSeq(PosOf(given))
  <2>1. first \in Seq(Value)
    BY <1>7, SuppliedLists
  <2>2. PosOrigins' = ([i \in DOMAIN first |-> AtCall] \o flat) \o [i \in DOMAIN blocks |-> AtCall]
    BY <1>1, <1>6 DEF PosOrigins, PosOf, Origins
  <2>3. DOMAIN blocks = 1 .. behind
    BY <1>10
  <2>4. ahead = Len(first)
    OBVIOUS
  <2> HIDE DEF first, ahead, behind, flat
  <2>5. DOMAIN first = 1 .. ahead
    BY <2>1, <2>4
  <2>6. QED
    BY <2>2, <2>3, <2>5 DEF OriginIn
<1> HIDE DEF ahead, behind, flat
<1>14. LocateArgErrSpan(fn, written, at) = OriginOf(at, origins, written)
  BY <1>7, <1>8, <1>9, <1>10, <1>11, <1>12, FaultLocated
<1>15. Offender' = OriginOf(at, origins, written)
  <2> HIDE DEF origins
  <2>1. Offender' = CASE at.place = "positional" -> origins[at.index]
                      [] at.place = "nowhere" -> AtCall
                      [] OTHER -> NameOrigin(written, at.name)
    BY <1>1, <1>6, <1>13 DEF Offender, NamedOrigin, NameOrigin
  <2>2. QED
    BY <2>1 DEF OriginOf
<1>16. QED
  BY <1>6, <1>14, <1>15

(***************************************************************************)
(* Only the error of a call has an offender.                               *)
(***************************************************************************)
LEMMA NothingLocated ==
  ASSUME outcome'.result # "error"
  PROVE  ErrorAtOffender'
<1>1. QED
  BY DEF ErrorAtOffender

(***************************************************************************)
(* Every step keeps the place of errors.                                   *)
(***************************************************************************)
LEMMA OffenderStep ==
  ASSUME CallsInv, OffenderInv, [Next]_vars
  PROVE  OffenderInv'
<1>0. WrittenOnce
  BY DEF OffenderInv
<1>1. ASSUME NEW spelling \in Spellings(base), Write(spelling) PROVE OffenderInv'
  <2>1. WrittenOnce'
    BY <1>0, <1>1, WriteOnce
  <2>2. outcome'.result # "error"
    BY <1>1 DEF Write, NotCalled, Outcomes
  <2>3. QED
    BY <2>1, <2>2, NothingLocated DEF OffenderInv
<1>2. ASSUME NEW blocks \in Blocks, Call(blocks) PROVE OffenderInv'
  <2>1. ErrorAtOffender'
    BY <1>0, <1>2, CallLocates
  <2>2. WrittenOnce'
    BY <1>0, <1>2 DEF Call, WrittenOnce
  <2>3. QED
    BY <2>1, <2>2 DEF OffenderInv
<1>3. CASE PartiallyApply
  <2> DEFINE none == <<>>
             bound == FunctionWithImpl(fn, BuildCallArgs(written, none))
  <2>1. outcome = NotCalled /\ EndWith(bound)
    BY <1>3 DEF PartiallyApply
  <2> HIDE DEF bound
  <2>2. CASE bound.faults # {}
    <3>1. outcome'.result = "unbound" /\ written' = written
      BY <2>1, <2>2 DEF EndWith, Outcomes
    <3>2. WrittenOnce'
      BY <1>0, <3>1 DEF WrittenOnce
    <3>3. QED
      BY <3>1, <3>2, NothingLocated DEF OffenderInv
  <2>3. CASE bound.faults = {}
    <3>1. outcome' = NotCalled /\ written' = none
      BY <2>1, <2>3 DEF EndWith
    <3>2. outcome'.result # "error"
      BY <3>1 DEF NotCalled, Outcomes
    <3>3. DOMAIN written' = {}
      BY <3>1
    <3>4. WrittenOnce'
      BY <3>3 DEF WrittenOnce, NamesWrittenOnce
    <3>5. QED
      BY <3>2, <3>4, NothingLocated DEF OffenderInv
  <2>4. QED
    BY <2>2, <2>3
<1>4. CASE UNCHANGED vars
  <2>1. fn' = fn /\ written' = written /\ outcome' = outcome /\ base' = base /\ given' = given
    BY <1>4 DEF vars
  <2>2. WrittenOnce' = WrittenOnce
    BY <2>1 DEF WrittenOnce
  <2>3. Offender' = Offender
    <3>1. PosOrigins' = PosOrigins
      BY <2>1 DEF PosOrigins
    <3>2. \A name : NamedOrigin(name)' = NamedOrigin(name)
      BY <2>1 DEF NamedOrigin
    <3>3. QED
      BY <2>1, <3>1, <3>2 DEF Offender
  <2>4. ErrorAtOffender' = ErrorAtOffender
    BY <2>1, <2>3 DEF ErrorAtOffender, IsSpread, Unspreadable
  <2>5. QED
    BY <2>2, <2>4 DEF OffenderInv
<1>5. QED
  BY <1>1, <1>2, <1>3, <1>4 DEF Next

(***************************************************************************)
(* In a call of the function itself (not of its `with`) that spreads       *)
(* nothing, an error about an argument is reported at that argument,       *)
(* written by position or by name, and an error about what was bound ahead *)
(* or passed as a block at the call.                                       *)
(***************************************************************************)
THEOREM OffenderNamed == Spec => []ErrorAtOffender
<1>1. Init => OffenderInv
  <2> SUFFICES ASSUME Init PROVE OffenderInv
    OBVIOUS
  <2>1. outcome = NotCalled /\ DOMAIN written = {}
    BY DEF Init
  <2>2. outcome.result # "error"
    BY <2>1 DEF NotCalled, Outcomes
  <2>3. QED
    BY <2>1, <2>2 DEF OffenderInv, WrittenOnce, NamesWrittenOnce, ErrorAtOffender
<1>2. CallsInv /\ OffenderInv /\ [Next]_vars => OffenderInv'
  BY OffenderStep
<1>3. OffenderInv => ErrorAtOffender
  BY DEF OffenderInv
<1>4. QED
  BY <1>1, <1>2, <1>3, CallsInvariant, PTL DEF Spec

-----------------------------------------------------------------------------
(* How the parameters before the sink are filled, step by step.            *)

\* r holds what has been taken after each argument.
IsRun(r, f, count, pos) ==
  /\ r \in [0 .. count -> Fronts(f, count)]
  /\ r[0] = NoneTaken(f)
  /\ \A i \in 1 .. count : r[i] = TakeOne(f, r[i - 1], i, count, pos)

(***************************************************************************)
(* How many required parameters are left.                                  *)
(***************************************************************************)
LEMMA FillCounts ==
  ASSUME NEW f, NEW count, NEW s \in Fronts(f, count), NEW i, NEW slot,
         NEW t, t = Fill(f, s, i, slot)
  PROVE  t.required = IF f.params[slot].required THEN s.required - 1 ELSE s.required
<1> DEFINE new == [j \in DOMAIN s.mapping |->
                     IF j = slot THEN i
                     ELSE IF j \in s.lo .. slot - 1 /\ ~f.params[j].required THEN Default
                     ELSE s.mapping[j]]
           left == IF f.params[slot].required THEN s.required - 1 ELSE s.required
<1>1. t = [s EXCEPT !.mapping = new, !.required = left, !.lo = slot + 1]
  BY DEF Fill
<1>2. s = [mapping |-> s.mapping, lo |-> s.lo, required |-> s.required, failed |-> s.failed]
  BY DEF Fronts
<1> HIDE DEF new, left
<1>3. t.required = left
  BY <1>1, <1>2
<1>4. QED
  BY <1>3 DEF left

\* The argument i has taken a slot.
IsFill(f, s, i, g, t) ==
  /\ t.lo = g + 1 /\ t.failed = s.failed
  /\ t.required = IF f.params[g].required THEN s.required - 1 ELSE s.required
  /\ \A j \in Slots(f) :
       t.mapping[j] = IF j = g THEN i
                      ELSE IF j \in s.lo .. g - 1 /\ ~f.params[j].required THEN Default
                      ELSE s.mapping[j]

(***************************************************************************)
(* What filling a slot does.                                               *)
(***************************************************************************)
LEMMA FillIs ==
  ASSUME NEW f, IsFunction(f), NEW count \in Nat, NEW s \in Fronts(f, count),
         NEW i \in 1 .. count, NEW g \in Nat,
         NEW t, t = Fill(f, s, i, g)
  PROVE  t \in Fronts(f, count) /\ IsFill(f, s, i, g, t)
<1>1. /\ t \in Fronts(f, count)
      /\ t.lo = g + 1 /\ t.failed = s.failed
      /\ \A j \in Slots(f) :
           t.mapping[j] = IF j = g THEN i
                          ELSE IF j \in s.lo .. g - 1 /\ ~f.params[j].required THEN Default
                          ELSE s.mapping[j]
  BY FillGives, SMTT(30)
<1>2. t.required = IF f.params[g].required THEN s.required - 1 ELSE s.required
  BY FillCounts
<1>3. QED
  BY <1>1, <1>2 DEF IsFill

\* An argument takes the first slot that fits it, or fails.
IsStep(f, s, i, count, pos, t) ==
  IF Fitting(f, s, i, count, pos) = {}
  THEN t.failed = i /\ t.mapping = s.mapping /\ t.lo = s.lo
  ELSE \E g \in Fitting(f, s, i, count, pos) :
         /\ g = Min(Fitting(f, s, i, count, pos))
         /\ \A x \in Fitting(f, s, i, count, pos) : g <= x
         /\ t = Fill(f, s, i, g) /\ IsFill(f, s, i, g, t)

(***************************************************************************)
(* The slots that an argument may take.                                    *)
(***************************************************************************)
LEMMA FittingIs ==
  ASSUME NEW f, IsFunction(f), NEW count \in 0 .. PreSink(f), NEW pos,
         NEW s \in Fronts(f, count), NEW i \in 1 .. count
  PROVE  /\ Fitting(f, s, i, count, pos) \in SUBSET Nat
         /\ \A x : x \in Fitting(f, s, i, count, pos) <=>
              /\ x \in Nat /\ s.lo <= x /\ x <= PreSink(f) - count + i
              /\ f.params[x].required \/ count - i + 1 > s.required
              /\ Takes(f.params[x].types, pos[i])
<1>1. count \in Nat /\ i \in Nat /\ PreSink(f) \in Nat
  BY Shape
<1>2. s.lo \in Nat
  BY DEF Fronts
<1> DEFINE hi == PreSink(f) - count + i
<1>3. \A x : x \in s.lo .. hi <=> x \in Nat /\ s.lo <= x /\ x <= hi
  BY <1>1, <1>2
<1> HIDE DEF hi
<1>4. \A x : x \in Fitting(f, s, i, count, pos) <=>
              /\ x \in s.lo .. hi
              /\ f.params[x].required \/ count - i + 1 > s.required
              /\ Takes(f.params[x].types, pos[i])
  BY DEF Fitting, hi
<1>5. QED
  BY <1>3, <1>4 DEF hi

(***************************************************************************)
(* The step of an argument while none has failed.                          *)
(***************************************************************************)
LEMMA TakesStep ==
  ASSUME NEW f, IsFunction(f), NEW count \in 0 .. PreSink(f), NEW pos,
         NEW s \in Fronts(f, count), NEW i \in 1 .. count, s.failed = 0,
         NEW t, t = TakeOne(f, s, i, count, pos)
  PROVE  IsStep(f, s, i, count, pos, t)
<1> DEFINE fitting == Fitting(f, s, i, count, pos)
<1>1. t = FillOneOf(f, s, i, fitting)
  BY DEF TakeOne
<1>2. fitting \in SUBSET Nat
  BY FittingIs
<1> HIDE DEF fitting
<1>3. CASE fitting = {}
  <2>1. t = [s EXCEPT !.failed = i]
    BY <1>1, <1>3 DEF FillOneOf
  <2>2. t.failed = i /\ t.mapping = s.mapping /\ t.lo = s.lo
    BY <2>1 DEF Fronts
  <2>3. QED
    BY <1>3, <2>2 DEF IsStep, fitting
<1>4. CASE fitting # {}
  <2>1. t = Fill(f, s, i, Min(fitting))
    BY <1>1, <1>4 DEF FillOneOf
  <2>2. Min(fitting) \in fitting /\ \A x \in fitting : Min(fitting) <= x
    BY <1>2, <1>4, MinIsLeast
  <2> DEFINE g == Min(fitting)
  <2>3. g \in fitting /\ g = Min(fitting) /\ (\A x \in fitting : g <= x) /\ t = Fill(f, s, i, g)
    BY <2>1, <2>2
  <2> HIDE DEF g
  <2>4. PreSink(f) \in Nat
    BY Shape
  <2>5. g \in Nat /\ count \in Nat
    BY <1>2, <2>3, <2>4
  <2>6. IsFill(f, s, i, g, t)
    BY <2>3, <2>5, FillIs
  <2>7. QED
    BY <1>4, <2>3, <2>6 DEF IsStep, fitting
<1>5. QED
  BY <1>3, <1>4

\* What has not been reached is missing, and what has been passed stays.
Untouched(f, s) == \A j \in 1 .. PreSink(f) : j >= s.lo => s.mapping[j] = Missing
Keeps(f, s, t) ==
  /\ s.lo <= t.lo
  /\ s.failed # 0 => t.failed # 0
  /\ \A j \in 1 .. PreSink(f) : j < s.lo => t.mapping[j] = s.mapping[j]

(***************************************************************************)
(* Filling a slot leaves alone what is behind it and what is in front of   *)
(* where it starts.                                                        *)
(***************************************************************************)
LEMMA FillKeeps ==
  ASSUME NEW f, IsFunction(f), NEW count \in Nat, NEW s \in Fronts(f, count),
         NEW i \in 1 .. count, NEW g \in Nat, s.lo <= g, Untouched(f, s), s.failed = 0,
         NEW t, t = Fill(f, s, i, g)
  PROVE  Untouched(f, t) /\ Keeps(f, s, t)
<1>1. \A j \in 1 .. PreSink(f) : j \in Slots(f) /\ j \in Nat
  BY Shape
<1>2. s.lo \in Nat
  BY DEF Fronts
<1>3. /\ t.lo = g + 1
      /\ \A j \in Slots(f) :
           t.mapping[j] = IF j = g THEN i
                          ELSE IF j \in s.lo .. g - 1 /\ ~f.params[j].required THEN Default
                          ELSE s.mapping[j]
  BY FillGives, SMTT(30)
<1>4. Untouched(f, t)
  <2> SUFFICES ASSUME NEW j \in 1 .. PreSink(f), j >= t.lo PROVE t.mapping[j] = Missing
    BY DEF Untouched
  <2>1. j \in Slots(f) /\ j # g /\ ~(j \in s.lo .. g - 1) /\ j >= s.lo
    BY <1>1, <1>2, <1>3
  <2>2. t.mapping[j] = s.mapping[j]
    BY <1>3, <2>1
  <2>3. QED
    BY <2>1, <2>2 DEF Untouched
<1>5. \A j \in 1 .. PreSink(f) : j < s.lo => t.mapping[j] = s.mapping[j]
  <2> SUFFICES ASSUME NEW j \in 1 .. PreSink(f), j < s.lo PROVE t.mapping[j] = s.mapping[j]
    OBVIOUS
  <2>1. j \in Slots(f) /\ j # g /\ ~(j \in s.lo .. g - 1)
    BY <1>1, <1>2
  <2>2. QED
    BY <1>3, <2>1
<1>6. s.lo <= t.lo
  BY <1>2, <1>3
<1>7. QED
  BY <1>4, <1>5, <1>6 DEF Keeps

(***************************************************************************)
(* A step leaves alone what is behind the slot it takes and what is in     *)
(* front of where it starts.                                               *)
(***************************************************************************)
LEMMA StepKeeps ==
  ASSUME NEW f, IsFunction(f), NEW count \in 0 .. PreSink(f), NEW pos,
         NEW s \in Fronts(f, count), NEW i \in 1 .. count,
         NEW t \in Fronts(f, count), t = TakeOne(f, s, i, count, pos), Untouched(f, s)
  PROVE  Untouched(f, t) /\ Keeps(f, s, t)
<1>1. PreSink(f) \in Nat /\ count \in Nat /\ i \in Nat /\ i # 0
  BY Shape
<1>2. s.lo \in Nat /\ t.lo \in Nat
  BY DEF Fronts
<1>3. CASE s.failed # 0
  <2>1. t = s
    BY <1>3 DEF TakeOne
  <2>2. QED
    BY <1>2, <2>1 DEF Keeps
<1>4. CASE s.failed = 0 /\ Fitting(f, s, i, count, pos) = {}
  <2>1. t.failed = i /\ t.mapping = s.mapping /\ t.lo = s.lo
    BY <1>4, TakesStep DEF IsStep
  <2>2. QED
    BY <1>2, <1>4, <2>1 DEF Keeps, Untouched
<1>5. CASE s.failed = 0 /\ Fitting(f, s, i, count, pos) # {}
  <2>1. PICK g \in Fitting(f, s, i, count, pos) : t = Fill(f, s, i, g)
    BY <1>5, TakesStep DEF IsStep
  <2>2. g \in Nat /\ s.lo <= g
    BY FittingIs
  <2>3. QED
    BY <1>1, <1>5, <2>1, <2>2, FillKeeps
<1>6. QED
  BY <1>3, <1>4, <1>5

(***************************************************************************)
(* What is true of a run from an argument to a later one.                  *)
(***************************************************************************)
LEMMA RunKeeps ==
  ASSUME NEW f, IsFunction(f), NEW count \in 0 .. PreSink(f), NEW pos,
         NEW r, IsRun(r, f, count, pos)
  PROVE  /\ \A i \in 0 .. count : Untouched(f, r[i])
         /\ \A k \in 0 .. count : \A i \in 0 .. k : Keeps(f, r[i], r[k])
<1>1. count \in Nat /\ PreSink(f) \in Nat
  BY Shape
<1>2. /\ r[0] = NoneTaken(f)
      /\ \A i \in 0 .. count : r[i] \in Fronts(f, count)
      /\ \A i \in 1 .. count : r[i] = TakeOne(f, r[i - 1], i, count, pos)
  BY DEF IsRun
<1> DEFINE S == {i \in 0 .. count : Untouched(f, r[i])}
           K == {k \in 0 .. count : \A i \in 0 .. k : Keeps(f, r[i], r[k])}
<1>3. 0 \in S
  <2>1. \A j \in 1 .. PreSink(f) : j \in Slots(f) /\ j # f.sink
    BY Shape
  <2>2. \A j \in 1 .. PreSink(f) : NoneTaken(f).mapping[j] = Missing
    BY <2>1 DEF NoneTaken
  <2>3. QED
    BY <1>1, <1>2, <2>2 DEF Untouched
<1>4. ASSUME NEW i \in 0 .. count - 1
      PROVE  /\ i + 1 \in 1 .. count /\ (i + 1) - 1 = i /\ i \in 0 .. count /\ i + 1 \in 0 .. count
             /\ r[i] \in Fronts(f, count) /\ r[i + 1] \in Fronts(f, count)
             /\ r[i + 1] = TakeOne(f, r[i], i + 1, count, pos)
  <2>1. i + 1 \in 1 .. count /\ (i + 1) - 1 = i /\ i \in 0 .. count /\ i + 1 \in 0 .. count
    BY <1>1
  <2>2. QED
    BY <1>2, <2>1
<1>5. \A i \in 0 .. count : i \in S
  <2>1. ASSUME NEW i \in 0 .. count - 1, i \in S PROVE i + 1 \in S
    <3>1. Untouched(f, r[i + 1])
      BY <1>4, <2>1, StepKeeps
    <3>2. QED
      BY <1>4, <3>1
  <2> HIDE DEF S
  <2>2. QED
    BY <1>1, <1>3, <2>1, InductionUpTo
<1>6. \A i \in 0 .. count : Keeps(f, r[i], r[i])
  <2>1. \A i \in 0 .. count : r[i].lo \in Nat
    BY <1>2 DEF Fronts
  <2>2. QED
    BY <2>1 DEF Keeps
<1>7. \A k \in 0 .. count : k \in K
  <2>1. 0 \in K
    BY <1>1, <1>6
  <2>2. ASSUME NEW k \in 0 .. count - 1, k \in K PROVE k + 1 \in K
    <3>1. Keeps(f, r[k], r[k + 1])
      BY <1>4, <1>5, StepKeeps
    <3>2. ASSUME NEW i \in 0 .. k + 1 PROVE Keeps(f, r[i], r[k + 1])
      <4>1. CASE i = k + 1
        BY <1>4, <1>6, <4>1
      <4>2. CASE i # k + 1
        <5>1. i \in 0 .. k /\ i \in 0 .. count
          BY <1>1, <4>2
        <5>2. Keeps(f, r[i], r[k])
          BY <2>2, <5>1
        <5>3. r[i].lo \in Nat /\ r[k].lo \in Nat /\ r[k + 1].lo \in Nat
          BY <1>2, <1>4, <5>1 DEF Fronts
        <5>4. QED
          BY <1>1, <3>1, <5>2, <5>3 DEF Keeps
      <4>3. QED
        BY <4>1, <4>2
    <3>3. QED
      BY <1>4, <3>2
  <2> HIDE DEF K
  <2>3. QED
    BY <1>1, <2>1, <2>2, InductionUpTo
<1>8. QED
  BY <1>5, <1>7

-----------------------------------------------------------------------------
(* What coercion changes for other parameters.                             *)

(***************************************************************************)
(* A coerced value is coerced no further, fits where it was coerced, and   *)
(* fits nowhere that the value itself does not.                            *)
(***************************************************************************)
LEMMA CoercedFits ==
  ASSUME NEW types, NEW value \in Value, NEW co, co = CallableAsFunction(types, value)
  PROVE  /\ co \in Value
         /\ CallableAsFunction(types, co) = co
         /\ Takes(types, value) => Takes(types, co)
         /\ \A others : Takes(others, co) => Takes(others, value)
<1>1. co \in Value
  BY CoercedValue
<1>2. CASE co = value
  BY <1>1, <1>2 DEF Takes
<1>3. CASE co # value
  <2>1. /\ value.type \notin types /\ "function" \in types
        /\ value.type = "type" /\ value.id # NoConstructor
        /\ co = [value EXCEPT !.type = "function"]
    BY <1>3 DEF CallableAsFunction
  <2>2. co.type = "function"
    BY <2>1 DEF Value
  <2>3. "function" # "type"
    OBVIOUS
  <2>4. \A others : CallableAsFunction(others, co) = co
    BY <2>2, <2>3 DEF CallableAsFunction
  <2>5. \A others : "function" \in others => Takes(others, value)
    <3> SUFFICES ASSUME NEW others, "function" \in others PROVE Takes(others, value)
      OBVIOUS
    <3>1. CASE value.type \in others
      BY <3>1 DEF Takes, CallableAsFunction
    <3>2. CASE value.type \notin others
      <4>1. CallableAsFunction(others, value) = [value EXCEPT !.type = "function"]
        BY <2>1, <3>2 DEF CallableAsFunction
      <4>2. CallableAsFunction(others, value).type = "function"
        BY <2>1, <2>2, <4>1
      <4>3. QED
        BY <4>2 DEF Takes
    <3>3. QED
      BY <3>1, <3>2
  <2>6. CallableAsFunction(types, co) = co
    BY <2>4
  <2>7. Takes(types, co)
    BY <2>1, <2>2, <2>6 DEF Takes
  <2>8. \A others : Takes(others, co) => Takes(others, value)
    BY <2>2, <2>4, <2>5 DEF Takes
  <2>9. QED
    BY <1>1, <2>6, <2>7, <2>8
<1>4. QED
  BY <1>2, <1>3

(***************************************************************************)
(* Where types are taken as they are, or no functions, nothing is coerced. *)
(***************************************************************************)
LEMMA NotCoerced ==
  ASSUME NEW types, ~Coerces(types), NEW value
  PROVE  CallableAsFunction(types, value) = value
BY DEF Coerces, CallableAsFunction

-----------------------------------------------------------------------------
(* Functions that have their required parameters first.                    *)

\* The parameters before the sink are required up to R.
RequiredUpTo(f, R) ==
  /\ R \in 0 .. PreSink(f)
  /\ \A j \in 1 .. PreSink(f) : f.params[j].required <=> j <= R

(***************************************************************************)
(* The required parameters come first and are counted.                     *)
(***************************************************************************)
LEMMA RequiredPrefix ==
  ASSUME NEW f, IsFunction(f), RequiredFirst(f)
  PROVE  \E R : RequiredUpTo(f, R) /\ NoneTaken(f).required = R
<1> DEFINE P == PreSink(f)
           Q == {j \in 1 .. P : f.params[j].required}
<1>1. P \in Nat
  BY Shape
<1>2. \A j \in 1 .. P : j \in Plain(f)
  BY Shape DEF Plain
<1>3. \A j, k \in 1 .. P : j < k /\ f.params[k].required => f.params[j].required
  BY <1>2 DEF RequiredFirst
<1>4. NoneTaken(f).required = Cardinality(Q)
  BY DEF NoneTaken
<1> HIDE DEF P
<1>5. Q \in SUBSET (1 .. P)
  OBVIOUS
<1>6. PICK R \in 0 .. P : \A j \in 1 .. P : j \in Q <=> j <= R
  <2>1. CASE Q = {}
    <3>1. 0 \in 0 .. P /\ \A j \in 1 .. P : j \in Q <=> j <= 0
      BY <1>1, <2>1
    <3>2. QED
      BY <3>1
  <2>2. CASE Q # {}
    <3> DEFINE R == Max(Q)
    <3>1. R \in Q /\ \A j \in Q : j <= R
      BY <1>1, <1>5, <2>2, MaxWithin
    <3> HIDE DEF R
    <3>2. R \in 0 .. P
      BY <1>1, <3>1
    <3>3. \A j \in 1 .. P : j \in Q <=> j <= R
      BY <1>1, <1>3, <3>1
    <3>4. QED
      BY <3>2, <3>3
  <2>3. QED
    BY <2>1, <2>2
<1>7. Q = 1 .. R
  BY <1>1, <1>5, <1>6
<1>8. Cardinality(Q) = R
  <2>1. 1 \in Int /\ R \in Int /\ R >= 0
    BY <1>1
  <2>2. Cardinality(1 .. R) = R
    BY <2>1, FS_Interval
  <2>3. QED
    BY <1>7, <2>2
<1>9. RequiredUpTo(f, R)
  <2>1. \A j \in 1 .. P : f.params[j].required <=> j <= R
    BY <1>6
  <2>2. QED
    BY <1>6, <2>1 DEF RequiredUpTo, P
<1>10. QED
  BY <1>4, <1>8, <1>9

\* i arguments are taken, the required parameters by the first of them.
OnPath(R, s, i) ==
  /\ s.failed = 0
  /\ IF i <= R THEN s.lo = i + 1 /\ s.required = R - i ELSE s.lo > R /\ s.required = 0

\* What is taken leaves no required parameter without an argument.
Complete(f, s) ==
  /\ s.failed = 0
  /\ \A j \in 1 .. PreSink(f) :
       IF j < s.lo THEN s.mapping[j] # Missing ELSE ~f.params[j].required

(***************************************************************************)
(* A step of what becomes complete gives the next required parameter the   *)
(* next argument.                                                          *)
(***************************************************************************)
LEMMA PathStep ==
  ASSUME NEW f, IsFunction(f), NEW count \in 0 .. PreSink(f), NEW pos, NEW R, RequiredUpTo(f, R),
         NEW s \in Fronts(f, count), NEW i \in 1 .. count, OnPath(R, s, i - 1), Untouched(f, s),
         NEW t \in Fronts(f, count), t = TakeOne(f, s, i, count, pos),
         NEW u \in Fronts(f, count), Keeps(f, t, u), Complete(f, u)
  PROVE  OnPath(R, t, i)
<1>1. /\ PreSink(f) \in Nat /\ count \in Nat /\ i \in Nat /\ i # 0 /\ R \in Nat /\ R <= PreSink(f)
      /\ i <= count /\ count <= PreSink(f)
  BY Shape DEF RequiredUpTo
<1>2. s.lo \in Nat /\ t.lo \in Nat /\ u.lo \in Nat
  BY DEF Fronts
<1>3. t.failed = 0
  BY DEF Complete, Keeps
<1>4. s.failed = 0
  BY DEF OnPath
<1>5. PICK g \in Fitting(f, s, i, count, pos) : IsFill(f, s, i, g, t)
  <2>1. IsStep(f, s, i, count, pos, t)
    BY <1>4, TakesStep
  <2>2. QED
    BY <1>1, <1>3, <2>1 DEF IsStep
<1>6. g \in Nat /\ s.lo <= g /\ g <= PreSink(f) - count + i
  BY FittingIs
<1>7. /\ t.lo = g + 1
      /\ \A j \in Slots(f) :
           t.mapping[j] = IF j = g THEN i
                          ELSE IF j \in s.lo .. g - 1 /\ ~f.params[j].required THEN Default
                          ELSE s.mapping[j]
  BY <1>5 DEF IsFill
<1>8. t.required = IF f.params[g].required THEN s.required - 1 ELSE s.required
  BY <1>5 DEF IsFill
<1>9. CASE i <= R
  <2>1. s.lo = i /\ s.required = R - (i - 1)
    BY <1>1, <1>9 DEF OnPath
  <2>2. i \in 1 .. PreSink(f) /\ f.params[i].required /\ i \in Slots(f)
    BY <1>1, <1>9, Shape DEF RequiredUpTo
  <2>3. g = i
    <3> SUFFICES ASSUME g # i PROVE FALSE
      OBVIOUS
    <3>1. i < t.lo /\ i < u.lo
      BY <1>1, <1>2, <1>6, <1>7, <2>1 DEF Keeps
    <3>2. t.mapping[i] = s.mapping[i]
      BY <1>7, <2>2
    <3>3. s.mapping[i] = Missing
      BY <1>1, <2>1, <2>2 DEF Untouched
    <3>4. u.mapping[i] = t.mapping[i]
      BY <2>2, <3>1 DEF Keeps
    <3>5. QED
      BY <2>2, <3>1, <3>2, <3>3, <3>4 DEF Complete
  <2>4. QED
    BY <1>1, <1>3, <1>7, <1>8, <1>9, <2>1, <2>2, <2>3 DEF OnPath
<1>10. CASE i > R
  <2>1. s.lo > R /\ s.required = 0
    BY <1>1, <1>10 DEF OnPath
  <2>2. g \in 1 .. PreSink(f) /\ ~f.params[g].required
    BY <1>1, <1>2, <1>6, <2>1 DEF RequiredUpTo
  <2>3. QED
    BY <1>1, <1>2, <1>3, <1>6, <1>7, <1>8, <1>10, <2>1, <2>2 DEF OnPath
<1>11. QED
  BY <1>1, <1>9, <1>10

(***************************************************************************)
(* What becomes complete gives the required parameters the first arguments.*)
(***************************************************************************)
LEMMA GoodPath ==
  ASSUME NEW f, IsFunction(f), NEW count \in 0 .. PreSink(f), NEW pos,
         NEW R, RequiredUpTo(f, R), NoneTaken(f).required = R,
         NEW r, IsRun(r, f, count, pos), Complete(f, r[count])
  PROVE  \A i \in 0 .. count : OnPath(R, r[i], i)
<1>1. count \in Nat /\ PreSink(f) \in Nat /\ R \in Nat /\ R <= PreSink(f) /\ count \in 0 .. count
  BY Shape DEF RequiredUpTo
<1>2. /\ r[0] = NoneTaken(f)
      /\ \A i \in 0 .. count : r[i] \in Fronts(f, count)
      /\ \A i \in 1 .. count : r[i] = TakeOne(f, r[i - 1], i, count, pos)
  BY DEF IsRun
<1>3. /\ \A i \in 0 .. count : Untouched(f, r[i])
      /\ \A k \in 0 .. count : \A i \in 0 .. k : Keeps(f, r[i], r[k])
  BY RunKeeps
<1> DEFINE S == {i \in 0 .. count : OnPath(R, r[i], i)}
<1>4. 0 \in S
  <2>1. NoneTaken(f).lo = 1 /\ NoneTaken(f).failed = 0
    BY DEF NoneTaken
  <2>2. QED
    BY <1>1, <1>2, <2>1 DEF OnPath
<1>5. ASSUME NEW i \in 0 .. count - 1, i \in S PROVE i + 1 \in S
  <2>1. i + 1 \in 1 .. count /\ (i + 1) - 1 = i /\ i \in 0 .. count /\ i + 1 \in 0 .. count
    BY <1>1
  <2>2. /\ r[i] \in Fronts(f, count) /\ r[i + 1] \in Fronts(f, count) /\ r[count] \in Fronts(f, count)
        /\ r[i + 1] = TakeOne(f, r[i], i + 1, count, pos)
        /\ Untouched(f, r[i]) /\ Keeps(f, r[i + 1], r[count])
        /\ OnPath(R, r[i], (i + 1) - 1)
    BY <1>1, <1>2, <1>3, <1>5, <2>1
  <2>3. OnPath(R, r[i + 1], i + 1)
    BY <2>1, <2>2, PathStep
  <2>4. QED
    BY <2>1, <2>3
<1> HIDE DEF S
<1>6. \A i \in 0 .. count : i \in S
  BY <1>1, <1>4, <1>5, InductionUpTo
<1>7. QED
  BY <1>6 DEF S

(***************************************************************************)
(* An argument that was coerced where it was bound ahead, as one of fewer, *)
(* takes the same slot again, whether or not it is coerced.                *)
(***************************************************************************)
LEMMA StepTogether ==
  ASSUME NEW f, IsFunction(f), NEW few \in 0 .. PreSink(f), NEW count \in few .. PreSink(f),
         NEW R, RequiredUpTo(f, R), NEW v, NEW a, NEW b,
         NEW i \in 1 .. few, NEW s \in Fronts(f, few), s \in Fronts(f, count), OnPath(R, s, i - 1),
         v[i] \in Value, a[i] = v[i],
         NEW y, y = TakeOne(f, s, i, few, v), y.failed = 0,
         b[i] = CallableAsFunction(f.params[y.lo - 1].types, v[i]),
         NEW t, t = TakeOne(f, s, i, count, a),
         NEW u, u = TakeOne(f, s, i, count, b),
         OnPath(R, t, i) \/ OnPath(R, u, i)
  PROVE  t = y /\ u = y
<1> DEFINE X == Fitting(f, s, i, few, v)
           A == Fitting(f, s, i, count, a)
           B == Fitting(f, s, i, count, b)
           P == PreSink(f)
           Fits(x) == Takes(f.params[x].types, v[i])
           FitsB(x) == Takes(f.params[x].types, b[i])
<1>1. /\ P \in Nat /\ few \in Nat /\ count \in Nat /\ i \in Nat /\ i # 0 /\ R \in Nat /\ R <= P
      /\ few <= count /\ count <= P /\ i <= few /\ i \in 1 .. count /\ count \in 0 .. P
  BY Shape DEF RequiredUpTo
<1>2. s.lo \in Nat /\ s.failed = 0
  BY DEF Fronts, OnPath
<1>3. \A x : x \in X <=> /\ x \in Nat /\ s.lo <= x /\ x <= P - few + i
                         /\ f.params[x].required \/ few - i + 1 > s.required
                         /\ Fits(x)
  BY FittingIs
<1>4. \A x : x \in A <=> /\ x \in Nat /\ s.lo <= x /\ x <= P - count + i
                         /\ f.params[x].required \/ count - i + 1 > s.required
                         /\ Fits(x)
  BY <1>1, FittingIs
<1>5. \A x : x \in B <=> /\ x \in Nat /\ s.lo <= x /\ x <= P - count + i
                         /\ f.params[x].required \/ count - i + 1 > s.required
                         /\ FitsB(x)
  BY <1>1, FittingIs
<1>6. PICK g \in X : (\A x \in X : g <= x) /\ y = Fill(f, s, i, g) /\ y.lo = g + 1
  <2>1. IsStep(f, s, i, few, v, y)
    BY <1>2, TakesStep
  <2>2. QED
    BY <1>1, <2>1 DEF IsStep, IsFill
<1>7. (A = {} /\ t.failed = i) \/ \E h \in A : (\A x \in A : h <= x) /\ t = Fill(f, s, i, h) /\ t.lo = h + 1
  <2>1. IsStep(f, s, i, count, a, t)
    BY <1>1, <1>2, TakesStep
  <2>2. QED
    BY <2>1 DEF IsStep, IsFill
<1>8. (B = {} /\ u.failed = i) \/ \E h \in B : (\A x \in B : h <= x) /\ u = Fill(f, s, i, h) /\ u.lo = h + 1
  <2>1. IsStep(f, s, i, count, b, u)
    BY <1>1, <1>2, TakesStep
  <2>2. QED
    BY <2>1 DEF IsStep, IsFill
<1>9. g \in Nat /\ y.lo - 1 = g
  BY <1>3, <1>6
<1>10. (Fits(g) => FitsB(g)) /\ \A x : FitsB(x) => Fits(x)
  <2>1. b[i] = CallableAsFunction(f.params[g].types, v[i])
    BY <1>9
  <2>2. QED
    BY <2>1, CoercedFits
<1> HIDE DEF X, A, B, P, Fits, FitsB
<1>11. g \in A /\ g \in B /\ (\A x \in A : g <= x) /\ (\A x \in B : g <= x)
  <2>1. CASE i <= R
    <3>1. s.lo = i
      BY <1>1, <2>1 DEF OnPath
    <3>2. f.params[i].required
      BY <1>1, <2>1 DEF RequiredUpTo, P
    <3>3. i \in A \/ i \in B
      <4>1. CASE OnPath(R, t, i)
        <5>1. t.lo = i + 1 /\ t.failed = 0
          BY <2>1, <4>1 DEF OnPath
        <5>2. QED
          BY <1>1, <1>4, <1>7, <5>1
      <4>2. CASE OnPath(R, u, i)
        <5>1. u.lo = i + 1 /\ u.failed = 0
          BY <2>1, <4>2 DEF OnPath
        <5>2. QED
          BY <1>1, <1>5, <1>8, <5>1
      <4>3. QED
        BY <4>1, <4>2
    <3>4. Fits(i)
      BY <1>4, <1>5, <1>10, <3>3
    <3>5. i \in X
      BY <1>1, <1>3, <3>1, <3>2, <3>4
    <3>6. g = i
      BY <1>1, <1>3, <1>6, <1>9, <3>1, <3>5
    <3>7. FitsB(i)
      BY <1>10, <3>4, <3>6
    <3>8. QED
      BY <1>1, <1>4, <1>5, <3>1, <3>2, <3>4, <3>6, <3>7
  <2>2. CASE i > R
    <3>1. s.lo > R /\ s.required = 0
      BY <1>1, <2>2 DEF OnPath
    <3>2. few - i + 1 > s.required /\ count - i + 1 > s.required
      BY <1>1, <3>1
    <3>3. \A x \in A : x \in X
      BY <1>1, <1>3, <1>4, <3>2
    <3>4. \A x \in B : x \in A
      BY <1>4, <1>5, <1>10
    <3>5. A # {}
      <4>1. CASE OnPath(R, t, i)
        <5>1. t.failed = 0
          BY <4>1 DEF OnPath
        <5>2. QED
          BY <1>1, <1>7, <5>1
      <4>2. CASE OnPath(R, u, i)
        <5>1. u.failed = 0
          BY <4>2 DEF OnPath
        <5>2. QED
          BY <1>1, <1>8, <3>4, <5>1
      <4>3. QED
        BY <4>1, <4>2
    <3>6. g \in A
      <4>1. PICK x \in A : TRUE
        BY <3>5
      <4>2. g <= x /\ x <= P - count + i /\ x \in Nat
        BY <1>4, <1>6, <3>3, <4>1
      <4>3. s.lo <= g /\ Fits(g)
        BY <1>3, <1>6
      <4>4. g <= P - count + i
        BY <1>1, <1>9, <4>2
      <4>5. QED
        BY <1>4, <1>9, <3>2, <4>3, <4>4
    <3>7. g \in B
      BY <1>4, <1>5, <1>10, <3>6
    <3>8. QED
      BY <1>6, <3>3, <3>4, <3>6, <3>7
  <2>3. QED
    BY <1>1, <2>1, <2>2
<1>12. t = y
  <2>1. PICK h \in A : (\A x \in A : h <= x) /\ t = Fill(f, s, i, h)
    BY <1>7, <1>11
  <2>2. h = g
    BY <1>4, <1>9, <1>11, <2>1
  <2>3. QED
    BY <1>6, <2>1, <2>2
<1>13. u = y
  <2>1. PICK h \in B : (\A x \in B : h <= x) /\ u = Fill(f, s, i, h)
    BY <1>8, <1>11
  <2>2. h = g
    BY <1>5, <1>9, <1>11, <2>1
  <2>3. QED
    BY <1>6, <2>1, <2>2
<1>14. QED
  BY <1>12, <1>13

(***************************************************************************)
(* The slots of an argument depend only on that argument.                  *)
(***************************************************************************)
LEMMA SameArgument ==
  ASSUME NEW f, NEW s, NEW i, NEW count, NEW a, NEW b, a[i] = b[i]
  PROVE  TakeOne(f, s, i, count, a) = TakeOne(f, s, i, count, b)
<1>1. Fitting(f, s, i, count, a) = Fitting(f, s, i, count, b)
  BY DEF Fitting
<1>2. QED
  BY <1>1 DEF TakeOne

\* What was bound ahead, v, is coerced in b and not in a, and both go on alike.
CoercedAhead(f, x, few, count, v, a, b) ==
  /\ \A i \in 1 .. few : /\ v[i] \in Value /\ a[i] = v[i]
                         /\ b[i] = CallableAsFunction(f.params[x[i].lo - 1].types, v[i])
  /\ \A i \in few + 1 .. count : a[i] = b[i]

(***************************************************************************)
(* If one of two calls whose first arguments were bound ahead, coerced or  *)
(* not, becomes complete, both take the same slots, and the first of them  *)
(* the slots they took ahead.                                              *)
(***************************************************************************)
LEMMA RunsTogether ==
  ASSUME NEW f, IsFunction(f), NEW few \in 0 .. PreSink(f), NEW count \in few .. PreSink(f),
         NEW R, RequiredUpTo(f, R), NoneTaken(f).required = R,
         NEW v, NEW a, NEW b, NEW x, NEW r, NEW q, CoercedAhead(f, x, few, count, v, a, b),
         IsRun(x, f, few, v), x[few].failed = 0, IsRun(r, f, count, a), IsRun(q, f, count, b),
         Complete(f, r[count]) \/ Complete(f, q[count])
  PROVE  /\ \A i \in 0 .. count : q[i] = r[i]
         /\ \A i \in 0 .. few : r[i] = x[i]
<1>1. /\ PreSink(f) \in Nat /\ few \in Nat /\ count \in Nat /\ few <= count /\ count \in 0 .. PreSink(f)
  BY Shape
<1>2. /\ \A i \in 0 .. few : x[i] \in Fronts(f, few)
      /\ \A i \in 0 .. count : r[i] \in Fronts(f, count) /\ q[i] \in Fronts(f, count)
      /\ x[0] = NoneTaken(f) /\ r[0] = NoneTaken(f) /\ q[0] = NoneTaken(f)
  BY DEF IsRun
<1>3. /\ \A i \in 1 .. few : x[i] = TakeOne(f, x[i - 1], i, few, v)
      /\ \A i \in 1 .. count : r[i] = TakeOne(f, r[i - 1], i, count, a)
      /\ \A i \in 1 .. count : q[i] = TakeOne(f, q[i - 1], i, count, b)
  BY DEF IsRun
<1>4. \A i \in 0 .. few : x[i].failed = 0
  <2>1. \A k \in 0 .. few : \A i \in 0 .. k : Keeps(f, x[i], x[k])
    BY RunKeeps
  <2>2. QED
    BY <1>1, <2>1 DEF Keeps
<1>5. (\A i \in 0 .. count : OnPath(R, r[i], i)) \/ (\A i \in 0 .. count : OnPath(R, q[i], i))
  <2>1. CASE Complete(f, r[count])
    <3>1. \A i \in 0 .. count : OnPath(R, r[i], i)
      BY <1>1, <2>1, GoodPath
    <3>2. QED
      BY <3>1
  <2>2. CASE Complete(f, q[count])
    <3>1. \A i \in 0 .. count : OnPath(R, q[i], i)
      BY <1>1, <2>2, GoodPath
    <3>2. QED
      BY <3>1
  <2>3. QED
    BY <2>1, <2>2
<1> DEFINE S == {i \in 0 .. count : q[i] = r[i] /\ (i <= few => r[i] = x[i])}
<1>6. 0 \in S
  BY <1>1, <1>2
<1>7. ASSUME NEW k \in 0 .. count - 1, k \in S PROVE k + 1 \in S
  <2> DEFINE i == k + 1
  <2>1. i \in 1 .. count /\ i - 1 = k /\ k \in 0 .. count /\ i \in 0 .. count /\ i \in Nat /\ k \in Nat
    BY <1>1
  <2>2. q[k] = r[k] /\ (k <= few => r[k] = x[k])
    BY <1>7
  <2> HIDE DEF i
  <2>3. OnPath(R, r[k], k) /\ (OnPath(R, r[i], i) \/ OnPath(R, q[i], i))
    BY <1>5, <2>1, <2>2
  <2>4. r[i] = TakeOne(f, r[k], i, count, a) /\ q[i] = TakeOne(f, r[k], i, count, b)
    BY <1>3, <2>1, <2>2
  <2>5. CASE i <= few
    <3>1. i \in 1 .. few /\ k \in 0 .. few /\ i \in 0 .. few
      BY <1>1, <2>1, <2>5
    <3>2. x[i] = TakeOne(f, r[k], i, few, v) /\ x[i].failed = 0
      BY <1>3, <1>4, <2>1, <2>2, <3>1
    <3>3. r[k] \in Fronts(f, few) /\ r[k] \in Fronts(f, count)
      BY <1>2, <2>1, <2>2, <3>1
    <3>4. /\ v[i] \in Value /\ a[i] = v[i]
          /\ b[i] = CallableAsFunction(f.params[x[i].lo - 1].types, v[i])
      BY <3>1 DEF CoercedAhead
    <3>5. OnPath(R, r[k], i - 1)
      BY <2>1, <2>3
    <3>6. r[i] = x[i] /\ q[i] = x[i]
      BY <2>3, <2>4, <3>1, <3>2, <3>3, <3>4, <3>5, StepTogether
    <3>7. QED
      BY <2>1, <3>6 DEF i
  <2>6. CASE i > few
    <3>1. i \in few + 1 .. count
      BY <1>1, <2>1, <2>6
    <3>2. a[i] = b[i]
      BY <3>1 DEF CoercedAhead
    <3>3. r[i] = q[i]
      BY <2>4, <3>2, SameArgument
    <3>4. QED
      BY <1>1, <2>1, <2>6, <3>3 DEF i
  <2>7. QED
    BY <1>1, <2>1, <2>5, <2>6
<1> HIDE DEF S
<1>8. \A i \in 0 .. count : i \in S
  BY <1>1, <1>6, <1>7, InductionUpTo
<1>9. QED
  BY <1>1, <1>8 DEF S

(***************************************************************************)
(* The parameters before the sink are filled in a run.                     *)
(***************************************************************************)
LEMMA FrontRun ==
  ASSUME NEW f, IsFunction(f), NEW count \in 0 .. PreSink(f), NEW pos
  PROVE  \E r : IsRun(r, f, count, pos) /\ TakeFront(f, count, pos) = r[count]
<1>1. PICK r \in [0 .. count -> Fronts(f, count)] :
        /\ r[0] = NoneTaken(f)
        /\ \A i \in 1 .. count : r[i] = TakeOne(f, r[i - 1], i, count, pos)
        /\ TakeFront(f, count, pos) = r[count]
  BY TakeFrontSteps
<1>2. QED
  BY <1>1 DEF IsRun

(***************************************************************************)
(* Arguments are taken in one way.                                         *)
(***************************************************************************)
LEMMA SameRun ==
  ASSUME NEW f, IsFunction(f), NEW count \in 0 .. PreSink(f), NEW pos,
         NEW r, NEW q, IsRun(r, f, count, pos), IsRun(q, f, count, pos)
  PROVE  q[count] = r[count]
<1>1. count \in Nat
  BY Shape
<1>2. /\ r[0] = q[0]
      /\ \A i \in 1 .. count : r[i] = TakeOne(f, r[i - 1], i, count, pos)
      /\ \A i \in 1 .. count : q[i] = TakeOne(f, q[i - 1], i, count, pos)
  BY DEF IsRun
<1> DEFINE S == {i \in 0 .. count : q[i] = r[i]}
<1>3. 0 \in S
  BY <1>1, <1>2
<1>4. ASSUME NEW i \in 0 .. count - 1, i \in S PROVE i + 1 \in S
  <2>1. i + 1 \in 1 .. count /\ (i + 1) - 1 = i /\ i + 1 \in 0 .. count
    BY <1>1
  <2>2. QED
    BY <1>2, <1>4, <2>1
<1> HIDE DEF S
<1>5. \A i \in 0 .. count : i \in S
  BY <1>1, <1>3, <1>4, InductionUpTo
<1>6. QED
  BY <1>1, <1>5 DEF S

-----------------------------------------------------------------------------
(* What coercion leaves as it is.                                          *)

\* How the positional arguments of a call are given to the parameters, and when
\* a call is not refused for them.
FrontCount(f, pos) == Min({Len(pos), PreSink(f)})
TakenOf(f, pos) == TakeSlots(f, FrontCount(f, pos), pos)
NotTooMany(f, pos) == f.sink # 0 \/ Len(pos) <= Len(f.params)
Accepted(f, pos) ==
  /\ NotTooMany(f, pos)
  /\ TakenOf(f, pos).failed = 0
  /\ UnfitBack(f, TakenOf(f, pos).mapping, pos) = {}
  /\ \A j \in Slots(f) : TakenOf(f, pos).mapping[j] # Missing

\* The positional arguments once they are coerced.
SlotsOf(mapping, i) == {j \in DOMAIN mapping : mapping[j] = i}
CoercedPos(f, mapping, pos) ==
  [i \in DOMAIN pos |-> IF SlotsOf(mapping, i) = {} THEN pos[i]
                        ELSE CallableAsFunction(f.params[Min(SlotsOf(mapping, i))].types, pos[i])]

\* The mapping of a call, once the parameters before the sink have taken theirs.
RestOf(f, s, start, m, mapping) ==
  /\ mapping \in [Slots(f) -> Int]
  /\ \A j \in Slots(f) :
       mapping[j] = IF j <= PreSink(f) THEN IF j < s.lo THEN s.mapping[j] ELSE Unfilled(f, j)
                    ELSE IF j = f.sink THEN InSink
                    ELSE IF start + (j - f.sink) <= m THEN start + (j - f.sink)
                    ELSE Unfilled(f, j)

(***************************************************************************)
(* How the parameters are given their arguments.                           *)
(***************************************************************************)
LEMMA RestGives ==
  ASSUME NEW f, IsFunction(f), NEW count \in Nat, NEW s \in Fronts(f, count),
         NEW start \in Int, NEW m \in Int, NEW t, t = TakeRest(f, s, start, m)
  PROVE  t.failed = s.failed /\ RestOf(f, s, start, m, t.mapping)
<1> DEFINE new == [j \in DOMAIN s.mapping |->
                     IF j <= PreSink(f) THEN IF j < s.lo THEN s.mapping[j] ELSE Unfilled(f, j)
                     ELSE IF j = f.sink THEN InSink
                     ELSE IF start + (j - f.sink) <= m THEN start + (j - f.sink)
                     ELSE Unfilled(f, j)]
<1>1. /\ s = [mapping |-> s.mapping, lo |-> s.lo, required |-> s.required, failed |-> s.failed]
      /\ s.mapping \in [Slots(f) -> Int]
  BY DEF Fronts
<1>2. t = [s EXCEPT !.mapping = new]
  BY DEF TakeRest
<1>3. /\ Len(f.params) \in Nat /\ f.sink \in Nat /\ PreSink(f) \in Nat
      /\ Slots(f) = 1 .. Len(f.params)
  BY Shape
<1>4. \A j \in Slots(f) : new[j] \in Int
  BY <1>1, <1>3 DEF Unfilled, Missing, Default, InSink
<1>5. new \in [Slots(f) -> Int]
  BY <1>1, <1>4
<1>6. \A j \in Slots(f) :
        new[j] = IF j <= PreSink(f) THEN IF j < s.lo THEN s.mapping[j] ELSE Unfilled(f, j)
                 ELSE IF j = f.sink THEN InSink
                 ELSE IF start + (j - f.sink) <= m THEN start + (j - f.sink)
                 ELSE Unfilled(f, j)
  BY <1>1
<1> HIDE DEF new
<1>7. t.mapping = new /\ t.failed = s.failed
  BY <1>1, <1>2
<1>8. QED
  BY <1>5, <1>6, <1>7 DEF RestOf

\* r is how the first arguments of a call are taken.
Taking(f, pos, m, count, r) ==
  /\ IsRun(r, f, count, pos)
  /\ TakenOf(f, pos) = TakeRest(f, r[count], count + SinkSize(f, m), m)
  /\ TakenOf(f, pos).failed = r[count].failed
  /\ RestOf(f, r[count], count + SinkSize(f, m), m, TakenOf(f, pos).mapping)

\* The first arguments have the slot of their step, the others none.
SlotsByRun(f, mapping, m, count, r) ==
  /\ \A i \in 1 .. count : SlotsOf(mapping, i) = {r[i].lo - 1} /\ r[i].lo - 1 \in 1 .. PreSink(f)
  /\ \A i \in count + 1 .. m : SlotsOf(mapping, i) = {}

(***************************************************************************)
(* The first arguments of a call are taken one by one, the others after    *)
(* them.                                                                   *)
(***************************************************************************)
LEMMA TakenRun ==
  ASSUME NEW f, IsFunction(f), NEW pos \in Seq(Value),
         NEW m, m = Len(pos), NEW count, count = FrontCount(f, pos)
  PROVE  /\ m \in Nat /\ count \in 0 .. PreSink(f) /\ count \in 0 .. m
         /\ count = IF m <= PreSink(f) THEN m ELSE PreSink(f)
         /\ \E r : Taking(f, pos, m, count, r)
<1>1. m \in Nat /\ PreSink(f) \in Nat /\ m \in Int /\ PreSink(f) \in Int
  BY Shape
<1>2. count = IF m <= PreSink(f) THEN m ELSE PreSink(f)
  BY <1>1, MinOfTwo DEF FrontCount
<1>3. count \in 0 .. PreSink(f) /\ count \in 0 .. m /\ count \in Nat
  BY <1>1, <1>2
<1>4. PICK r : IsRun(r, f, count, pos) /\ TakeFront(f, count, pos) = r[count]
  BY <1>3, FrontRun
<1>5. IsRun(r, f, count, pos)
  BY <1>4
<1>6. count + SinkSize(f, m) \in Int
  <2>1. SinkSize(f, m) \in Int
    <3>1. PreSink(f) + PostSink(f) \in Int
      BY <1>1, Shape
    <3>2. m - (PreSink(f) + PostSink(f)) \in Int /\ 0 \in Int
      BY <1>1, <3>1
    <3>3. Max({0, m - (PreSink(f) + PostSink(f))}) \in Int
      <4> DEFINE d == m - (PreSink(f) + PostSink(f))
      <4>1. d \in Int /\ 0 \in Int
        BY <3>2
      <4> HIDE DEF d
      <4>2. Max({0, d}) = IF 0 <= d THEN d ELSE 0
        BY <4>1, MaxOfTwo
      <4>3. Max({0, d}) \in Int
        BY <4>1, <4>2
      <4>4. QED
        BY <4>3 DEF d
    <3>4. QED
      BY <3>3 DEF SinkSize
  <2>2. QED
    BY <1>3, <2>1
<1>7. r[count] \in Fronts(f, count)
  BY <1>3, <1>4 DEF IsRun
<1>8. TakenOf(f, pos) = TakeRest(f, r[count], count + SinkSize(f, m), m)
  BY <1>4 DEF TakenOf, TakeSlots
<1>9. /\ TakenOf(f, pos).failed = r[count].failed
      /\ RestOf(f, r[count], count + SinkSize(f, m), m, TakenOf(f, pos).mapping)
  BY <1>1, <1>3, <1>6, <1>7, <1>8, RestGives
<1>10. Taking(f, pos, m, count, r)
  BY <1>5, <1>8, <1>9 DEF Taking
<1>11. QED
  BY <1>1, <1>2, <1>3, <1>10

(***************************************************************************)
(* No two parameters take the same argument.                               *)
(***************************************************************************)
LEMMA TakenOnce ==
  ASSUME NEW f, IsFunction(f), NEW m \in Nat, NEW mapping, NEW c, Cut(c, f, mapping, m)
  PROVE  \A j, k \in Slots(f) : mapping[j] \in 1 .. m /\ mapping[k] = mapping[j] => j = k
<1> SUFFICES ASSUME NEW i \in 1 .. m, NEW j \in Slots(f), NEW k \in Slots(f), mapping[j] = i, mapping[k] = i
             PROVE  j = k
  OBVIOUS
<1>1. Len(f.params) \in Nat /\ j \in 1 .. Len(f.params) /\ k \in 1 .. Len(f.params)
  BY Shape
<1>2. \A n \in 0 .. Len(f.params) : c[n] \in Nat
  BY DEF Cut
<1>3. \A n \in Slots(f) : mapping[n] = i => c[n] = i /\ c[n - 1] = i - 1
  <2> SUFFICES ASSUME NEW n \in Slots(f), mapping[n] = i PROVE c[n] = i /\ c[n - 1] = i - 1
    OBVIOUS
  <2>1. i # InSink /\ i # Missing /\ i # Default
    BY DEF InSink, Missing, Default
  <2>2. TakesOne(c, mapping, n)
    BY <2>1 DEF Cut, TakesNone
  <2>3. c[n] = i /\ c[n] = c[n - 1] + 1
    BY <2>2 DEF TakesOne
  <2>4. n - 1 \in 0 .. Len(f.params)
    BY <1>1, Shape
  <2>5. QED
    BY <1>2, <2>3, <2>4
<1>4. \A n \in 0 .. Len(f.params) : \A l \in 0 .. n : c[l] <= c[n]
  BY CutGrows
<1>5. CASE j < k
  <2>1. j \in 0 .. k - 1 /\ k - 1 \in 0 .. Len(f.params)
    BY <1>1, <1>5
  <2>2. c[j] <= c[k - 1]
    BY <1>4, <2>1
  <2>3. QED
    BY <1>3, <2>2
<1>6. CASE k < j
  <2>1. k \in 0 .. j - 1 /\ j - 1 \in 0 .. Len(f.params)
    BY <1>1, <1>6
  <2>2. c[k] <= c[j - 1]
    BY <1>4, <2>1
  <2>3. QED
    BY <1>3, <2>2
<1>7. QED
  BY <1>1, <1>5, <1>6

(***************************************************************************)
(* Without parameters behind the sink, the slot of an argument is the one  *)
(* it took in its step, and what is in the sink has none.                  *)
(***************************************************************************)
LEMMA TakenBy ==
  ASSUME NEW f, IsFunction(f), PostSink(f) = 0, NEW pos \in Seq(Value), NotTooMany(f, pos),
         NEW m, m = Len(pos), NEW count, count = FrontCount(f, pos),
         NEW r, Taking(f, pos, m, count, r), TakenOf(f, pos).failed = 0
  PROVE  SlotsByRun(f, TakenOf(f, pos).mapping, m, count, r)
<1> DEFINE mapping == TakenOf(f, pos).mapping
<1>0. PICK start : /\ IsRun(r, f, count, pos) /\ r[count].failed = 0
                   /\ RestOf(f, r[count], start, m, mapping)
  BY DEF Taking
<1>1. /\ m \in Nat /\ count \in 0 .. PreSink(f) /\ count \in 0 .. m
  BY TakenRun
<1>2. /\ PreSink(f) \in Nat /\ count \in Nat /\ count <= m /\ count <= PreSink(f)
      /\ Slots(f) = 1 .. Len(f.params) /\ Len(f.params) \in Nat /\ PreSink(f) <= Len(f.params)
      /\ \A j \in Slots(f) : j <= PreSink(f) \/ j = f.sink
      /\ \A j \in 1 .. PreSink(f) : j # f.sink
  BY <1>1, Shape
<1>3. PICK c : Cut(c, f, mapping, m)
  <2>1. f.sink # 0 \/ m <= Len(f.params)
    BY DEF NotTooMany
  <2>2. count = Min({m, PreSink(f)}) /\ TakenOf(f, pos) = TakeSlots(f, count, pos)
    BY DEF FrontCount, TakenOf
  <2>3. QED
    BY <1>1, <2>1, <2>2, SlotsAreCut
<1> HIDE DEF mapping
<1>4. /\ DOMAIN mapping = Slots(f)
      /\ \A j \in Slots(f) :
           /\ j <= PreSink(f) => mapping[j] = IF j < r[count].lo THEN r[count].mapping[j] ELSE Unfilled(f, j)
           /\ j > PreSink(f) => mapping[j] = InSink
  BY <1>0, <1>2 DEF RestOf
<1>5. /\ r[0] = NoneTaken(f)
      /\ \A i \in 0 .. count : r[i] \in Fronts(f, count)
      /\ \A i \in 1 .. count : r[i] = TakeOne(f, r[i - 1], i, count, pos)
  BY <1>0 DEF IsRun
<1>6. \A k \in 0 .. count : \A i \in 0 .. k : Keeps(f, r[i], r[k])
  BY <1>0, <1>1, RunKeeps
<1>7. ASSUME NEW i \in 1 .. count PROVE SlotsOf(mapping, i) = {r[i].lo - 1} /\ r[i].lo - 1 \in 1 .. PreSink(f)
  <2>1. i \in Nat /\ i - 1 \in 0 .. count /\ i \in 0 .. count /\ count \in 0 .. count /\ 0 \in 0 .. i - 1 /\ i \in 1 .. m
    BY <1>1, <1>2
  <2>2. /\ Keeps(f, r[i], r[count]) /\ Keeps(f, r[i - 1], r[count]) /\ Keeps(f, r[0], r[i - 1])
        /\ r[i - 1] \in Fronts(f, count) /\ r[i] \in Fronts(f, count) /\ r[count] \in Fronts(f, count)
    BY <1>2, <1>5, <1>6, <2>1
  <2>3. r[i - 1].failed = 0 /\ r[i].failed = 0
    BY <1>0, <2>2 DEF Keeps
  <2>4. r[0].lo = 1
    BY <1>5 DEF NoneTaken
  <2>5. PICK g \in Fitting(f, r[i - 1], i, count, pos) : IsFill(f, r[i - 1], i, g, r[i])
    <3>1. IsStep(f, r[i - 1], i, count, pos, r[i])
      BY <1>1, <1>5, <2>2, <2>3, TakesStep
    <3>2. QED
      BY <2>1, <2>3, <3>1 DEF IsStep
  <2>6. g \in Nat /\ r[i - 1].lo <= g /\ g <= PreSink(f) - count + i
    BY <1>1, <2>2, FittingIs
  <2>7. r[i].lo = g + 1
    BY <2>5 DEF IsFill
  <2>8. r[i - 1].lo \in Nat /\ r[i].lo \in Nat /\ r[count].lo \in Nat
    BY <2>2 DEF Fronts
  <2>9. g \in 1 .. PreSink(f) /\ g \in Slots(f)
    <3>1. 1 <= r[i - 1].lo
      BY <2>2, <2>4 DEF Keeps
    <3>2. QED
      BY <1>2, <2>1, <2>6, <2>8, <3>1, SMTT(30)
  <2>10. r[i].mapping[g] = i
    BY <2>5, <2>9 DEF IsFill
  <2>11. mapping[g] = i
    <3>1. g < r[i].lo /\ g < r[count].lo
      BY <2>2, <2>6, <2>7, <2>8 DEF Keeps
    <3>2. r[count].mapping[g] = i
      BY <2>2, <2>9, <2>10, <3>1 DEF Keeps
    <3>3. QED
      BY <1>2, <1>4, <2>9, <3>1, <3>2
  <2>12. \A j \in Slots(f) : mapping[j] = i => j = g
    <3>1. \A j, k \in Slots(f) : mapping[j] \in 1 .. m /\ mapping[k] = mapping[j] => j = k
      BY <1>1, <1>3, TakenOnce
    <3>2. QED
      BY <2>1, <2>9, <2>11, <3>1
  <2>13. SlotsOf(mapping, i) = {g}
    BY <1>4, <2>9, <2>11, <2>12 DEF SlotsOf
  <2>14. r[i].lo - 1 = g
    BY <2>6, <2>7
  <2>15. QED
    BY <2>9, <2>13, <2>14
<1>8. ASSUME NEW i \in count + 1 .. m PROVE SlotsOf(mapping, i) = {}
  <2>1. i \in Nat /\ i > count /\ i > 0
    BY <1>2
  <2>2. PICK d : FrontCut(d, f, r[count], count)
    <3>1. TakeFront(f, count, pos) \in Fronts(f, count) /\ TakeFront(f, count, pos) = r[count]
      <4>2. PICK q : IsRun(q, f, count, pos) /\ TakeFront(f, count, pos) = q[count]
        BY <1>1, FrontRun
      <4>3. q[count] = r[count]
        BY <1>0, <1>1, <4>2, SameRun
      <4>4. QED
        BY <1>2, <1>5, <4>2, <4>3
    <3>2. QED
      BY <1>0, <1>1, <3>1, FrontIsCut
  <2>3. ASSUME NEW j \in Slots(f) PROVE mapping[j] # i
    <3>1. i # InSink /\ i # Missing /\ i # Default
      BY <2>1 DEF InSink, Missing, Default
    <3>2. CASE j <= PreSink(f)
      <4>1. j \in 1 .. PreSink(f)
        BY <1>2, <3>2
      <4>2. d[j] \in 0 .. count
        BY <1>2, <2>2, <4>1 DEF FrontCut
      <4>3. r[count].mapping[j] \in {Missing, Default} \/ r[count].mapping[j] = d[j]
        BY <2>2, <4>1 DEF FrontCut, TakesNone, TakesOne
      <4>4. mapping[j] = r[count].mapping[j] \/ mapping[j] \in {Missing, Default}
        BY <1>4, <3>2 DEF Unfilled
      <4>5. mapping[j] \in {Missing, Default} \/ mapping[j] = d[j]
        BY <4>3, <4>4
      <4>6. d[j] # i
        BY <1>2, <2>1, <4>2
      <4>7. QED
        BY <3>1, <4>5, <4>6
    <3>3. CASE j > PreSink(f)
      BY <1>4, <3>1, <3>3
    <3>4. QED
      BY <1>2, <3>2, <3>3
  <2>4. QED
    BY <1>4, <2>3 DEF SlotsOf
<1>9. QED
  BY <1>7, <1>8 DEF SlotsByRun, mapping

(***************************************************************************)
(* The positional arguments of a call once they are coerced.               *)
(***************************************************************************)
LEMMA CoercedPosIs ==
  ASSUME NEW f, NEW mapping, NEW pos \in Seq(Value), NEW co, co = CoercedPos(f, mapping, pos)
  PROVE  /\ co \in Seq(Value) /\ Len(co) = Len(pos)
         /\ \A i \in 1 .. Len(pos) :
              co[i] = IF SlotsOf(mapping, i) = {} THEN pos[i]
                      ELSE CallableAsFunction(f.params[Min(SlotsOf(mapping, i))].types, pos[i])
<1>1. Len(pos) \in Nat /\ DOMAIN pos = 1 .. Len(pos) /\ \A i \in 1 .. Len(pos) : pos[i] \in Value
  OBVIOUS
<1>2. /\ co = [i \in 1 .. Len(pos) |-> co[i]]
      /\ \A i \in 1 .. Len(pos) :
              co[i] = IF SlotsOf(mapping, i) = {} THEN pos[i]
                      ELSE CallableAsFunction(f.params[Min(SlotsOf(mapping, i))].types, pos[i])
  BY <1>1 DEF CoercedPos
<1>3. \A i \in 1 .. Len(pos) : co[i] \in Value
  <2> TAKE i \in 1 .. Len(pos)
  <2>1. CASE SlotsOf(mapping, i) = {}
    BY <1>1, <1>2, <2>1
  <2>2. CASE SlotsOf(mapping, i) # {}
    <3>1. co[i] = CallableAsFunction(f.params[Min(SlotsOf(mapping, i))].types, pos[i])
      BY <1>2, <2>2
    <3>2. pos[i] \in Value
      BY <1>1
    <3>3. QED
      BY <3>1, <3>2, CoercedValue
  <2>3. QED
    BY <2>1, <2>2
<1>4. co \in Seq(Value) /\ Len(co) = Len(pos)
  BY <1>1, <1>2, <1>3, MakesSequence
<1>5. QED
  BY <1>2, <1>4

(***************************************************************************)
(* The only element of a set is its least.                                 *)
(***************************************************************************)
LEMMA MinOfOne ==
  ASSUME NEW k \in Nat
  PROVE  Min({k}) = k
<1>1. {k} \in SUBSET Nat /\ {k} # {}
  OBVIOUS
<1>2. Min({k}) \in {k}
  BY <1>1, MinIsLeast
<1>3. QED
  BY <1>2

(***************************************************************************)
(* Without parameters behind the sink nothing does not fit there.          *)
(***************************************************************************)
LEMMA NothingBehind ==
  ASSUME NEW f, IsFunction(f), PostSink(f) = 0, NEW mapping, NEW pos
  PROVE  UnfitBack(f, mapping, pos) = {}
<1>1. \A k \in Slots(f) : ~(f.sink # 0 /\ k > f.sink)
  BY Shape
<1>2. QED
  BY <1>1 DEF UnfitBack

(***************************************************************************)
(* In an accepted call every required parameter before the sink is taken.  *)
(***************************************************************************)
LEMMA AcceptedComplete ==
  ASSUME NEW f, IsFunction(f), NEW pos, Accepted(f, pos), NEW s, TakenOf(f, pos).failed = s.failed,
         NEW start, NEW m, RestOf(f, s, start, m, TakenOf(f, pos).mapping)
  PROVE  Complete(f, s)
<1>1. \A j \in 1 .. PreSink(f) : j \in Slots(f) /\ j <= PreSink(f)
  BY Shape
<1>2. s.failed = 0
  BY DEF Accepted
<1>3. ASSUME NEW j \in 1 .. PreSink(f)
      PROVE  IF j < s.lo THEN s.mapping[j] # Missing ELSE ~f.params[j].required
  <2>1. TakenOf(f, pos).mapping[j] = IF j < s.lo THEN s.mapping[j] ELSE Unfilled(f, j)
    BY <1>1 DEF RestOf
  <2>2. TakenOf(f, pos).mapping[j] # Missing
    BY <1>1 DEF Accepted
  <2>3. QED
    BY <2>1, <2>2 DEF Unfilled
<1>4. QED
  BY <1>2, <1>3 DEF Complete

\* Two lists of positional arguments are refused alike or passed alike.
SameOutcome(f, a, b) ==
  /\ Accepted(f, a) <=> Accepted(f, b)
  /\ Accepted(f, a) =>
       /\ TakenOf(f, a) = TakenOf(f, b)
       /\ CoercedPos(f, TakenOf(f, a).mapping, a) = CoercedPos(f, TakenOf(f, b).mapping, b)

\* a and b go on alike where v and its coerced form w end.
GoOn(v, w, a, b) ==
  /\ Len(a) = Len(b) /\ Len(v) <= Len(a)
  /\ \A i \in 1 .. Len(v) : a[i] = v[i] /\ b[i] = w[i]
  /\ \A i \in Len(v) + 1 .. Len(a) : a[i] = b[i]

(***************************************************************************)
(* Where the required parameters come first, arguments that were bound     *)
(* ahead, and coerced, lead to what the arguments themselves lead to.      *)
(***************************************************************************)
LEMMA TakenTogether ==
  ASSUME NEW f, IsFunction(f), RequiredFirst(f), NEW v \in Seq(Value), NotTooMany(f, v),
         TakenOf(f, v).failed = 0, NEW w, w = CoercedPos(f, TakenOf(f, v).mapping, v),
         NEW a \in Seq(Value), NEW b \in Seq(Value), GoOn(v, w, a, b)
  PROVE  SameOutcome(f, a, b)
<1> DEFINE P == PreSink(f)
           m == Len(v)
           n == Len(a)
           few == FrontCount(f, v)
           count == FrontCount(f, a)
           M == TakenOf(f, v).mapping
<1>1. /\ P \in Nat /\ m \in Nat /\ n \in Nat /\ m <= n /\ n = Len(b) /\ Len(b) \in Nat
      /\ PostSink(f) = 0 /\ DOMAIN a = 1 .. n /\ DOMAIN b = 1 .. n
  BY Shape DEF GoOn, RequiredFirst
<1>2. /\ few \in 0 .. P /\ few \in 0 .. m /\ few = (IF m <= P THEN m ELSE P)
      /\ \E x : Taking(f, v, m, few, x)
  BY TakenRun
<1>3. /\ count \in 0 .. P /\ count \in 0 .. n /\ count = (IF n <= P THEN n ELSE P)
      /\ \E r : Taking(f, a, n, count, r)
  BY TakenRun
<1>4. FrontCount(f, b) = count
  BY <1>1 DEF FrontCount
<1>5. \E q : Taking(f, b, n, count, q)
  <2> HIDE DEF count, n
  <2>1. n = Len(b) /\ count = FrontCount(f, b)
    BY <1>1, <1>4
  <2>2. QED
    BY <2>1, TakenRun
<1> HIDE DEF P, m, n, few, count, M
<1>6. PICK x : Taking(f, v, m, few, x)
  BY <1>2
<1>7. PICK r : /\ Taking(f, a, n, count, r)
               /\ IsRun(r, f, count, a)
               /\ TakenOf(f, a) = TakeRest(f, r[count], count + SinkSize(f, n), n)
               /\ TakenOf(f, a).failed = r[count].failed
               /\ RestOf(f, r[count], count + SinkSize(f, n), n, TakenOf(f, a).mapping)
  BY <1>3 DEF Taking
<1>8. PICK q : /\ IsRun(q, f, count, b)
               /\ TakenOf(f, b) = TakeRest(f, q[count], count + SinkSize(f, n), n)
               /\ TakenOf(f, b).failed = q[count].failed
               /\ RestOf(f, q[count], count + SinkSize(f, n), n, TakenOf(f, b).mapping)
  BY <1>5 DEF Taking
<1>9. few <= count /\ few \in Nat /\ count \in Nat /\ count \in few .. P
  BY <1>1, <1>2, <1>3
<1>10. /\ \A i \in 1 .. few : SlotsOf(M, i) = {x[i].lo - 1} /\ x[i].lo - 1 \in 1 .. P
       /\ \A i \in few + 1 .. m : SlotsOf(M, i) = {}
  <2>1. SlotsByRun(f, M, m, few, x)
    BY <1>1, <1>6, TakenBy DEF m, few, M
  <2>2. QED
    BY <2>1 DEF SlotsByRun, P
<1>11. \A i \in 1 .. m : w[i] = IF SlotsOf(M, i) = {} THEN v[i]
                               ELSE CallableAsFunction(f.params[Min(SlotsOf(M, i))].types, v[i])
  BY CoercedPosIs DEF m, M
<1>12. /\ \A i \in 1 .. m : v[i] \in Value /\ a[i] = v[i] /\ b[i] = w[i]
       /\ \A i \in m + 1 .. n : a[i] = b[i]
  BY DEF GoOn, m, n
<1>13. \A i \in 1 .. few : b[i] = CallableAsFunction(f.params[x[i].lo - 1].types, v[i])
  <2> TAKE i \in 1 .. few
  <2>1. i \in 1 .. m
    BY <1>1, <1>2
  <2>2. SlotsOf(M, i) = {x[i].lo - 1} /\ x[i].lo - 1 \in Nat
    BY <1>1, <1>10
  <2>3. Min(SlotsOf(M, i)) = x[i].lo - 1
    BY <2>2, MinOfOne
  <2>4. QED
    BY <1>11, <1>12, <2>1, <2>2, <2>3
<1>14. \A i \in few + 1 .. n : a[i] = b[i]
  <2> TAKE i \in few + 1 .. n
  <2>1. CASE i <= m
    <3>1. i \in 1 .. m /\ i \in few + 1 .. m
      BY <1>1, <1>9, <2>1
    <3>2. QED
      BY <1>10, <1>11, <1>12, <3>1
  <2>2. CASE i > m
    BY <1>1, <1>9, <1>12, <2>2
  <2>3. QED
    BY <1>1, <1>9, <2>1, <2>2
<1>15. CoercedAhead(f, x, few, count, v, a, b)
  <2>1. \A i \in 1 .. few : i \in 1 .. m
    BY <1>1, <1>2
  <2>2. \A i \in few + 1 .. count : i \in few + 1 .. n
    BY <1>1, <1>3, <1>9
  <2>3. QED
    BY <1>12, <1>13, <1>14, <2>1, <2>2 DEF CoercedAhead
<1>16. PICK R : RequiredUpTo(f, R) /\ NoneTaken(f).required = R
  BY RequiredPrefix
<1>17. ASSUME Accepted(f, a) \/ Accepted(f, b)
       PROVE  q[count] = r[count] /\ \A i \in 0 .. few : r[i] = x[i]
  <2>1. Complete(f, r[count]) \/ Complete(f, q[count])
    <3>1. CASE Accepted(f, a)
      <4>1. Complete(f, r[count])
        BY <1>7, <3>1, AcceptedComplete
      <4>2. QED
        BY <4>1
    <3>2. CASE Accepted(f, b)
      <4>1. Complete(f, q[count])
        BY <1>8, <3>2, AcceptedComplete
      <4>2. QED
        BY <4>1
    <3>3. QED
      BY <1>17, <3>1, <3>2
  <2>2. few \in 0 .. PreSink(f) /\ count \in few .. PreSink(f)
    BY <1>2, <1>9 DEF P
  <2>3. /\ \A i \in 0 .. count : q[i] = r[i]
        /\ \A i \in 0 .. few : r[i] = x[i]
    <3>1. IsRun(x, f, few, v) /\ x[few].failed = 0
      BY <1>6 DEF Taking
    <3>2. QED
      BY <1>7, <1>8, <1>15, <1>16, <2>1, <2>2, <3>1, RunsTogether
  <2>4. QED
    BY <1>9, <2>3
<1>18. ASSUME Accepted(f, a) \/ Accepted(f, b)
       PROVE  TakenOf(f, a) = TakenOf(f, b)
  BY <1>7, <1>8, <1>17, <1>18
<1>19. /\ \A mapping, pos : UnfitBack(f, mapping, pos) = {}
       /\ NotTooMany(f, a) <=> NotTooMany(f, b)
  <2>1. \A mapping, pos : UnfitBack(f, mapping, pos) = {}
    BY <1>1, NothingBehind
  <2>2. Len(a) = Len(b)
    BY DEF GoOn
  <2>3. QED
    BY <2>1, <2>2 DEF NotTooMany
<1>20. Accepted(f, a) <=> Accepted(f, b)
  <2>1. ASSUME Accepted(f, a) PROVE Accepted(f, b)
    BY <1>18, <1>19, <2>1 DEF Accepted
  <2>2. ASSUME Accepted(f, b) PROVE Accepted(f, a)
    BY <1>18, <1>19, <2>2 DEF Accepted
  <2>3. QED
    BY <2>1, <2>2
<1>21. ASSUME Accepted(f, a)
       PROVE  CoercedPos(f, TakenOf(f, a).mapping, a) = CoercedPos(f, TakenOf(f, b).mapping, b)
  <2> DEFINE N == TakenOf(f, a).mapping
             ca == CoercedPos(f, N, a)
             cb == CoercedPos(f, N, b)
  <2>1. TakenOf(f, b).mapping = N
    BY <1>18, <1>21
  <2>2. TakenOf(f, a).failed = 0 /\ NotTooMany(f, a)
    BY <1>21 DEF Accepted
  <2>3. SlotsByRun(f, N, n, count, r)
    BY <1>1, <1>7, <2>2, TakenBy DEF n, count
  <2>4. /\ ca \in Seq(Value) /\ Len(ca) = n
        /\ \A i \in 1 .. n : ca[i] = IF SlotsOf(N, i) = {} THEN a[i]
                                     ELSE CallableAsFunction(f.params[Min(SlotsOf(N, i))].types, a[i])
    <3>1. a \in Seq(Value) /\ n = Len(a) /\ ca = CoercedPos(f, N, a)
      BY DEF n
    <3> HIDE DEF N, ca
    <3>2. QED
      BY <3>1, CoercedPosIs
  <2>5. /\ cb \in Seq(Value) /\ Len(cb) = n
        /\ \A i \in 1 .. n : cb[i] = IF SlotsOf(N, i) = {} THEN b[i]
                                     ELSE CallableAsFunction(f.params[Min(SlotsOf(N, i))].types, b[i])
    <3>1. b \in Seq(Value) /\ n = Len(b) /\ cb = CoercedPos(f, N, b)
      BY <1>1
    <3> HIDE DEF N, cb, n
    <3>2. QED
      BY <3>1, CoercedPosIs
  <2> HIDE DEF N, ca, cb
  <2>7. \A i \in 1 .. count : SlotsOf(N, i) = {r[i].lo - 1} /\ r[i].lo - 1 \in 1 .. PreSink(f)
    BY <2>3 DEF SlotsByRun
  <2>8. \A i \in 1 .. n : ca[i] = cb[i]
    <3> TAKE i \in 1 .. n
    <3>1. CASE i <= few
      <4>1. i \in 1 .. few /\ i \in 1 .. count /\ i \in 0 .. few /\ i \in 1 .. m
        BY <1>1, <1>2, <1>9, <3>1
      <4> DEFINE k == x[i].lo - 1
                 t == f.params[k].types
      <4>2. SlotsOf(N, i) = {k} /\ k \in Nat
        BY <1>1, <1>10, <1>17, <1>21, <2>7, <4>1
      <4>3. Min(SlotsOf(N, i)) = k
        BY <4>2, MinOfOne
      <4>4. ca[i] = CallableAsFunction(t, a[i]) /\ cb[i] = CallableAsFunction(t, b[i])
        BY <2>4, <2>5, <4>2, <4>3
      <4>5. a[i] \in Value /\ b[i] = CallableAsFunction(t, a[i])
        BY <1>12, <1>13, <4>1
      <4> HIDE DEF k, t
      <4>6. CallableAsFunction(t, b[i]) = b[i]
        BY <4>5, CoercedFits
      <4>7. QED
        BY <4>4, <4>5, <4>6
    <3>2. CASE i > few
      <4>1. a[i] = b[i]
        BY <1>1, <1>9, <1>14, <3>2
      <4>2. QED
        BY <2>4, <2>5, <4>1
    <3>3. QED
      BY <1>9, <3>1, <3>2
  <2>9. ca = cb
    BY <2>4, <2>5, <2>8, SameEntries
  <2>10. QED
    BY <2>1, <2>9 DEF ca, cb, N
<1>22. QED
  BY <1>18, <1>20, <1>21 DEF SameOutcome

(***************************************************************************)
(* What goes on with the same arguments goes on alike.                     *)
(***************************************************************************)
LEMMA GoOnBoth ==
  ASSUME NEW v \in Seq(Value), NEW w \in Seq(Value), Len(v) = Len(w), NEW more \in Seq(Value)
  PROVE  v \o more \in Seq(Value) /\ w \o more \in Seq(Value) /\ GoOn(v, w, v \o more, w \o more)
<1> DEFINE a == v \o more
           b == w \o more
<1>1. /\ a \in Seq(Value) /\ Len(a) = Len(v) + Len(more)
      /\ \A i \in 1 .. Len(v) : a[i] = v[i]
      /\ \A i \in Len(v) + 1 .. Len(v) + Len(more) : a[i] = more[i - Len(v)]
  BY ConcatEntries
<1>2. /\ b \in Seq(Value) /\ Len(b) = Len(w) + Len(more)
      /\ \A i \in 1 .. Len(w) : b[i] = w[i]
      /\ \A i \in Len(w) + 1 .. Len(w) + Len(more) : b[i] = more[i - Len(w)]
  BY ConcatEntries
<1>3. Len(v) \in Nat /\ Len(more) \in Nat
  OBVIOUS
<1> HIDE DEF a, b
<1>4. GoOn(v, w, a, b)
  BY <1>1, <1>2, <1>3 DEF GoOn
<1>5. QED
  BY <1>1, <1>2, <1>4 DEF a, b

\* A call goes on from v as it does from w.
Interchangeable(f, v, w) ==
  /\ v \in Seq(Value) /\ w \in Seq(Value) /\ Len(v) = Len(w)
  /\ \A more \in Seq(Value) : SameOutcome(f, v \o more, w \o more)

(***************************************************************************)
(* What is bound ahead may be coerced.                                     *)
(***************************************************************************)
LEMMA CoercionKeeps ==
  ASSUME NEW f, IsFunction(f), Steady(f), NEW v \in Seq(Value), NotTooMany(f, v),
         TakenOf(f, v).failed = 0, NEW w, w = CoercedPos(f, TakenOf(f, v).mapping, v)
  PROVE  Interchangeable(f, v, w)
<1>1. w \in Seq(Value) /\ Len(w) = Len(v)
  BY CoercedPosIs
<1>2. CASE RequiredFirst(f)
  <2>1. ASSUME NEW more \in Seq(Value) PROVE SameOutcome(f, v \o more, w \o more)
    <3> DEFINE a == v \o more
               b == w \o more
    <3>1. a \in Seq(Value) /\ b \in Seq(Value) /\ GoOn(v, w, a, b)
      BY <1>1, GoOnBoth
    <3> HIDE DEF a, b
    <3>5. SameOutcome(f, a, b)
      BY <1>2, <3>1, TakenTogether
    <3>6. QED
      BY <3>5 DEF a, b
  <2>2. QED
    BY <1>1, <2>1 DEF Interchangeable
<1>3. CASE NeverCoerces(f)
  <2> DEFINE M == TakenOf(f, v).mapping
  <2>1. /\ Slots(f) = 1 .. Len(f.params) /\ PreSink(f) \in Nat
        /\ f.sink \in Slots(f) => f.sink > PreSink(f)
    BY Shape
  <2>2. PICK s, start, m : RestOf(f, s, start, m, M)
    BY TakenRun DEF Taking
  <2>3. DOMAIN M = Slots(f) /\ (f.sink \in Slots(f) => M[f.sink] = InSink)
    BY <2>1, <2>2 DEF RestOf
  <2> HIDE DEF M
  <2>4. ASSUME NEW i \in 1 .. Len(v), SlotsOf(M, i) # {}
        PROVE  CallableAsFunction(f.params[Min(SlotsOf(M, i))].types, v[i]) = v[i]
    <3>1. SlotsOf(M, i) \in SUBSET Nat
      BY <2>1, <2>3 DEF SlotsOf
    <3>2. PICK j \in SlotsOf(M, i) : j = Min(SlotsOf(M, i))
      BY <2>4, <3>1, MinIsLeast
    <3>3. j \in Slots(f) /\ M[j] = i
      BY <2>3 DEF SlotsOf
    <3>4. i # InSink
      BY DEF InSink
    <3>5. j \in Plain(f)
      BY <2>3, <3>3, <3>4 DEF Plain
    <3>6. ~Coerces(f.params[j].types)
      BY <1>3, <3>5 DEF NeverCoerces
    <3>7. CallableAsFunction(f.params[j].types, v[i]) = v[i]
      BY <3>6, NotCoerced
    <3>8. QED
      BY <3>2, <3>7
  <2>5. \A i \in 1 .. Len(v) : w[i] = IF SlotsOf(M, i) = {} THEN v[i]
                               ELSE CallableAsFunction(f.params[Min(SlotsOf(M, i))].types, v[i])
    BY CoercedPosIs DEF M
  <2>6. w = v
    <3>1. \A i \in 1 .. Len(w) : w[i] = v[i]
      BY <1>1, <2>4, <2>5
    <3>2. QED
      BY <1>1, <3>1, SameEntries
  <2>7. QED
    BY <1>1, <2>6 DEF Interchangeable, SameOutcome
<1>4. QED
  BY <1>2, <1>3 DEF Steady

-----------------------------------------------------------------------------
(* What a function binds ahead does not change how it takes its arguments. *)

\* Functions that differ in what they bind ahead and validate.
SameKind(f, g) ==
  /\ IsFunction(f) /\ IsFunction(g)
  /\ f.params = g.params /\ f.sink = g.sink /\ f.named = g.named

(***************************************************************************)
(* Such functions have the same slots.                                     *)
(***************************************************************************)
LEMMA SameSlots ==
  ASSUME NEW f, NEW g, SameKind(f, g)
  PROVE  Slots(f) = Slots(g) /\ PreSink(f) = PreSink(g) /\ PostSink(f) = PostSink(g)
BY DEF SameKind, Slots, PreSink, PostSink

(***************************************************************************)
(* Each argument takes the same slot of such functions.                    *)
(***************************************************************************)
LEMMA SameTakeOne ==
  ASSUME NEW f, NEW g, SameKind(f, g), NEW s, NEW i, NEW count, NEW pos
  PROVE  TakeOne(f, s, i, count, pos) = TakeOne(g, s, i, count, pos)
<1>1. f.params = g.params /\ PreSink(f) = PreSink(g)
  BY SameSlots DEF SameKind
<1>2. Fitting(f, s, i, count, pos) = Fitting(g, s, i, count, pos)
  BY <1>1 DEF Fitting
<1>3. ASSUME NEW slot PROVE Fill(f, s, i, slot) = Fill(g, s, i, slot)
  <2> DEFINE new(h) == [j \in DOMAIN s.mapping |->
                          IF j = slot THEN i
                          ELSE IF j \in s.lo .. slot - 1 /\ ~h[j].required THEN Default
                          ELSE s.mapping[j]]
             left(h) == IF h[slot].required THEN s.required - 1 ELSE s.required
  <2>1. \A h : Fill(h, s, i, slot)
                 = [s EXCEPT !.mapping = new(h.params), !.required = left(h.params), !.lo = slot + 1]
    BY DEF Fill
  <2> HIDE DEF new, left
  <2>2. QED
    BY <1>1, <2>1
<1> DEFINE fit(h) == Fitting(h, s, i, count, pos)
<1>4. \A h : TakeOne(h, s, i, count, pos)
               = IF s.failed # 0 THEN s
                 ELSE IF fit(h) = {} THEN [s EXCEPT !.failed = i] ELSE Fill(h, s, i, Min(fit(h)))
  BY DEF TakeOne, FillOneOf
<1>5. fit(f) = fit(g)
  BY <1>2
<1> HIDE DEF fit
<1>6. Fill(f, s, i, Min(fit(f))) = Fill(g, s, i, Min(fit(g)))
  BY <1>3, <1>5
<1>7. QED
  BY <1>4, <1>5, <1>6

(***************************************************************************)
(* Such functions start with the same slots.                               *)
(***************************************************************************)
LEMMA SameNoneTaken ==
  ASSUME NEW f, NEW g, SameKind(f, g)
  PROVE  NoneTaken(f) = NoneTaken(g)
<1>1. f.params = g.params /\ f.sink = g.sink /\ PreSink(f) = PreSink(g) /\ Slots(f) = Slots(g)
  BY SameSlots DEF SameKind
<1> DEFINE map(slots, sink) == [j \in slots |-> IF j = sink THEN InSink ELSE Missing]
           need(params, n) == Cardinality({j \in 1 .. n : params[j].required})
<1>2. \A h : NoneTaken(h) = [mapping |-> map(Slots(h), h.sink), lo |-> 1,
                             required |-> need(h.params, PreSink(h)), failed |-> 0]
  BY DEF NoneTaken
<1> HIDE DEF map, need
<1>3. QED
  BY <1>1, <1>2

(***************************************************************************)
(* Such functions take arguments in the same run.                          *)
(***************************************************************************)
LEMMA SameRuns ==
  ASSUME NEW f, NEW g, SameKind(f, g), NEW r, NEW count, NEW pos, IsRun(r, f, count, pos)
  PROVE  IsRun(r, g, count, pos)
<1>1. Fronts(f, count) = Fronts(g, count)
  BY SameSlots DEF Fronts
<1>2. NoneTaken(f) = NoneTaken(g)
  BY SameNoneTaken
<1>3. \A i \in 1 .. count : TakeOne(f, r[i - 1], i, count, pos) = TakeOne(g, r[i - 1], i, count, pos)
  BY SameTakeOne
<1>4. QED
  BY <1>1, <1>2, <1>3 DEF IsRun

(***************************************************************************)
(* Such functions take the same arguments.                                 *)
(***************************************************************************)
LEMMA SameTaken ==
  ASSUME NEW f, NEW g, SameKind(f, g), NEW pos \in Seq(Value)
  PROVE  TakenOf(f, pos) = TakenOf(g, pos)
<1> DEFINE m == Len(pos)
           count == FrontCount(f, pos)
<1>1. /\ f.params = g.params /\ f.sink = g.sink /\ PreSink(f) = PreSink(g) /\ PostSink(f) = PostSink(g)
      /\ IsFunction(f) /\ IsFunction(g)
  BY SameSlots DEF SameKind
<1>2. count = FrontCount(g, pos)
  BY <1>1 DEF FrontCount
<1>3. /\ count \in 0 .. PreSink(f)
      /\ \E r : Taking(f, pos, m, count, r)
  BY <1>1, TakenRun
<1>4. \E q : Taking(g, pos, m, FrontCount(g, pos), q)
  BY <1>1, TakenRun
<1> HIDE DEF m, count
<1>5. PICK r : Taking(f, pos, m, count, r)
  BY <1>3
<1>6. PICK q : Taking(g, pos, m, count, q)
  BY <1>2, <1>4
<1>7. r[count] = q[count]
  <2>1. IsRun(r, f, count, pos) /\ IsRun(q, g, count, pos)
    BY <1>5, <1>6 DEF Taking
  <2>2. IsRun(r, g, count, pos) /\ count \in 0 .. PreSink(g)
    BY <1>1, <1>3, <2>1, SameRuns
  <2>3. QED
    BY <1>1, <2>1, <2>2, SameRun
<1>8. SinkSize(f, m) = SinkSize(g, m)
  BY <1>1 DEF SinkSize
<1>9. ASSUME NEW s, NEW start PROVE TakeRest(f, s, start, m) = TakeRest(g, s, start, m)
  <2> DEFINE rest(params, sink, pre) ==
               [j \in DOMAIN s.mapping |->
                  IF j <= pre THEN IF j < s.lo THEN s.mapping[j]
                                   ELSE IF params[j].required THEN Missing ELSE Default
                  ELSE IF j = sink THEN InSink
                  ELSE IF start + (j - sink) <= m THEN start + (j - sink)
                  ELSE IF params[j].required THEN Missing ELSE Default]
  <2>1. \A h : TakeRest(h, s, start, m) = [s EXCEPT !.mapping = rest(h.params, h.sink, PreSink(h))]
    BY DEF TakeRest, Unfilled
  <2> HIDE DEF rest
  <2>2. QED
    BY <1>1, <2>1
<1>10. /\ TakenOf(f, pos) = TakeRest(f, r[count], count + SinkSize(f, m), m)
       /\ TakenOf(g, pos) = TakeRest(g, q[count], count + SinkSize(g, m), m)
  BY <1>5, <1>6 DEF Taking
<1>11. QED
  BY <1>7, <1>8, <1>9, <1>10

(***************************************************************************)
(* Such functions accept and coerce the same positional arguments.         *)
(***************************************************************************)
LEMMA SameAccepted ==
  ASSUME NEW f, NEW g, SameKind(f, g), NEW pos \in Seq(Value)
  PROVE  /\ Accepted(f, pos) <=> Accepted(g, pos)
         /\ TakenOf(f, pos) = TakenOf(g, pos)
         /\ NotTooMany(f, pos) <=> NotTooMany(g, pos)
         /\ \A mapping : CoercedPos(f, mapping, pos) = CoercedPos(g, mapping, pos)
<1>1. f.params = g.params /\ f.sink = g.sink /\ Slots(f) = Slots(g)
  BY SameSlots DEF SameKind
<1>2. TakenOf(f, pos) = TakenOf(g, pos)
  BY SameTaken
<1>3. NotTooMany(f, pos) <=> NotTooMany(g, pos)
  BY <1>1 DEF NotTooMany
<1>4. ASSUME NEW mapping PROVE CoercedPos(f, mapping, pos) = CoercedPos(g, mapping, pos)
  <2> DEFINE co(params) ==
               [i \in DOMAIN pos |-> IF SlotsOf(mapping, i) = {} THEN pos[i]
                                     ELSE CallableAsFunction(params[Min(SlotsOf(mapping, i))].types, pos[i])]
  <2>1. \A h : CoercedPos(h, mapping, pos) = co(h.params)
    BY DEF CoercedPos
  <2> HIDE DEF co
  <2>2. QED
    BY <1>1, <2>1
<1>5. ASSUME NEW mapping PROVE UnfitBack(f, mapping, pos) = UnfitBack(g, mapping, pos)
  <2> DEFINE unfit(params, sink, slots) ==
               {mapping[j] : j \in {k \in slots : /\ sink # 0 /\ k > sink /\ mapping[k] > 0
                                                  /\ ~Takes(params[k].types, pos[mapping[k]])}}
  <2>1. \A h : UnfitBack(h, mapping, pos) = unfit(h.params, h.sink, Slots(h))
    BY DEF UnfitBack
  <2> HIDE DEF unfit
  <2>2. QED
    BY <1>1, <2>1
<1>6. Accepted(f, pos) <=> Accepted(g, pos)
  BY <1>1, <1>2, <1>3, <1>5 DEF Accepted
<1>7. QED
  BY <1>2, <1>3, <1>4, <1>6

\* Named arguments once they are coerced.
CoercedPair(f, pair) ==
  IF pair[1] \in DOMAIN f.named THEN <<pair[1], CallableAsFunction(f.named[pair[1]], pair[2])>>
  ELSE pair
CoercedNamed(f, named) == [i \in DOMAIN named |-> CoercedPair(f, named[i])]

\* What is bound of arguments that are accepted.
Binding(f, args) ==
  LET mapping == TakenOf(f, args.pos).mapping
  IN  Bound([pos |-> CoercedPos(f, mapping, args.pos), named |-> CoercedNamed(f, args.named)], mapping)

\* Positional arguments that can be bound, if not all that is required.
Bindable(f, pos) ==
  /\ NotTooMany(f, pos)
  /\ TakenOf(f, pos).failed = 0
  /\ UnfitBack(f, TakenOf(f, pos).mapping, pos) = {}

(***************************************************************************)
(* The first fault of named arguments is about a name.                     *)
(***************************************************************************)
LEMMA NamedFaultPlace ==
  ASSUME NEW f, NEW named, NEW at \in FirstNamedFault(f, named)
  PROVE  at.place \in {"named", "pair"}
<1>1. PICK pair : at \in NamedFault(f, pair)
  BY DEF FirstNamedFault
<1>2. at = At("named", 0, pair[1]) \/ at = At("pair", 0, pair[1])
  BY <1>1 DEF NamedFault
<1>3. QED
  BY <1>2 DEF At

(***************************************************************************)
(* What is coerced are the positional and the named arguments.             *)
(***************************************************************************)
LEMMA CoercedIs ==
  ASSUME NEW f, NEW mapping, NEW args
  PROVE  Coerced(f, mapping, args)
           = [pos |-> CoercedPos(f, mapping, args.pos), named |-> CoercedNamed(f, args.named)]
BY DEF Coerced, CoercedPos, CoercedNamed, CoercedPair, SlotsOf

(***************************************************************************)
(* When arguments can be bound, and to what.                               *)
(***************************************************************************)
LEMMA BindIs ==
  ASSUME NEW f, NEW args, NEW merged, merged = Merge(f.withArgs, args),
         NEW b, b = Bind(f, args)
  PROVE  /\ b.faults = {} => /\ Bindable(f, merged.pos) /\ FirstNamedFault(f, merged.named) = {}
                             /\ b = Binding(f, merged)
         /\ Bindable(f, merged.pos) /\ FirstNamedFault(f, merged.named) = {} /\ f.refused = {} =>
              b.faults = {}
         /\ \A at \in b.faults :
              at.place \in {"positional", "nowhere"} => ~Bindable(f, merged.pos)
<1> DEFINE T == TakenOf(f, merged.pos)
           U == UnfitBack(f, T.mapping, merged.pos)
           F == FirstNamedFault(f, merged.named)
           C == Coerced(f, T.mapping, merged)
<1>1. b = BindMerged(f, merged)
  BY DEF Bind
<1>2. \A at : Fault(at).faults = {at} /\ Fault(at).faults # {}
  BY DEF Fault
<1>3. CASE ~NotTooMany(f, merged.pos)
  <2>1. b = Fault(AtPos(Len(f.params) + 1))
    BY <1>1, <1>3 DEF BindMerged, NotTooMany
  <2>2. QED
    BY <1>2, <1>3, <2>1 DEF Bindable
<1>4. CASE NotTooMany(f, merged.pos)
  <2>1. b = BindTo(f, merged, T)
    BY <1>1, <1>4 DEF BindMerged, NotTooMany, TakenOf, FrontCount
  <2>2. CASE T.failed # 0
    <3>1. b = Fault(AtPos(T.failed))
      BY <2>1, <2>2 DEF BindTo
    <3>2. QED
      BY <1>2, <2>2, <3>1 DEF Bindable
  <2>3. CASE T.failed = 0 /\ U # {}
    <3>1. b = Fault(AtPos(Min(U)))
      BY <2>1, <2>3 DEF BindTo
    <3>2. QED
      BY <1>2, <2>3, <3>1 DEF Bindable
  <2>4. CASE T.failed = 0 /\ U = {}
    <3>1. Bindable(f, merged.pos)
      BY <1>4, <2>4 DEF Bindable
    <3>2. b = BindNamed(f, merged, T.mapping, F)
      BY <2>1, <2>4 DEF BindTo
    <3>3. CASE F # {}
      <4>1. b = [Fault(Nowhere) EXCEPT !.faults = F]
        BY <3>2, <3>3 DEF BindNamed
      <4>2. b.faults = F
        BY <4>1 DEF Fault
      <4>3. \A at \in F : ~(at.place \in {"positional", "nowhere"})
        BY NamedFaultPlace
      <4>4. QED
        BY <3>3, <4>2, <4>3
    <3>4. CASE F = {}
      <4>1. b = Validated(f, C, T.mapping)
        BY <3>2, <3>4 DEF BindNamed
      <4>2. CASE Refused(f, C.named) = {}
        <5>1. b = Bound(C, T.mapping)
          BY <4>1, <4>2 DEF Validated
        <5>2. b = Binding(f, merged)
          BY <5>1, CoercedIs DEF Binding
        <5>3. b.faults = {}
          BY <5>1 DEF Bound
        <5>4. QED
          BY <3>1, <3>4, <5>2, <5>3
      <4>3. CASE Refused(f, C.named) # {}
        <5>1. PICK name : b = Fault(At("named", 0, name))
          BY <4>1, <4>3 DEF Validated
        <5>2. b.faults # {} /\ \A at \in b.faults : at.place = "named"
          BY <1>2, <5>1 DEF At
        <5>3. f.refused # {}
          BY <4>3 DEF Refused
        <5>4. QED
          BY <5>2, <5>3
      <4>4. QED
        BY <4>2, <4>3
    <3>5. QED
      BY <3>3, <3>4
  <2>5. QED
    BY <2>2, <2>3, <2>4
<1>5. QED
  BY <1>3, <1>4

(***************************************************************************)
(* When a call passes its arguments, and which.                            *)
(***************************************************************************)
LEMMA ApplyIs ==
  ASSUME NEW f, NEW args, NEW merged, merged = Merge(f.withArgs, args),
         NEW result, result = Apply(f, args)
  PROVE  /\ result.faults = {} => /\ Accepted(f, merged.pos) /\ FirstNamedFault(f, merged.named) = {}
                                  /\ result.passed = Passed(f, Binding(f, merged))
         /\ Accepted(f, merged.pos) /\ FirstNamedFault(f, merged.named) = {} /\ f.refused = {} =>
              result.faults = {}
         /\ \A at \in result.faults :
              at.place \in {"positional", "nowhere"} => ~Accepted(f, merged.pos)
<1> DEFINE b == Bind(f, args)
           M == TakenOf(f, merged.pos).mapping
<1>1. /\ b.faults = {} => /\ Bindable(f, merged.pos) /\ FirstNamedFault(f, merged.named) = {}
                          /\ b = Binding(f, merged)
      /\ Bindable(f, merged.pos) /\ FirstNamedFault(f, merged.named) = {} /\ f.refused = {} =>
           b.faults = {}
      /\ \A at \in b.faults :
           at.place \in {"positional", "nowhere"} => ~Bindable(f, merged.pos)
  BY BindIs
<1>2. result = ApplyBound(f, b)
  BY DEF Apply
<1>3. Accepted(f, merged.pos) <=> Bindable(f, merged.pos) /\ \A j \in Slots(f) : M[j] # Missing
  BY DEF Accepted, Bindable
<1>4. Binding(f, merged).mapping = M
  BY DEF Binding, Bound
<1> HIDE DEF b, M
<1>5. CASE b.faults # {}
  <2>1. result.faults = b.faults
    BY <1>2, <1>5 DEF ApplyBound
  <2>2. QED
    BY <1>1, <1>3, <1>5, <2>1
<1>6. CASE b.faults = {} /\ \E j \in Slots(f) : M[j] = Missing
  <2>1. result.faults = {Nowhere}
    BY <1>1, <1>2, <1>4, <1>6 DEF ApplyBound
  <2>2. QED
    BY <1>3, <1>6, <2>1
<1>7. CASE b.faults = {} /\ \A j \in Slots(f) : M[j] # Missing
  <2>1. result.faults = {} /\ result.passed = Passed(f, b)
    BY <1>1, <1>2, <1>4, <1>7 DEF ApplyBound
  <2>2. QED
    BY <1>1, <1>3, <1>7, <2>1
<1>8. QED
  BY <1>5, <1>6, <1>7

(***************************************************************************)
(* Functions that differ in what they bind ahead pass the same.            *)
(***************************************************************************)
LEMMA SamePassed ==
  ASSUME NEW f, NEW g, SameKind(f, g), NEW b
  PROVE  Passed(f, b) = Passed(g, b)
<1>1. Slots(f) = Slots(g) /\ f.named = g.named
  BY SameSlots DEF SameKind
<1>2. Matched(f, b.args.named) = Matched(g, b.args.named)
  BY <1>1 DEF Matched
<1>3. Unmatched(f, b.args.named) = Unmatched(g, b.args.named)
  BY <1>2 DEF Unmatched
<1>4. SinkOf(f, b.mapping, b.args) = SinkOf(g, b.mapping, b.args)
  BY <1>3 DEF SinkOf
<1> DEFINE passed(slots, sink, matched) ==
             [pos |-> [j \in slots |->
                         CASE b.mapping[j] = InSink -> PassSink(sink)
                           [] b.mapping[j] = Default -> PassDefault
                           [] OTHER -> PassValue(b.args.pos[b.mapping[j]])],
              named |-> Picked(b.args.named, matched)]
<1>5. \A h : Passed(h, b) = passed(Slots(h), SinkOf(h, b.mapping, b.args), Matched(h, b.args.named))
  BY DEF Passed
<1> HIDE DEF passed
<1>6. QED
  BY <1>1, <1>2, <1>4, <1>5

(***************************************************************************)
(* They coerce and refuse the same named arguments.                        *)
(***************************************************************************)
LEMMA SameNamedArgs ==
  ASSUME NEW f, NEW g, SameKind(f, g), NEW named
  PROVE  /\ CoercedNamed(f, named) = CoercedNamed(g, named)
         /\ FirstNamedFault(f, named) = FirstNamedFault(g, named)
<1>1. Slots(f) = Slots(g) /\ f.named = g.named /\ f.params = g.params /\ f.sink = g.sink
  BY SameSlots DEF SameKind
<1>2. CoercedNamed(f, named) = CoercedNamed(g, named)
  <2> DEFINE co(types) == [i \in DOMAIN named |->
                             IF named[i][1] \in DOMAIN types
                             THEN <<named[i][1], CallableAsFunction(types[named[i][1]], named[i][2])>>
                             ELSE named[i]]
  <2>1. \A h : CoercedNamed(h, named) = co(h.named)
    BY DEF CoercedNamed, CoercedPair
  <2> HIDE DEF co
  <2>2. QED
    BY <1>1, <2>1
<1>3. ASSUME NEW pair PROVE NamedFault(f, pair) = NamedFault(g, pair)
  BY <1>1 DEF NamedFault
<1>4. FirstNamedFault(f, named) = FirstNamedFault(g, named)
  <2>1. {i \in DOMAIN named : NamedFault(f, named[i]) # {}}
          = {i \in DOMAIN named : NamedFault(g, named[i]) # {}}
    BY <1>3
  <2> DEFINE faulty(h) == {i \in DOMAIN named : NamedFault(h, named[i]) # {}}
  <2>2. \A h : FirstNamedFault(h, named) = IF faulty(h) = {} THEN {} ELSE NamedFault(h, named[Min(faulty(h))])
    BY DEF FirstNamedFault
  <2>3. faulty(f) = faulty(g)
    BY <2>1
  <2> HIDE DEF faulty
  <2>4. QED
    BY <1>3, <2>2, <2>3
<1>5. QED
  BY <1>2, <1>4

-----------------------------------------------------------------------------
(* Putting named arguments in one go or in several.                        *)

Pair == Idents \X Value
PutPair(named, e) == Put(named, e[1], e[2])

\* p is a after e was put.
PutsPair(a, e, p) ==
  /\ p \in NamedArgs /\ Len(p) \in Nat /\ Names(p) = Names(a) \cup {e[1]} /\ Len(a) \in Nat
  /\ Len(p) = IF e[1] \in Names(a) THEN Len(a) ELSE Len(a) + 1
  /\ \A i \in 1 .. Len(p) : p[i] = IF i > Len(a) \/ a[i][1] = e[1] THEN e ELSE a[i]

(***************************************************************************)
(* What is put is there, and what was there stays.                         *)
(***************************************************************************)
LEMMA PutPairIs ==
  ASSUME NEW a \in NamedArgs, NEW e \in Pair, NEW p, p = PutPair(a, e)
  PROVE  PutsPair(a, e, p)
<1>1. /\ p \in NamedArgs
      /\ e[1] \in Names(a) =>
           /\ Len(p) = Len(a)
           /\ \A i \in 1 .. Len(a) : p[i] = IF a[i][1] = e[1] THEN e ELSE a[i]
      /\ e[1] \notin Names(a) =>
           /\ Len(p) = Len(a) + 1
           /\ p[Len(a) + 1] = e
           /\ \A i \in 1 .. Len(a) : p[i] = a[i]
  BY PutEntries DEF PutPair, Pair
<1>2. Len(a) \in Nat /\ Len(p) \in Nat /\ DOMAIN a = 1 .. Len(a) /\ DOMAIN p = 1 .. Len(p)
  BY <1>1 DEF NamedArgs
<1>3. \A name : name \in Names(a) <=> \E i \in 1 .. Len(a) : a[i][1] = name
  BY <1>2 DEF Names
<1>4. \A name : name \in Names(p) <=> \E i \in 1 .. Len(p) : p[i][1] = name
  BY <1>2 DEF Names
<1>5. CASE e[1] \in Names(a)
  <2>0. Len(p) = Len(a) /\ \A i \in 1 .. Len(a) : p[i] = IF a[i][1] = e[1] THEN e ELSE a[i]
    BY <1>1, <1>5
  <2>1. \A i \in 1 .. Len(a) : p[i][1] = a[i][1]
    BY <2>0
  <2>2. Names(p) = Names(a)
    <3>1. \A name : name \in Names(p) <=> name \in Names(a)
      BY <1>3, <1>4, <2>0, <2>1
    <3>2. QED
      BY <3>1
  <2>3. \A i \in 1 .. Len(p) : p[i] = IF i > Len(a) \/ a[i][1] = e[1] THEN e ELSE a[i]
    <3> TAKE i \in 1 .. Len(p)
    <3>1. i \in 1 .. Len(a) /\ ~(i > Len(a))
      BY <1>2, <2>0
    <3>2. QED
      BY <2>0, <3>1
  <2>4. QED
    BY <1>1, <1>2, <1>5, <2>0, <2>2, <2>3 DEF PutsPair
<1>6. CASE e[1] \notin Names(a)
  <2>1. /\ Len(p) = Len(a) + 1 /\ p[Len(a) + 1] = e
        /\ \A i \in 1 .. Len(a) : p[i] = a[i] /\ a[i][1] # e[1]
    BY <1>1, <1>3, <1>6
  <2>2. \A i \in 1 .. Len(p) : i \in 1 .. Len(a) \/ i = Len(a) + 1
    BY <1>2, <2>1
  <2>3. \A name : name \in Names(p) <=> name \in Names(a) \/ name = e[1]
    BY <1>2, <1>3, <1>4, <2>1, <2>2
  <2>4. Names(p) = Names(a) \cup {e[1]}
    BY <2>3
  <2>5. \A i \in 1 .. Len(p) : p[i] = IF i > Len(a) \/ a[i][1] = e[1] THEN e ELSE a[i]
    BY <1>2, <2>1, <2>2
  <2>6. QED
    BY <1>1, <1>2, <1>6, <2>1, <2>4, <2>5 DEF PutsPair
<1>7. QED
  BY <1>5, <1>6

(***************************************************************************)
(* The last value that is put for a name counts.                           *)
(***************************************************************************)
LEMMA PutTwice ==
  ASSUME NEW a \in NamedArgs, NEW d \in Pair, NEW e \in Pair, d[1] = e[1]
  PROVE  PutPair(PutPair(a, d), e) = PutPair(a, e)
<1> DEFINE p == PutPair(a, d)
           q == PutPair(p, e)
           r == PutPair(a, e)
<1>a. PutsPair(a, d, p) /\ PutsPair(a, e, r)
  BY PutPairIs
<1> HIDE DEF p, r
<1>1. /\ p \in NamedArgs /\ Names(p) = Names(a) \cup {d[1]} /\ Len(a) \in Nat
      /\ Len(p) = IF d[1] \in Names(a) THEN Len(a) ELSE Len(a) + 1
      /\ \A i \in 1 .. Len(p) : p[i] = IF i > Len(a) \/ a[i][1] = d[1] THEN d ELSE a[i]
  BY <1>a DEF PutsPair
<1>b. PutsPair(p, e, q)
  BY <1>1, PutPairIs
<1> HIDE DEF q
<1>2. /\ q \in NamedArgs /\ Len(p) \in Nat
      /\ Len(q) = IF e[1] \in Names(p) THEN Len(p) ELSE Len(p) + 1
      /\ \A i \in 1 .. Len(q) : q[i] = IF i > Len(p) \/ p[i][1] = e[1] THEN e ELSE p[i]
  BY <1>b DEF PutsPair
<1>3. /\ r \in NamedArgs
      /\ Len(r) = IF e[1] \in Names(a) THEN Len(a) ELSE Len(a) + 1
      /\ \A i \in 1 .. Len(r) : r[i] = IF i > Len(a) \/ a[i][1] = e[1] THEN e ELSE a[i]
  BY <1>a DEF PutsPair
<1>4. Len(q) = Len(p) /\ Len(q) = Len(r)
  BY <1>1, <1>2, <1>3
<1>5. \A i \in 1 .. Len(q) : q[i] = r[i]
  <2> TAKE i \in 1 .. Len(q)
  <2>1. i \in 1 .. Len(p) /\ i \in 1 .. Len(r) /\ ~(i > Len(p))
    BY <1>2, <1>4
  <2>2. CASE i > Len(a) \/ a[i][1] = d[1]
    <3>1. p[i] = d
      BY <1>1, <2>1, <2>2
    <3>2. q[i] = e /\ r[i] = e
      BY <1>2, <1>3, <2>1, <2>2, <3>1
    <3>3. QED
      BY <3>2
  <2>3. CASE ~(i > Len(a) \/ a[i][1] = d[1])
    <3>1. p[i] = a[i] /\ a[i][1] # e[1]
      BY <1>1, <2>1, <2>3
    <3>2. q[i] = p[i] /\ r[i] = a[i]
      BY <1>2, <1>3, <2>1, <2>3, <3>1
    <3>3. QED
      BY <3>1, <3>2
  <2>4. QED
    BY <2>2, <2>3
<1>6. q = r
  BY <1>2, <1>3, <1>4, <1>5, SameEntries DEF NamedArgs
<1>7. QED
  BY <1>6 DEF p, q, r

(***************************************************************************)
(* A value may be put for a name that is there before or after others are. *)
(***************************************************************************)
LEMMA PutSwap ==
  ASSUME NEW a \in NamedArgs, NEW d \in Pair, NEW e \in Pair, d[1] # e[1], d[1] \in Names(a)
  PROVE  PutPair(PutPair(a, d), e) = PutPair(PutPair(a, e), d)
<1> DEFINE p == PutPair(a, d)
           q == PutPair(p, e)
           r == PutPair(a, e)
           s == PutPair(r, d)
<1>a. PutsPair(a, d, p) /\ PutsPair(a, e, r)
  BY PutPairIs
<1> HIDE DEF p, r
<1>1. /\ p \in NamedArgs /\ Names(p) = Names(a) /\ Len(a) \in Nat /\ Len(p) = Len(a)
      /\ \A i \in 1 .. Len(p) : p[i] = IF i > Len(a) \/ a[i][1] = d[1] THEN d ELSE a[i]
  BY <1>a DEF PutsPair
<1>2. /\ r \in NamedArgs /\ Names(r) = Names(a) \cup {e[1]}
      /\ Len(r) = IF e[1] \in Names(a) THEN Len(a) ELSE Len(a) + 1
      /\ \A i \in 1 .. Len(r) : r[i] = IF i > Len(a) \/ a[i][1] = e[1] THEN e ELSE a[i]
  BY <1>a DEF PutsPair
<1>b. PutsPair(p, e, q) /\ PutsPair(r, d, s)
  BY <1>1, <1>2, PutPairIs
<1> HIDE DEF q, s
<1>3. /\ q \in NamedArgs
      /\ Len(q) = IF e[1] \in Names(p) THEN Len(p) ELSE Len(p) + 1
      /\ \A i \in 1 .. Len(q) : q[i] = IF i > Len(p) \/ p[i][1] = e[1] THEN e ELSE p[i]
  BY <1>b DEF PutsPair
<1>4. /\ s \in NamedArgs /\ Len(r) \in Nat
      /\ Len(s) = IF d[1] \in Names(r) THEN Len(r) ELSE Len(r) + 1
      /\ \A i \in 1 .. Len(s) : s[i] = IF i > Len(r) \/ r[i][1] = d[1] THEN d ELSE r[i]
  BY <1>b DEF PutsPair
<1>5. Len(s) = Len(r) /\ Len(q) = Len(r)
  BY <1>1, <1>2, <1>3, <1>4
<1>6. \A i \in 1 .. Len(q) : q[i] = s[i]
  <2> TAKE i \in 1 .. Len(q)
  <2>1. i \in 1 .. Len(r) /\ i \in 1 .. Len(s) /\ i \in Nat /\ ~(i > Len(r)) /\ i \in 1 .. Len(q)
    BY <1>4, <1>5
  <2>2. CASE i > Len(a)
    <3>1. q[i] = e /\ r[i] = e
      BY <1>1, <1>2, <1>3, <2>1, <2>2
    <3>2. s[i] = r[i]
      BY <1>4, <2>1, <3>1
    <3>3. QED
      BY <3>1, <3>2
  <2>3. CASE i <= Len(a) /\ a[i][1] = d[1]
    <3>1. i \in 1 .. Len(p) /\ ~(i > Len(p)) /\ ~(i > Len(a))
      BY <1>1, <2>1, <2>3
    <3>2. p[i] = d /\ r[i] = a[i]
      BY <1>1, <1>2, <2>1, <2>3, <3>1
    <3>3. q[i] = d /\ s[i] = d
      BY <1>3, <1>4, <2>1, <2>3, <3>1, <3>2
    <3>4. QED
      BY <3>3
  <2>4. CASE i <= Len(a) /\ a[i][1] # d[1]
    <3>1. i \in 1 .. Len(p) /\ ~(i > Len(p)) /\ ~(i > Len(a))
      BY <1>1, <2>1, <2>4
    <3>2. p[i] = a[i]
      BY <1>1, <2>4, <3>1
    <3>3. q[i] = (IF a[i][1] = e[1] THEN e ELSE a[i]) /\ r[i] = q[i]
      BY <1>2, <1>3, <2>1, <3>1, <3>2
    <3>4. r[i][1] # d[1]
      BY <2>4, <3>3
    <3>5. s[i] = r[i]
      BY <1>4, <2>1, <3>4
    <3>6. QED
      BY <3>3, <3>5
  <2>5. QED
    BY <1>1, <2>1, <2>2, <2>3, <2>4
<1>7. q = s
  BY <1>3, <1>4, <1>5, <1>6, SameEntries DEF NamedArgs
<1>8. QED
  BY <1>7 DEF p, q, r, s

\* r holds what is put after each pair of more.
IsPutting(r, named, more) ==
  /\ r \in [0 .. Len(more) -> NamedArgs]
  /\ r[0] = named
  /\ \A i \in 1 .. Len(more) : r[i] = PutPair(r[i - 1], more[i]) /\ more[i] \in Pair

(***************************************************************************)
(* PutAll puts pair after pair, in one way.                                *)
(***************************************************************************)
LEMMA Putting ==
  ASSUME NEW named \in NamedArgs, NEW more \in NamedArgs
  PROVE  /\ Len(more) \in Nat
         /\ \E r : IsPutting(r, named, more) /\ PutAll(named, more) = r[Len(more)]
<1>1. PICK r \in [0 .. Len(more) -> NamedArgs] :
        /\ r[0] = named
        /\ \A i \in 1 .. Len(more) : r[i] = Put(r[i - 1], more[i][1], more[i][2])
        /\ PutAll(named, more) = r[Len(more)]
  BY PutAllSteps
<1>2. Len(more) \in Nat /\ \A i \in 1 .. Len(more) : more[i] \in Pair
  BY DEF NamedArgs, Pair
<1>3. QED
  BY <1>1, <1>2 DEF IsPutting, PutPair

(***************************************************************************)
(* Putting nothing changes nothing.                                        *)
(***************************************************************************)
LEMMA PutNothing ==
  ASSUME NEW named \in NamedArgs
  PROVE  PutAll(named, <<>>) = named /\ <<>> \in NamedArgs
<1>1. <<>> \in NamedArgs /\ Len(<<>>) = 0
  BY DEF NamedArgs
<1>2. PICK r : IsPutting(r, named, <<>>) /\ PutAll(named, <<>>) = r[Len(<<>>)]
  BY <1>1, Putting
<1>3. QED
  BY <1>1, <1>2 DEF IsPutting

(***************************************************************************)
(* The names that have been put so far are there.                          *)
(***************************************************************************)
LEMMA PuttingNames ==
  ASSUME NEW named \in NamedArgs, NEW more \in NamedArgs, NEW r, IsPutting(r, named, more)
  PROVE  \A i \in 0 .. Len(more) : \A j \in 1 .. i : more[j][1] \in Names(r[i])
<1> DEFINE n == Len(more)
           S == {i \in 0 .. n : \A j \in 1 .. i : more[j][1] \in Names(r[i])}
<1>1. n \in Nat
  BY DEF NamedArgs
<1>2. /\ \A i \in 0 .. n : r[i] \in NamedArgs
      /\ \A i \in 1 .. n : r[i] = PutPair(r[i - 1], more[i]) /\ more[i] \in Pair
  BY DEF IsPutting
<1> HIDE DEF n
<1>3. 0 \in S
  BY <1>1
<1>4. ASSUME NEW k \in 0 .. n - 1, k \in S PROVE k + 1 \in S
  <2>1. k + 1 \in 1 .. n /\ (k + 1) - 1 = k /\ k \in 0 .. n /\ k + 1 \in 0 .. n /\ k \in Nat
    BY <1>1
  <2>2. r[k] \in NamedArgs /\ r[k + 1] = PutPair(r[k], more[k + 1]) /\ more[k + 1] \in Pair
    BY <1>2, <2>1
  <2>3. PutsPair(r[k], more[k + 1], r[k + 1])
    BY <2>2, PutPairIs
  <2>4. Names(r[k + 1]) = Names(r[k]) \cup {more[k + 1][1]}
    BY <2>3 DEF PutsPair
  <2>5. \A j \in 1 .. k + 1 : j \in 1 .. k \/ j = k + 1
    BY <2>1
  <2>6. \A j \in 1 .. k : more[j][1] \in Names(r[k])
    BY <1>4
  <2>7. \A j \in 1 .. k + 1 : more[j][1] \in Names(r[k + 1])
    BY <2>4, <2>5, <2>6
  <2>8. QED
    BY <2>1, <2>7
<1> HIDE DEF S
<1>5. \A i \in 0 .. n : i \in S
  BY <1>1, <1>3, <1>4, InductionUpTo
<1>6. QED
  BY <1>5 DEF S, n

(***************************************************************************)
(* A pair may be put into what is put, or after it.                        *)
(***************************************************************************)
LEMMA PutAllPut ==
  ASSUME NEW x \in NamedArgs, NEW y \in NamedArgs, NEW e \in Pair
  PROVE  PutAll(x, PutPair(y, e)) = PutPair(PutAll(x, y), e)
<1> DEFINE z == PutPair(y, e)
           n == Len(y)
<1>1. PutsPair(y, e, z)
  BY PutPairIs
<1> HIDE DEF z
<1>2. /\ z \in NamedArgs /\ n \in Nat
      /\ Len(z) = IF e[1] \in Names(y) THEN n ELSE n + 1
      /\ \A i \in 1 .. Len(z) : z[i] = IF i > n \/ y[i][1] = e[1] THEN e ELSE y[i]
  BY <1>1 DEF PutsPair
<1>3. PICK r : IsPutting(r, x, y) /\ PutAll(x, y) = r[n]
  BY Putting
<1>4. PICK q : IsPutting(q, x, z) /\ PutAll(x, z) = q[Len(z)]
  BY <1>2, Putting
<1>5. \A name : name \in Names(y) <=> \E i \in 1 .. n : y[i][1] = name
  BY DEF Names, NamedArgs
<1>6. /\ \A i \in 0 .. n : r[i] \in NamedArgs
      /\ r[0] = x
      /\ \A i \in 1 .. n : r[i] = PutPair(r[i - 1], y[i]) /\ y[i] \in Pair
  BY <1>3 DEF IsPutting
<1>7. /\ q[0] = x
      /\ \A i \in 1 .. Len(z) : q[i] = PutPair(q[i - 1], z[i])
  BY <1>4 DEF IsPutting
<1>8. \A i \in 0 .. n : \A j \in 1 .. i : y[j][1] \in Names(r[i])
  BY <1>3, PuttingNames
<1> HIDE DEF n
<1> DEFINE Given(i) == \E j \in 1 .. i : y[j][1] = e[1]
           S == {i \in 0 .. n : q[i] = IF Given(i) THEN PutPair(r[i], e) ELSE r[i]}
<1>9. 0 \in S
  BY <1>2, <1>6, <1>7
<1>10. ASSUME NEW k \in 0 .. n - 1, k \in S PROVE k + 1 \in S
  <2>1. k + 1 \in 1 .. n /\ (k + 1) - 1 = k /\ k \in 0 .. n /\ k + 1 \in 0 .. n /\ k \in Nat /\ k + 1 \in 1 .. Len(z)
    BY <1>2
  <2>2. /\ r[k] \in NamedArgs /\ r[k + 1] = PutPair(r[k], y[k + 1]) /\ y[k + 1] \in Pair
        /\ r[k + 1] \in NamedArgs
    BY <1>6, <2>1
  <2>3. q[k + 1] = PutPair(q[k], z[k + 1]) /\ z[k + 1] = IF y[k + 1][1] = e[1] THEN e ELSE y[k + 1]
    BY <1>2, <1>7, <2>1
  <2>4. q[k] = IF Given(k) THEN PutPair(r[k], e) ELSE r[k]
    BY <1>10
  <2>5. Given(k + 1) <=> Given(k) \/ y[k + 1][1] = e[1]
    <3>1. \A j \in 1 .. k + 1 : j \in 1 .. k \/ j = k + 1
      BY <2>1
    <3>2. \A j \in 1 .. k : j \in 1 .. k + 1
      BY <2>1
    <3>3. k + 1 \in 1 .. k + 1
      BY <2>1
    <3>4. QED
      BY <3>1, <3>2, <3>3
  <2>6. Given(k) => e[1] \in Names(r[k])
    BY <1>8, <2>1
  <2> HIDE DEF Given
  <2>7. CASE y[k + 1][1] = e[1]
    <3>1. PutPair(r[k + 1], e) = PutPair(r[k], e)
      BY <2>2, <2>7, PutTwice
    <3>2. PutPair(PutPair(r[k], e), e) = PutPair(r[k], e)
      BY <2>2, PutTwice
    <3>3. q[k + 1] = PutPair(r[k], e)
      BY <2>3, <2>4, <2>7, <3>2
    <3>4. QED
      BY <2>1, <2>5, <2>7, <3>1, <3>3
  <2>8. CASE y[k + 1][1] # e[1] /\ Given(k)
    <3>1. PutPair(PutPair(r[k], e), y[k + 1]) = PutPair(r[k + 1], e)
      BY <2>2, <2>6, <2>8, PutSwap
    <3>2. q[k + 1] = PutPair(r[k + 1], e)
      BY <2>3, <2>4, <2>8, <3>1
    <3>3. QED
      BY <2>1, <2>5, <2>8, <3>2
  <2>9. CASE y[k + 1][1] # e[1] /\ ~Given(k)
    <3>1. q[k + 1] = r[k + 1]
      BY <2>2, <2>3, <2>4, <2>9
    <3>2. QED
      BY <2>1, <2>5, <2>9, <3>1
  <2>10. QED
    BY <2>7, <2>8, <2>9
<1>11. S = {i \in 0 .. n : q[i] = IF Given(i) THEN PutPair(r[i], e) ELSE r[i]}
  OBVIOUS
<1> HIDE DEF S
<1>12. \A i \in 0 .. n : i \in S
  BY <1>2, <1>9, <1>10, InductionUpTo
<1>13. q[n] = IF Given(n) THEN PutPair(r[n], e) ELSE r[n]
  BY <1>2, <1>11, <1>12
<1>14. Given(n) <=> e[1] \in Names(y)
  BY <1>5
<1> HIDE DEF Given
<1>15. CASE e[1] \in Names(y)
  <2>1. PutAll(x, z) = PutPair(PutAll(x, y), e)
    BY <1>2, <1>3, <1>4, <1>13, <1>14, <1>15
  <2>2. QED
    BY <2>1 DEF z
<1>16. CASE e[1] \notin Names(y)
  <2>1. n + 1 \in 1 .. Len(z) /\ Len(z) = n + 1 /\ (n + 1) - 1 = n /\ n + 1 > n
    BY <1>2, <1>16
  <2>2. z[n + 1] = e /\ q[n + 1] = PutPair(q[n], z[n + 1])
    BY <1>2, <1>7, <2>1
  <2>3. PutAll(x, z) = PutPair(PutAll(x, y), e)
    BY <1>3, <1>4, <1>13, <1>14, <1>16, <2>1, <2>2
  <2>4. QED
    BY <2>3 DEF z
<1>17. QED
  BY <1>15, <1>16

(***************************************************************************)
(* Pairs may be put into what is put, or after it.                         *)
(***************************************************************************)
LEMMA PutAllTwice ==
  ASSUME NEW x \in NamedArgs, NEW y \in NamedArgs, NEW z \in NamedArgs
  PROVE  /\ PutAll(x, PutAll(y, z)) = PutAll(PutAll(x, y), z)
         /\ PutAll(x, y) \in NamedArgs
<1> DEFINE n == Len(z)
           xy == PutAll(x, y)
<1>1. PICK p : IsPutting(p, x, y) /\ xy = p[Len(y)]
  BY Putting
<1>2. Len(y) \in Nat
  BY Putting
<1>3. xy \in NamedArgs
  BY <1>1, <1>2 DEF IsPutting
<1> HIDE DEF xy
<1>4. n \in Nat /\ \E r : IsPutting(r, y, z) /\ PutAll(y, z) = r[n]
  BY Putting
<1>5. \E q : IsPutting(q, xy, z) /\ PutAll(xy, z) = q[n]
  BY <1>3, Putting
<1> HIDE DEF n
<1>6. PICK r : IsPutting(r, y, z) /\ PutAll(y, z) = r[n]
  BY <1>4
<1>7. PICK q : IsPutting(q, xy, z) /\ PutAll(xy, z) = q[n]
  BY <1>5
<1>8. /\ \A i \in 0 .. n : r[i] \in NamedArgs
      /\ r[0] = y /\ q[0] = xy
      /\ \A i \in 1 .. n : r[i] = PutPair(r[i - 1], z[i]) /\ z[i] \in Pair
      /\ \A i \in 1 .. n : q[i] = PutPair(q[i - 1], z[i])
  BY <1>6, <1>7 DEF IsPutting, n
<1> DEFINE S == {i \in 0 .. n : PutAll(x, r[i]) = q[i]}
<1>9. 0 \in S
  BY <1>4, <1>8 DEF xy
<1>10. ASSUME NEW k \in 0 .. n - 1, k \in S PROVE k + 1 \in S
  <2>1. k + 1 \in 1 .. n /\ (k + 1) - 1 = k /\ k \in 0 .. n /\ k + 1 \in 0 .. n
    BY <1>4
  <2>2. /\ r[k] \in NamedArgs /\ r[k + 1] = PutPair(r[k], z[k + 1]) /\ z[k + 1] \in Pair
        /\ q[k + 1] = PutPair(q[k], z[k + 1]) /\ PutAll(x, r[k]) = q[k]
    BY <1>8, <1>10, <2>1
  <2>3. PutAll(x, PutPair(r[k], z[k + 1])) = PutPair(PutAll(x, r[k]), z[k + 1])
    BY <2>2, PutAllPut
  <2>4. QED
    BY <2>1, <2>2, <2>3
<1>11. S = {i \in 0 .. n : PutAll(x, r[i]) = q[i]}
  OBVIOUS
<1> HIDE DEF S
<1>12. \A i \in 0 .. n : i \in S
  BY <1>4, <1>9, <1>10, InductionUpTo
<1>13. PutAll(x, PutAll(y, z)) = PutAll(xy, z)
  BY <1>4, <1>6, <1>7, <1>11, <1>12
<1>14. QED
  BY <1>3, <1>13 DEF xy

-----------------------------------------------------------------------------
(* Coercing named arguments.                                               *)

(***************************************************************************)
(* A pair that is coerced keeps its name, and is coerced no further.       *)
(***************************************************************************)
LEMMA CoercedPairIs ==
  ASSUME NEW f, NEW e \in Pair, NEW d, d = CoercedPair(f, e)
  PROVE  /\ d \in Pair /\ d[1] = e[1] /\ CoercedPair(f, d) = d
         /\ NamedFault(f, d) = {} <=> NamedFault(f, e) = {}
<1> DEFINE types == f.named[e[1]]
           co == CallableAsFunction(types, e[2])
<1>1. e[2] \in Value /\ e[1] \in Idents
  BY DEF Pair
<1>2. /\ co \in Value /\ CallableAsFunction(types, co) = co
      /\ Takes(types, e[2]) <=> Takes(types, co)
  BY <1>1, CoercedFits
<1>3. CASE e[1] \in DOMAIN f.named
  <2>1. d = <<e[1], co>>
    BY <1>3 DEF CoercedPair
  <2>2. d \in Pair /\ d[1] = e[1] /\ d[2] = co
    BY <1>1, <1>2, <2>1 DEF Pair
  <2>3. CoercedPair(f, d) = <<e[1], CallableAsFunction(types, co)>>
    BY <1>3, <2>2 DEF CoercedPair
  <2>4. NamedFault(f, e) = IF Takes(types, e[2]) THEN {} ELSE {At("named", 0, e[1])}
    BY <1>3 DEF NamedFault
  <2>5. NamedFault(f, d) = IF Takes(types, co) THEN {} ELSE {At("named", 0, e[1])}
    BY <1>3, <2>2 DEF NamedFault
  <2> HIDE DEF co, types
  <2>6. CoercedPair(f, d) = d
    BY <1>2, <2>1, <2>3
  <2>7. QED
    BY <1>2, <2>2, <2>4, <2>5, <2>6
<1>4. CASE e[1] \notin DOMAIN f.named
  <2>1. d = e
    BY <1>4 DEF CoercedPair
  <2>2. CoercedPair(f, e) = e
    BY <1>4 DEF CoercedPair
  <2>3. QED
    BY <2>1, <2>2
<1>5. QED
  BY <1>3, <1>4

\* b is a once it is coerced, pair by pair.
IsCoerced(f, a, b) ==
  /\ b \in NamedArgs /\ Len(a) \in Nat /\ Len(b) = Len(a) /\ Names(b) = Names(a)
  /\ DOMAIN a = 1 .. Len(a) /\ DOMAIN b = 1 .. Len(a)
  /\ \A i \in 1 .. Len(a) : a[i] \in Pair /\ b[i] = CoercedPair(f, a[i]) /\ b[i][1] = a[i][1]

(***************************************************************************)
(* Named arguments are coerced pair by pair.                               *)
(***************************************************************************)
LEMMA CoercedNamedIs ==
  ASSUME NEW f, NEW a \in NamedArgs, NEW b, b = CoercedNamed(f, a)
  PROVE  IsCoerced(f, a, b)
<1>1. Len(a) \in Nat /\ DOMAIN a = 1 .. Len(a) /\ \A i \in 1 .. Len(a) : a[i] \in Pair
  BY DEF NamedArgs, Pair
<1>2. b = [i \in 1 .. Len(a) |-> b[i]] /\ \A i \in 1 .. Len(a) : b[i] = CoercedPair(f, a[i])
  BY <1>1 DEF CoercedNamed
<1>3. \A i \in 1 .. Len(a) : b[i] \in Pair /\ b[i][1] = a[i][1]
  BY <1>1, <1>2, CoercedPairIs
<1>4. b \in Seq(Pair) /\ Len(b) = Len(a) /\ DOMAIN b = 1 .. Len(a)
  BY <1>1, <1>2, <1>3, MakesSequence
<1>5. Names(b) = Names(a)
  BY <1>1, <1>3, <1>4 DEF Names
<1>6. b \in NamedArgs
  BY <1>4 DEF NamedArgs, Pair
<1>7. QED
  BY <1>1, <1>2, <1>3, <1>4, <1>5, <1>6 DEF IsCoerced

(***************************************************************************)
(* What is coerced is coerced no further, and is refused as it was before. *)
(***************************************************************************)
LEMMA CoercedTwice ==
  ASSUME NEW f, NEW a \in NamedArgs
  PROVE  /\ CoercedNamed(f, a) \in NamedArgs
         /\ CoercedNamed(f, CoercedNamed(f, a)) = CoercedNamed(f, a)
         /\ FirstNamedFault(f, a) = {} <=> FirstNamedFault(f, CoercedNamed(f, a)) = {}
<1> DEFINE b == CoercedNamed(f, a)
           c == CoercedNamed(f, b)
           n == Len(a)
<1>1. IsCoerced(f, a, b)
  BY CoercedNamedIs
<1> HIDE DEF b
<1>2. /\ b \in NamedArgs /\ n \in Nat /\ Len(b) = n /\ DOMAIN a = 1 .. n /\ DOMAIN b = 1 .. n
      /\ \A i \in 1 .. n : a[i] \in Pair /\ b[i] = CoercedPair(f, a[i])
  BY <1>1 DEF IsCoerced
<1>3. IsCoerced(f, b, c)
  BY <1>2, CoercedNamedIs
<1> HIDE DEF c, n
<1>4. c \in NamedArgs /\ Len(c) = n /\ \A i \in 1 .. n : c[i] = CoercedPair(f, b[i])
  BY <1>2, <1>3 DEF IsCoerced
<1>5. \A i \in 1 .. n : CoercedPair(f, b[i]) = b[i] /\ (NamedFault(f, b[i]) = {} <=> NamedFault(f, a[i]) = {})
  BY <1>2, CoercedPairIs
<1>6. c = b
  <2>1. \A i \in 1 .. Len(c) : c[i] = b[i]
    BY <1>4, <1>5
  <2>2. QED
    BY <1>2, <1>4, <2>1, SameEntries DEF NamedArgs
<1>7. ASSUME NEW s, DOMAIN s = 1 .. n
      PROVE  FirstNamedFault(f, s) = {} <=> \A i \in 1 .. n : NamedFault(f, s[i]) = {}
  <2> DEFINE faulty == {i \in DOMAIN s : NamedFault(f, s[i]) # {}}
  <2>1. FirstNamedFault(f, s) = IF faulty = {} THEN {} ELSE NamedFault(f, s[Min(faulty)])
    BY DEF FirstNamedFault
  <2>2. faulty \in SUBSET Nat
    BY <1>2, <1>7
  <2>3. faulty # {} => Min(faulty) \in faulty
    BY <2>2, MinIsLeast
  <2>4. faulty # {} => FirstNamedFault(f, s) # {}
    BY <2>1, <2>3
  <2>5. faulty = {} <=> \A i \in 1 .. n : NamedFault(f, s[i]) = {}
    BY <1>7
  <2> HIDE DEF faulty
  <2>6. QED
    BY <2>1, <2>4, <2>5
<1>8. FirstNamedFault(f, a) = {} <=> FirstNamedFault(f, b) = {}
  BY <1>2, <1>5, <1>7
<1>9. QED
  BY <1>2, <1>6, <1>8 DEF b, c

(***************************************************************************)
(* A pair may be coerced before it is put or after.                        *)
(***************************************************************************)
LEMMA CoercedPut ==
  ASSUME NEW f, NEW a \in NamedArgs, NEW e \in Pair
  PROVE  CoercedNamed(f, PutPair(a, e)) = PutPair(CoercedNamed(f, a), CoercedPair(f, e))
<1> DEFINE b == CoercedNamed(f, a)
           d == CoercedPair(f, e)
           p == PutPair(a, e)
           q == CoercedNamed(f, p)
           r == PutPair(b, d)
<1>1. IsCoerced(f, a, b)
  BY CoercedNamedIs
<1>2. d \in Pair /\ d[1] = e[1]
  BY CoercedPairIs
<1>3. PutsPair(a, e, p)
  BY PutPairIs
<1> HIDE DEF b, d, p
<1>4. /\ b \in NamedArgs /\ Len(a) \in Nat /\ Len(b) = Len(a) /\ Names(b) = Names(a)
      /\ \A i \in 1 .. Len(a) : b[i] = CoercedPair(f, a[i]) /\ b[i][1] = a[i][1]
  BY <1>1 DEF IsCoerced
<1>5. /\ p \in NamedArgs /\ Len(p) \in Nat
      /\ Len(p) = IF e[1] \in Names(a) THEN Len(a) ELSE Len(a) + 1
      /\ \A i \in 1 .. Len(p) : p[i] = IF i > Len(a) \/ a[i][1] = e[1] THEN e ELSE a[i]
  BY <1>3 DEF PutsPair
<1>6. IsCoerced(f, p, q)
  BY <1>5, CoercedNamedIs
<1>7. PutsPair(b, d, r)
  BY <1>2, <1>4, PutPairIs
<1> HIDE DEF q, r
<1>8. q \in NamedArgs /\ Len(q) = Len(p) /\ \A i \in 1 .. Len(p) : q[i] = CoercedPair(f, p[i])
  BY <1>6 DEF IsCoerced
<1>9. /\ r \in NamedArgs /\ Len(r) = Len(p)
      /\ \A i \in 1 .. Len(p) : r[i] = IF i > Len(a) \/ b[i][1] = e[1] THEN d ELSE b[i]
  BY <1>2, <1>4, <1>5, <1>7 DEF PutsPair
<1>10. \A i \in 1 .. Len(p) : q[i] = r[i]
  <2> TAKE i \in 1 .. Len(p)
  <2>1. i \in Nat /\ (i > Len(a) \/ i \in 1 .. Len(a))
    BY <1>4, <1>5
  <2>2. CASE i > Len(a) \/ a[i][1] = e[1]
    <3>1. p[i] = e
      BY <1>5, <2>2
    <3>2. i > Len(a) \/ b[i][1] = e[1]
      BY <1>4, <2>1, <2>2
    <3>3. q[i] = CoercedPair(f, e) /\ r[i] = d
      BY <1>8, <1>9, <3>1, <3>2
    <3>4. QED
      BY <3>3 DEF d
  <2>3. CASE ~(i > Len(a) \/ a[i][1] = e[1])
    <3>1. p[i] = a[i] /\ i \in 1 .. Len(a)
      BY <1>5, <2>1, <2>3
    <3>2. b[i] = CoercedPair(f, a[i]) /\ b[i][1] = a[i][1]
      BY <1>4, <3>1
    <3>3. q[i] = CoercedPair(f, a[i]) /\ r[i] = b[i]
      BY <1>8, <1>9, <2>3, <3>1, <3>2
    <3>4. QED
      BY <3>2, <3>3
  <2>4. QED
    BY <2>2, <2>3
<1>11. q = r
  BY <1>8, <1>9, <1>10, SameEntries DEF NamedArgs
<1>12. QED
  BY <1>11 DEF q, r, p, b, d

(***************************************************************************)
(* Pairs may be coerced before they are put or after.                      *)
(***************************************************************************)
LEMMA CoercedPutAll ==
  ASSUME NEW f, NEW x \in NamedArgs, NEW y \in NamedArgs
  PROVE  CoercedNamed(f, PutAll(x, y)) = PutAll(CoercedNamed(f, x), CoercedNamed(f, y))
<1> DEFINE cx == CoercedNamed(f, x)
           cy == CoercedNamed(f, y)
           n == Len(y)
<1>1. IsCoerced(f, y, cy) /\ IsCoerced(f, x, cx)
  BY CoercedNamedIs
<1> HIDE DEF cx, cy
<1>2. cx \in NamedArgs /\ cy \in NamedArgs /\ n \in Nat /\ Len(cy) = n /\ \A i \in 1 .. n : cy[i] = CoercedPair(f, y[i])
  BY <1>1 DEF IsCoerced
<1>3. \E r : IsPutting(r, x, y) /\ PutAll(x, y) = r[n]
  BY Putting
<1>4. \E q : IsPutting(q, cx, cy) /\ PutAll(cx, cy) = q[n]
  BY <1>2, Putting
<1> HIDE DEF n
<1>5. PICK r : IsPutting(r, x, y) /\ PutAll(x, y) = r[n]
  BY <1>3
<1>6. PICK q : IsPutting(q, cx, cy) /\ PutAll(cx, cy) = q[n]
  BY <1>4
<1>7. /\ \A i \in 0 .. n : r[i] \in NamedArgs
      /\ r[0] = x /\ q[0] = cx
      /\ \A i \in 1 .. n : r[i] = PutPair(r[i - 1], y[i]) /\ y[i] \in Pair
      /\ \A i \in 1 .. n : q[i] = PutPair(q[i - 1], cy[i])
  BY <1>2, <1>5, <1>6 DEF IsPutting, n
<1> DEFINE S == {i \in 0 .. n : CoercedNamed(f, r[i]) = q[i]}
<1>8. 0 \in S
  BY <1>2, <1>7 DEF cx
<1>9. ASSUME NEW k \in 0 .. n - 1, k \in S PROVE k + 1 \in S
  <2>1. k + 1 \in 1 .. n /\ (k + 1) - 1 = k /\ k \in 0 .. n /\ k + 1 \in 0 .. n
    BY <1>2
  <2>2. /\ r[k] \in NamedArgs /\ r[k + 1] = PutPair(r[k], y[k + 1]) /\ y[k + 1] \in Pair
        /\ q[k + 1] = PutPair(q[k], CoercedPair(f, y[k + 1])) /\ CoercedNamed(f, r[k]) = q[k]
    BY <1>2, <1>7, <1>9, <2>1
  <2>3. CoercedNamed(f, PutPair(r[k], y[k + 1])) = PutPair(CoercedNamed(f, r[k]), CoercedPair(f, y[k + 1]))
    BY <2>2, CoercedPut
  <2>4. QED
    BY <2>1, <2>2, <2>3
<1>10. S = {i \in 0 .. n : CoercedNamed(f, r[i]) = q[i]}
  OBVIOUS
<1> HIDE DEF S
<1>11. \A i \in 0 .. n : i \in S
  BY <1>2, <1>8, <1>9, InductionUpTo
<1>12. CoercedNamed(f, PutAll(x, y)) = PutAll(cx, cy)
  BY <1>2, <1>5, <1>6, <1>10, <1>11
<1>13. QED
  BY <1>12 DEF cx, cy

-----------------------------------------------------------------------------
(* Named arguments of several calls.                                       *)

\* g holds the named arguments that are gathered up to each written one.
IsGiving(g, w) ==
  /\ g \in [0 .. Len(w) -> NamedArgs]
  /\ g[0] = <<>>
  /\ \A i \in 1 .. Len(w) : g[i] = PutAll(g[i - 1], w[i].args.named) /\ w[i].args.named \in NamedArgs

\* The named arguments that are written in a call.
GivenNamed(w) == BuildCallArgs(w, <<>>).named

(***************************************************************************)
(* Named arguments are gathered one written argument after the other.      *)
(***************************************************************************)
LEMMA Giving ==
  ASSUME NEW w \in Seq(Spelt), NEW blocks
  PROVE  \E g : IsGiving(g, w) /\ BuildCallArgs(w, blocks).named = g[Len(w)]
<1> DEFINE n == Len(w)
<1>1. PICK r \in [0 .. Len(w) -> Arguments] :
        /\ r[0] = NoArguments
        /\ \A i \in 1 .. Len(w) : r[i] = Merge(r[i - 1], w[i].args)
        /\ BuildCallArgs(w, blocks) = [r[Len(w)] EXCEPT !.pos = @ \o blocks]
  BY BuildSteps
<1>2. n \in Nat /\ \A i \in 1 .. n : w[i].args \in Arguments /\ w[i].args.named \in NamedArgs
  BY WrittenLists
<1> DEFINE g == [i \in 0 .. n |-> r[i].named]
<1>3. BuildCallArgs(w, blocks).named = r[n].named
  <2>1. r[n] \in Arguments
    BY <1>1, <1>2
  <2>2. BuildCallArgs(w, blocks) = [r[n] EXCEPT !.pos = @ \o blocks]
    BY <1>1
  <2> DEFINE last == r[n]
  <2> HIDE DEF last
  <2>3. last = [pos |-> last.pos, named |-> last.named]
    BY <2>1 DEF Arguments, last
  <2>4. [last EXCEPT !.pos = @ \o blocks].named = last.named
    BY <2>3
  <2>5. QED
    BY <2>2, <2>4 DEF last
<1>4. g[n] = r[n].named
  BY <1>2
<1>5. g \in [0 .. n -> NamedArgs]
  <2>1. \A a \in Arguments : a.named \in NamedArgs
    BY DEF Arguments, NamedArgs
  <2>2. \A i \in 0 .. n : r[i] \in Arguments
    BY <1>1
  <2>3. \A i \in 0 .. n : r[i].named \in NamedArgs
    BY <2>1, <2>2
  <2>4. QED
    BY <2>3
<1>6. g[0] = <<>>
  <2>1. g[0] = r[0].named
    BY <1>2
  <2>2. QED
    BY <1>1, <2>1 DEF NoArguments
<1>7. ASSUME NEW i \in 1 .. n
      PROVE  g[i] = PutAll(g[i - 1], w[i].args.named)
  <2>1. i \in 0 .. n /\ i - 1 \in 0 .. n
    BY <1>2
  <2>2. r[i - 1] \in Arguments /\ w[i].args \in Arguments
    BY <1>1, <1>2, <2>1
  <2>3. r[i] = Merge(r[i - 1], w[i].args)
    BY <1>1
  <2>4. r[i].named = PutAll(r[i - 1].named, w[i].args.named)
    BY <2>2, <2>3, MergeGives, SMTT(30)
  <2>5. QED
    BY <2>1, <2>4
<1> HIDE DEF g
<1>8. IsGiving(g, w)
  BY <1>2, <1>5, <1>6, <1>7 DEF IsGiving, n
<1>9. QED
  BY <1>3, <1>4, <1>8

(***************************************************************************)
(* What is gathered depends on what has been written.                      *)
(***************************************************************************)
LEMMA GivingAgree ==
  ASSUME NEW v \in Seq(Spelt), NEW w \in Seq(Spelt), NEW g, NEW h, IsGiving(g, v), IsGiving(h, w),
         NEW n \in Nat, n <= Len(v), n <= Len(w), \A i \in 1 .. n : v[i] = w[i]
  PROVE  \A i \in 0 .. n : g[i] = h[i]
<1> DEFINE S == {i \in 0 .. n : g[i] = h[i]}
<1>0. Len(v) \in Nat /\ Len(w) \in Nat
  OBVIOUS
<1>1. 0 \in S
  BY DEF IsGiving
<1>2. ASSUME NEW i \in 0 .. n - 1, i \in S
      PROVE  i + 1 \in S
  <2>1. i + 1 \in 1 .. n /\ i + 1 \in 0 .. n /\ (i + 1) - 1 = i /\ i + 1 \in 1 .. Len(v) /\ i + 1 \in 1 .. Len(w)
    BY <1>0
  <2>2. g[i] = h[i] /\ v[i + 1] = w[i + 1]
    BY <1>2, <2>1
  <2>3. g[i + 1] = PutAll(g[i], v[i + 1].args.named) /\ h[i + 1] = PutAll(h[i], w[i + 1].args.named)
    BY <2>1 DEF IsGiving
  <2>4. QED
    BY <2>1, <2>2, <2>3
<1> HIDE DEF S
<1>3. \A i \in 0 .. n : i \in S
  BY <1>1, <1>2, InductionUpTo
<1>4. QED
  BY <1>3 DEF S

(***************************************************************************)
(* Content blocks bring no named arguments, and arguments that are passed  *)
(* on are what they were.                                                  *)
(***************************************************************************)
LEMMA GivenNamedIs ==
  ASSUME NEW w \in Seq(Spelt), NEW blocks
  PROVE  /\ GivenNamed(w) \in NamedArgs
         /\ BuildCallArgs(w, blocks).named = GivenNamed(w)
         /\ PutAll(<<>>, GivenNamed(w)) = GivenNamed(w)
<1> DEFINE n == Len(w)
           none == <<>>
<1>0. n \in Nat
  OBVIOUS
<1>1. PICK g : IsGiving(g, w) /\ BuildCallArgs(w, blocks).named = g[Len(w)]
  BY Giving
<1>2. PICK h : IsGiving(h, w) /\ BuildCallArgs(w, none).named = h[Len(w)]
  BY Giving
<1>3. g[n] = h[n]
  <2>1. n <= Len(w) /\ n \in 0 .. n /\ \A i \in 1 .. n : w[i] = w[i]
    BY <1>0
  <2> HIDE DEF n
  <2>2. \A i \in 0 .. n : g[i] = h[i]
    BY <1>0, <1>1, <1>2, <2>1, GivingAgree
  <2>3. QED
    BY <2>1, <2>2
<1>4. GivenNamed(w) = h[n]
  BY <1>2 DEF GivenNamed
<1>5. none \in NamedArgs /\ PutAll(none, none) = none
  <2>1. none \in NamedArgs
    BY DEF NamedArgs
  <2> HIDE DEF none
  <2>2. PutAll(none, <<>>) = none
    BY <2>1, PutNothing
  <2>3. QED
    BY <2>1, <2>2 DEF none
<1> DEFINE S == {i \in 0 .. n : PutAll(none, h[i]) = h[i]}
<1>6. 0 \in S
  BY <1>0, <1>2, <1>5 DEF IsGiving
<1>7. ASSUME NEW i \in 0 .. n - 1, i \in S
      PROVE  i + 1 \in S
  <2>1. i + 1 \in 1 .. n /\ i + 1 \in 0 .. n /\ (i + 1) - 1 = i /\ i \in 0 .. n
    BY <1>0
  <2> DEFINE a == h[i]
             b == w[i + 1].args.named
             c == h[i + 1]
  <2>2. a \in NamedArgs /\ b \in NamedArgs /\ c = PutAll(a, b)
    BY <1>2, <2>1 DEF IsGiving
  <2>3. PutAll(none, a) = a
    BY <1>7
  <2> HIDE DEF a, b, none
  <2>4. PutAll(none, PutAll(a, b)) = PutAll(PutAll(none, a), b)
    BY <1>5, <2>2, PutAllTwice
  <2>5. PutAll(none, c) = c
    BY <2>2, <2>3, <2>4
  <2>6. QED
    BY <2>1, <2>5 DEF none
<1> HIDE DEF S
<1>8. \A i \in 0 .. n : i \in S
  BY <1>0, <1>6, <1>7, InductionUpTo
<1>9. n \in S
  BY <1>0, <1>8
<1>10. h[n] \in NamedArgs
  BY <1>0, <1>2 DEF IsGiving
<1>11. QED
  BY <1>1, <1>3, <1>4, <1>9, <1>10 DEF S

(***************************************************************************)
(* The named arguments of two calls are those of the second, put into      *)
(* those of the first.                                                     *)
(***************************************************************************)
LEMMA GivenTogether ==
  ASSUME NEW v \in Seq(Spelt), NEW w \in Seq(Spelt)
  PROVE  GivenNamed(v \o w) = PutAll(GivenNamed(v), GivenNamed(w))
<1> DEFINE m == Len(v)
           n == Len(w)
           both == v \o w
           none == <<>>
<1>0. m \in Nat /\ n \in Nat /\ both \in Seq(Spelt) /\ Len(both) = m + n
  OBVIOUS
<1>1. /\ \A i \in 1 .. m : both[i] = v[i]
      /\ \A i \in 1 .. n : both[m + i] = w[i]
  OBVIOUS
<1>2. PICK g : IsGiving(g, v) /\ BuildCallArgs(v, none).named = g[Len(v)]
  BY Giving
<1>3. PICK h : IsGiving(h, w) /\ BuildCallArgs(w, none).named = h[Len(w)]
  BY Giving
<1> HIDE DEF both
<1>4. PICK b : IsGiving(b, both) /\ BuildCallArgs(both, none).named = b[Len(both)]
  BY <1>0, Giving
<1>5. GivenNamed(v) = g[m] /\ GivenNamed(w) = h[n] /\ GivenNamed(both) = b[m + n]
  BY <1>0, <1>2, <1>3, <1>4 DEF GivenNamed
<1>6. b[m] = g[m]
  <2>1. m <= Len(v) /\ m <= Len(both) /\ m \in 0 .. m /\ \A i \in 1 .. m : both[i] = v[i]
    BY <1>0, <1>1
  <2> HIDE DEF m
  <2>2. \A i \in 0 .. m : b[i] = g[i]
    BY <1>0, <1>2, <1>4, <2>1, GivingAgree
  <2>3. QED
    BY <2>1, <2>2
<1> DEFINE first == g[m]
<1>7. first \in NamedArgs
  BY <1>0, <1>2 DEF IsGiving
<1> DEFINE S == {i \in 0 .. n : b[m + i] = PutAll(first, h[i])}
<1>8. 0 \in S
  <2>1. h[0] = none /\ m + 0 = m /\ 0 \in 0 .. n
    BY <1>0, <1>3 DEF IsGiving
  <2>2. PutAll(first, none) = first
    BY <1>7, PutNothing
  <2>3. QED
    BY <1>6, <2>1, <2>2
<1>9. ASSUME NEW i \in 0 .. n - 1, i \in S
      PROVE  i + 1 \in S
  <2>1. /\ i + 1 \in 1 .. n /\ i + 1 \in 0 .. n /\ (i + 1) - 1 = i /\ i \in 0 .. n
        /\ m + (i + 1) \in 1 .. m + n /\ (m + (i + 1)) - 1 = m + i
    BY <1>0
  <2> DEFINE a == h[i]
             x == w[i + 1].args.named
  <2>2. a \in NamedArgs /\ x \in NamedArgs /\ h[i + 1] = PutAll(a, x)
    BY <1>3, <2>1 DEF IsGiving
  <2>3. b[m + i] = PutAll(first, a)
    BY <1>9
  <2>4. b[m + (i + 1)] = PutAll(b[m + i], both[m + (i + 1)].args.named)
    <3>1. m + (i + 1) \in 1 .. Len(both)
      BY <1>0, <2>1
    <3>2. b[m + (i + 1)] = PutAll(b[(m + (i + 1)) - 1], both[m + (i + 1)].args.named)
      BY <1>4, <3>1 DEF IsGiving
    <3>3. QED
      BY <2>1, <3>2
  <2>5. both[m + (i + 1)].args.named = x
    BY <1>1, <2>1
  <2> HIDE DEF a, x, first
  <2>6. PutAll(first, PutAll(a, x)) = PutAll(PutAll(first, a), x)
    BY <1>7, <2>2, PutAllTwice
  <2>7. b[m + (i + 1)] = PutAll(first, h[i + 1])
    BY <2>2, <2>3, <2>4, <2>5, <2>6
  <2>8. QED
    BY <2>1, <2>7
<1> HIDE DEF S
<1>10. \A i \in 0 .. n : i \in S
  BY <1>0, <1>8, <1>9, InductionUpTo
<1>11. n \in S
  BY <1>0, <1>10
<1>12. b[m + n] = PutAll(first, h[n])
  BY <1>11 DEF S
<1>13. QED
  BY <1>5, <1>12 DEF both

-----------------------------------------------------------------------------
(* Binding ahead.                                                          *)

\* with hands on what it is called with.
HandsOn(got, args) ==
  got \in Arguments /\ got.pos = args.pos /\ got.named = PutAll(<<>>, args.named)

(***************************************************************************)
(* Coercion leaves an argument alone that no parameter takes.              *)
(***************************************************************************)
LEMMA CoercedBeyond ==
  ASSUME NEW f, NEW n \in Nat, NEW mapping \in [1 .. n -> Int], NEW pos \in Seq(Value),
         NEW i \in 1 .. Len(pos), \A j \in 1 .. n : mapping[j] # i
  PROVE  CoercedPos(f, mapping, pos)[i] = pos[i]
<1>1. SlotsOf(mapping, i) = {}
  BY DEF SlotsOf
<1>2. i \in DOMAIN pos
  OBVIOUS
<1>3. QED
  BY <1>1, <1>2 DEF CoercedPos

(***************************************************************************)
(* The arguments of with arrive as they are.                               *)
(***************************************************************************)
LEMMA WithPasses ==
  ASSUME NEW args \in Arguments, NEW got, got = Apply(FunctionWith, args).passed.pos[2].args
  PROVE  HandsOn(got, args)
<1> DEFINE f == FunctionWith
           merged == Merge(f.withArgs, args)
<1>1. /\ merged \in Arguments
      /\ merged.pos = <<Self>> \o args.pos
      /\ merged.named = PutAll(<<>>, args.named)
      /\ \E mapping \in [1 .. 2 -> Int] :
           /\ mapping[1] = 1 /\ mapping[2] = InSink
           /\ Bind(f, args) = Bound(Coerced(f, mapping, merged), mapping)
  BY WithBinds
<1>2. PICK mapping \in [1 .. 2 -> Int] :
             /\ mapping[1] = 1 /\ mapping[2] = InSink
             /\ Bind(f, args) = Bound(Coerced(f, mapping, merged), mapping)
  BY <1>1
<1>0. Slots(f) = 1 .. 2 /\ DOMAIN f.named = {} /\ Self \in Value
  BY WithShape
<1> HIDE DEF f, merged
<1> DEFINE co == Coerced(f, mapping, merged)
           b == Bound(co, mapping)
           n == Len(co.pos)
           m == Len(co.named)
           rest == {i \in DOMAIN co.pos : \A j \in DOMAIN mapping : mapping[j] # i}
<1>3. co \in Arguments /\ Len(co.pos) = Len(merged.pos)
  BY <1>1, CoercedGives
<1>4. co.pos = CoercedPos(f, mapping, merged.pos) /\ co.named = CoercedNamed(f, merged.named)
  BY CoercedIs
<1>5. Apply(f, args).passed = Passed(f, b)
  <2>1. Apply(f, args) = IF b.faults # {} THEN [faults |-> b.faults, passed |-> <<>>]
                         ELSE IF \E j \in Slots(f) : b.mapping[j] = Missing
                         THEN [faults |-> {Nowhere}, passed |-> <<>>]
                         ELSE [faults |-> {}, passed |-> Passed(f, b)]
    BY <1>2 DEF Apply, ApplyBound
  <2>2. b.faults = {} /\ b.mapping = mapping
    BY DEF Bound
  <2>3. \A j \in Slots(f) : mapping[j] # Missing
    <3>1. \A j \in Slots(f) : j = 1 \/ j = 2
      BY <1>0
    <3>2. QED
      BY <1>2, <3>1 DEF Missing, InSink
  <2> HIDE DEF b
  <2>4. QED
    BY <2>1, <2>2, <2>3
<1>6. Passed(f, b).pos[2] = PassSink(SinkOf(f, mapping, co))
  <2>1. 2 \in Slots(f)
    BY <1>0
  <2>2. b.mapping = mapping /\ b.args = co
    BY DEF Bound
  <2> HIDE DEF b, co
  <2>3. QED
    BY <1>2, <2>1, <2>2 DEF Passed, InSink, Default
<1>7. got = [pos |-> Picked(co.pos, rest), named |-> Picked(co.named, Unmatched(f, co.named))]
  <2> HIDE DEF b, co
  <2>1. got = SinkOf(f, mapping, co)
    BY <1>5, <1>6 DEF PassSink, f
  <2>2. QED
    BY <2>1 DEF SinkOf
<1> HIDE DEF b, co
<1>8. /\ co.pos \in Seq(Value) /\ co.named \in NamedArgs
      /\ n \in Nat /\ DOMAIN co.pos = 1 .. n /\ m \in Nat /\ DOMAIN co.named = 1 .. m
  BY <1>3 DEF Arguments, NamedArgs
<1>9. args.pos \in Seq(Value) /\ args.named \in NamedArgs /\ merged.pos \in Seq(Value) /\ merged.named \in NamedArgs
  BY <1>1 DEF Arguments, NamedArgs
<1>10. n = 1 + Len(args.pos)
  BY <1>0, <1>1, <1>3, <1>9
<1>11. \A x \in 1 .. n : (\A j \in DOMAIN mapping : mapping[j] # x) <=> 1 < x
  <2>1. DOMAIN mapping = 1 .. 2 /\ \A j \in 1 .. 2 : j = 1 \/ j = 2
    OBVIOUS
  <2>2. QED
    BY <1>2, <1>8, <2>1 DEF InSink
<1>12. Picked(co.pos, rest) = SubSeq(co.pos, 2, n)
  <2>1. \A x \in 1 .. n : x \in rest <=> 1 < x /\ x <= n
    BY <1>8, <1>11
  <2> DEFINE lo == 1
             s == co.pos
  <2>2. lo \in 0 .. Len(s) /\ Len(s) \in lo .. Len(s) /\ s \in Seq(Value) /\ lo + 1 = 2
    BY <1>8, <1>9, <1>10
  <2>3. \A x \in 1 .. Len(s) : x \in rest <=> lo < x /\ x <= Len(s)
    BY <2>1
  <2> HIDE DEF lo, s, rest
  <2>4. Picked(s, rest) = SubSeq(s, lo + 1, Len(s))
    BY <2>2, <2>3, PickedPart
  <2>5. QED
    BY <2>2, <2>4 DEF s
<1> HIDE DEF rest
<1>13. got.pos = args.pos
  <2> DEFINE s == SubSeq(co.pos, 2, n)
             k == Len(args.pos)
             a == args.pos
  <2>0. k \in Nat /\ a \in Seq(Value) /\ DOMAIN a = 1 .. k /\ n = 1 + k /\ Len(merged.pos) = n
    BY <1>3, <1>9, <1>10
  <2>1. s \in Seq(Value) /\ DOMAIN s = 1 .. k /\ \A i \in 1 .. k : s[i] = co.pos[i + 1]
    BY <1>8, <2>0
  <2>2. \A i \in 1 .. k : merged.pos[i + 1] = a[i]
    BY <1>0, <1>1, <1>9
  <2>3. ASSUME NEW i \in 1 .. k
        PROVE  co.pos[i + 1] = merged.pos[i + 1]
    <3>1. i + 1 \in 1 .. n /\ 1 < i + 1
      BY <2>0
    <3>2. \A j \in 1 .. 2 : mapping[j] # i + 1
      BY <1>11, <3>1
    <3> DEFINE p == merged.pos
               x == i + 1
    <3>3. x \in 1 .. Len(p) /\ p \in Seq(Value) /\ \A j \in 1 .. 2 : mapping[j] # x
      BY <1>9, <2>0, <3>1, <3>2
    <3> HIDE DEF p, x
    <3> DEFINE table == mapping
               two == 2
    <3>4. two \in Nat /\ table \in [1 .. two -> Int] /\ \A j \in 1 .. two : table[j] # x
      BY <3>3 DEF InSink
    <3> HIDE DEF table, two
    <3>5. CoercedPos(f, table, p)[x] = p[x]
      BY <3>3, <3>4, CoercedBeyond
    <3>6. QED
      BY <1>4, <3>5 DEF p, x, table
  <2>4. got.pos = s
    BY <1>7, <1>12
  <2> HIDE DEF s, k, a
  <2>5. \A i \in 1 .. k : s[i] = a[i]
    BY <2>1, <2>2, <2>3
  <2>6. s = a
    BY <2>0, <2>1, <2>5
  <2>7. QED
    BY <2>4, <2>6 DEF a
<1>14. co.named = merged.named
  <2> DEFINE a == merged.named
             k == Len(a)
  <2>1. a \in NamedArgs /\ k \in Nat /\ DOMAIN a = 1 .. k
    BY <1>9 DEF NamedArgs
  <2>2. co.named = CoercedNamed(f, a)
    BY <1>4
  <2>3. \A e : CoercedPair(f, e) = e
    BY <1>0 DEF CoercedPair
  <2>4. CoercedNamed(f, a) = [i \in DOMAIN a |-> a[i]]
    BY <2>3 DEF CoercedNamed
  <2> HIDE DEF a
  <2>5. [i \in DOMAIN a |-> a[i]] = a
    BY <2>1 DEF NamedArgs
  <2>6. QED
    BY <2>2, <2>4, <2>5 DEF a
<1>15. got.named = co.named
  <2>1. Unmatched(f, co.named) = 1 .. m
    BY <1>0, <1>8 DEF Unmatched, Matched
  <2> DEFINE lo == 0
             s == co.named
             at == Unmatched(f, co.named)
             X == Idents \X Value
  <2>2. s \in Seq(X) /\ lo \in 0 .. Len(s) /\ Len(s) \in lo .. Len(s) /\ lo + 1 = 1
    BY <1>8 DEF NamedArgs
  <2>3. \A x \in 1 .. Len(s) : x \in at <=> lo < x /\ x <= Len(s)
    BY <1>8, <2>1
  <2>4. got.named = Picked(s, at)
    BY <1>7
  <2> HIDE DEF lo, s, at, X
  <2>5. Picked(s, at) = SubSeq(s, lo + 1, Len(s))
    BY <2>2, <2>3, PickedPart
  <2>6. SubSeq(s, 1, Len(s)) = s
    BY <2>2
  <2>7. QED
    BY <2>2, <2>4, <2>5, <2>6 DEF s
<1>16. got \in Arguments
  <2>1. got = [pos |-> got.pos, named |-> got.named]
    BY <1>7
  <2>2. QED
    BY <1>8, <1>9, <1>13, <1>15, <2>1 DEF Arguments, NamedArgs
<1>17. QED
  BY <1>1, <1>13, <1>14, <1>15, <1>16 DEF HandsOn

(***************************************************************************)
(* Outcomes that are the same as a third are the same.                     *)
(***************************************************************************)
LEMMA OutcomeThrough ==
  ASSUME NEW f, NEW a, NEW b, NEW c, SameOutcome(f, a, b), SameOutcome(f, b, c)
  PROVE  SameOutcome(f, a, c)
<1>1. QED
  BY DEF SameOutcome

(***************************************************************************)
(* What goes on as v does may be bound in several calls of with.           *)
(***************************************************************************)
LEMMA BoundInStages ==
  ASSUME NEW f, NEW v, NEW u, Interchangeable(f, v, u), NEW more \in Seq(Value),
         NEW x, x = u \o more, NEW w, Interchangeable(f, x, w)
  PROVE  Interchangeable(f, v \o more, w)
<1>0. v \in Seq(Value) /\ u \in Seq(Value) /\ w \in Seq(Value) /\ Len(v) = Len(u) /\ Len(x) = Len(w)
  BY DEF Interchangeable
<1>1. v \o more \in Seq(Value) /\ Len(v \o more) = Len(x)
  <2>1. \A a, b \in Seq(Value) : a \o b \in Seq(Value) /\ Len(a \o b) = Len(a) + Len(b)
    OBVIOUS
  <2>2. QED
    BY <1>0, <2>1
<1>2. ASSUME NEW rest \in Seq(Value)
      PROVE  SameOutcome(f, (v \o more) \o rest, w \o rest)
  <2>1. more \o rest \in Seq(Value)
    OBVIOUS
  <2>2. SameOutcome(f, v \o (more \o rest), u \o (more \o rest))
    BY <2>1 DEF Interchangeable
  <2>3. SameOutcome(f, x \o rest, w \o rest)
    BY DEF Interchangeable
  <2>4. (v \o more) \o rest = v \o (more \o rest)
    BY <1>0, SMTT(30)
  <2>5. x \o rest = u \o (more \o rest)
    BY <1>0, SMTT(30)
  <2>6. QED
    BY <2>2, <2>3, <2>4, <2>5, OutcomeThrough
<1>3. QED
  BY <1>0, <1>1, <1>2 DEF Interchangeable

\* What f binds ahead stands for what was written in the calls of with, v.
StandsFor(f, g, v) ==
  /\ Interchangeable(g, FlattenSeq(PosOf(v)), f.withArgs.pos)
  /\ CoercedNamed(g, f.withArgs.named) = CoercedNamed(g, GivenNamed(v))

\* r binds pos and the named arguments of w ahead.
BindsAhead(r, f, w, pos) ==
  /\ pos \in Seq(Value) /\ NotTooMany(f, pos) /\ TakenOf(f, pos).failed = 0
  /\ r.fn = [f EXCEPT !.withArgs = r.fn.withArgs, !.refused = {}]
  /\ r.fn.withArgs.pos = CoercedPos(f, TakenOf(f, pos).mapping, pos)
  /\ r.fn.withArgs.named = CoercedNamed(f, PutAll(f.withArgs.named, GivenNamed(w)))

(***************************************************************************)
(* What is bound ahead is what was bound before and what is written, each  *)
(* coerced.                                                                *)
(***************************************************************************)
LEMMA WithCoerces ==
  ASSUME NEW f, IsFunction(f), NEW w \in Seq(Spelt),
         NEW r, r = FunctionWithImpl(f, BuildCallArgs(w, <<>>)), r.faults = {},
         NEW pos, pos = f.withArgs.pos \o FlattenSeq(PosOf(w))
  PROVE  BindsAhead(r, f, w, pos)
<1> DEFINE none == <<>>
           mapping == TakenOf(f, pos).mapping
           args == BuildCallArgs(w, none)
           own == FlattenSeq(PosOf(w))
           got == Apply(FunctionWith, args).passed.pos[2].args
           merged == Merge(f.withArgs, got)
           b == Bind(f, got)
<1>1. args \in Arguments /\ own \in Seq(Value) /\ args.pos = own \o none
  <2>1. none \in Seq(Value)
    OBVIOUS
  <2> HIDE DEF none
  <2>2. QED
    BY <2>1, BuildGives
<1>2. args.named = GivenNamed(w) /\ PutAll(none, GivenNamed(w)) = GivenNamed(w)
  BY GivenNamedIs
<1>3. r = WithBound(f, b)
  BY DEF FunctionWithImpl, With
<1>4. own \o none = own
  <2> HIDE DEF own
  <2>1. QED
    BY <1>1
<1> HIDE DEF args, own
<1>5. HandsOn(got, args)
  BY <1>1, WithPasses
<1>6. got \in Arguments /\ got.pos = own /\ got.named = GivenNamed(w)
  BY <1>1, <1>2, <1>4, <1>5 DEF HandsOn
<1> HIDE DEF got
<1>7. f.withArgs \in Arguments
  BY DEF IsFunction
<1>8. merged.pos = pos /\ merged.named = PutAll(f.withArgs.named, GivenNamed(w)) /\ merged.pos \in Seq(Value)
  <2>1. merged \in Arguments /\ merged.pos = f.withArgs.pos \o got.pos /\ merged.named = PutAll(f.withArgs.named, got.named)
    BY <1>6, <1>7, MergeGives
  <2>2. pos = f.withArgs.pos \o own
    BY DEF own
  <2> HIDE DEF merged
  <2>3. merged.pos \in Seq(Value)
    BY <2>1 DEF Arguments
  <2>4. QED
    BY <1>6, <2>1, <2>2, <2>3
<1>9. b.faults = {}
  <2> HIDE DEF b
  <2>1. CASE b.faults # {}
    BY <1>3, <2>1 DEF WithBound
  <2>2. QED
    BY <2>1
<1>10. r.fn = [f EXCEPT !.withArgs = b.args, !.refused = {}]
  <2> HIDE DEF b
  <2>1. QED
    BY <1>3, <1>9 DEF WithBound
<1>11. merged = Merge(f.withArgs, got) /\ b = Bind(f, got)
  OBVIOUS
<1> HIDE DEF merged, b
<1>12. Bindable(f, merged.pos) /\ b = Binding(f, merged)
  BY <1>9, <1>11, BindIs
<1>13. b.args = [pos |-> CoercedPos(f, mapping, pos), named |-> CoercedNamed(f, merged.named)]
  BY <1>8, <1>12 DEF Binding, Bound
<1>14. r.fn.withArgs = b.args
  <2>1. f = [params |-> f.params, sink |-> f.sink, named |-> f.named, refused |-> f.refused,
             closure |-> f.closure, withArgs |-> f.withArgs]
    BY DEF IsFunction
  <2> DEFINE co == b.args
  <2>2. r.fn = [f EXCEPT !.withArgs = co, !.refused = {}]
    BY <1>10
  <2> HIDE DEF co
  <2>3. r.fn.withArgs = co
    BY <2>1, <2>2
  <2>4. QED
    BY <2>3 DEF co
<1>15. r.fn.withArgs.pos = CoercedPos(f, mapping, pos) /\ r.fn.withArgs.named = CoercedNamed(f, merged.named)
  BY <1>13, <1>14
<1>16. r.fn = [f EXCEPT !.withArgs = r.fn.withArgs, !.refused = {}]
  BY <1>10, <1>14
<1>17. NotTooMany(f, pos) /\ TakenOf(f, pos).failed = 0
  BY <1>8, <1>12 DEF Bindable
<1>18. QED
  BY <1>8, <1>15, <1>16, <1>17 DEF BindsAhead

(***************************************************************************)
(* Another call of with adds what is written in it.                        *)
(***************************************************************************)
LEMMA StageStands ==
  ASSUME NEW f, NEW g, SameKind(f, g), Steady(g), NEW v \in Seq(Spelt), NEW w \in Seq(Spelt),
         StandsFor(f, g, v),
         NEW r, r = FunctionWithImpl(f, BuildCallArgs(w, <<>>)), r.faults = {}
  PROVE  StandsFor(r.fn, g, v \o w)
<1> DEFINE first == FlattenSeq(PosOf(v))
           more == FlattenSeq(PosOf(w))
           ahead == f.withArgs.pos
           pos == ahead \o more
           mapping == TakenOf(f, pos).mapping
           co == r.fn.withArgs.pos
           x == f.withArgs.named
           y == GivenNamed(w)
           given_ == GivenNamed(v)
<1>1. IsFunction(f) /\ IsFunction(g)
  BY DEF SameKind
<1>2. pos = f.withArgs.pos \o FlattenSeq(PosOf(w)) /\ mapping = TakenOf(f, pos).mapping
  OBVIOUS
<1>3. Interchangeable(g, first, ahead) /\ CoercedNamed(g, x) = CoercedNamed(g, given_)
  BY DEF StandsFor
<1>4. more \in Seq(Value) /\ FlattenSeq(PosOf(v \o w)) = first \o more
  BY SuppliedLists
<1> HIDE DEF pos, mapping
<1>5. /\ pos \in Seq(Value) /\ NotTooMany(f, pos) /\ TakenOf(f, pos).failed = 0
      /\ co = CoercedPos(f, mapping, pos)
      /\ r.fn.withArgs.named = CoercedNamed(f, PutAll(x, y))
  <2>1. BindsAhead(r, f, w, pos)
    BY <1>1, <1>2, WithCoerces
  <2>2. QED
    BY <1>2, <2>1 DEF BindsAhead
<1> HIDE DEF co
<1>6. /\ TakenOf(g, pos) = TakenOf(f, pos) /\ NotTooMany(g, pos)
      /\ co = CoercedPos(g, mapping, pos)
  <2>1. /\ TakenOf(f, pos) = TakenOf(g, pos)
        /\ NotTooMany(f, pos) <=> NotTooMany(g, pos)
        /\ \A map : CoercedPos(f, map, pos) = CoercedPos(g, map, pos)
    BY <1>5, SameAccepted
  <2>2. QED
    BY <1>5, <2>1
<1>7. Interchangeable(g, pos, co)
  <2>1. TakenOf(g, pos).failed = 0 /\ co = CoercedPos(g, TakenOf(g, pos).mapping, pos)
    BY <1>2, <1>5, <1>6
  <2>2. QED
    BY <1>1, <1>5, <1>6, <2>1, CoercionKeeps
<1> HIDE DEF first, ahead, more
<1>8. Interchangeable(g, first \o more, co)
  <2>1. pos = ahead \o more
    BY DEF pos, ahead, more
  <2>2. QED
    BY <1>3, <1>4, <1>7, <2>1, BoundInStages
<1>9. x \in NamedArgs /\ y \in NamedArgs /\ given_ \in NamedArgs /\ PutAll(x, y) \in NamedArgs
  <2>1. x \in NamedArgs
    BY <1>1 DEF IsFunction, Arguments, NamedArgs
  <2>2. y \in NamedArgs /\ given_ \in NamedArgs
    BY GivenNamedIs
  <2> HIDE DEF x, y
  <2>3. QED
    BY <2>1, <2>2, PutAllTwice
<1>10. GivenNamed(v \o w) = PutAll(given_, y)
  BY GivenTogether
<1> HIDE DEF x, y, given_
<1>11. CoercedNamed(g, r.fn.withArgs.named) = CoercedNamed(g, GivenNamed(v \o w))
  <2>1. CoercedNamed(f, PutAll(x, y)) = CoercedNamed(g, PutAll(x, y))
    BY SameNamedArgs
  <2>2. CoercedNamed(g, CoercedNamed(g, PutAll(x, y))) = CoercedNamed(g, PutAll(x, y))
    BY <1>9, CoercedTwice
  <2>3. CoercedNamed(g, PutAll(x, y)) = PutAll(CoercedNamed(g, x), CoercedNamed(g, y))
    BY <1>9, CoercedPutAll
  <2>4. CoercedNamed(g, PutAll(given_, y)) = PutAll(CoercedNamed(g, given_), CoercedNamed(g, y))
    BY <1>9, CoercedPutAll
  <2>5. QED
    BY <1>3, <1>5, <1>10, <2>1, <2>2, <2>3, <2>4
<1>12. QED
  BY <1>4, <1>8, <1>11 DEF StandsFor, co, first, more

-----------------------------------------------------------------------------
(* Calling in stages and at once.                                          *)

\* a is what a call binds after what was bound ahead, b what it binds at once.
BoundAlike(g, a, b) ==
  /\ a.pos \in Seq(Value) /\ b.pos \in Seq(Value) /\ SameOutcome(g, b.pos, a.pos)
  /\ a.named \in NamedArgs /\ b.named \in NamedArgs
  /\ CoercedNamed(g, a.named) = CoercedNamed(g, b.named)

(***************************************************************************)
(* A call binds what it would bind at once, some of it coerced.            *)
(***************************************************************************)
LEMMA SameMerged ==
  ASSUME NEW f, NEW g, SameKind(f, g), g.withArgs = NoArguments,
         NEW v \in Seq(Spelt), NEW w \in Seq(Spelt), StandsFor(f, g, v), NEW blocks \in Seq(Value),
         NEW a, a = Merge(f.withArgs, BuildCallArgs(w, blocks)),
         NEW b, b = Merge(g.withArgs, BuildCallArgs(v \o w, blocks))
  PROVE  BoundAlike(g, a, b) /\ b.pos = FlattenSeq(PosOf(v \o w)) \o blocks
<1> DEFINE both == v \o w
           first == FlattenSeq(PosOf(v))
           own == FlattenSeq(PosOf(w))
           all == FlattenSeq(PosOf(both))
           ahead == f.withArgs.pos
           here == BuildCallArgs(w, blocks)
           once == BuildCallArgs(both, blocks)
           x == f.withArgs.named
           y == GivenNamed(w)
           z == GivenNamed(v)
           none == <<>>
<1>1. f.withArgs \in Arguments /\ ahead \in Seq(Value) /\ x \in NamedArgs
  BY DEF SameKind, IsFunction, Arguments, NamedArgs
<1>2. both \in Seq(Spelt) /\ first \in Seq(Value) /\ own \in Seq(Value) /\ all = first \o own
  BY SuppliedLists
<1>3. here \in Arguments /\ here.pos = own \o blocks /\ here.named = y /\ y \in NamedArgs
  <2>1. here \in Arguments /\ here.pos = own \o blocks
    BY BuildGives
  <2>2. here.named = y /\ y \in NamedArgs
    BY GivenNamedIs
  <2>3. QED
    BY <2>1, <2>2
<1> HIDE DEF both
<1>4. /\ once \in Arguments /\ once.pos = all \o blocks /\ once.named = GivenNamed(both)
      /\ PutAll(none, GivenNamed(both)) = GivenNamed(both) /\ GivenNamed(both) \in NamedArgs
  <2>1. once \in Arguments /\ once.pos = all \o blocks
    BY <1>2, BuildGives
  <2>2. once.named = GivenNamed(both) /\ PutAll(none, GivenNamed(both)) = GivenNamed(both) /\ GivenNamed(both) \in NamedArgs
    BY <1>2, GivenNamedIs
  <2>3. QED
    BY <2>1, <2>2
<1>5. GivenNamed(both) = PutAll(z, y) /\ z \in NamedArgs
  <2>1. GivenNamed(v \o w) = PutAll(z, y)
    BY GivenTogether
  <2>2. z \in NamedArgs
    BY GivenNamedIs
  <2>3. QED
    BY <2>1, <2>2 DEF both
<1>6. NoArguments \in Arguments /\ NoArguments.pos = none /\ NoArguments.named = none
  BY DEF NoArguments, Arguments
<1>7. Interchangeable(g, first, ahead) /\ CoercedNamed(g, x) = CoercedNamed(g, z)
  BY DEF StandsFor
<1>8. a = Merge(f.withArgs, here) /\ b = Merge(NoArguments, once)
  BY DEF both
<1> HIDE DEF here, once, x, y, z
<1>9. a \in Arguments /\ a.pos = ahead \o here.pos /\ a.named = PutAll(x, y)
  BY <1>1, <1>3, <1>8, MergeGives DEF x
<1>10. b \in Arguments /\ b.pos = none \o once.pos /\ b.named = GivenNamed(both)
  <2>1. b \in Arguments /\ b.pos = NoArguments.pos \o once.pos /\ b.named = PutAll(NoArguments.named, once.named)
    BY <1>4, <1>6, <1>8, MergeGives
  <2>2. QED
    BY <1>4, <1>6, <2>1
<1> HIDE DEF first, own, all, ahead
<1>11. own \o blocks \in Seq(Value) /\ b.pos = all \o blocks /\ b.pos = first \o (own \o blocks)
  <2>1. \A s, t \in Seq(Value) : s \o t \in Seq(Value) /\ <<>> \o s = s
    OBVIOUS
  <2>2. own \o blocks \in Seq(Value) /\ all \in Seq(Value) /\ all \o blocks \in Seq(Value)
    BY <1>2, <2>1
  <2>3. b.pos = all \o blocks
    BY <1>4, <1>10, <2>1, <2>2
  <2>4. (first \o own) \o blocks = first \o (own \o blocks)
    BY <1>2, SMTT(30)
  <2>5. QED
    BY <1>2, <2>2, <2>3, <2>4
<1>12. SameOutcome(g, b.pos, a.pos)
  BY <1>3, <1>7, <1>9, <1>11 DEF Interchangeable
<1>13. a.pos \in Seq(Value) /\ b.pos \in Seq(Value) /\ a.named \in NamedArgs /\ b.named \in NamedArgs
  BY <1>9, <1>10 DEF Arguments, NamedArgs
<1>14. CoercedNamed(g, a.named) = CoercedNamed(g, b.named)
  <2>1. x \in NamedArgs
    BY <1>1 DEF x
  <2>2. CoercedNamed(g, PutAll(x, y)) = PutAll(CoercedNamed(g, x), CoercedNamed(g, y))
    BY <1>3, <2>1, CoercedPutAll
  <2>3. CoercedNamed(g, PutAll(z, y)) = PutAll(CoercedNamed(g, z), CoercedNamed(g, y))
    BY <1>3, <1>5, CoercedPutAll
  <2>4. QED
    BY <1>5, <1>7, <1>9, <1>10, <2>2, <2>3
<1>15. b.pos = FlattenSeq(PosOf(v \o w)) \o blocks
  BY <1>11 DEF all, both
<1>16. QED
  BY <1>12, <1>13, <1>14, <1>15 DEF BoundAlike

(***************************************************************************)
(* A call in stages is refused or passes as the call at once.              *)
(***************************************************************************)
LEMMA SameCall ==
  ASSUME NEW f, NEW g, SameKind(f, g), f.refused = {}, g.refused = {},
         NEW here, NEW once, NEW a, NEW b, BoundAlike(g, a, b),
         a = Merge(f.withArgs, here), b = Merge(g.withArgs, once),
         NEW r, r = Apply(f, here), NEW q, q = Apply(g, once)
  PROVE  (r.faults = {} <=> q.faults = {}) /\ (r.faults = {} => r.passed = q.passed)
<1>1. /\ r.faults = {} => /\ Accepted(f, a.pos) /\ FirstNamedFault(f, a.named) = {}
                          /\ r.passed = Passed(f, Binding(f, a))
      /\ Accepted(f, a.pos) /\ FirstNamedFault(f, a.named) = {} => r.faults = {}
  BY ApplyIs
<1>2. /\ q.faults = {} => /\ Accepted(g, b.pos) /\ FirstNamedFault(g, b.named) = {}
                          /\ q.passed = Passed(g, Binding(g, b))
      /\ Accepted(g, b.pos) /\ FirstNamedFault(g, b.named) = {} => q.faults = {}
  BY ApplyIs
<1>3. /\ a.pos \in Seq(Value) /\ b.pos \in Seq(Value) /\ SameOutcome(g, b.pos, a.pos)
      /\ a.named \in NamedArgs /\ b.named \in NamedArgs
      /\ CoercedNamed(g, a.named) = CoercedNamed(g, b.named)
  BY DEF BoundAlike
<1>4. /\ Accepted(f, a.pos) <=> Accepted(g, a.pos)
      /\ TakenOf(f, a.pos) = TakenOf(g, a.pos)
      /\ \A mapping : CoercedPos(f, mapping, a.pos) = CoercedPos(g, mapping, a.pos)
  BY <1>3, SameAccepted
<1>5. Accepted(f, a.pos) <=> Accepted(g, b.pos)
  BY <1>3, <1>4 DEF SameOutcome
<1>6. FirstNamedFault(f, a.named) = {} <=> FirstNamedFault(g, b.named) = {}
  <2>1. FirstNamedFault(f, a.named) = FirstNamedFault(g, a.named)
    BY SameNamedArgs
  <2>2. FirstNamedFault(g, a.named) = {} <=> FirstNamedFault(g, CoercedNamed(g, a.named)) = {}
    BY <1>3, CoercedTwice
  <2>3. FirstNamedFault(g, b.named) = {} <=> FirstNamedFault(g, CoercedNamed(g, b.named)) = {}
    BY <1>3, CoercedTwice
  <2>4. QED
    BY <1>3, <2>1, <2>2, <2>3
<1>7. ASSUME Accepted(g, b.pos)
      PROVE  Passed(f, Binding(f, a)) = Passed(g, Binding(g, b))
  <2>1. /\ TakenOf(g, b.pos) = TakenOf(g, a.pos)
        /\ CoercedPos(g, TakenOf(g, b.pos).mapping, b.pos) = CoercedPos(g, TakenOf(g, a.pos).mapping, a.pos)
    BY <1>3, <1>7 DEF SameOutcome
  <2>2. CoercedNamed(f, a.named) = CoercedNamed(g, b.named)
    <3>1. CoercedNamed(f, a.named) = CoercedNamed(g, a.named)
      BY SameNamedArgs
    <3>2. QED
      BY <1>3, <3>1
  <2>3. Binding(f, a) = Binding(g, b)
    BY <1>4, <2>1, <2>2 DEF Binding
  <2> DEFINE bound == Binding(f, a)
  <2> HIDE DEF bound
  <2>4. Passed(f, bound) = Passed(g, bound)
    BY SamePassed
  <2>5. QED
    BY <2>3, <2>4 DEF bound
<1>8. QED
  BY <1>1, <1>2, <1>5, <1>6, <1>7

\* What is bound ahead stands for what was given, and calls in stages pass what
\* calls at once do.
StagedInv ==
  /\ StandsFor(fn, base, given)
  /\ base.refused = {} => fn.refused = {}
  /\ StagedAsOnce

(***************************************************************************)
(* A function that binds arguments ahead is of the kind of its base.       *)
(***************************************************************************)
LEMMA KindStays ==
  ASSUME CallsInv
  PROVE  /\ SameKind(fn, base) /\ base.withArgs = NoArguments /\ fn.closure = base.closure
         /\ written \in Seq(Spelt) /\ given \in Seq(Spelt)
<1>1. IsFunction(base) /\ base.withArgs = NoArguments
  BY FunctionsAssumption DEF CallsInv
<1>2. IsFunction(fn) /\ fn.closure = base.closure
  BY FunctionStays
<1>3. fn = [base EXCEPT !.withArgs = fn.withArgs, !.refused = fn.refused]
  BY DEF CallsInv
<1>4. fn.params = base.params /\ fn.sink = base.sink /\ fn.named = base.named
  <2> DEFINE args == fn.withArgs
             refused == fn.refused
  <2>1. fn = [base EXCEPT !.withArgs = args, !.refused = refused]
    BY <1>3
  <2>2. base = [params |-> base.params, sink |-> base.sink, named |-> base.named,
                refused |-> base.refused, closure |-> base.closure, withArgs |-> base.withArgs]
    BY <1>1 DEF IsFunction
  <2> HIDE DEF args, refused
  <2>3. QED
    BY <2>1, <2>2
<1>5. QED
  BY <1>1, <1>2, <1>4 DEF SameKind, CallsInv

(***************************************************************************)
(* Nothing is bound ahead at first.                                        *)
(***************************************************************************)
LEMMA NothingStands ==
  ASSUME Init
  PROVE  StandsFor(fn, base, given)
<1> DEFINE first == FlattenSeq(PosOf(given))
           none == <<>>
<1>1. CallsInv /\ fn = base /\ given = none /\ base.withArgs = NoArguments
  BY CallsInit, FunctionsAssumption DEF Init
<1>2. given \in Seq(Spelt) /\ fn.withArgs.pos = none /\ fn.withArgs.named = none
  BY <1>1 DEF CallsInv, NoArguments
<1>3. first \in Seq(Value)
  BY <1>2, SuppliedLists
<1>4. Ids(none) = Ids(first)
  BY <1>1, <1>2 DEF CallsInv, BoundAhead
<1> HIDE DEF first
<1>5. first = none
  <2>1. DOMAIN Ids(first) = DOMAIN first /\ DOMAIN Ids(none) = DOMAIN none
    BY DEF Ids
  <2>2. DOMAIN first = {}
    BY <1>4, <2>1
  <2>3. QED
    BY <1>3, <2>2
<1>6. Interchangeable(base, first, first)
  BY <1>3 DEF Interchangeable, SameOutcome
<1>7. GivenNamed(given) = none
  <2>1. PICK g : IsGiving(g, given) /\ BuildCallArgs(given, none).named = g[Len(given)]
    BY <1>2, Giving
  <2>2. Len(given) = 0
    BY <1>1
  <2>3. g[0] = <<>>
    BY <2>1 DEF IsGiving
  <2>4. QED
    BY <2>1, <2>2, <2>3 DEF GivenNamed
<1> HIDE DEF none
<1>8. Interchangeable(base, first, fn.withArgs.pos)
  BY <1>2, <1>5, <1>6
<1>9. CoercedNamed(base, fn.withArgs.named) = CoercedNamed(base, GivenNamed(given))
  BY <1>2, <1>7
<1>10. QED
  BY <1>8, <1>9 DEF StandsFor, first

(***************************************************************************)
(* Only calls are compared.                                                *)
(***************************************************************************)
LEMMA NothingStaged ==
  ASSUME outcome'.result \notin {"passed", "error"}
  PROVE  StagedAsOnce'
<1>1. QED
  BY DEF StagedAsOnce

(***************************************************************************)
(* What is bound ahead stands for what was given as long as both stay.     *)
(***************************************************************************)
LEMMA StillStands ==
  ASSUME StandsFor(fn, base, given), UNCHANGED <<fn, base, given>>
  PROVE  StandsFor(fn, base, given)'
<1>1. PosOf(given)' = PosOf(given) /\ GivenNamed(given)' = GivenNamed(given)
  OBVIOUS
<1>2. CoercedNamed(base, GivenNamed(given))' = CoercedNamed(base, GivenNamed(given))
  OBVIOUS
<1>3. QED
  BY <1>1, <1>2 DEF StandsFor

(***************************************************************************)
(* A call in stages is what the call at once is.                           *)
(***************************************************************************)
LEMMA CallIsOnce ==
  ASSUME CallsInv, StagedInv, NEW blocks \in Blocks, Call(blocks)
  PROVE  StagedAsOnce'
<1> DEFINE here == BuildCallArgs(written, blocks)
           both == BuildCallArgs(given \o written, blocks)
           a == Merge(fn.withArgs, here)
           b == Merge(base.withArgs, both)
           r == Apply(fn, here)
           q == Apply(base, both)
<1>0. UNCHANGED <<fn, written, base, given>>
  BY DEF Call
<1> SUFFICES ASSUME Unspreadable(written) = {}, base.refused = {}
             PROVE  StagedAsOnce'
  <2>1. CASE Unspreadable(written) = {} /\ base.refused = {}
    BY <2>1
  <2>2. CASE ~(Unspreadable(written) = {} /\ base.refused = {})
    <3>1. ~(Unspreadable(written)' = {} /\ base'.refused = {})
      BY <1>0, <2>2 DEF Unspreadable
    <3>2. QED
      BY <3>1 DEF StagedAsOnce
  <2>3. QED
    BY <2>1, <2>2
<1>1. EndCall(r, blocks)
  BY DEF Call, Spreads
<1>2. /\ SameKind(fn, base) /\ base.withArgs = NoArguments /\ fn.closure = base.closure
      /\ written \in Seq(Spelt) /\ given \in Seq(Spelt)
  BY KindStays
<1>3. StandsFor(fn, base, given) /\ fn.refused = {}
  BY DEF StagedInv
<1>4. blocks \in Seq(Value)
  BY BlocksAssumption
<1>5. BoundAlike(base, a, b)
  <2>1. a = Merge(fn.withArgs, BuildCallArgs(written, blocks)) /\ b = Merge(base.withArgs, BuildCallArgs(given \o written, blocks))
    OBVIOUS
  <2> HIDE DEF a, b
  <2>2. QED
    BY <1>2, <1>3, <1>4, <2>1, SameMerged
<1>6. (r.faults = {} <=> q.faults = {}) /\ (r.faults = {} => r.passed = q.passed)
  <2>1. a = Merge(fn.withArgs, here) /\ b = Merge(base.withArgs, both) /\ r = Apply(fn, here) /\ q = Apply(base, both)
    OBVIOUS
  <2> HIDE DEF a, b, here, both, r, q
  <2>2. QED
    BY <1>2, <1>3, <1>5, <2>1, SameCall
<1> HIDE DEF r
<1>7. /\ outcome'.blocks = blocks
      /\ outcome'.result = "passed" <=> r.faults = {}
      /\ outcome'.result = "passed" /\ fn.closure = <<>> => outcome'.passed = r.passed
  <2>1. CASE r.faults = {}
    <3>1. outcome' = Outcomes("passed", Nowhere, AtCall,
                  IF fn.closure = <<>> THEN r.passed
                  ELSE [pos |-> Route(fn, r.passed), named |-> <<>>], blocks)
      BY <1>1, <2>1 DEF EndCall
    <3>2. QED
      BY <2>1, <3>1 DEF Outcomes
  <2>2. CASE r.faults # {}
    <3>1. outcome'.result = "error" /\ outcome'.blocks = blocks
      BY <1>1, <2>2 DEF EndCall, Outcomes
    <3>2. QED
      BY <2>2, <3>1
  <2>3. QED
    BY <2>1, <2>2
<1>8. Apply(base, BuildCallArgs(Supplied, outcome.blocks))' = q
  BY <1>0, <1>7 DEF Supplied
<1> HIDE DEF q
<1>9. (outcome'.result = "passed") = (q.faults = {})
  BY <1>6, <1>7
<1>10. outcome'.result = "passed" /\ base'.closure = <<>> => outcome'.passed = q.passed
  BY <1>0, <1>2, <1>6, <1>7
<1>11. QED
  BY <1>8, <1>9, <1>10 DEF StagedAsOnce

(***************************************************************************)
(* Every step keeps what is bound ahead in its place.                      *)
(***************************************************************************)
LEMMA StagedStep ==
  ASSUME \A f \in Functions : Steady(f), CallsInv, StagedInv, [Next]_vars
  PROVE  StagedInv'
<1>0. StandsFor(fn, base, given) /\ (base.refused = {} => fn.refused = {}) /\ StagedAsOnce
  BY DEF StagedInv
<1>1. ASSUME NEW spelling \in Spellings(base), Write(spelling) PROVE StagedInv'
  <2>1. UNCHANGED <<fn, base, given, outcome>> /\ outcome = NotCalled
    BY <1>1 DEF Write
  <2>2. StandsFor(fn, base, given)'
    BY <1>0, <2>1, StillStands
  <2>3. StagedAsOnce'
    BY <2>1, NothingStaged DEF NotCalled, Outcomes
  <2>4. QED
    BY <1>0, <2>1, <2>2, <2>3 DEF StagedInv
<1>2. ASSUME NEW blocks \in Blocks, Call(blocks) PROVE StagedInv'
  <2>1. UNCHANGED <<fn, base, given>>
    BY <1>2 DEF Call
  <2>2. StandsFor(fn, base, given)'
    BY <1>0, <2>1, StillStands
  <2>3. StagedAsOnce'
    BY <1>2, CallIsOnce
  <2>4. QED
    BY <1>0, <2>1, <2>2, <2>3 DEF StagedInv
<1>3. CASE PartiallyApply
  <2> DEFINE none == <<>>
             r == FunctionWithImpl(fn, BuildCallArgs(written, none))
  <2>1. outcome = NotCalled /\ EndWith(r)
    BY <1>3 DEF PartiallyApply
  <2>2. r = FunctionWithImpl(fn, BuildCallArgs(written, <<>>))
    OBVIOUS
  <2> HIDE DEF r
  <2>3. CASE r.faults # {}
    <3>1. outcome'.result = "unbound" /\ UNCHANGED <<fn, base, given>>
      BY <2>1, <2>3 DEF EndWith, Outcomes
    <3>2. StandsFor(fn, base, given)'
      BY <1>0, <3>1, StillStands
    <3>3. StagedAsOnce'
      BY <3>1, NothingStaged
    <3>4. QED
      BY <1>0, <3>1, <3>2, <3>3 DEF StagedInv
  <2>4. CASE r.faults = {}
    <3>1. fn' = r.fn /\ given' = given \o written /\ base' = base /\ outcome' = NotCalled
      BY <2>1, <2>4 DEF EndWith
    <3>2. /\ SameKind(fn, base) /\ written \in Seq(Spelt) /\ given \in Seq(Spelt)
      BY KindStays
    <3>3. Steady(base)
      BY DEF CallsInv
    <3>4. StandsFor(r.fn, base, given \o written)
      BY <1>0, <2>2, <2>4, <3>2, <3>3, StageStands
    <3>5. StandsFor(fn, base, given)'
      <4>1. /\ PosOf(given)' = PosOf(given \o written)
            /\ GivenNamed(given)' = GivenNamed(given \o written)
        BY <3>1
      <4>2. CoercedNamed(base, GivenNamed(given))' = CoercedNamed(base, GivenNamed(given \o written))
        BY <3>1, <4>1
      <4>3. QED
        BY <3>1, <3>4, <4>1, <4>2 DEF StandsFor
    <3>6. fn'.refused = {}
      <4> DEFINE pos == fn.withArgs.pos \o FlattenSeq(PosOf(written))
                 args == r.fn.withArgs
      <4>1. IsFunction(fn)
        BY <3>2 DEF SameKind
      <4>2. BindsAhead(r, fn, written, pos)
        BY <2>2, <2>4, <3>2, <4>1, WithCoerces
      <4>3. r.fn = [fn EXCEPT !.withArgs = args, !.refused = {}]
        BY <4>2 DEF BindsAhead
      <4>4. fn = [params |-> fn.params, sink |-> fn.sink, named |-> fn.named, refused |-> fn.refused,
                  closure |-> fn.closure, withArgs |-> fn.withArgs]
        BY <4>1 DEF IsFunction
      <4> HIDE DEF args
      <4>5. QED
        BY <3>1, <4>3, <4>4
    <3>7. StagedAsOnce'
      BY <3>1, NothingStaged DEF NotCalled, Outcomes
    <3>8. QED
      BY <3>5, <3>6, <3>7 DEF StagedInv
  <2>5. QED
    BY <2>3, <2>4
<1>4. CASE UNCHANGED vars
  <2>1. UNCHANGED <<fn, written, outcome, base, given>>
    BY <1>4 DEF vars
  <2>2. StandsFor(fn, base, given)'
    BY <1>0, <2>1, StillStands
  <2>3. StagedAsOnce'
    <3>1. Apply(base, BuildCallArgs(Supplied, outcome.blocks))' = Apply(base, BuildCallArgs(Supplied, outcome.blocks))
      BY <2>1 DEF Supplied
    <3>2. Unspreadable(written)' = Unspreadable(written)
      BY <2>1
    <3>3. QED
      BY <1>0, <2>1, <3>1, <3>2 DEF StagedAsOnce
  <2>4. QED
    BY <1>0, <2>1, <2>2, <2>3 DEF StagedInv
<1>5. QED
  BY <1>1, <1>2, <1>3, <1>4 DEF Next

(***************************************************************************)
(* Binding arguments ahead, in any number of calls of with, and calling    *)
(* with the others is refused, and passes, as calling with all of them     *)
(* does, for functions of the shapes that builtins and closures have and   *)
(* that validate nothing else.                                             *)
(***************************************************************************)
THEOREM StagedIsOnce ==
  ASSUME \A f \in Functions : Steady(f)
  PROVE  Spec => []StagedAsOnce
<1>1. Init => StagedInv
  <2> SUFFICES ASSUME Init PROVE StagedInv
    OBVIOUS
  <2>1. StandsFor(fn, base, given)
    BY NothingStands
  <2>2. fn = base /\ outcome.result = "none"
    BY DEF Init, NotCalled, Outcomes
  <2>3. QED
    BY <2>1, <2>2 DEF StagedInv, StagedAsOnce
<1>2. CallsInv /\ StagedInv /\ [Next]_vars => StagedInv'
  BY StagedStep
<1>3. StagedInv => StagedAsOnce
  BY DEF StagedInv
<1>4. QED
  BY <1>1, <1>2, <1>3, CallsInvariant, PTL DEF Spec

-----------------------------------------------------------------------------
(* Arguments that fit are taken by functions without a sink.               *)

\* No element of R lies between two numbers that are none.
Together(R, N) ==
  \A x, y, z \in 1 .. N : x < y /\ y < z /\ x \notin R /\ z \notin R => y \notin R

\* The i-th element of S is g; it may be taken after the first l numbers, and
\* none of R is passed over.
IsNext(g, l, i, N, S, R, C, D) ==
  /\ g \in l + 1 .. N /\ g \in S /\ C[g] = i /\ g <= N - C[N] + i
  /\ g \in R \/ C[N] - i + 1 > D[N] - D[l]
  /\ \A q \in l + 1 .. g - 1 : q \notin R

(***************************************************************************)
(* If the elements are taken no later than they come, and as many are left *)
(* as are required, the next is ahead and no required one before it.       *)
(***************************************************************************)
LEMMA NextFits ==
  ASSUME NEW N \in Nat, NEW S, NEW R, R \subseteq S, Together(R, N),
         NEW C, NEW D, Ranks(C, S, N), Ranks(D, R, N),
         NEW l \in 0 .. N, NEW i \in 1 .. C[N], C[l] <= i - 1, i - 1 <= l,
         D[N] - D[l] <= C[N] - (i - 1)
  PROVE  \E g : IsNext(g, l, i, N, S, R, C, D)
<1> DEFINE m == C[N]
<1>0. /\ C[0] = 0 /\ D[0] = 0 /\ \A k \in 0 .. N : C[k] \in Nat /\ D[k] \in Nat
      /\ m \in Nat /\ l \in Nat /\ l <= N /\ i \in Nat /\ i - 1 \in Nat /\ i - 1 < m
  BY DEF Ranks
<1>1. PICK g \in 1 .. N : g \in S /\ C[g] = i /\ C[g - 1] = i - 1
  <2> DEFINE k == i - 1
  <2>1. k \in Nat /\ k < C[N] /\ k + 1 = i
    BY <1>0
  <2> HIDE DEF k
  <2>2. PICK g \in 1 .. N : g \in S /\ C[g] = k + 1 /\ C[g - 1] = k
    BY <2>1, RankReached
  <2>3. QED
    BY <2>1, <2>2 DEF k
<1>2. \A k \in g .. N : C[g] <= C[k] /\ C[k] - C[g] <= k - g /\ D[g] <= D[k] /\ D[k] - D[g] <= C[k] - C[g]
  <2>1. g \in 0 .. N
    OBVIOUS
  <2>2. QED
    BY <2>1, RankGrows
<1>3. l < g
  <2>1. CASE g <= l
    <3>1. l \in g .. N
      BY <1>0, <2>1
    <3>2. C[g] <= C[l]
      BY <1>2, <3>1
    <3>3. QED
      BY <1>0, <1>1, <3>2
  <2>2. QED
    BY <1>0, <2>1
<1>4. g <= N - m + i
  <2>1. C[N] - C[g] <= N - g
    BY <1>0, <1>2
  <2>2. QED
    BY <1>0, <1>1, <2>1
<1>5. ASSUME NEW q \in l + 1 .. g - 1, q \in R
      PROVE  FALSE
  <2>1. q \in S /\ q \in 1 .. N /\ q - 1 \in 0 .. N /\ l <= q - 1 /\ q <= g - 1 /\ g - 1 \in 0 .. N /\ q \in 0 .. N
    BY <1>0, <1>5
  <2>2. C[q] = C[q - 1] + 1
    BY <2>1 DEF Ranks
  <2>3. C[l] <= C[q - 1] /\ D[l] <= D[q - 1]
    <3>1. q - 1 \in l .. N
      BY <1>0, <2>1
    <3>2. QED
      BY <3>1, RankGrows
  <2>4. C[q] <= C[g - 1]
    <3>1. g - 1 \in q .. N
      BY <2>1
    <3>2. QED
      BY <2>1, <3>1, RankGrows
  <2>5. C[l] < l
    BY <1>0, <1>1, <2>1, <2>2, <2>3, <2>4
  <2>6. PICK o \in 1 .. l : o \notin S
    <3>1. CASE \A x \in 0 + 1 .. l : x \in S
      <4> DEFINE z == 0
      <4>1. z \in 0 .. N /\ l \in z .. N /\ \A x \in z + 1 .. l : x \in S
        BY <1>0, <3>1
      <4> HIDE DEF z
      <4>2. C[l] = C[z] + (l - z)
        BY <4>1, RankBetween
      <4>3. C[l] = l
        BY <1>0, <4>2 DEF z
      <4>4. QED
        BY <1>0, <2>5, <4>3
    <3>2. QED
      BY <3>1
  <2>7. \A x \in q .. N : x \in R
    <3> SUFFICES ASSUME NEW x \in q .. N, x \notin R PROVE FALSE
      OBVIOUS
    <3>1. q < x /\ o < q /\ o \notin R /\ x \in 1 .. N /\ o \in 1 .. N
      BY <1>0, <1>5, <2>1, <2>6
    <3>2. QED
      BY <1>5, <2>1, <3>1 DEF Together
  <2>8. D[N] = D[q - 1] + (N - (q - 1))
    <3> DEFINE j == q - 1
    <3>1. j \in 0 .. N /\ N \in j .. N /\ \A x \in j + 1 .. N : x \in R
      BY <2>1, <2>7
    <3> HIDE DEF j
    <3>2. D[N] = D[j] + (N - j)
      BY <3>1, RankBetween
    <3>3. QED
      BY <3>2 DEF j
  <2>9. C[N] - C[g - 1] <= N - (g - 1)
    <3>1. N \in g - 1 .. N
      OBVIOUS
    <3>2. QED
      BY <2>1, <3>1, RankGrows
  <2>10. D[l] \in Nat /\ D[q - 1] \in Nat /\ D[N] \in Nat
    BY <1>0, <2>1
  <2>11. QED
    BY <1>0, <1>1, <2>1, <2>3, <2>8, <2>9, <2>10
<1>6. ASSUME g \notin R
      PROVE  C[N] - i + 1 > D[N] - D[l]
  <2>1. D[g] = D[l]
    <3>1. \A x \in l + 1 .. g : x \notin R
      <4>1. \A x \in l + 1 .. g : x = g \/ x \in l + 1 .. g - 1
        BY <1>0
      <4>2. QED
        BY <1>5, <1>6, <4>1
    <3>2. g \in l .. N
      BY <1>0, <1>3
    <3>3. QED
      BY <3>1, <3>2, RankBetween
  <2>2. D[N] - D[g] <= C[N] - C[g]
    BY <1>2
  <2>3. QED
    BY <1>0, <1>1, <2>1, <2>2
<1>7. g \in l + 1 .. N
  BY <1>0, <1>3
<1>8. IsNext(g, l, i, N, S, R, C, D)
  BY <1>1, <1>4, <1>5, <1>6, <1>7 DEF IsNext
<1>9. QED
  BY <1>8

\* The parameters of a function that are required, before the sink.
RequiredSlots(f) == {j \in 1 .. PreSink(f) : f.params[j].required}

\* i arguments are taken, none later than it comes in what they fit into, and
\* no more required parameters are left than arguments.
InTime(s, i, N, C, D) ==
  /\ s.failed = 0 /\ s.lo \in 1 .. N + 1
  /\ C[s.lo - 1] <= i /\ i <= s.lo - 1
  /\ s.required = D[N] - D[s.lo - 1] /\ D[N] - D[s.lo - 1] <= C[N] - i
  /\ \A j \in 1 .. s.lo - 1 : s.mapping[j] # Missing

\* The arguments fit, in order, into the parameters in S.
FitsInOrder(f, N, S, C, D, pos) ==
  /\ N = PreSink(f) /\ N \in Nat /\ \A j \in 1 .. N : j \in Slots(f)
  /\ RequiredSlots(f) \subseteq S /\ Together(RequiredSlots(f), N)
  /\ Ranks(C, S, N) /\ Ranks(D, RequiredSlots(f), N)
  /\ \A j \in S : Takes(f.params[j].types, pos[C[j]])

(***************************************************************************)
(* The next argument is taken in time.                                     *)
(***************************************************************************)
LEMMA TakenInTime ==
  ASSUME NEW f, IsFunction(f), NEW N, NEW S, NEW C, NEW D, NEW pos, FitsInOrder(f, N, S, C, D, pos),
         NEW m, m = C[N], m \in 0 .. PreSink(f),
         NEW s \in Fronts(f, m), NEW i \in 1 .. m, InTime(s, i - 1, N, C, D),
         NEW t, t = TakeOne(f, s, i, m, pos)
  PROVE  InTime(t, i, N, C, D)
<1> DEFINE R == RequiredSlots(f)
           l == s.lo - 1
           X == Fitting(f, s, i, m, pos)
<1>1. /\ N \in Nat /\ N = PreSink(f) /\ R \subseteq S /\ Together(R, N)
      /\ Ranks(C, S, N) /\ Ranks(D, R, N)
      /\ \A j \in 1 .. N : j \in Slots(f)
      /\ \A j \in S : Takes(f.params[j].types, pos[C[j]])
  BY DEF FitsInOrder
<1>2. \A j \in 1 .. N : j \in R <=> f.params[j].required
  BY <1>1 DEF RequiredSlots
<1>3. /\ s.failed = 0 /\ l \in 0 .. N /\ s.lo = l + 1
      /\ C[l] <= i - 1 /\ i - 1 <= l
      /\ s.required = D[N] - D[l] /\ D[N] - D[l] <= m - (i - 1)
      /\ \A j \in 1 .. l : s.mapping[j] # Missing
  <2>1. s.lo \in 1 .. N + 1
    BY DEF InTime
  <2>2. l \in 0 .. N /\ s.lo = l + 1
    BY <1>1, <2>1
  <2>3. QED
    BY <2>2 DEF InTime
<1>4. m \in Nat /\ \A k \in 0 .. N : C[k] \in Nat /\ D[k] \in Nat
  BY <1>1 DEF Ranks
<1> HIDE DEF R, l
<1>5. PICK h : IsNext(h, l, i, N, S, R, C, D)
  <2>1. i \in 1 .. C[N] /\ D[N] - D[l] <= C[N] - (i - 1)
    BY <1>3
  <2>2. QED
    BY <1>1, <1>3, <2>1, NextFits
<1>6. /\ h \in l + 1 .. N /\ h \in S /\ C[h] = i /\ h <= N - m + i
      /\ h \in R \/ m - i + 1 > D[N] - D[l]
      /\ \A q \in l + 1 .. h - 1 : q \notin R
  BY <1>5 DEF IsNext
<1>7. /\ X \in SUBSET Nat
      /\ \A x : x \in X <=> /\ x \in Nat /\ s.lo <= x /\ x <= PreSink(f) - m + i
                            /\ f.params[x].required \/ m - i + 1 > s.required
                            /\ Takes(f.params[x].types, pos[i])
  BY FittingIs
<1>8. IsStep(f, s, i, m, pos, t)
  BY <1>3, TakesStep
<1> HIDE DEF X
<1>9. h \in X
  <2>1. h \in Nat /\ s.lo <= h /\ h <= PreSink(f) - m + i /\ h \in 1 .. N
    BY <1>1, <1>3, <1>6
  <2>2. Takes(f.params[h].types, pos[i])
    BY <1>1, <1>6
  <2>3. f.params[h].required \/ m - i + 1 > s.required
    BY <1>2, <1>3, <1>6, <2>1
  <2>4. QED
    BY <1>7, <2>1, <2>2, <2>3
<1>10. PICK g \in X : (\A x \in X : g <= x) /\ IsFill(f, s, i, g, t)
  BY <1>8, <1>9 DEF IsStep, X
<1>11. g \in Nat /\ l + 1 <= g /\ g <= h /\ (g \in 1 .. N) /\ (g \in R \/ m - i + 1 > D[N] - D[l])
  <2>1. g \in Nat /\ l + 1 <= g /\ (f.params[g].required \/ m - i + 1 > D[N] - D[l])
    BY <1>3, <1>7
  <2>2. g <= h
    BY <1>9, <1>10
  <2>3. g \in 1 .. N
    <3>1. l \in Nat /\ h \in Nat /\ h <= N
      BY <1>1, <1>3, <1>6
    <3>2. QED
      BY <1>1, <2>1, <2>2, <3>1
  <2>4. QED
    BY <1>2, <2>1, <2>2, <2>3
<1>12. /\ t.lo = g + 1 /\ t.failed = 0
       /\ t.required = IF f.params[g].required THEN s.required - 1 ELSE s.required
       /\ \A j \in Slots(f) :
            t.mapping[j] = IF j = g THEN i
                           ELSE IF j \in s.lo .. g - 1 /\ ~f.params[j].required THEN Default
                           ELSE s.mapping[j]
  BY <1>3, <1>10 DEF IsFill
<1>13. C[g] <= i /\ i <= g
  <2>1. g \in 0 .. N /\ h \in g .. N
    BY <1>1, <1>6, <1>11
  <2>2. C[g] <= C[h]
    <3>1. \A k \in g .. N : C[g] <= C[k] /\ C[k] - C[g] <= k - g /\ D[g] <= D[k] /\ D[k] - D[g] <= C[k] - C[g]
      BY <1>1, <2>1, RankGrows
    <3>2. QED
      BY <2>1, <3>1
  <2>3. QED
    BY <1>3, <1>6, <1>11, <2>2
<1>14. D[g - 1] = D[l] /\ D[g] = IF g \in R THEN D[l] + 1 ELSE D[l]
  <2> DEFINE k == g - 1
  <2>0. l \in Nat /\ h \in Nat /\ h <= N /\ N \in Nat /\ l \in 0 .. N
    BY <1>1, <1>3, <1>6
  <2>1. k \in l .. N /\ \A x \in l + 1 .. k : x \notin R
    <3>1. k \in l .. N /\ k <= h - 1
      BY <1>11, <2>0
    <3>2. \A x \in l + 1 .. k : x \in l + 1 .. h - 1
      BY <2>0, <3>1
    <3>3. QED
      BY <1>6, <3>1, <3>2
  <2> HIDE DEF k
  <2>2. D[k] = D[l]
    <3>1. Ranks(D, R, N)
      BY <1>1
    <3>2. QED
      BY <2>0, <2>1, <3>1, RankBetween
  <2>3. D[g] = IF g \in R THEN D[k] + 1 ELSE D[k]
    BY <1>1, <1>11 DEF Ranks, k
  <2>4. QED
    BY <2>2, <2>3 DEF k
<1>15. t.required = D[N] - D[g] /\ D[N] - D[g] <= m - i
  <2>1. D[N] \in Nat /\ D[l] \in Nat /\ D[g] \in Nat
    BY <1>1, <1>3, <1>4, <1>11
  <2>2. f.params[g].required <=> g \in R
    BY <1>2, <1>11
  <2>3. QED
    BY <1>3, <1>4, <1>11, <1>12, <1>14, <2>1, <2>2
<1>16. ASSUME NEW j \in 1 .. g
       PROVE  t.mapping[j] # Missing
  <2>1. j \in Slots(f) /\ j \in 1 .. N
    BY <1>1, <1>11
  <2>2. CASE j = g
    BY <1>12, <2>1, <2>2 DEF Missing
  <2>3. CASE j \in l + 1 .. g - 1
    <3>1. j \notin R
      BY <1>3, <1>6, <1>11, <2>3
    <3>2. t.mapping[j] = Default
      BY <1>2, <1>3, <1>12, <2>1, <2>3, <3>1
    <3>3. QED
      BY <3>2 DEF Default, Missing
  <2>4. CASE j \in 1 .. l
    <3>1. t.mapping[j] = s.mapping[j]
      BY <1>3, <1>11, <1>12, <2>1, <2>4
    <3>2. QED
      BY <1>3, <2>4, <3>1
  <2>5. QED
    BY <1>3, <1>11, <2>2, <2>3, <2>4
<1>17. g = t.lo - 1 /\ t.lo \in 1 .. N + 1
  BY <1>1, <1>11, <1>12
<1>18. QED
  BY <1>12, <1>13, <1>15, <1>16, <1>17 DEF InTime

(***************************************************************************)
(* Arguments that fit in order are taken by the parameters before the sink.*)
(***************************************************************************)
LEMMA RunInTime ==
  ASSUME NEW f, IsFunction(f), NEW N, NEW S, NEW C, NEW D, NEW pos, FitsInOrder(f, N, S, C, D, pos),
         NoneTaken(f).required = D[N],
         NEW m, m = C[N], m \in 0 .. PreSink(f), NEW r, IsRun(r, f, m, pos)
  PROVE  InTime(r[m], m, N, C, D)
<1> DEFINE X == {i \in 0 .. m : InTime(r[i], i, N, C, D)}
<1>1. /\ N \in Nat /\ RequiredSlots(f) \subseteq S
      /\ Ranks(C, S, N) /\ Ranks(D, RequiredSlots(f), N)
  BY DEF FitsInOrder
<1>2. m \in Nat /\ C[0] = 0 /\ D[0] = 0 /\ D[N] \in Nat
  BY <1>1 DEF Ranks
<1>3. 0 \in X
  <2>1. r[0] = NoneTaken(f)
    BY DEF IsRun
  <2>2. NoneTaken(f).lo = 1 /\ NoneTaken(f).failed = 0
    BY DEF NoneTaken
  <2> DEFINE s == NoneTaken(f)
             z == 0
  <2>3. D[N] - D[0] <= C[N] - C[0]
    <3>1. z \in 0 .. N /\ N \in z .. N
      BY <1>1
    <3> HIDE DEF z
    <3>2. \A k \in z .. N : C[z] <= C[k] /\ C[k] - C[z] <= k - z /\ D[z] <= D[k] /\ D[k] - D[z] <= C[k] - C[z]
      BY <1>1, <3>1, RankGrows
    <3>3. D[N] - D[z] <= C[N] - C[z]
      BY <3>1, <3>2
    <3>4. QED
      BY <3>3 DEF z
  <2>4. s.lo = 1 /\ s.failed = 0 /\ s.required = D[N]
    BY <2>2
  <2> HIDE DEF s
  <2>5. s.lo - 1 = 0 /\ 1 \in 1 .. N + 1
    BY <1>1, <2>4
  <2>6. D[N] - 0 = D[N] /\ C[N] - 0 = C[N] /\ C[N] \in Nat
    BY <1>2
  <2>7. InTime(s, 0, N, C, D)
    BY <1>2, <2>3, <2>4, <2>5, <2>6 DEF InTime
  <2>8. QED
    BY <1>2, <2>1, <2>7 DEF s
<1>4. ASSUME NEW k \in 0 .. m - 1, k \in X
      PROVE  k + 1 \in X
  <2> DEFINE i == k + 1
             s == r[k]
             t == r[i]
  <2>1. i \in 1 .. m /\ i \in 0 .. m /\ i - 1 = k /\ k \in 0 .. m
    BY <1>2
  <2>2. s \in Fronts(f, m) /\ t = TakeOne(f, s, i, m, pos)
    BY <2>1 DEF IsRun
  <2>3. InTime(s, i - 1, N, C, D)
    BY <1>4, <2>1
  <2> HIDE DEF s, t, i
  <2>4. InTime(t, i, N, C, D)
    BY <2>1, <2>2, <2>3, TakenInTime
  <2>5. QED
    BY <2>1, <2>4 DEF t, i
<1> HIDE DEF X
<1>5. \A i \in 0 .. m : i \in X
  BY <1>2, <1>3, <1>4, InductionUpTo
<1>6. m \in X
  BY <1>2, <1>5
<1>7. QED
  BY <1>6 DEF X

(***************************************************************************)
(* Then no required parameter before the sink is left.                     *)
(***************************************************************************)
LEMMA NoneLeft ==
  ASSUME NEW f, IsFunction(f), NEW N, NEW S, NEW C, NEW D, NEW pos, FitsInOrder(f, N, S, C, D, pos),
         NEW s, InTime(s, C[N], N, C, D)
  PROVE  \A j \in s.lo .. N : ~f.params[j].required
<1> DEFINE R == RequiredSlots(f)
           l == s.lo - 1
<1>1. N \in Nat /\ N = PreSink(f) /\ Ranks(D, R, N)
  BY DEF FitsInOrder
<1>2. s.lo \in 1 .. N + 1 /\ D[N] - D[l] <= C[N] - C[N] /\ C[N] \in Nat
  BY DEF InTime, FitsInOrder, Ranks
<1>3. l \in 0 .. N /\ s.lo = l + 1
  BY <1>1, <1>2
<1>4. \A k \in 0 .. N : D[k] \in Nat
  BY <1>1 DEF Ranks
<1> SUFFICES ASSUME NEW j \in s.lo .. N PROVE j \notin R
  BY <1>1, <1>2 DEF RequiredSlots
<1> HIDE DEF R, l
<1>5. j \in 1 .. N /\ j - 1 \in l .. N /\ j \in 0 .. N /\ N \in j .. N /\ j - 1 \in 0 .. N
  BY <1>1, <1>3
<1>6. R \subseteq R
  OBVIOUS
<1>7. D[l] <= D[j - 1]
  BY <1>1, <1>3, <1>5, <1>6, RankGrows
<1>8. D[j] <= D[N]
  BY <1>1, <1>5, <1>6, RankGrows
<1>9. D[j] = IF j \in R THEN D[j - 1] + 1 ELSE D[j - 1]
  BY <1>1, <1>5 DEF Ranks
<1>10. D[l] \in Nat /\ D[j - 1] \in Nat /\ D[N] \in Nat /\ D[N] <= D[l]
  <2>1. N \in 0 .. N
    BY <1>1
  <2>2. D[l] \in Nat /\ D[j - 1] \in Nat /\ D[N] \in Nat
    BY <1>3, <1>4, <1>5, <2>1
  <2>3. QED
    BY <1>2, <2>2
<1>11. QED
  BY <1>7, <1>8, <1>9, <1>10

\* The positional arguments fit into the parameters in some, and these are all
\* that are required.
FitsInto(f, some, pos) ==
  /\ some \in SUBSET (Slots(f) \ {f.sink})
  /\ {j \in Slots(f) \ {f.sink} : f.params[j].required} \subseteq some
  /\ FitInto(f, some, pos)

(***************************************************************************)
(* A function without a sink accepts what fits.                            *)
(***************************************************************************)
LEMMA FitsWithoutSink ==
  ASSUME NEW f, IsFunction(f), OptionalTogether(f), f.sink = 0, NEW pos \in Seq(Value),
         NEW some, FitsInto(f, some, pos)
  PROVE  Accepted(f, pos)
<1> DEFINE N == PreSink(f)
           R == RequiredSlots(f)
           m == Len(pos)
           C == [j \in 0 .. N |-> Cardinality(UpTo(some, j))]
           D == [j \in 0 .. N |-> Cardinality(UpTo(R, j))]
<1>1. N \in Nat /\ N = Len(f.params) /\ Slots(f) = 1 .. N /\ PostSink(f) = 0
  BY Shape
<1>2. some \in SUBSET (1 .. N) /\ R \in SUBSET (1 .. N) /\ R \subseteq some
  <2>1. Slots(f) \ {f.sink} = 1 .. N
    BY <1>1
  <2>2. R = {j \in Slots(f) \ {f.sink} : f.params[j].required}
    BY <2>1 DEF RequiredSlots
  <2>3. QED
    BY <2>1, <2>2 DEF FitsInto
<1>3. \A j : j \in R <=> j \in 1 .. N /\ f.params[j].required
  BY DEF RequiredSlots
<1>4. Cardinality(R) = NoneTaken(f).required
  BY DEF RequiredSlots, NoneTaken
<1>5. Cardinality(some) = m /\ \A j \in some : Takes(f.params[j].types, pos[Cardinality(UpTo(some, j))])
  <2>1. {j \in some : f.sink = 0 \/ j < f.sink} = some
    OBVIOUS
  <2>2. \A j : {i \in some : i <= j} = UpTo(some, j)
    BY DEF UpTo
  <2>3. QED
    BY <2>1, <2>2 DEF FitInto, FitsInto
<1>6. Together(R, N)
  <2>1. Plain(f) = 1 .. N
    BY <1>1 DEF Plain
  <2>2. QED
    BY <1>3, <2>1 DEF OptionalTogether, Together
<1> HIDE DEF N, R
<1>7. Ranks(C, some, N) /\ C[N] = m
  <2> HIDE DEF C
  <2>1. Ranks(C, some, N) /\ C[N] = Cardinality(some) /\ IsFiniteSet(some)
    BY <1>1, <1>2, Counted DEF C
  <2>2. QED
    BY <1>5, <2>1
<1>8. Ranks(D, R, N) /\ D[N] = NoneTaken(f).required
  <2> HIDE DEF D
  <2>1. Ranks(D, R, N) /\ D[N] = Cardinality(R) /\ IsFiniteSet(R)
    BY <1>1, <1>2, Counted DEF D
  <2>2. QED
    BY <1>4, <2>1
<1>9. \A j \in some : Takes(f.params[j].types, pos[C[j]])
  <2>1. \A j \in some : C[j] = Cardinality(UpTo(some, j))
    BY <1>1, <1>2
  <2> HIDE DEF C
  <2>2. QED
    BY <1>5, <2>1
<1> HIDE DEF C, D
<1>10. FitsInOrder(f, N, some, C, D, pos)
  BY <1>1, <1>2, <1>6, <1>7, <1>8, <1>9 DEF FitsInOrder, R, N
<1>11. m \in Nat /\ m <= N
  <2> DEFINE z == 0
  <2>1. z \in 0 .. N /\ N \in z .. N /\ C[0] = 0 /\ some \subseteq some
    BY <1>1, <1>7 DEF Ranks
  <2> HIDE DEF z
  <2>2. C[N] - C[z] <= N - z
    BY <1>1, <1>7, <2>1, RankGrows
  <2>3. QED
    BY <1>1, <1>7, <2>1, <2>2 DEF z
<1> DEFINE count == FrontCount(f, pos)
<1>12. /\ count = m
       /\ \E r : Taking(f, pos, m, count, r)
  <2>1. /\ m \in Nat /\ count \in 0 .. PreSink(f) /\ count \in 0 .. m
        /\ count = IF m <= PreSink(f) THEN m ELSE PreSink(f)
        /\ \E r : Taking(f, pos, m, count, r)
    BY TakenRun
  <2>2. QED
    BY <1>11, <2>1 DEF N
<1>13. PICK r : Taking(f, pos, m, count, r)
  BY <1>12
<1> HIDE DEF m
<1>14. IsRun(r, f, m, pos) /\ TakenOf(f, pos).failed = r[m].failed
       /\ RestOf(f, r[m], m + SinkSize(f, m), m, TakenOf(f, pos).mapping)
  BY <1>12, <1>13 DEF Taking
<1> DEFINE s == r[m]
<1>15. InTime(s, m, N, C, D)
  <2>1. m = C[N] /\ m \in 0 .. PreSink(f) /\ NoneTaken(f).required = D[N]
    BY <1>1, <1>7, <1>8, <1>11 DEF N
  <2>2. QED
    BY <1>10, <1>14, <2>1, RunInTime
<1>16. \A j \in s.lo .. N : ~f.params[j].required
  BY <1>7, <1>10, <1>15, NoneLeft
<1>17. s.failed = 0 /\ s.lo \in 1 .. N + 1 /\ \A j \in 1 .. s.lo - 1 : s.mapping[j] # Missing
  BY <1>15 DEF InTime
<1> DEFINE mapping == TakenOf(f, pos).mapping
<1>18. \A j \in 1 .. N : mapping[j] = IF j < s.lo THEN s.mapping[j] ELSE Unfilled(f, j)
  BY <1>1, <1>14 DEF RestOf, N
<1> HIDE DEF mapping, s
<1>19. \A j \in Slots(f) : mapping[j] # Missing
  <2> SUFFICES ASSUME NEW j \in 1 .. N PROVE mapping[j] # Missing
    BY <1>1
  <2>1. CASE j < s.lo
    <3>1. j \in 1 .. s.lo - 1
      BY <1>1, <1>17, <2>1
    <3>2. QED
      BY <1>17, <1>18, <2>1, <3>1
  <2>2. CASE ~(j < s.lo)
    <3>1. j \in s.lo .. N
      BY <1>1, <1>17, <2>2
    <3>2. mapping[j] = Default
      BY <1>16, <1>18, <2>2, <3>1 DEF Unfilled
    <3>3. QED
      BY <3>2 DEF Default, Missing
  <2>3. QED
    BY <2>1, <2>2
<1>20. UnfitBack(f, mapping, pos) = {}
  BY <1>1, NothingBehind
<1>21. NotTooMany(f, pos)
  BY <1>1, <1>11 DEF NotTooMany, m
<1>22. QED
  BY <1>14, <1>17, <1>19, <1>20, <1>21 DEF Accepted, mapping, s

(***************************************************************************)
(* A function whose parameters are all required, around a sink, gives the  *)
(* arguments that fit to all of them.                                      *)
(***************************************************************************)
LEMMA FitsInAll ==
  ASSUME NEW f, IsFunction(f), OptionalTogether(f), f.sink # 0, NEW pos \in Seq(Value),
         NEW some, FitsInto(f, some, pos), NEW N, N = Len(f.params), NEW p, p = PreSink(f),
         NEW m, m = Len(pos)
  PROVE  /\ N \in Nat /\ f.sink \in 1 .. N /\ p = f.sink - 1 /\ m \in Nat /\ N - 1 <= m
         /\ \A j \in Plain(f) : f.params[j].required
         /\ \A j \in 1 .. p : Takes(f.params[j].types, pos[j])
         /\ \A j \in f.sink + 1 .. N : Takes(f.params[j].types, pos[m - N + j])
<1>1. /\ N \in Nat /\ f.sink \in 1 .. N /\ p = f.sink - 1 /\ p \in Nat /\ Slots(f) = 1 .. N /\ m \in Nat
  BY Shape
<1>2. \A j \in Plain(f) : f.params[j].required
  BY DEF OptionalTogether
<1>3. Plain(f) = (1 .. N) \ {f.sink}
  BY <1>1 DEF Plain
<1>4. some = Plain(f)
  <2>1. some \in SUBSET Plain(f)
    BY DEF FitsInto, Plain
  <2>2. {j \in Plain(f) : f.params[j].required} \subseteq some
    BY DEF FitsInto, Plain
  <2>3. QED
    BY <1>2, <2>1, <2>2
<1>5. FitInto(f, some, pos)
  BY DEF FitsInto
<1> DEFINE front == {j \in some : f.sink = 0 \/ j < f.sink}
           back == {j \in some : f.sink # 0 /\ j > f.sink}
<1>6. /\ Cardinality(some) <= m
      /\ \A j \in front : Takes(f.params[j].types, pos[Cardinality({i \in front : i <= j})])
      /\ \A j \in back : Takes(f.params[j].types, pos[m + 1 - Cardinality({i \in back : i >= j})])
  BY <1>5 DEF FitInto
<1>7. Cardinality(some) = N - 1
  <2>1. IsFiniteSet(1 .. N) /\ Cardinality(1 .. N) = N
    <3>1. 1 \in Int /\ N \in Int /\ 1 <= N /\ N - 1 + 1 = N
      BY <1>1
    <3> DEFINE one == 1
    <3> HIDE DEF one
    <3>2. IsFiniteSet(one .. N) /\ Cardinality(one .. N) = IF one > N THEN 0 ELSE N - one + 1
      BY <3>1, FS_Interval DEF one
    <3>3. QED
      BY <3>1, <3>2 DEF one
  <2>2. Cardinality((1 .. N) \ {f.sink}) = N - 1
    BY <1>1, <2>1, FS_RemoveElement
  <2>3. QED
    BY <1>3, <1>4, <2>2
<1>8. \A j \in 1 .. p : j \in front
  BY <1>1, <1>3, <1>4
<1>9. \A j \in f.sink + 1 .. N : j \in back
  BY <1>1, <1>3, <1>4
<1>10. \A i : i \in front <=> i \in 1 .. p
  BY <1>1, <1>3, <1>4
<1>11. \A i : i \in back <=> i \in f.sink + 1 .. N
  BY <1>1, <1>3, <1>4
<1> HIDE DEF front, back
<1>12. ASSUME NEW j \in 1 .. p
       PROVE  Takes(f.params[j].types, pos[j])
  <2>1. {i \in front : i <= j} = 1 .. j
    BY <1>1, <1>10
  <2>2. Cardinality(1 .. j) = j
    BY <1>1, FS_Interval
  <2>3. QED
    BY <1>6, <1>8, <2>1, <2>2
<1>13. ASSUME NEW j \in f.sink + 1 .. N
       PROVE  Takes(f.params[j].types, pos[m - N + j])
  <2>1. {i \in back : i >= j} = j .. N
    BY <1>1, <1>11
  <2>2. Cardinality(j .. N) = N - j + 1
    <3>1. j \in Int /\ N \in Int /\ j <= N
      BY <1>1
    <3>2. Cardinality(j .. N) = IF j > N THEN 0 ELSE N - j + 1
      BY <3>1, FS_Interval
    <3>3. QED
      BY <3>1, <3>2
  <2>3. m + 1 - Cardinality({i \in back : i >= j}) = m - N + j
    <3>1. m + 1 - (N - j + 1) = m - N + j
      BY <1>1
    <3>2. QED
      BY <2>1, <2>2, <3>1
  <2>4. QED
    BY <1>6, <1>9, <2>3
<1>14. QED
  BY <1>1, <1>2, <1>6, <1>7, <1>12, <1>13

(***************************************************************************)
(* A function with a sink accepts what fits.                               *)
(***************************************************************************)
LEMMA FitsAroundSink ==
  ASSUME NEW f, IsFunction(f), OptionalTogether(f), f.sink # 0, NEW pos \in Seq(Value),
         NEW some, FitsInto(f, some, pos)
  PROVE  Accepted(f, pos)
<1> DEFINE N == Len(f.params)
           p == PreSink(f)
           m == Len(pos)
           C == [j \in 0 .. p |-> j]
           S == 1 .. p
<1>1. /\ N \in Nat /\ f.sink \in 1 .. N /\ p = f.sink - 1 /\ m \in Nat /\ N - 1 <= m
      /\ \A j \in Plain(f) : f.params[j].required
      /\ \A j \in 1 .. p : Takes(f.params[j].types, pos[j])
      /\ \A j \in f.sink + 1 .. N : Takes(f.params[j].types, pos[m - N + j])
  <2>1. N = Len(f.params) /\ p = PreSink(f) /\ m = Len(pos)
    OBVIOUS
  <2> HIDE DEF N, p, m
  <2>2. QED
    BY <2>1, FitsInAll
<1>2. Slots(f) = 1 .. N /\ PostSink(f) = N - f.sink /\ p \in Nat /\ \A j \in 1 .. p : j \in Slots(f) /\ j \in Plain(f)
  <2>1. Slots(f) = 1 .. N /\ PostSink(f) = N - f.sink /\ p \in Nat
    BY Shape
  <2>2. QED
    BY <1>1, <2>1 DEF Plain
<1>3. \A j \in 1 .. p : f.params[j].required
  BY <1>1, <1>2
<1>4. RequiredSlots(f) = S
  BY <1>3 DEF RequiredSlots
<1>5. NoneTaken(f).required = p
  <2>1. {j \in 1 .. PreSink(f) : f.params[j].required} = 1 .. p
    BY <1>3
  <2>2. Cardinality(1 .. p) = p
    BY <1>2, FS_Interval
  <2>3. QED
    BY <2>1, <2>2 DEF NoneTaken
<1>6. Ranks(C, S, p) /\ C[p] = p /\ \A j \in 0 .. p : C[j] = j
  BY <1>2 DEF Ranks
<1>7. FitsInOrder(f, p, S, C, C, pos)
  <2>1. Together(RequiredSlots(f), p)
    BY <1>2, <1>4 DEF Together
  <2>2. \A j \in S : Takes(f.params[j].types, pos[C[j]])
    <3> HIDE DEF p
    <3>1. \A j \in S : C[j] = j
      BY <1>2
    <3> HIDE DEF C
    <3>2. QED
      BY <1>1, <3>1
  <2> HIDE DEF C, S
  <2>3. p = PreSink(f)
    OBVIOUS
  <2>4. QED
    BY <1>2, <1>4, <1>6, <2>1, <2>2, <2>3 DEF FitsInOrder
<1> HIDE DEF C, S
<1> DEFINE count == FrontCount(f, pos)
<1>8. count = p /\ \E r : Taking(f, pos, m, count, r)
  <2>1. /\ m \in Nat /\ count \in 0 .. PreSink(f) /\ count \in 0 .. m
        /\ count = IF m <= PreSink(f) THEN m ELSE PreSink(f)
        /\ \E r : Taking(f, pos, m, count, r)
    BY TakenRun
  <2> HIDE DEF count
  <2>2. QED
    BY <1>1, <2>1
<1>9. PICK r : Taking(f, pos, m, p, r)
  BY <1>8
<1> DEFINE s == r[p]
           mapping == TakenOf(f, pos).mapping
<1>10. IsRun(r, f, p, pos) /\ TakenOf(f, pos).failed = s.failed
       /\ RestOf(f, s, p + SinkSize(f, m), m, mapping)
  BY <1>9 DEF Taking
<1>11. InTime(s, p, p, C, C)
  <2> DEFINE k == p
             n == p
  <2>1. k = C[n] /\ k \in 0 .. PreSink(f) /\ NoneTaken(f).required = C[n] /\ FitsInOrder(f, n, S, C, C, pos)
        /\ IsRun(r, f, k, pos)
    BY <1>2, <1>5, <1>6, <1>7, <1>10
  <2> HIDE DEF k, n
  <2>2. InTime(r[k], k, n, C, C)
    BY <2>1, RunInTime
  <2>3. QED
    BY <2>2 DEF k, n
<1>12. s.failed = 0 /\ s.lo = p + 1 /\ \A j \in 1 .. p : s.mapping[j] # Missing
  <2>1. s.failed = 0 /\ s.lo \in 1 .. p + 1 /\ p <= s.lo - 1 /\ \A j \in 1 .. s.lo - 1 : s.mapping[j] # Missing
    BY <1>11 DEF InTime
  <2> HIDE DEF s
  <2>2. s.lo = p + 1
    BY <1>2, <2>1
  <2>3. s.lo - 1 = p
    BY <1>2, <2>2
  <2>4. QED
    BY <2>1, <2>2, <2>3
<1>13. SinkSize(f, m) = m - (N - 1)
  <2>1. m - (PreSink(f) + PostSink(f)) = m - (N - 1)
    <3> DEFINE k == f.sink
    <3>1. k \in Int /\ N \in Int /\ PreSink(f) = k - 1 /\ PostSink(f) = N - k
      BY <1>1, <1>2
    <3> HIDE DEF k, N
    <3>2. PreSink(f) + PostSink(f) = N - 1
      BY <3>1
    <3>3. QED
      BY <3>2
  <2>2. m - (N - 1) \in Nat /\ 0 <= m - (N - 1)
    BY <1>1
  <2> DEFINE k == m - (N - 1)
  <2> HIDE DEF k
  <2>3. Max({0, k}) = k
    <3>1. k \in Int /\ 0 \in Int /\ 0 <= k
      BY <2>2 DEF k
    <3>2. QED
      BY <3>1, MaxOfTwo
  <2>4. SinkSize(f, m) = Max({0, k})
    BY <2>1 DEF SinkSize, k
  <2>5. QED
    BY <2>3, <2>4 DEF k
<1> HIDE DEF s, mapping
<1>14. \A j \in 1 .. p : mapping[j] = s.mapping[j]
  <2>1. \A j \in 1 .. p : j <= PreSink(f) /\ j < s.lo
    BY <1>2, <1>12
  <2>2. QED
    BY <1>2, <1>10, <2>1 DEF RestOf
<1>15. ASSUME NEW j \in f.sink + 1 .. N
       PROVE  mapping[j] = m - N + j /\ j \in Slots(f)
  <2>1. j \in Slots(f) /\ ~(j <= PreSink(f)) /\ j # f.sink
    BY <1>1, <1>2
  <2>2. p + SinkSize(f, m) + (j - f.sink) = m - N + j /\ m - N + j <= m
    <3> DEFINE k == f.sink
    <3>1. k \in Int /\ N \in Int /\ p = k - 1 /\ m \in Int /\ SinkSize(f, m) = m - (N - 1) /\ j \in Int /\ j <= N
      BY <1>1, <1>13
    <3> HIDE DEF k, N, p, m
    <3>2. p + SinkSize(f, m) + (j - k) = m - N + j /\ m - N + j <= m
      BY <3>1
    <3>3. QED
      BY <3>2 DEF k
  <2>3. mapping[j] = IF p + SinkSize(f, m) + (j - f.sink) <= m THEN p + SinkSize(f, m) + (j - f.sink)
                    ELSE Unfilled(f, j)
    BY <1>10, <2>1 DEF RestOf
  <2>4. QED
    BY <2>1, <2>2, <2>3
<1>16. mapping[f.sink] = InSink
  <2>1. f.sink \in Slots(f) /\ ~(f.sink <= PreSink(f))
    BY <1>1, <1>2
  <2>2. QED
    BY <1>10, <2>1 DEF RestOf
<1>17. \A j \in Slots(f) : mapping[j] # Missing
  <2> SUFFICES ASSUME NEW j \in 1 .. N PROVE mapping[j] # Missing
    BY <1>2
  <2>1. CASE j \in 1 .. p
    BY <1>12, <1>14, <2>1
  <2>2. CASE j = f.sink
    BY <1>16, <2>2 DEF InSink, Missing
  <2>3. CASE j \in f.sink + 1 .. N
    <3>1. m - N + j \in Int /\ m - N + j >= 0
      BY <1>1, <2>3
    <3>2. mapping[j] = m - N + j
      BY <1>15, <2>3
    <3> HIDE DEF m, N
    <3>3. QED
      BY <3>1, <3>2 DEF Missing
  <2>4. QED
    BY <1>1, <2>1, <2>2, <2>3
<1>18. UnfitBack(f, mapping, pos) = {}
  <2>1. ASSUME NEW k \in Slots(f), k > f.sink
        PROVE  Takes(f.params[k].types, pos[mapping[k]])
    <3>1. k \in f.sink + 1 .. N
      BY <1>1, <1>2, <2>1
    <3>2. QED
      BY <1>1, <1>15, <3>1
  <2>2. QED
    BY <2>1 DEF UnfitBack
<1>19. NotTooMany(f, pos)
  BY DEF NotTooMany
<1>20. QED
  BY <1>10, <1>12, <1>17, <1>18, <1>19 DEF Accepted, mapping

(***************************************************************************)
(* What fits is accepted.                                                  *)
(***************************************************************************)
LEMMA WhatFitsIsTaken ==
  ASSUME NEW f, IsFunction(f), OptionalTogether(f), NEW pos \in Seq(Value),
         NEW some, FitsInto(f, some, pos)
  PROVE  Accepted(f, pos)
<1>1. CASE f.sink = 0
  BY <1>1, FitsWithoutSink
<1>2. CASE f.sink # 0
  BY <1>2, FitsAroundSink
<1>3. QED
  BY <1>1, <1>2

(***************************************************************************)
(* Only refused calls can have refused what fits.                          *)
(***************************************************************************)
LEMMA NothingRefused ==
  ASSUME outcome'.result # "error"
  PROVE  AcceptsWhatFits'
<1>1. QED
  BY DEF AcceptsWhatFits

(***************************************************************************)
(* A call that is refused for its positional arguments has none that fit.  *)
(***************************************************************************)
LEMMA RefusedDoesNotFit ==
  ASSUME \A f \in Functions : OptionalTogether(f),
         CallsInv, StagedInv, NEW blocks \in Blocks, Call(blocks)
  PROVE  AcceptsWhatFits'
<1> DEFINE here == BuildCallArgs(written, blocks)
           both == BuildCallArgs(given \o written, blocks)
           a == Merge(fn.withArgs, here)
           b == Merge(base.withArgs, both)
           r == Apply(fn, here)
<1>0. UNCHANGED <<fn, written, base, given>>
  BY DEF Call
<1> SUFFICES ASSUME Unspreadable(written) = {}, outcome'.result = "error",
                    outcome'.fault.place \in {"positional", "nowhere"}
             PROVE  \A some \in SUBSET (Slots(base) \ {base.sink}) :
                      {j \in Slots(base) \ {base.sink} : base.params[j].required} \subseteq some
                        => ~FitInto(base, some, SuppliedPos')
  <2> DEFINE Fits == \A some \in SUBSET (Slots(base) \ {base.sink}) :
                       {j \in Slots(base) \ {base.sink} : base.params[j].required} \subseteq some
                         => ~FitInto(base, some, SuppliedPos')
  <2>1. Unspreadable(written)' = Unspreadable(written)
    BY <1>0
  <2>2. AcceptsWhatFits' <=> (outcome'.result = "error" /\ Unspreadable(written)' = {}
                              /\ outcome'.fault.place \in {"positional", "nowhere"} => Fits)
    BY <1>0 DEF AcceptsWhatFits
  <2>3. QED
    BY <2>1, <2>2
<1>1. EndCall(r, blocks)
  BY DEF Call, Spreads
<1>2. /\ SameKind(fn, base) /\ base.withArgs = NoArguments
      /\ written \in Seq(Spelt) /\ given \in Seq(Spelt)
  BY KindStays
<1>3. StandsFor(fn, base, given) /\ IsFunction(base) /\ OptionalTogether(base)
  BY FunctionsAssumption DEF StagedInv, CallsInv
<1>4. blocks \in Seq(Value)
  BY BlocksAssumption
<1>5. BoundAlike(base, a, b) /\ b.pos = FlattenSeq(PosOf(given \o written)) \o blocks
  <2>1. a = Merge(fn.withArgs, BuildCallArgs(written, blocks)) /\ b = Merge(base.withArgs, BuildCallArgs(given \o written, blocks))
    OBVIOUS
  <2> HIDE DEF a, b
  <2>2. QED
    BY <1>2, <1>3, <1>4, <2>1, SameMerged, SMTT(30)
<1>6. \A at \in r.faults : at.place \in {"positional", "nowhere"} => ~Accepted(fn, a.pos)
  <2>1. a = Merge(fn.withArgs, here) /\ r = Apply(fn, here)
    OBVIOUS
  <2> HIDE DEF a, r, here
  <2>2. QED
    BY <2>1, ApplyIs
<1> HIDE DEF r
<1>7. /\ r.faults # {}
      /\ outcome' = LET fault == CHOOSE at \in r.faults : TRUE
                    IN  Outcomes("error", fault, LocateArgErrSpan(fn, written, fault), <<>>, blocks)
  <2>1. CASE r.faults = {}
    <3>1. outcome'.result = "passed"
      BY <1>1, <2>1 DEF EndCall, Outcomes
    <3>2. QED
      BY <3>1
  <2>2. CASE r.faults # {}
    BY <1>1, <2>2 DEF EndCall
  <2>3. QED
    BY <2>1, <2>2
<1>8. outcome'.fault \in r.faults /\ outcome'.blocks = blocks
  <2> DEFINE fault == CHOOSE at \in r.faults : TRUE
  <2>1. fault \in r.faults
    BY <1>7
  <2>2. outcome' = Outcomes("error", fault, LocateArgErrSpan(fn, written, fault), <<>>, blocks)
    BY <1>7
  <2> HIDE DEF fault
  <2>3. QED
    BY <2>1, <2>2 DEF Outcomes
<1> HIDE DEF a, b
<1>9. ~Accepted(base, b.pos)
  <2>1. ~Accepted(fn, a.pos)
    BY <1>6, <1>8
  <2>2. a.pos \in Seq(Value) /\ SameOutcome(base, b.pos, a.pos)
    BY <1>5 DEF BoundAlike
  <2>3. ~Accepted(base, a.pos)
    BY <1>2, <2>1, <2>2, SameAccepted
  <2>4. QED
    BY <2>2, <2>3 DEF SameOutcome
<1>10. SuppliedPos' = b.pos
  <2>1. SuppliedPos' = FlattenSeq(PosOf(given \o written)) \o blocks
    BY <1>0, <1>8 DEF SuppliedPos, Supplied, PosOf
  <2>2. QED
    BY <1>5, <2>1
<1>11. b.pos \in Seq(Value)
  BY <1>5 DEF BoundAlike
<1>12. ASSUME NEW some, FitsInto(base, some, b.pos)
       PROVE  FALSE
  BY <1>3, <1>9, <1>11, <1>12, WhatFitsIsTaken
<1>13. QED
  BY <1>10, <1>12 DEF FitsInto

(***************************************************************************)
(* No step refuses what fits.                                              *)
(***************************************************************************)
LEMMA AcceptingStep ==
  ASSUME \A f \in Functions : OptionalTogether(f), CallsInv, StagedInv, AcceptsWhatFits, [Next]_vars
  PROVE  AcceptsWhatFits'
<1>1. ASSUME NEW spelling \in Spellings(base), Write(spelling) PROVE AcceptsWhatFits'
  BY <1>1, NothingRefused DEF Write, NotCalled, Outcomes
<1>2. ASSUME NEW blocks \in Blocks, Call(blocks) PROVE AcceptsWhatFits'
  BY <1>2, RefusedDoesNotFit
<1>3. CASE PartiallyApply
  <2> DEFINE none == <<>>
             r == FunctionWithImpl(fn, BuildCallArgs(written, none))
  <2>1. outcome = NotCalled /\ EndWith(r)
    BY <1>3 DEF PartiallyApply
  <2> HIDE DEF r
  <2>2. CASE r.faults # {}
    <3>1. outcome'.result = "unbound"
      BY <2>1, <2>2 DEF EndWith, Outcomes
    <3>2. QED
      BY <3>1, NothingRefused
  <2>3. CASE r.faults = {}
    <3>1. outcome' = NotCalled
      BY <2>1, <2>3 DEF EndWith
    <3>2. QED
      BY <3>1, NothingRefused DEF NotCalled, Outcomes
  <2>4. QED
    BY <2>2, <2>3
<1>4. CASE UNCHANGED vars
  <2>1. UNCHANGED <<fn, written, outcome, base, given>>
    BY <1>4 DEF vars
  <2>2. SuppliedPos' = SuppliedPos /\ Unspreadable(written)' = Unspreadable(written)
    BY <2>1 DEF SuppliedPos, Supplied
  <2>3. QED
    BY <2>1, <2>2 DEF AcceptsWhatFits
<1>5. QED
  BY <1>1, <1>2, <1>3, <1>4 DEF Next

(***************************************************************************)
(* A call is refused for its positional arguments only if there is no way  *)
(* to give them to the parameters, for functions of the shapes that        *)
(* builtins and closures have.                                             *)
(***************************************************************************)
THEOREM WhatFitsIsAccepted ==
  ASSUME \A f \in Functions : Steady(f) /\ OptionalTogether(f)
  PROVE  Spec => []AcceptsWhatFits
<1>1. Init => StagedInv /\ AcceptsWhatFits
  <2> SUFFICES ASSUME Init PROVE StagedInv /\ AcceptsWhatFits
    OBVIOUS
  <2>1. StandsFor(fn, base, given)
    BY NothingStands
  <2>2. fn = base /\ outcome.result = "none"
    BY DEF Init, NotCalled, Outcomes
  <2>3. QED
    BY <2>1, <2>2 DEF StagedInv, StagedAsOnce, AcceptsWhatFits
<1>2. CallsInv /\ StagedInv /\ [Next]_vars => StagedInv'
  BY StagedStep
<1>3. CallsInv /\ StagedInv /\ AcceptsWhatFits /\ [Next]_vars => AcceptsWhatFits'
  BY AcceptingStep
<1>4. QED
  BY <1>1, <1>2, <1>3, CallsInvariant, PTL DEF Spec
=============================================================================
