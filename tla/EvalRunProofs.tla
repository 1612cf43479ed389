--------------------------- MODULE EvalRunProofs ----------------------------
(***************************************************************************)
(* Proofs about EvalRun for every call depth, nesting and amount of work:  *)
(* the call stack mirrors the activations, a run that was cut short is     *)
(* never handed out as exports, and an evaluation keeps its promise.       *)
(***************************************************************************)
EXTENDS EvalRun, TLAPS

FrameSet == [kind : {"closure", "builtin"}, counted : BOOLEAN, left : 0 .. Work]

(***************************************************************************)
(* Front drops the last entry and nothing else.                            *)
(***************************************************************************)
LEMMA FrontProperties ==
  ASSUME NEW S, NEW s \in Seq(S), s # <<>>
  PROVE  /\ Len(s) \in Nat \ {0}
         /\ Front(s) \in Seq(S)
         /\ Len(Front(s)) = Len(s) - 1
         /\ DOMAIN Front(s) = 1 .. Len(s) - 1
         /\ \A i \in 1 .. Len(s) - 1 : Front(s)[i] = s[i]
<1>1. Len(s) \in Nat \ {0}
  OBVIOUS
<1>2. Front(s) = [i \in 1 .. Len(s) - 1 |-> s[i]]
  BY <1>1 DEF Front
<1>3. \A i \in 1 .. Len(s) - 1 : s[i] \in S
  BY <1>1
<1>4. Front(s) \in Seq(S) /\ Len(Front(s)) = Len(s) - 1
  BY <1>1, <1>2, <1>3
<1>5. QED
  BY <1>1, <1>2, <1>4

-----------------------------------------------------------------------------
(* The call stack as a function of the activations.                        *)

(***************************************************************************)
(* Spending an instruction changes which activations are counted in        *)
(* nothing; neither does anything else that keeps length and marks.        *)
(***************************************************************************)
LEMMA MirrorsSame ==
  ASSUME NEW fs, NEW gs, NEW st, Mirrors(fs, st), DOMAIN gs = DOMAIN fs,
         \A i \in DOMAIN fs : gs[i].counted = fs[i].counted
  PROVE  Mirrors(gs, st)
BY DEF Mirrors

(***************************************************************************)
(* An activation that is not counted leaves the stack alone.               *)
(***************************************************************************)
LEMMA MirrorsAppend ==
  ASSUME NEW fs \in Seq(FrameSet), NEW st \in Seq(Nat), Mirrors(fs, st),
         NEW f \in FrameSet, ~f.counted
  PROVE  Mirrors(Append(fs, f), st)
<1> DEFINE gs == Append(fs, f)
<1>1. /\ DOMAIN gs = 1 .. Len(fs) + 1
      /\ DOMAIN fs = 1 .. Len(fs)
      /\ \A i \in 1 .. Len(fs) : gs[i] = fs[i]
      /\ gs[Len(fs) + 1] = f
  OBVIOUS
<1> HIDE DEF gs
<1>2. \A k \in DOMAIN st : st[k] \in DOMAIN gs /\ gs[st[k]].counted
  BY <1>1 DEF Mirrors
<1>3. \A i \in DOMAIN gs : gs[i].counted => \E k \in DOMAIN st : st[k] = i
  <2> SUFFICES ASSUME NEW i \in DOMAIN gs, gs[i].counted
               PROVE  \E k \in DOMAIN st : st[k] = i
    OBVIOUS
  <2>1. i \in DOMAIN fs /\ fs[i].counted
    BY <1>1
  <2>2. QED
    BY <2>1 DEF Mirrors
<1>4. QED
  BY <1>2, <1>3 DEF Mirrors, gs

(***************************************************************************)
(* pushCall: a counted activation goes on top of both.                     *)
(***************************************************************************)
LEMMA MirrorsPush ==
  ASSUME NEW fs \in Seq(FrameSet), NEW st \in Seq(Nat), Mirrors(fs, st),
         NEW f \in FrameSet, f.counted
  PROVE  Mirrors(Append(fs, f), Append(st, Len(fs) + 1))
<1> DEFINE gs == Append(fs, f)
           tt == Append(st, Len(fs) + 1)
<1>1. /\ DOMAIN gs = 1 .. Len(fs) + 1
      /\ DOMAIN fs = 1 .. Len(fs)
      /\ \A i \in 1 .. Len(fs) : gs[i] = fs[i]
      /\ gs[Len(fs) + 1] = f
  OBVIOUS
<1>2. /\ DOMAIN tt = 1 .. Len(st) + 1
      /\ DOMAIN st = 1 .. Len(st)
      /\ \A k \in 1 .. Len(st) : tt[k] = st[k]
      /\ tt[Len(st) + 1] = Len(fs) + 1
  OBVIOUS
<1>3. Len(fs) \in Nat /\ Len(st) \in Nat
  OBVIOUS
<1> HIDE DEF gs, tt
<1>4. \A k \in 1 .. Len(st) : st[k] \in 1 .. Len(fs) /\ fs[st[k]].counted
  BY <1>1, <1>2 DEF Mirrors
<1>5. \A k \in DOMAIN tt : tt[k] \in DOMAIN gs /\ gs[tt[k]].counted
  <2> SUFFICES ASSUME NEW k \in DOMAIN tt
               PROVE  tt[k] \in DOMAIN gs /\ gs[tt[k]].counted
    OBVIOUS
  <2>1. CASE k = Len(st) + 1
    BY <1>1, <1>2, <1>3, <2>1
  <2>2. CASE k \in 1 .. Len(st)
    BY <1>1, <1>2, <1>3, <1>4, <2>2
  <2>3. QED
    BY <1>2, <1>3, <2>1, <2>2
<1>6. \A j, k \in DOMAIN tt : j < k => tt[j] < tt[k]
  <2> SUFFICES ASSUME NEW j \in DOMAIN tt, NEW k \in DOMAIN tt, j < k
               PROVE  tt[j] < tt[k]
    OBVIOUS
  <2>1. j \in 1 .. Len(st) /\ tt[j] = st[j] /\ tt[j] \in 1 .. Len(fs)
    BY <1>2, <1>3, <1>4
  <2>2. CASE k = Len(st) + 1
    BY <1>2, <1>3, <2>1, <2>2
  <2>3. CASE k \in 1 .. Len(st)
    BY <1>2, <2>1, <2>3 DEF Mirrors
  <2>4. QED
    BY <1>2, <1>3, <2>2, <2>3
<1>7. \A i \in DOMAIN gs : gs[i].counted => \E k \in DOMAIN tt : tt[k] = i
  <2> SUFFICES ASSUME NEW i \in DOMAIN gs, gs[i].counted
               PROVE  \E k \in DOMAIN tt : tt[k] = i
    OBVIOUS
  <2>1. CASE i = Len(fs) + 1
    BY <1>2, <1>3, <2>1
  <2>2. CASE i \in 1 .. Len(fs)
    <3>1. PICK k \in DOMAIN st : st[k] = i
      BY <1>1, <2>2 DEF Mirrors
    <3>2. QED
      BY <1>2, <1>3, <3>1
  <2>3. QED
    BY <1>1, <1>3, <2>1, <2>2
<1>8. QED
  BY <1>5, <1>6, <1>7 DEF Mirrors, gs, tt

(***************************************************************************)
(* A return pops the stack exactly if the activation was counted.          *)
(***************************************************************************)
LEMMA MirrorsPop ==
  ASSUME NEW fs \in Seq(FrameSet), NEW st \in Seq(Nat), Mirrors(fs, st), fs # <<>>
  PROVE  /\ Front(fs) \in Seq(FrameSet)
         /\ Last(fs).counted => /\ st # <<>>
                                /\ Front(st) \in Seq(Nat)
                                /\ Len(Front(st)) = Len(st) - 1
                                /\ Mirrors(Front(fs), Front(st))
         /\ ~Last(fs).counted => Mirrors(Front(fs), st)
<1> DEFINE n == Len(fs)
           gs == Front(fs)
<1>1. n \in Nat \ {0} /\ DOMAIN fs = 1 .. n /\ Last(fs) = fs[n]
  BY DEF Last
<1>2. /\ gs \in Seq(FrameSet) /\ DOMAIN gs = 1 .. n - 1
      /\ \A i \in 1 .. n - 1 : gs[i] = fs[i]
  BY <1>1, FrontProperties
<1>3. DOMAIN st = 1 .. Len(st) /\ Len(st) \in Nat
  OBVIOUS
<1> HIDE DEF n, gs
<1>4. ASSUME fs[n].counted
      PROVE  /\ st # <<>>
             /\ Front(st) \in Seq(Nat)
             /\ Len(Front(st)) = Len(st) - 1
             /\ Mirrors(gs, Front(st))
  <2> DEFINE m == Len(st)
             tt == Front(st)
  <2>1. PICK k \in DOMAIN st : st[k] = n
    BY <1>1, <1>4 DEF Mirrors
  <2>2. m \in Nat \ {0} /\ st # <<>>
    BY <1>3, <2>1
  <2>3. k = m
    <3>1. CASE k < m
      <4>1. st[k] < st[m] /\ st[m] \in 1 .. n
        BY <1>1, <1>3, <2>1, <2>2, <3>1 DEF Mirrors
      <4>2. QED
        BY <1>1, <2>1, <4>1
    <3>2. QED
      BY <1>3, <2>1, <3>1
  <2>4. /\ tt \in Seq(Nat) /\ Len(tt) = m - 1 /\ DOMAIN tt = 1 .. m - 1
        /\ \A j \in 1 .. m - 1 : tt[j] = st[j]
    BY <2>2, FrontProperties
  <2> HIDE DEF m, tt
  <2>5. \A j \in 1 .. m - 1 : st[j] \in 1 .. n - 1 /\ fs[st[j]].counted
    <3> SUFFICES ASSUME NEW j \in 1 .. m - 1
                 PROVE  st[j] \in 1 .. n - 1 /\ fs[st[j]].counted
      OBVIOUS
    <3>1. j \in DOMAIN st /\ m \in DOMAIN st /\ j < m
      BY <1>3, <2>2 DEF m
    <3>2. st[j] < st[m] /\ st[m] = n
      BY <2>1, <2>3, <3>1 DEF Mirrors
    <3>3. st[j] \in 1 .. n /\ fs[st[j]].counted
      BY <1>1, <3>1 DEF Mirrors
    <3>4. QED
      BY <1>1, <3>2, <3>3
  <2>6. \A i, j \in 1 .. m - 1 : i < j => st[i] < st[j]
    <3>1. 1 .. m - 1 \subseteq DOMAIN st
      BY <1>3, <2>2 DEF m
    <3>2. QED
      BY <3>1 DEF Mirrors
  <2>7. \A i \in 1 .. n - 1 : fs[i].counted => \E j \in 1 .. m - 1 : st[j] = i
    <3> SUFFICES ASSUME NEW i \in 1 .. n - 1, fs[i].counted
                 PROVE  \E j \in 1 .. m - 1 : st[j] = i
      OBVIOUS
    <3> i \in DOMAIN fs
      BY <1>1
    <3>1. PICK j \in DOMAIN st : st[j] = i
      BY DEF Mirrors
    <3>2. j # m
      BY <1>1, <2>1, <2>3, <3>1
    <3>3. QED
      BY <1>3, <2>2, <3>1, <3>2 DEF m
  <2>8. QED
    BY <1>2, <2>2, <2>4, <2>5, <2>6, <2>7, ZenonT(30) DEF Mirrors, m, tt
<1>5. ASSUME ~fs[n].counted
      PROVE  Mirrors(gs, st)
  <2>1. \A k \in DOMAIN st : st[k] \in 1 .. n - 1 /\ fs[st[k]].counted
    <3> SUFFICES ASSUME NEW k \in DOMAIN st
                 PROVE  st[k] \in 1 .. n - 1 /\ fs[st[k]].counted
      OBVIOUS
    <3>1. st[k] \in 1 .. n /\ fs[st[k]].counted
      BY <1>1 DEF Mirrors
    <3>2. st[k] # n
      BY <1>5, <3>1
    <3>3. QED
      BY <1>1, <3>1, <3>2
  <2>2. \A i \in 1 .. n - 1 : fs[i].counted => \E k \in DOMAIN st : st[k] = i
    BY <1>1 DEF Mirrors
  <2>3. QED
    BY <1>2, <2>1, <2>2 DEF Mirrors
<1>6. QED
  BY <1>1, <1>2, <1>4, <1>5 DEF gs, n

-----------------------------------------------------------------------------
(* The inductive invariant.                                                *)

\* What a set flag says about the flags before it.
FlagsFollow ==
  /\ watch \in {"started", "done"} => cancelled
  /\ stopped => cancelled
  /\ halted => stopped
  /\ cut => halted

\* Where there are no activations, and what a finished evaluation ended with.
PhaseFits ==
  /\ phase \notin {"running", "realizing"} => frames = <<>>
  /\ outcome = "none" <=> phase # "returned"
  /\ outcome = "cause" => cancelled
  /\ outcome = "exports" => ~cut
  /\ phase \in {"start", "register", "enter"} => ~cut

IInv == TypeOK /\ StackMirrorsCalls /\ FlagsFollow /\ PhaseFits

(***************************************************************************)
(* What one instruction, or one element of a builtin, leaves behind.       *)
(***************************************************************************)
LEMMA SpentProperties ==
  ASSUME TypeOK, Mirrors(frames, stack), NEW kind, CanSpend(kind)
  PROVE  Spent \in Seq(FrameSet) /\ Mirrors(Spent, stack)
<1> DEFINE n == Len(frames)
<1>1. /\ frames \in Seq(FrameSet) /\ n \in Nat \ {0} /\ DOMAIN frames = 1 .. n
      /\ frames[n] \in FrameSet /\ frames[n].left > 0
  <2>1. frames \in Seq(FrameSet) /\ frames # <<>>
    BY DEF TypeOK, CanSpend, In, FrameSet
  <2>2. frames[n].left > 0
    BY DEF CanSpend, Top, Last
  <2> HIDE DEF FrameSet
  <2>3. QED
    BY <2>1, <2>2
<1>2. Work \in Nat
  BY EvalRunAssumption
<1>3. [frames[n] EXCEPT !.left = @ - 1] \in FrameSet
  BY <1>1, <1>2, SMTT(30) DEF FrameSet
<1>4. Spent = [frames EXCEPT ![n] = [frames[n] EXCEPT !.left = @ - 1]]
  BY <1>1 DEF Spent
<1> HIDE DEF n
<1>5. Spent \in Seq(FrameSet) /\ DOMAIN Spent = DOMAIN frames
  BY <1>1, <1>3, <1>4
<1>6. \A i \in DOMAIN frames : Spent[i].counted = frames[i].counted
  BY <1>1, <1>4 DEF FrameSet
<1>7. QED
  BY <1>5, <1>6, MirrorsSame

(***************************************************************************)
(* Entering an activation keeps the stack in step, and when it unwinds at  *)
(* once it says so.                                                        *)
(***************************************************************************)
LEMMA ActivateProperties ==
  ASSUME TypeOK, FlagsFollow, NEW below \in Seq(FrameSet), Mirrors(below, stack),
         Len(stack) <= MaxCallDepth,
         NEW counted \in BOOLEAN, counted => Len(stack) < MaxCallDepth,
         Activate(below, counted)
  PROVE  /\ frames' \in Seq(FrameSet) /\ stack' \in Seq(Nat)
         /\ Mirrors(frames', stack') /\ Len(stack') <= MaxCallDepth
         /\ halted' \in BOOLEAN /\ cut' \in BOOLEAN
         /\ halted' => stopped
         /\ cut' => halted'
<1> DEFINE f == Frame("closure", counted)
<1>1. f \in FrameSet /\ f.counted = counted
  BY EvalRunAssumption DEF Frame, FrameSet
<1>2. stack \in Seq(Nat) /\ halted \in BOOLEAN /\ cut \in BOOLEAN
  BY DEF TypeOK
<1>3. CASE stopped
  BY <1>2, <1>3 DEF Activate
<1>4. CASE ~stopped
  <2>1. /\ frames' = Append(below, f)
        /\ stack' = IF counted THEN Append(stack, Len(below) + 1) ELSE stack
        /\ UNCHANGED <<halted, cut>>
    BY <1>4 DEF Activate
  <2> HIDE DEF f
  <2>2. CASE counted
    <3>1. Mirrors(frames', stack')
      BY <1>1, <1>2, <2>1, <2>2, MirrorsPush
    <3>2. Len(stack') <= MaxCallDepth
      BY <1>2, <2>1, <2>2, EvalRunAssumption
    <3>3. frames' \in Seq(FrameSet) /\ stack' \in Seq(Nat)
      BY <1>1, <1>2, <2>1, <2>2
    <3>4. QED
      BY <1>2, <2>1, <3>1, <3>2, <3>3 DEF FlagsFollow
  <2>3. CASE ~counted
    <3>1. Mirrors(frames', stack')
      BY <1>1, <1>2, <2>1, <2>3, MirrorsAppend
    <3>2. QED
      BY <1>1, <1>2, <2>1, <2>3, <3>1 DEF FlagsFollow
  <2>4. QED
    BY <2>2, <2>3
<1>5. QED
  BY <1>3, <1>4

(***************************************************************************)
(* A return, ordinary or unwinding, keeps the stack in step.               *)
(***************************************************************************)
LEMMA PopProperties ==
  ASSUME TypeOK, StackMirrorsCalls, frames # <<>>, Pop
  PROVE  /\ frames' \in Seq(FrameSet) /\ stack' \in Seq(Nat)
         /\ Mirrors(frames', stack') /\ Len(stack') <= MaxCallDepth
<1>1. /\ frames \in Seq(FrameSet) /\ stack \in Seq(Nat)
      /\ Mirrors(frames, stack) /\ Len(stack) <= MaxCallDepth
  BY DEF TypeOK, StackMirrorsCalls, FrameSet
<1>2. CASE Last(frames).counted
  <2>1. stack' = Front(stack) /\ frames' = Front(frames)
    BY <1>2 DEF Pop, Top
  <2>2. QED
    BY <1>1, <1>2, <2>1, MirrorsPop, EvalRunAssumption
<1>3. CASE ~Last(frames).counted
  <2>1. stack' = stack /\ frames' = Front(frames)
    BY <1>3 DEF Pop, Top
  <2>2. QED
    BY <1>1, <1>3, <2>1, MirrorsPop
<1>4. QED
  BY <1>2, <1>3

(***************************************************************************)
(* Without activations there is nothing on the stack.                      *)
(***************************************************************************)
LEMMA EmptyMirrors == Mirrors(<<>>, <<>>)
BY DEF Mirrors

(***************************************************************************)
(* It holds before anything runs.                                          *)
(***************************************************************************)
LEMMA InitInvariant == Init => IInv
<1> SUFFICES ASSUME Init PROVE IInv
  OBVIOUS
<1>1. TypeOK
  <2>1. nodes \in 0 .. MaxNodes
    BY EvalRunAssumption DEF Init
  <2>2. frames \in Seq([kind : {"closure", "builtin"}, counted : BOOLEAN, left : 0 .. Work])
    BY DEF Init
  <2>3. stack \in Seq(Nat)
    BY DEF Init
  <2>4. QED
    BY <2>1, <2>2, <2>3 DEF Init, TypeOK
<1>2. StackMirrorsCalls
  BY EmptyMirrors, EvalRunAssumption DEF Init, StackMirrorsCalls
<1>3. FlagsFollow /\ PhaseFits
  BY DEF Init, FlagsFollow, PhaseFits
<1>4. QED
  BY <1>1, <1>2, <1>3 DEF IInv

(***************************************************************************)
(* Every step preserves the invariant.                                     *)
(***************************************************************************)
LEMMA StepInvariant == IInv /\ [Next]_vars => IInv'
<1> SUFFICES ASSUME IInv, [Next]_vars PROVE IInv'
  OBVIOUS
<1> USE DEF IInv
<1>0. /\ TypeOK /\ FlagsFollow /\ PhaseFits
      /\ frames \in Seq(FrameSet) /\ stack \in Seq(Nat)
      /\ Mirrors(frames, stack) /\ Len(stack) <= MaxCallDepth
  BY DEF TypeOK, StackMirrorsCalls, FrameSet
<1> HIDE DEF IInv
\* A step that touches neither activations nor stack.
<1>s. ASSUME UNCHANGED <<frames, stack>>
      PROVE  /\ frames' \in Seq(FrameSet) /\ stack' \in Seq(Nat) /\ StackMirrorsCalls'
  BY <1>0, <1>s DEF StackMirrorsCalls
<1>f. ASSUME frames' \in Seq(FrameSet), stack' \in Seq(Nat),
             Mirrors(frames', stack'), Len(stack') <= MaxCallDepth,
             halted' \in BOOLEAN, cut' \in BOOLEAN, nodes' \in 0 .. MaxNodes,
             halted' => stopped, cut' => halted',
             phase \in {"enter", "running", "realizing"},
             phase' \in {"running", "realizing"},
             UNCHANGED <<input, cancelled, watch, stopped, outcome>>
      PROVE  IInv'
  <2>1. TypeOK'
    BY <1>0, <1>f DEF TypeOK, FrameSet
  <2>2. StackMirrorsCalls'
    BY <1>f DEF StackMirrorsCalls
  <2>3. FlagsFollow'
    BY <1>0, <1>f DEF FlagsFollow
  <2>4. PhaseFits'
    BY <1>0, <1>f DEF PhaseFits
  <2>5. QED
    BY <2>1, <2>2, <2>3, <2>4 DEF IInv
<1>1. CASE Cancel
  BY <1>0, <1>1, <1>s DEF Cancel, IInv, TypeOK, FlagsFollow, PhaseFits, FrameSet
<1>2. CASE SetStopped
  BY <1>0, <1>2, <1>s DEF SetStopped, IInv, TypeOK, FlagsFollow, PhaseFits, FrameSet
<1>3. CASE ReportParseErrors
  BY <1>0, <1>3, <1>s DEF ReportParseErrors, Return, ctxVars, IInv, TypeOK, FlagsFollow, PhaseFits, FrameSet
<1>4. CASE CheckContext
  BY <1>0, <1>4, <1>s DEF CheckContext, Return, ctxVars, IInv, TypeOK, FlagsFollow, PhaseFits, FrameSet
<1>5. CASE Register
  BY <1>0, <1>5, <1>s DEF Register, IInv, TypeOK, FlagsFollow, PhaseFits, FrameSet
<1>6. CASE EnterTop
  <2>1. <<>> \in Seq(FrameSet) /\ Mirrors(<<>>, stack)
    BY <1>0, <1>6 DEF EnterTop, PhaseFits
  <2>2. Activate(<<>>, FALSE)
    BY <1>6 DEF EnterTop
  <2>3. QED
    BY <1>0, <1>6, <1>f, <2>1, <2>2, ActivateProperties DEF EnterTop, ctxVars, TypeOK
<1>7. CASE FinishTop
  <2>1. UNCHANGED <<input, cancelled, stopped, halted, frames, stack, nodes, cut>>
    BY <1>7 DEF FinishTop
  <2>2. watch' \in {"off", watch} /\ phase = "running" /\ frames = <<>>
    BY <1>7 DEF FinishTop, Deregister
  <2>3. CASE halted
    BY <1>0, <1>7, <1>s, <2>1, <2>2, <2>3 DEF FinishTop, Return, IInv, TypeOK, FlagsFollow, PhaseFits, FrameSet
  <2>4. CASE ~halted
    BY <1>0, <1>7, <1>s, <2>1, <2>2, <2>4 DEF FinishTop, AfterTop, Return, IInv, TypeOK, FlagsFollow, PhaseFits, FrameSet
  <2>5. QED
    BY <2>3, <2>4
<1>8. CASE CallClosure
  <2>1. Spent \in Seq(FrameSet) /\ Mirrors(Spent, stack)
    BY <1>0, <1>8, SpentProperties DEF CallClosure
  <2>2. Activate(Spent, TRUE) /\ Len(stack) < MaxCallDepth
    BY <1>8 DEF CallClosure
  <2>3. QED
    BY <1>0, <1>8, <1>f, <2>1, <2>2, ActivateProperties
       DEF CallClosure, CanSpend, Evaluating, ctxVars, TypeOK
<1>9. CASE Execute
  <2>1. Spent \in Seq(FrameSet) /\ Mirrors(Spent, stack)
    BY <1>0, <1>9, SpentProperties DEF Execute
  <2>2. QED
    BY <1>0, <1>9, <1>f, <2>1 DEF Execute, CanSpend, Evaluating, ctxVars, TypeOK, FlagsFollow
<1>10. CASE CallBuiltin
  <2>1. Spent \in Seq(FrameSet) /\ Mirrors(Spent, stack)
    BY <1>0, <1>10, SpentProperties DEF CallBuiltin
  <2>2. Frame("builtin", FALSE) \in FrameSet /\ ~Frame("builtin", FALSE).counted
    BY EvalRunAssumption DEF Frame, FrameSet
  <2>3. /\ frames' = Append(Spent, Frame("builtin", FALSE)) /\ stack' = stack
        /\ UNCHANGED <<input, phase, cancelled, watch, stopped, halted, nodes, outcome, cut>>
    BY <1>10 DEF CallBuiltin, ctxVars
  <2>4. Mirrors(frames', stack')
    BY <1>0, <2>1, <2>2, <2>3, MirrorsAppend
  <2>5. frames' \in Seq(FrameSet)
    <3> DEFINE f == Frame("builtin", FALSE)
    <3>1. f \in FrameSet /\ frames' = Append(Spent, f)
      BY <2>2, <2>3
    <3> HIDE DEF f
    <3>2. QED
      BY <2>1, <3>1
  <2>6. QED
    BY <1>0, <1>10, <1>f, <2>3, <2>4, <2>5 DEF CallBuiltin, CanSpend, Evaluating, TypeOK, FlagsFollow
<1>11. CASE ApplyCallback
  <2>1. Spent \in Seq(FrameSet) /\ Mirrors(Spent, stack)
    BY <1>0, <1>11, SpentProperties DEF ApplyCallback
  <2>2. Activate(Spent, FALSE)
    BY <1>11 DEF ApplyCallback
  <2>3. QED
    BY <1>0, <1>11, <1>f, <2>1, <2>2, ActivateProperties
       DEF ApplyCallback, CanSpend, Evaluating, ctxVars, TypeOK
<1>12. CASE Loop
  <2>1. CASE stopped
    <3>1. Pop /\ frames # <<>> /\ halted' = TRUE /\ cut' = TRUE
      BY <1>12, <2>1 DEF Loop, In
    <3>2. QED
      BY <1>0, <1>12, <1>f, <2>1, <3>1, PopProperties DEF Loop, IInv, Evaluating, ctxVars, TypeOK
  <2>2. CASE ~stopped
    <3>1. /\ frames' = [frames EXCEPT ![Len(frames)].left = Work] /\ frames # <<>>
          /\ UNCHANGED <<stack, halted, cut, input, phase, cancelled, watch, stopped, nodes, outcome>>
      BY <1>12, <2>2 DEF Loop, In, ctxVars
    <3>2. /\ frames' \in Seq(FrameSet) /\ DOMAIN frames' = DOMAIN frames
          /\ \A i \in DOMAIN frames : frames'[i].counted = frames[i].counted
      <4> DEFINE n == Len(frames)
      <4>1. n \in Nat \ {0} /\ DOMAIN frames = 1 .. n /\ \A i \in 1 .. n : frames[i] \in FrameSet
        BY <1>0, <3>1
      <4>2. [frames[n] EXCEPT !.left = Work] \in FrameSet
        BY <4>1, EvalRunAssumption DEF FrameSet
      <4>3. frames' = [frames EXCEPT ![n] = [frames[n] EXCEPT !.left = Work]]
        BY <3>1, <4>1
      <4> HIDE DEF n
      <4>4. frames' \in Seq(FrameSet) /\ DOMAIN frames' = DOMAIN frames
        BY <1>0, <4>1, <4>2, <4>3
      <4>5. QED
        BY <4>1, <4>3, <4>4 DEF FrameSet
    <3>3. Mirrors(frames', stack)
      BY <1>0, <3>2, MirrorsSame
    <3>4. QED
      BY <1>0, <1>12, <1>f, <3>1, <3>2, <3>3 DEF Loop, Evaluating, TypeOK, FlagsFollow
  <2>3. QED
    BY <2>1, <2>2
<1>13. CASE ReturnFrom
  <2>1. Pop /\ frames # <<>>
    BY <1>13 DEF ReturnFrom
  <2>2. QED
    BY <1>0, <1>13, <1>f, <2>1, PopProperties
       DEF ReturnFrom, IInv, Evaluating, ctxVars, TypeOK, FlagsFollow
<1>14. CASE CallTransform
  <2>1. <<>> \in Seq(FrameSet) /\ Mirrors(<<>>, stack)
    BY <1>0, <1>14 DEF CallTransform
  <2>2. Activate(<<>>, FALSE) /\ nodes > 0 /\ nodes' = nodes - 1
    BY <1>14 DEF CallTransform
  <2>3. nodes' \in 0 .. MaxNodes
    BY <1>0, <2>2, EvalRunAssumption DEF TypeOK
  <2>4. QED
    BY <1>0, <1>14, <1>f, <2>1, <2>2, <2>3, ActivateProperties DEF CallTransform, ctxVars, TypeOK
<1>15. CASE FinishRealizing
  BY <1>0, <1>15, <1>s DEF FinishRealizing, Return, ctxVars, IInv, TypeOK, FlagsFollow, PhaseFits, FrameSet
<1>16. CASE UNCHANGED vars
  BY <1>0, <1>16, <1>s DEF vars, ctxVars, IInv, TypeOK, FlagsFollow, PhaseFits, FrameSet
<1>17. QED
  BY <1>1, <1>2, <1>3, <1>4, <1>5, <1>6, <1>7, <1>8, <1>9, <1>10, <1>11, <1>12,
     <1>13, <1>14, <1>15, <1>16 DEF Next, Evaluate

(***************************************************************************)
(* So it always holds.                                                     *)
(***************************************************************************)
LEMMA Invariant == Spec => []IInv
<1>1. QED
  BY InitInvariant, StepInvariant, PTL DEF Spec

-----------------------------------------------------------------------------
(* What follows.                                                           *)

(***************************************************************************)
(* Every variable has its type, for every bound.                           *)
(***************************************************************************)
THEOREM TypeCorrect == Spec => []TypeOK
<1>1. IInv => TypeOK
  BY DEF IInv
<1>2. QED
  BY Invariant, <1>1, PTL

(***************************************************************************)
(* session.stack is the list of closure calls in progress: what evalCall   *)
(* compares with maxCallDepth and session.trace reports is never off by a  *)
(* call that was refused, halted or already over.                          *)
(***************************************************************************)
THEOREM StackCorrect == Spec => []StackMirrorsCalls
<1>1. IInv => StackMirrorsCalls
  BY DEF IInv
<1>2. QED
  BY Invariant, <1>1, PTL

(***************************************************************************)
(* EvalExports never hands out bindings of a run that was cut short.       *)
(***************************************************************************)
THEOREM ExportsCorrect == Spec => []ExportsAreWhole
<1>1. IInv => ExportsAreWhole
  BY DEF IInv, PhaseFits, ExportsAreWhole
<1>2. QED
  BY Invariant, <1>1, PTL

(***************************************************************************)
(* An evaluation of a source that parses, or of any document, keeps the    *)
(* promise of Evaluation: it ends once, and with the context's cause only  *)
(* if the context was cancelled.                                           *)
(***************************************************************************)
THEOREM PromiseKept ==
  ASSUME FALSE \notin Libraries
  PROVE  Spec => KeepsPromise
<1>1. Init => Promise!Init
  BY DEF Init, Promise!Init
<1>2. IInv /\ [Next]_vars => [Promise!Next]_<<cancelled, outcome>>
  <2> SUFFICES ASSUME IInv, [Next]_vars, <<cancelled, outcome>>' # <<cancelled, outcome>>
               PROVE  Promise!Next
    OBVIOUS
  <2>1. TypeOK /\ PhaseFits /\ FlagsFollow
    BY DEF IInv
  <2>2. CASE Cancel
    BY <2>2 DEF Cancel, Promise!Next, Promise!Cancel
  <2>3. CASE ReportParseErrors
    <3>1. input \in [kind : {"document", "exports"}, parses : BOOLEAN] /\ input \in Inputs
      BY <2>1, EvalRunAssumption DEF TypeOK, Inputs, Input
    <3>2. ~input.parses
      BY <2>3 DEF ReportParseErrors
    <3>3. input.kind = "document"
      <4>1. \E parses \in BOOLEAN : input.parses = parses
        BY <3>1
      <4>2. input.parses = FALSE
        BY <3>2, <4>1, Zenon
      <4>3. input \in {Input("document", parses) : parses \in Documents}
              \/ \E parses \in Libraries : input = Input("exports", parses)
        BY <3>1 DEF Inputs
      <4>4. ASSUME NEW parses \in Libraries, input = Input("exports", parses) PROVE FALSE
        BY <4>2, <4>4 DEF Input
      <4>5. QED
        BY <4>3, <4>4 DEF Input
    <3>4. QED
      BY <2>3, <3>3 DEF ReportParseErrors, ctxVars
  <2>4. CASE CheckContext
    BY <2>1, <2>4 DEF CheckContext, Return, ctxVars, PhaseFits, Promise!Next, Promise!Abort
  <2>5. CASE FinishTop
    BY <2>1, <2>5 DEF FinishTop, AfterTop, Return, PhaseFits, FlagsFollow,
                      Promise!Next, Promise!Abort, Promise!Finish, Promise!Made
  <2>6. CASE FinishRealizing
    BY <2>1, <2>6 DEF FinishRealizing, Return, ctxVars, PhaseFits,
                      Promise!Next, Promise!Finish, Promise!Made
  <2>7. QED
    BY <2>2, <2>3, <2>4, <2>5, <2>6
       DEF Next, Evaluate, SetStopped, Register, EnterTop, CallClosure, Execute,
           CallBuiltin, ApplyCallback, Loop, ReturnFrom, CallTransform, vars, ctxVars
<1>3. QED
  BY <1>1, <1>2, Invariant, PTL DEF Spec, KeepsPromise, Promise!Spec
=============================================================================
