-------------------------- MODULE DurationsProofs --------------------------
(***************************************************************************)
(* The arithmetic of spans, for every range of days.                       *)
(***************************************************************************)
EXTENDS Durations, TLAPS

CanonicalSpans == {d \in [days : Days, time : -(Day - 1) .. Day - 1] : Canonical(d)}

LEMMA QuotientSplits ==
  ASSUME NEW n \in Int
  PROVE  /\ Quotient(n) \in Int
         /\ n - Quotient(n) * Day \in -(Day - 1) .. Day - 1
         /\ n >= 0 => n - Quotient(n) * Day >= 0
         /\ n <= 0 => n - Quotient(n) * Day <= 0
  BY DEF Quotient, Toward, Day

(* normalizeDuration keeps the span and puts it into canonical form, or    *)
(* refuses it.                                                             *)
THEOREM NormalizeCorrect ==
  ASSUME NEW days \in Days, NEW rest \in Int, NormalizeDuration(days, rest).ok
  PROVE  /\ Canonical(NormalizeDuration(days, rest).span)
         /\ Hours(NormalizeDuration(days, rest).span) = days * Day + rest
<1> DEFINE carry == Quotient(rest)
           left == rest - carry * Day
           d == Borrowed(days + carry, left)
<1>1. days \in Int /\ carry \in Int /\ left \in -(Day - 1) .. Day - 1
  BY QuotientSplits, MaxDaysAssumption DEF Days, MinDays
<1>2. days + carry \in Days /\ NormalizeDuration(days, rest).span = d
  BY DEF NormalizeDuration, Fits, TooLarge
<1>3. Canonical(d) /\ Hours(d) = (days + carry) * Day + left
  <2> HIDE DEF carry, left
  <2> QED BY <1>1, <1>2, MaxDaysAssumption DEF Borrowed, Duration, Canonical, Hours, Day, Days, MinDays
<1> QED BY <1>1, <1>2, <1>3 DEF Day

(* A sum or a difference of two spans is exact or refused, and refused     *)
(* only if the days leave their range.                                     *)
THEOREM DurationSumsExact ==
  ASSUME NEW a \in CanonicalSpans, NEW b \in CanonicalSpans
  PROVE  /\ AddDurations(a, b).ok =>
              Canonical(AddDurations(a, b).span)
              /\ Hours(AddDurations(a, b).span) = Hours(a) + Hours(b)
         /\ SubDurations(a, b).ok =>
              Canonical(SubDurations(a, b).span)
              /\ Hours(SubDurations(a, b).span) = Hours(a) - Hours(b)
<1>1. a.days \in Int /\ a.time \in Int /\ b.days \in Int /\ b.time \in Int
  BY MaxDaysAssumption DEF CanonicalSpans, Days, MinDays, Day
<1>2. ASSUME AddDurations(a, b).ok
      PROVE  Canonical(AddDurations(a, b).span)
             /\ Hours(AddDurations(a, b).span) = (a.days + b.days) * Day + (a.time + b.time)
  BY <1>1, <1>2, NormalizeCorrect DEF AddDurations, NormalizeOrTooLarge, TooLarge
<1>3. ASSUME SubDurations(a, b).ok
      PROVE  Canonical(SubDurations(a, b).span)
             /\ Hours(SubDurations(a, b).span) = (a.days - b.days) * Day + (a.time - b.time)
  BY <1>1, <1>3, NormalizeCorrect DEF SubDurations, NormalizeOrTooLarge, TooLarge
<1> QED BY <1>1, <1>2, <1>3 DEF Hours, Day

(* The lexicographic comparison of the halves is the comparison of the     *)
(* spans, and spans of equal length are equal field by field.              *)
THEOREM OrderedByLength ==
  ASSUME NEW a \in CanonicalSpans, NEW b \in CanonicalSpans
  PROVE  /\ CompareDurations(a, b) = CompareInts(Hours(a), Hours(b))
         /\ Hours(a) = Hours(b) => a = b
<1>1. /\ a.days \in Int /\ a.time \in -(Day - 1) .. Day - 1
      /\ b.days \in Int /\ b.time \in -(Day - 1) .. Day - 1
      /\ (a.days > 0 => a.time >= 0) /\ (a.days < 0 => a.time <= 0)
      /\ (b.days > 0 => b.time >= 0) /\ (b.days < 0 => b.time <= 0)
      /\ a = [days |-> a.days, time |-> a.time]
      /\ b = [days |-> b.days, time |-> b.time]
  BY MaxDaysAssumption DEF CanonicalSpans, Canonical, Days, MinDays, Day
<1>2. CompareDurations(a, b) = CompareInts(Hours(a), Hours(b))
  <2>1. Hours(a) \in Int /\ Hours(b) \in Int
    BY <1>1 DEF Hours, Day
  <2>2. CASE a.days < b.days
    <3>1. Hours(a) < Hours(b)
      BY <1>1, <2>2, SMTT(30) DEF Hours, Day
    <3> QED BY <1>1, <2>1, <2>2, <3>1 DEF CompareDurations, CompareInts
  <2>3. CASE b.days < a.days
    <3>1. Hours(b) < Hours(a)
      BY <1>1, <2>3 DEF Hours, Day
    <3> QED BY <1>1, <2>1, <2>3, <3>1 DEF CompareDurations, CompareInts
  <2>4. CASE a.days = b.days
    <3>1. /\ Hours(a) < Hours(b) <=> a.time < b.time
          /\ Hours(b) < Hours(a) <=> b.time < a.time
      BY <1>1, <2>4 DEF Hours, Day
    <3> QED BY <1>1, <2>1, <2>4, <3>1 DEF CompareDurations, CompareInts
  <2> QED BY <1>1, <2>2, <2>3, <2>4
<1>3. Hours(a) = Hours(b) => a.days = b.days /\ a.time = b.time
  BY <1>1 DEF Hours, Day
<1> QED BY <1>1, <1>2, <1>3

LEMMA TowardOne ==
  ASSUME NEW n \in Int
  PROVE  Toward(n, 1) = n
  BY DEF Toward

(* A span times a whole number is exact and canonical, or refused: the     *)
(* days that are carried out of the scaled remainder are not lost.         *)
THEOREM ScalingExact ==
  ASSUME NEW d \in CanonicalSpans, NEW n \in Int, ScaleDuration(d, n).ok
  PROVE  /\ Canonical(ScaleDuration(d, n).span)
         /\ Hours(ScaleDuration(d, n).span) = Hours(d) * n
<1> DEFINE days == d.days * n
           rest == d.time * n
           carry == Quotient(rest)
<1>1. d.days \in Int /\ d.time \in Int
  BY MaxDaysAssumption DEF CanonicalSpans, Days, MinDays, Day
<1>2. days \in Int /\ rest \in Int
  BY <1>1
<1>3. carry \in Int
  BY <1>2, QuotientSplits
<1>4. ScaleDuration(d, n) = NormalizeOrTooLarge(days + carry, rest - carry * Day)
  <2> HIDE DEF days, rest
  <2>1. Toward(rest, Day * 1) = carry
    BY <1>2 DEF Quotient, Day
  <2>2. Toward(days + carry * 1, 1) = days + carry
    BY <1>2, <1>3, TowardOne
  <2>3. Toward(rest - carry * Day * 1 + (days + carry * 1 - (days + carry) * 1) * Day, 1)
          = rest - carry * Day
    BY <1>2, <1>3, TowardOne DEF Day
  <2>4. FromParts(days, rest, 1) = NormalizeOrTooLarge(days + carry, rest - carry * Day)
    BY <2>1, <2>2, <2>3 DEF FromParts
  <2> QED BY <2>4 DEF ScaleDuration, days, rest
<1>5. Hours(d) * n = days * Day + rest
  BY <1>1 DEF Hours, Day
<1> HIDE DEF days, rest, carry
<1>6. days + carry \in Days /\ rest - carry * Day \in Int
  BY <1>2, <1>3, <1>4 DEF NormalizeOrTooLarge, TooLarge, Day
<1>7. NormalizeDuration(days + carry, rest - carry * Day).ok
  BY <1>4, <1>6 DEF NormalizeOrTooLarge
<1>8. (days + carry) * Day + (rest - carry * Day) = days * Day + rest
  BY <1>2, <1>3 DEF Day
<1> QED BY <1>4, <1>5, <1>6, <1>7, <1>8, NormalizeCorrect DEF NormalizeOrTooLarge

(* Adding and taking away whole rounds changes no remainder.               *)
LEMMA Wrapped ==
  ASSUME NEW t \in Int
  PROVE  /\ t \in Clock => WrapClock(t) = t
         /\ t > MaxClock /\ t - 2 * (MaxClock + 1) \in Clock => WrapClock(t) = t - 2 * (MaxClock + 1)
         /\ t < -MaxClock - 1 /\ t + 2 * (MaxClock + 1) \in Clock => WrapClock(t) = t + 2 * (MaxClock + 1)
  BY MaxClockAssumption DEF Clock, WrapClock

Datetimes == [kind : {"date", "time", "datetime"}, t : Clock]

(* A date or time that is moved by a span goes exactly as far as the span  *)
(* says, to the grain, or is refused: the direction alone tells that the   *)
(* time has wrapped, since no accepted span leads all the way around.  And *)
(* what can be held and is not too many days away is not refused.          *)
THEOREM ShiftsExact ==
  ASSUME NEW d \in Datetimes, NEW by \in CanonicalSpans
  PROVE  LET exact == d.t + by.days * Day + Toward(by.time, Grain) * Grain
         IN  /\ ShiftDatetime(d, by).ok => ShiftDatetime(d, by).span = Moved(d.kind, exact)
             /\ exact \in Clock /\ by.days \in -MaxShiftDays .. MaxShiftDays => ShiftDatetime(d, by).ok
<1> DEFINE time == Toward(by.time, Grain) * Grain
           exact == d.t + by.days * Day + time
           t == WrapClock(exact)
<1>1. /\ d.t \in Clock /\ by.days \in Int /\ by.time \in -(Day - 1) .. Day - 1
      /\ (by.days > 0 => by.time >= 0) /\ (by.days < 0 => by.time <= 0)
  BY MaxDaysAssumption DEF Datetimes, CanonicalSpans, Canonical, Days, MinDays, Day
<1>2. /\ time \in -(Day - 2) .. Day - 2
      /\ (by.days > 0 => time >= 0) /\ (by.days < 0 => time <= 0)
  BY <1>1 DEF Toward, Grain, Day
<1>3. MaxShiftDays \in Nat /\ MaxShiftDays * Day <= MaxClock
  BY MaxClockAssumption DEF MaxShiftDays, Day
<1> HIDE DEF time
<1> DEFINE moved == by.days * Day + time
<1>4. time \in Int /\ -(Day - 2) <= time /\ time <= Day - 2
  BY <1>2 DEF Day
<1>5. /\ moved \in Int /\ by.days \in Int
      /\ moved > 0 <=> by.days > 0 \/ (by.days = 0 /\ time > 0)
      /\ moved = 0 <=> by.days = 0 /\ time = 0
  BY <1>1, <1>2, <1>4 DEF Day
<1>6. CASE by.days \notin -MaxShiftDays .. MaxShiftDays
  BY <1>6 DEF ShiftDatetime, TooLarge
<1>7. CASE by.days \in -MaxShiftDays .. MaxShiftDays
  <2>1. ShiftDatetime(d, by) = MovedTo(d, by.days, time, t)
    BY <1>7 DEF ShiftDatetime, time
  <2>2. d.t \in Int /\ time \in Int /\ exact \in Int /\ exact - d.t = moved
    BY <1>1, <1>4, MaxClockAssumption DEF Clock, Day
  <2>3. moved >= -(MaxClock + Day - 2) /\ moved <= MaxClock + Day - 2
    <3>1. by.days <= MaxShiftDays /\ -MaxShiftDays <= by.days
      BY <1>1, <1>3, <1>7
    <3>2. by.days * Day <= MaxClock /\ -MaxClock <= by.days * Day
      BY <1>1, <1>3, <3>1, MaxClockAssumption DEF Day
    <3> QED BY <1>1, <1>4, <3>2, MaxClockAssumption DEF Day
  <2> HIDE DEF exact, moved
  <2>4. Forward(by.days, time) = (exact > d.t)
    BY <1>5, <2>2 DEF Forward
  <2>5. {by.days, time} = {0} <=> exact = d.t
    <3>1. by.days = 0 /\ time = 0 <=> exact = d.t
      BY <1>5, <2>2
    <3> QED BY <3>1
  <2>6. -MaxClock - 1 <= d.t /\ d.t <= MaxClock
    BY <1>1, MaxClockAssumption DEF Clock
  <2>7. CASE exact \in Clock
    <3>1. t = exact
      BY <2>2, <2>7, Wrapped
    <3> HIDE DEF t
    <3>2. MovedTo(d, by.days, time, t) = Fits(Moved(d.kind, exact))
      BY <2>4, <2>5, <3>1 DEF MovedTo
    <3> QED BY <2>1, <2>7, <3>2 DEF Fits, exact, t, time
  <2>8. CASE exact > MaxClock
    <3>1. t = exact - 2 * (MaxClock + 1) /\ exact > d.t /\ ~(t > d.t)
      <4>1. exact - 2 * (MaxClock + 1) \in Clock /\ exact - 2 * (MaxClock + 1) < d.t /\ exact > d.t
        BY <2>2, <2>3, <2>6, <2>8, MaxClockAssumption DEF Clock, Day
      <4> QED BY <2>2, <2>8, <4>1, Wrapped, MaxClockAssumption DEF Clock
    <3> HIDE DEF t
    <3>2. MovedTo(d, by.days, time, t) = TooLarge
      <4>1. {by.days, time} # {0}
        <5>1. exact # d.t
          BY <2>2, <2>6, <2>8, MaxClockAssumption
        <5> QED BY <2>5, <5>1
      <4>2. Forward(by.days, time) # (t > d.t)
        <5>1. exact > d.t /\ ~(t > d.t)
          BY <3>1
        <5> QED BY <2>4, <5>1
      <4> QED BY <4>1, <4>2 DEF MovedTo
    <3>3. exact \notin Clock
      BY <2>2, <2>8, MaxClockAssumption DEF Clock
    <3> QED BY <2>1, <3>2, <3>3 DEF TooLarge, exact, t, time
  <2>9. CASE exact < -MaxClock - 1
    <3>1. t = exact + 2 * (MaxClock + 1) /\ exact < d.t /\ t > d.t
      <4>1. exact + 2 * (MaxClock + 1) \in Clock /\ exact + 2 * (MaxClock + 1) > d.t /\ exact < d.t
        BY <2>2, <2>3, <2>6, <2>9, MaxClockAssumption DEF Clock, Day
      <4> QED BY <2>2, <2>9, <4>1, Wrapped, MaxClockAssumption DEF Clock
    <3> HIDE DEF t
    <3>2. MovedTo(d, by.days, time, t) = TooLarge
      BY <2>2, <2>4, <2>5, <3>1 DEF MovedTo
    <3>3. exact \notin Clock
      BY <2>2, <2>9, MaxClockAssumption DEF Clock
    <3> QED BY <2>1, <3>2, <3>3 DEF TooLarge, exact, t, time
  <2> QED BY <2>2, <2>7, <2>8, <2>9, MaxClockAssumption DEF Clock
<1> QED BY <1>6, <1>7 DEF time
=============================================================================
