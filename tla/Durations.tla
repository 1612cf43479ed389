----------------------------- MODULE Durations -----------------------------
(***************************************************************************)
(* Spans of time: whole days and a remainder of less than a day, kept in a *)
(* canonical form so that equal spans are equal field by field; and dates  *)
(* and times of day, which spans move.  The remainder is counted in hours; *)
(* the seconds and nanoseconds of the code are finer units of the same     *)
(* remainder.  What a date or time holds is coarser than what a span does. *)
(***************************************************************************)
EXTENDS Integers

CONSTANTS
  MaxDays, \* the largest count of days, math.MaxInt64 in the code
  MaxClock \* the latest time that can be held, in hours

Day == 24
Grain == 2 \* times are held in multiples of this: the code's whole seconds

ASSUME MaxDaysAssumption == MaxDays \in Nat \ {0}
ASSUME MaxClockAssumption == MaxClock \in Nat /\ MaxClock >= Day /\ (MaxClock + 1) % Grain = 0

MinDays == -MaxDays - 1
Days == MinDays .. MaxDays

\* Division rounds towards zero.
Toward(n, by) == IF n >= 0 THEN n \div by ELSE -((-n) \div by)
Quotient(n) == Toward(n, Day)

Duration(days, time) == [days |-> days, time |-> time]
Zero == Duration(0, 0)

\* A span that cannot be represented is refused.
Fits(d) == [ok |-> TRUE, span |-> d]
TooLarge == [ok |-> FALSE, span |-> Zero]

\* Whole days are carried out of the remainder, and the halves keep the sign
\* they had.
CarryOnly(days, rest) ==
  IF days + Quotient(rest) \notin Days THEN TooLarge
  ELSE Fits(Duration(days + Quotient(rest), rest - Quotient(rest) * Day))

\* The halves agree in sign: a day is borrowed back where they do not.
Borrowed(days, rest) ==
  IF rest < 0 /\ days > 0 THEN Duration(days - 1, rest + Day)
  ELSE IF rest > 0 /\ days < 0 THEN Duration(days + 1, rest - Day)
  ELSE Duration(days, rest)

NormalizeDuration(days, rest) ==
  IF days + Quotient(rest) \notin Days THEN TooLarge
  ELSE Fits(Borrowed(days + Quotient(rest), rest - Quotient(rest) * Day))

NormalizeOrTooLarge(days, rest) == IF days \in Days THEN NormalizeDuration(days, rest) ELSE TooLarge

\* duration(weeks:, days:, hours:); minutes and seconds are split as hours are.
NewDuration(weeks, days, hours) ==
  IF \E n \in {weeks * 7, weeks * 7 + days, weeks * 7 + days + Quotient(hours)} : n \notin Days
  THEN TooLarge
  ELSE NormalizeDuration(weeks * 7 + days + Quotient(hours), hours - Quotient(hours) * Day)

AddDurations(a, b) == NormalizeOrTooLarge(a.days + b.days, a.time + b.time)
SubDurations(a, b) == NormalizeOrTooLarge(a.days - b.days, a.time - b.time)
NegDuration(d) == IF d.days = MinDays THEN TooLarge ELSE Fits(Duration(-d.days, -d.time))

\* A span over a divisor, by > 0: what its halves add up to, cut to hours.
FromParts(days, rest, by) ==
  LET carry == Toward(rest, Day * by)
      whole == Toward(days + carry * by, by)
      fraction == days + carry * by - whole * by
  IN  NormalizeOrTooLarge(whole, Toward(rest - carry * Day * by + fraction * Day, by))
ScaleDuration(d, n) == FromParts(d.days * n, d.time * n, 1)
DivideDuration(d, n) ==
  IF n > 0 THEN FromParts(d.days, d.time, n) ELSE FromParts(-d.days, -d.time, -n)

\* Spans are ordered by their halves.
CompareInts(a, b) == IF a < b THEN -1 ELSE IF a > b THEN 1 ELSE 0
CompareDurations(a, b) ==
  IF CompareInts(a.days, b.days) # 0 THEN CompareInts(a.days, b.days) ELSE CompareInts(a.time, b.time)

\* What a span stands for.
Hours(d) == d.days * Day + d.time

-----------------------------------------------------------------------------
(* Dates and times of day.  A date is held as its midnight, a time of day  *)
(* as that of a fixed day; what is past the range wraps around silently.   *)

Datetime(kind, t) == [kind |-> kind, t |-> t]
Clock == -MaxClock - 1 .. MaxClock
WrapClock(t) == ((t + MaxClock + 1) % (2 * (MaxClock + 1))) - (MaxClock + 1)
MaxShiftDays == MaxClock \div Day

\* A date that is moved off midnight gains a time of day; a time of day
\* stays on its day.
Moved(kind, t) ==
  CASE kind = "time" -> Datetime("time", t % Day)
    [] kind = "date" -> Datetime(IF t % Day = 0 THEN "date" ELSE "datetime", t)
    [] kind = "datetime" -> Datetime("datetime", t)

\* What went the wrong way was wrapped.
Forward(days, time) == days > 0 \/ (days = 0 /\ time > 0)
MovedTo(d, days, time, t) ==
  IF {days, time} # {0} /\ Forward(days, time) # (t > d.t) THEN TooLarge
  ELSE Fits(Moved(d.kind, t))
ShiftDatetime(d, by) ==
  LET time == Toward(by.time, Grain) * Grain
  IN  IF by.days \notin -MaxShiftDays .. MaxShiftDays THEN TooLarge
      ELSE MovedTo(d, by.days, time, WrapClock(d.t + by.days * Day + time))

\* Both must have the same halves of the calendar.
DatetimeDifference(a, b) ==
  IF a.kind # b.kind \/ a.t - b.t \notin Clock THEN TooLarge
  ELSE NormalizeDuration(Quotient(a.t - b.t), a.t - b.t - Quotient(a.t - b.t) * Day)

\* The remainder is shorter than a day and never disagrees in sign.
Canonical(d) ==
  /\ d.days \in Days
  /\ d.time \in -(Day - 1) .. Day - 1
  /\ d.days > 0 => d.time >= 0
  /\ d.days < 0 => d.time <= 0
=============================================================================
