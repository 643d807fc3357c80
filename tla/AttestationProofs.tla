-------------------------- MODULE AttestationProofs --------------------------
(***************************************************************************)
(* Time in the SDKs.  First the dates of Calendar: days_from_civil counts  *)
(* days, for every year.  Then the checks of Attestation: the three SDKs   *)
(* agree on the protocol's timestamps, an attestation that has expired     *)
(* stays expired, and none passes for longer than it was signed for, for   *)
(* every set of TTLs and codes and however far the clock runs.             *)
(***************************************************************************)
EXTENDS Attestation, Calendar, TLAPS

-----------------------------------------------------------------------------
\* Calendar: the closed formula without the eras, then the length of every
\* month and year under it.

\* Days before year y, counted from year 0, both beginning in March.
DaysBefore(y) == 365 * y + y \div 4 - y \div 100 + y \div 400

\* The same number for 1970-01-01.
Epoch == 719468

LEMMA EpochType == Epoch \in Int
  BY SMT DEF Epoch

LEMMA EraFloors ==
    ASSUME NEW y \in Int
    PROVE  Era(y) = y \div 400
<1>1. CASE y >= 0
  BY <1>1 DEF Era, TruncDiv
<1>2. CASE y < 0
  <2>1. Era(y) = -((399 - y) \div 400)
    BY <1>2 DEF Era, TruncDiv
  <2>2. -((399 - y) \div 400) = y \div 400
    BY <1>2
  <2> QED
    BY <2>1, <2>2
<1> QED
  BY <1>1, <1>2

\* The eras of the code cancel out.
LEMMA ErasCancel ==
    ASSUME NEW y \in Int, NEW doy \in Int,
           NEW era \in Int, era = y \div 400,
           NEW yoe \in Int, yoe = y - era * 400
    PROVE  era * 146097 + DayOfEra(yoe, doy) = DaysBefore(y) + doy
<1>1. yoe \in 0..399
  OBVIOUS
<1>2. yoe \div 4 = y \div 4 - 100 * era
  OBVIOUS
<1>3. yoe \div 100 = y \div 100 - 4 * era
  OBVIOUS
<1>4. TruncDiv(yoe, 4) = yoe \div 4 /\ TruncDiv(yoe, 100) = yoe \div 100
  BY <1>1 DEF TruncDiv
<1>5. DayOfEra(yoe, doy) = yoe * 365 + (y \div 4 - 100 * era) - (y \div 100 - 4 * era) + doy
  BY <1>2, <1>3, <1>4 DEF DayOfEra
<1> QED
  BY <1>5, SMT DEF DaysBefore

LEMMA ClosedFormula ==
    ASSUME NEW year \in Int, NEW month \in 1..12, NEW day \in Int
    PROVE  DaysFromCivil(year, month, day)
               = DaysBefore(Shifted(year, month)) + DayOfYear(month, day) - Epoch
<1>1. PICK y \in Int : y = Shifted(year, month)
  BY DEF Shifted
<1>2. PICK era \in Int : era = y \div 400
  OBVIOUS
<1>3. PICK yoe \in Int : yoe = y - era * 400
  OBVIOUS
<1>4. PICK doy \in Int : doy = DayOfYear(month, day)
  BY DEF DayOfYear, TruncDiv
<1>5. Era(y) = era
  BY <1>2, EraFloors
<1>6. DayOfEra(y - Era(y) * 400, DayOfYear(month, day)) = DayOfEra(yoe, doy)
  BY <1>3, <1>4, <1>5
<1>7. DayOfEra(yoe, doy) \in Int
  BY DEF DayOfEra, TruncDiv
<1>8. DaysFromCivil(year, month, day) = era * 146097 + DayOfEra(yoe, doy) - 719468
  BY <1>1, <1>5, <1>6, SMT DEF DaysFromCivil
<1>9. era * 146097 + DayOfEra(yoe, doy) = DaysBefore(y) + doy
  BY <1>2, <1>3, ErasCancel, SMT
<1>10. DaysBefore(y) \in Int
  BY DEF DaysBefore
<1> QED
  BY <1>1, <1>4, <1>7, <1>8, <1>9, <1>10, SMT DEF Epoch

\* A year from March to February has 366 days when its February has 29.
LEMMA YearLength ==
    ASSUME NEW y \in Int
    PROVE  DaysBefore(y) - DaysBefore(y - 1) = IF IsLeapYear(y) THEN 366 ELSE 365
<1>1. y \div 4 - (y - 1) \div 4 = IF y % 4 = 0 THEN 1 ELSE 0
  OBVIOUS
<1>2. y \div 100 - (y - 1) \div 100 = IF y % 100 = 0 THEN 1 ELSE 0
  OBVIOUS
<1>3. y \div 400 - (y - 1) \div 400 = IF y % 400 = 0 THEN 1 ELSE 0
  OBVIOUS
<1>4. (y % 400 = 0 => y % 100 = 0) /\ (y % 100 = 0 => y % 4 = 0)
  OBVIOUS
<1> QED
  BY <1>1, <1>2, <1>3, <1>4 DEF DaysBefore, IsLeapYear

LEMMA CountTypes ==
    ASSUME NEW year \in Int, NEW month \in 1..12, NEW day \in Int
    PROVE  /\ Shifted(year, month) \in Int
           /\ DaysBefore(year) \in Int
           /\ DayOfYear(month, day) \in Int
           /\ Epoch \in Int
  BY EpochType DEF Shifted, DaysBefore, DayOfYear, TruncDiv

LEMMA SameMonth ==
    ASSUME NEW year \in Int, NEW month \in 1..12, NEW day \in Int
    PROVE  DaysFromCivil(year, month, day + 1) = DaysFromCivil(year, month, day) + 1
<1>1. DayOfYear(month, day + 1) = DayOfYear(month, day) + 1
  BY DEF DayOfYear, TruncDiv
<1>2. PICK y \in Int : y = Shifted(year, month)
  BY CountTypes
<1>3. DaysBefore(y) \in Int /\ DayOfYear(month, day) \in Int /\ Epoch \in Int
  BY CountTypes
<1>4. DaysFromCivil(year, month, day) = DaysBefore(y) + DayOfYear(month, day) - Epoch
  BY <1>2, ClosedFormula
<1>5. DaysFromCivil(year, month, day + 1) = DaysBefore(y) + DayOfYear(month, day + 1) - Epoch
  BY <1>2, ClosedFormula
<1> QED
  BY <1>1, <1>3, <1>4, <1>5

\* The end of February is the end of the shifted year.
LEMMA MarchFollows ==
    ASSUME NEW year \in Int
    PROVE  DaysFromCivil(year, 3, 1) = DaysFromCivil(year, 2, DaysInMonth(year, 2)) + 1
<1>1. PICK last \in Int : last = DaysInMonth(year, 2)
  BY DEF DaysInMonth
<1>2. DayOfYear(3, 1) = 0 /\ DayOfYear(2, last) = 336 + last
  BY DEF DayOfYear, TruncDiv
<1>3. Shifted(year, 2) = year - 1 /\ Shifted(year, 3) = year
  BY DEF Shifted
<1>4. DaysBefore(year) \in Int /\ DaysBefore(year - 1) \in Int /\ Epoch \in Int
  BY CountTypes
<1>5. DaysBefore(year) - DaysBefore(year - 1) = 337 + last
  <2>1. last = IF IsLeapYear(year) THEN 29 ELSE 28
    BY <1>1 DEF DaysInMonth
  <2> QED
    BY <2>1, YearLength
<1>6. DaysFromCivil(year, 3, 1) = DaysBefore(year) + 0 - Epoch
  BY <1>2, <1>3, ClosedFormula
<1>7. DaysFromCivil(year, 2, last) = DaysBefore(year - 1) + (336 + last) - Epoch
  BY <1>2, <1>3, ClosedFormula
<1> QED
  BY <1>1, <1>4, <1>5, <1>6, <1>7

LEMMA NextMonth ==
    ASSUME NEW year \in Int, NEW month \in 1..11, month # 2
    PROVE  DaysFromCivil(year, month + 1, 1)
               = DaysFromCivil(year, month, DaysInMonth(year, month)) + 1
<1>0. month \in 1..12 /\ month + 1 \in 1..12
  OBVIOUS
<1>1. PICK last \in Int : last = DaysInMonth(year, month)
  BY DEF DaysInMonth
<1>2. DayOfYear(month + 1, 1) = DayOfYear(month, last) + 1
  BY <1>1 DEF DayOfYear, TruncDiv, DaysInMonth
<1>3. PICK y \in Int : y = Shifted(year, month) /\ y = Shifted(year, month + 1)
  BY DEF Shifted
<1>4. DaysBefore(y) \in Int /\ DayOfYear(month, last) \in Int /\ Epoch \in Int
  BY <1>0, CountTypes
<1>5. DaysFromCivil(year, month, last) = DaysBefore(y) + DayOfYear(month, last) - Epoch
  BY <1>0, <1>3, ClosedFormula
<1>6. DaysFromCivil(year, month + 1, 1) = DaysBefore(y) + DayOfYear(month + 1, 1) - Epoch
  BY <1>0, <1>3, ClosedFormula
<1> QED
  BY <1>1, <1>2, <1>4, <1>5, <1>6

LEMMA NewYear ==
    ASSUME NEW year \in Int
    PROVE  DaysFromCivil(year + 1, 1, 1) = DaysFromCivil(year, 12, 31) + 1
<1>1. DayOfYear(1, 1) = 306 /\ DayOfYear(12, 31) = 305
  BY DEF DayOfYear, TruncDiv
<1>2. Shifted(year + 1, 1) = year /\ Shifted(year, 12) = year
  BY DEF Shifted
<1>3. DaysBefore(year) \in Int /\ Epoch \in Int
  BY CountTypes
<1>4. DaysFromCivil(year + 1, 1, 1) = DaysBefore(year) + 306 - Epoch
  BY <1>1, <1>2, ClosedFormula
<1>5. DaysFromCivil(year, 12, 31) = DaysBefore(year) + 305 - Epoch
  BY <1>1, <1>2, ClosedFormula
<1> QED
  BY <1>3, <1>4, <1>5

\* The day after, as the calendar has it, is one more for days_from_civil.
LEMMA NextDayCounts ==
    ASSUME NEW d \in Dates
    PROVE  /\ NextDay(d) \in Dates
           /\ DaysFromCivil(NextDay(d).year, NextDay(d).month, NextDay(d).day)
                  = DaysFromCivil(d.year, d.month, d.day) + 1
<1> PICK year \in Int, month \in 1..12, day \in 1..31 :
        d = [year |-> year, month |-> month, day |-> day]
  BY DEF Dates
<1>1. d.year = year /\ d.month = month /\ d.day = day
  OBVIOUS
<1>2. day <= DaysInMonth(year, month)
  BY DEF Dates
<1>3. DaysInMonth(year, month) \in 28..31
  BY DEF DaysInMonth
<1>4. CASE day < DaysInMonth(year, month)
  <2>1. NextDay(d) = [year |-> year, month |-> month, day |-> day + 1]
    BY <1>1, <1>4 DEF NextDay
  <2>2. NextDay(d) \in Dates
    BY <1>3, <1>4, <2>1 DEF Dates
  <2> QED
    BY <1>1, <2>1, <2>2, SameMonth
<1>5. CASE day = DaysInMonth(year, month) /\ month < 12
  <2>1. NextDay(d) = [year |-> year, month |-> month + 1, day |-> 1]
    BY <1>1, <1>5 DEF NextDay
  <2>2. 1 <= DaysInMonth(year, month + 1)
    BY <1>5 DEF DaysInMonth
  <2>3. NextDay(d) \in Dates
    BY <1>5, <2>1, <2>2 DEF Dates
  <2>4. DaysFromCivil(year, month + 1, 1) = DaysFromCivil(year, month, day) + 1
    BY <1>5, MarchFollows, NextMonth
  <2> QED
    BY <1>1, <2>1, <2>3, <2>4
<1>6. CASE day = DaysInMonth(year, month) /\ month = 12
  <2>1. NextDay(d) = [year |-> year + 1, month |-> 1, day |-> 1]
    BY <1>1, <1>6, <1>3 DEF NextDay
  <2>2. day = 31
    BY <1>6 DEF DaysInMonth
  <2>3. NextDay(d) \in Dates
    BY <2>1 DEF Dates, DaysInMonth
  <2> QED
    BY <1>1, <1>6, <2>1, <2>2, <2>3, NewYear
<1> QED
  BY <1>2, <1>3, <1>4, <1>5, <1>6

-----------------------------------------------------------------------------

\* What a walk keeps: the days between its start and today are counted.
WalkInv ==
    /\ start \in Dates
    /\ today \in Dates
    /\ walked \in Nat
    /\ DaysFromCivil(today.year, today.month, today.day)
           = DaysFromCivil(start.year, start.month, start.day) + walked

LEMMA DaysType ==
    ASSUME NEW d \in Dates
    PROVE  DaysFromCivil(d.year, d.month, d.day) \in Int
<1>1. PICK year \in Int, month \in 1..12, day \in Int :
        d.year = year /\ d.month = month /\ d.day = day
  BY DEF Dates
<1>2. PICK y \in Int : y = Shifted(year, month)
  BY CountTypes
<1>3. DaysBefore(y) \in Int /\ DayOfYear(month, day) \in Int /\ Epoch \in Int
  BY <1>1, CountTypes
<1>4. DaysFromCivil(year, month, day) = DaysBefore(y) + DayOfYear(month, day) - Epoch
  BY <1>2, ClosedFormula
<1> QED
  BY <1>1, <1>3, <1>4

LEMMA EpochCounts == DaysFromCivil(1970, 1, 1) = 0
<1>1. Shifted(1970, 1) = 1969 /\ DayOfYear(1, 1) = 306
  BY SMT DEF Shifted, DayOfYear, TruncDiv
<1>2. DaysFromCivil(1970, 1, 1) = DaysBefore(1969) + 306 - Epoch
  BY <1>1, ClosedFormula, SMT
<1>3. DaysBefore(1969) = 719162
  BY SMT DEF DaysBefore
<1> QED
  BY <1>2, <1>3, SMT DEF Epoch

LEMMA WalkCounts == WalkSpec => []WalkInv
<1>1. Start => WalkInv
  BY CalendarAssumption, DaysType DEF Start, WalkInv
<1>2. WalkInv /\ [Walk]_walkVars => WalkInv'
  <2> SUFFICES ASSUME WalkInv, [Walk]_walkVars PROVE WalkInv'
    OBVIOUS
  <2>1. CASE Later
    BY <2>1 DEF WalkInv, Later
  <2>2. CASE Midnight
    <3>1. DaysFromCivil(today.year, today.month, today.day) \in Int
          /\ DaysFromCivil(start.year, start.month, start.day) \in Int
      BY DaysType DEF WalkInv
    <3>2. today' \in Dates
          /\ DaysFromCivil(today'.year, today'.month, today'.day)
                = DaysFromCivil(today.year, today.month, today.day) + 1
      BY <2>2, NextDayCounts DEF WalkInv, Midnight
    <3> QED
      BY <2>2, <3>1, <3>2 DEF WalkInv, Midnight
  <2>3. CASE UNCHANGED walkVars
    BY <2>3 DEF WalkInv, walkVars
  <2> QED
    BY <2>1, <2>2, <2>3 DEF Walk
<1> QED
  BY <1>1, <1>2, PTL DEF WalkSpec

\* Whatever the dates, however long the walk: the closed formula counts the days
\* of the calendar, from 1970-01-01.
THEOREM CountsDays == WalkSpec => []DaysCounted
<1>1. WalkInv => DaysCounted
  BY EpochCounts DEF WalkInv, DaysCounted
<1> QED
  BY <1>1, WalkCounts, PTL

LEMMA DayLength ==
    ASSUME NEW t \in ClockTimes
    PROVE  /\ TimeOfDay(t) \in Int
           /\ 0 <= TimeOfDay(t)
           /\ TimeOfDay(t) <= 86400
           /\ t.second < 60 => TimeOfDay(t) < 86400
<1>1. PICK h \in 0..23, m \in 0..59, s \in 0..60 :
        t.hour = h /\ t.minute = m /\ t.second = s
  BY DEF ClockTimes
<1>2. TimeOfDay(t) = h * 3600 + m * 60 + s
  BY <1>1, SMT DEF TimeOfDay
<1> QED
  BY <1>1, <1>2, SMT

LEMMA SecondsStep ==
    ASSUME NEW d1, NEW d2, NEW t1 \in ClockTimes, NEW t2 \in ClockTimes, NEW days \in Int,
           DaysFromCivil(d1.year, d1.month, d1.day) = days,
           \/ /\ DaysFromCivil(d2.year, d2.month, d2.day) = days
              /\ TimeOfDay(t2) > TimeOfDay(t1)
           \/ DaysFromCivil(d2.year, d2.month, d2.day) = days + 1
    PROVE  /\ Seconds(d2, t2) >= Seconds(d1, t1)
           /\ t1.second < 60 => Seconds(d2, t2) > Seconds(d1, t1)
<1>1. PICK x \in Int : x = TimeOfDay(t1)
  BY DayLength, SMT
<1>2. PICK y \in Int : y = TimeOfDay(t2)
  BY DayLength, SMT
<1>3. 0 <= y /\ x <= 86400 /\ (t1.second < 60 => x < 86400)
  BY <1>1, <1>2, DayLength, SMT
<1>4. Seconds(d1, t1) = days * 86400 + x
  BY <1>1, SMT DEF Seconds
<1>5. CASE DaysFromCivil(d2.year, d2.month, d2.day) = days /\ y > x
  <2>1. Seconds(d2, t2) = days * 86400 + y
    BY <1>2, <1>5, SMT DEF Seconds
  <2> QED
    BY <1>4, <1>5, <2>1, SMT
<1>6. CASE DaysFromCivil(d2.year, d2.month, d2.day) = days + 1
  <2>1. Seconds(d2, t2) = (days + 1) * 86400 + y
    BY <1>2, <1>6, SMT DEF Seconds
  <2> QED
    BY <1>3, <1>4, <2>1, SMT
<1> QED
  BY <1>1, <1>2, <1>5, <1>6, SMT

\* A text that is later is never read as an earlier instant, whatever the dates.
THEOREM ReadsLater == WalkSpec => LaterReadsLater
<1> DEFINE Clock == time \in ClockTimes
<1>1. Start => Clock
  BY CalendarAssumption DEF Start
<1>2. Clock /\ [Walk]_walkVars => Clock'
  BY CalendarAssumption DEF Walk, Later, Midnight, walkVars
<1> DEFINE Step == Fits(today) /\ Fits(today') =>
                      /\ Seconds(today', time') >= Seconds(today, time)
                      /\ time.second < 60 => Seconds(today', time') > Seconds(today, time)
<1>3. WalkInv /\ Clock /\ [Walk]_walkVars => [Step]_walkVars
  <2> SUFFICES ASSUME WalkInv, time \in ClockTimes, Walk
               PROVE  /\ Seconds(today', time') >= Seconds(today, time)
                      /\ time.second < 60 => Seconds(today', time') > Seconds(today, time)
    BY DEF walkVars
  <2>1. time' \in ClockTimes
    BY CalendarAssumption DEF Walk, Later, Midnight
  <2>2. PICK days \in Int : days = DaysFromCivil(today.year, today.month, today.day)
    BY DaysType DEF WalkInv
  <2>3. CASE Later
    <3>1. today' = today /\ TimeOfDay(time') > TimeOfDay(time)
      BY <2>3 DEF Later
    <3> QED
      BY <2>1, <2>2, <3>1, SecondsStep
  <2>4. CASE Midnight
    <3>1. DaysFromCivil(today'.year, today'.month, today'.day) = days + 1
      BY <2>2, <2>4, NextDayCounts DEF Midnight, WalkInv
    <3> QED
      BY <2>1, <2>2, <3>1, SecondsStep
  <2> QED
    BY <2>3, <2>4 DEF Walk
<1>4. WalkSpec => [][Step]_walkVars
  <2> HIDE DEF Step, Clock
  <2> QED
    BY <1>1, <1>2, <1>3, WalkCounts, PTL DEF WalkSpec
<1> QED
  BY <1>4 DEF LaterReadsLater

-----------------------------------------------------------------------------
\* Attestation.


USE AttestationAssumption

\* A written text is a text, and means no later instant than it was written.
LEMMA WrittenMeans ==
    ASSUME NEW f \in Forms, NEW t \in Nat
    PROVE  /\ Written(f, t) \in Texts
           /\ Written(f, t).form = f
           /\ Meant(Written(f, t)) \in Int
           /\ Meant(Written(f, t)) <= t
<1>0. t \div 2 \in Int /\ t - 2 * (t \div 2) \in 0..1
  OBVIOUS
<1>1. f \in TextForms /\ f.offset \in Int /\ t \div 2 + f.offset \in Int
  BY <1>0 DEF TextForms
<1>2. CASE f.frac
  BY <1>0, <1>1, <1>2 DEF Written, Texts, Meant
<1>3. CASE ~f.frac
  BY <1>0, <1>1, <1>3 DEF Written, Texts, Meant
<1> QED
  BY <1>2, <1>3

\* A text in UTC is fresh, for each SDK, as long as the TTL lasts, and no
\* longer than a second after.
LEMMA FreshExactly ==
    ASSUME NEW x \in Texts, x.form.zone = "Z", NEW n \in Int, NEW t \in Nat,
           NEW s \in {"rust", "ts", "dart"}
    PROVE  /\ t - Meant(x) <= 2 * n => Fresh(s, x, n, t)
           /\ t - Meant(x) >= 2 * (n + 1) => ~Fresh(s, x, n, t)
<1> DEFINE age == t - (2 * x.wall + x.half)
<1>1. x.wall \in Int /\ x.half \in 0..1 /\ x.form.offset = 0
  BY DEF Texts, TextForms
<1>2. Meant(x) = 2 * x.wall + x.half /\ HostReads(x) = Meant(x)
  BY <1>1 DEF Meant, HostReads
<1>3. CASE s = "rust"
  <2>1. Fresh(s, x, n, t) <=> t \div 2 - x.wall <= n
    BY <1>3 DEF Fresh, RustFresh
  <2> QED
    BY <1>1, <1>2, <2>1
<1>4. CASE s = "ts"
  <2>1. Fresh(s, x, n, t) <=> t - Meant(x) <= 2 * n
    BY <1>2, <1>4 DEF Fresh, TsFresh
  <2> QED
    BY <1>1, <1>2, <2>1
<1>5. CASE s = "dart"
  <2>1. Fresh(s, x, n, t) <=> InSeconds(age) <= n
    BY <1>2, <1>5 DEF Fresh, DartFresh
  <2>2. CASE age >= 0
    <3>1. InSeconds(age) = age \div 2
      BY <2>2 DEF InSeconds
    <3> QED
      BY <1>1, <1>2, <2>1, <2>2, <3>1
  <2>3. CASE ~(age >= 0)
    <3>1. InSeconds(age) = -((-age) \div 2)
      BY <2>3 DEF InSeconds
    <3> QED
      BY <1>1, <1>2, <2>1, <2>3, <3>1
  <2> QED
    BY <2>2, <2>3
<1> QED
  BY <1>3, <1>4, <1>5

\* The clock does not make an expired text fresh, whatever its form.
LEMMA ExpiredForGood ==
    ASSUME NEW x \in Texts, NEW n \in Int, NEW t \in Nat, NEW s \in Sdks,
           ~Fresh(s, x, n, t)
    PROVE  ~Fresh(s, x, n, t + 1)
<1>1. x.wall \in Int /\ x.half \in 0..1 /\ x.form.offset \in Int
  BY DEF Texts, TextForms
<1>2. HostReads(x) \in Int
  BY <1>1 DEF HostReads, Meant
<1>3. CASE s = "rust"
  <2>1. t \div 2 <= (t + 1) \div 2
    OBVIOUS
  <2>2. t \div 2 \in Int /\ (t + 1) \div 2 \in Int
    OBVIOUS
  <2> QED
    BY <1>1, <1>3, <2>1, <2>2 DEF Fresh, RustFresh
<1>4. CASE s = "ts"
  BY <1>2, <1>4 DEF Fresh, TsFresh
<1>5. CASE s = "dart"
  <2> DEFINE d == t - HostReads(x)
  <2>1. d \in Int /\ (t + 1) - HostReads(x) = d + 1
    BY <1>2
  <2> HIDE DEF d
  <2>2. InSeconds(d) <= InSeconds(d + 1) /\ InSeconds(d) \in Int /\ InSeconds(d + 1) \in Int
    BY <2>1 DEF InSeconds
  <2>3. ~(InSeconds(d) <= n)
    BY <1>5 DEF Fresh, DartFresh, d
  <2>4. ~(InSeconds(d + 1) <= n)
    BY <2>2, <2>3
  <2> QED
    BY <1>5, <2>1, <2>4 DEF Fresh, DartFresh
<1> QED
  BY <1>3, <1>4, <1>5

\* Whatever its form, a text that is fresh is younger than the TTL, a second and
\* the shift of its zone.
LEMMA FreshBound ==
    ASSUME NEW x \in Texts, NEW n \in Int, NEW t \in Nat, NEW s \in {"rust", "ts", "dart"},
           Fresh(s, x, n, t)
    PROVE  t - Meant(x) < 2 * (n + 1) + Shift(s, x.form)
<1>1. /\ x.wall \in Int /\ x.half \in 0..1 /\ x.form.offset \in Int
      /\ x.form \in Forms /\ x.form.zone \in {"Z", "none", "offset"}
      /\ x.form.zone # "offset" => x.form.offset = 0
  BY DEF Texts, TextForms
<1>2. Meant(x) = 2 * (x.wall - x.form.offset) + x.half
  BY DEF Meant
<1> DEFINE read == HostReads(x)
<1>3. read \in Int /\ (s # "rust" => read = Meant(x) + Shift(s, x.form))
  BY <1>1, <1>2 DEF HostReads, Shift
<1>4. CASE s = "rust"
  <2>1. t \div 2 - x.wall <= n
    BY <1>4 DEF Fresh, RustFresh
  <2>2. Shift(s, x.form) = 2 * x.form.offset
    BY <1>1, <1>4 DEF Shift
  <2>3. t < 2 * (x.wall + n + 1)
    BY <1>1, <2>1
  <2> QED
    BY <1>1, <1>2, <2>2, <2>3
<1>5. CASE s = "ts"
  <2>1. t - read <= 2 * n
    BY <1>5 DEF Fresh, TsFresh
  <2> HIDE DEF read
  <2>2. Shift(s, x.form) \in Int /\ Meant(x) \in Int
    BY <1>1, <1>2, <1>5 DEF Shift
  <2> QED
    BY <1>3, <1>5, <2>1, <2>2
<1>6. CASE s = "dart"
  <2>1. InSeconds(t - read) <= n
    BY <1>6 DEF Fresh, DartFresh
  <2> HIDE DEF read
  <2>2. Shift(s, x.form) \in Int /\ Meant(x) \in Int
    BY <1>1, <1>2, <1>6 DEF Shift
  <2>3. CASE t - read >= 0
    <3>1. (t - read) \div 2 <= n
      BY <2>1, <2>3 DEF InSeconds
    <3>2. t - read < 2 * (n + 1)
      BY <1>3, <3>1
    <3> QED
      BY <1>3, <1>6, <2>2, <3>2
  <2>4. CASE t - read < 0
    <3>1. -((-(t - read)) \div 2) <= n
      BY <1>3, <2>1, <2>4 DEF InSeconds
    <3>2. t - read < 2 * (n + 1)
      BY <1>3, <2>4, <3>1
    <3> QED
      BY <1>3, <1>6, <2>2, <3>2
  <2> QED
    BY <1>3, <2>3, <2>4
<1> QED
  BY <1>4, <1>5, <1>6

\* A registry trusts as trust_code_hash does: a listed hash, or what is none.
LEMMA RegistryTrusts ==
    ASSUME NEW n \in 0..MaxListed, NEW listed \in [1..n -> Codes \cup {"missing", "malformed"}],
           LoadTrustedHashes(listed)
    PROVE  \E h \in Codes \cup {"malformed"} : TrustCodeHash(h)
<1>1. PICK i \in Loads(sdk, listed) : TrustCodeHash(listed[i])
  BY DEF LoadTrustedHashes
<1>2. i \in 1..n /\ listed[i] # "missing"
  BY DEF Loads
<1> QED
  BY <1>1, <1>2

-----------------------------------------------------------------------------
\* Types

\* Every variable always has its type.
THEOREM TypeCorrect == Spec => []TypeOK
<1> USE DEF TypeOK
<1>1. Init => TypeOK
  BY DEF Init, NoEntry, Verdicts
<1>2. TypeOK /\ [Next]_vars => TypeOK'
  <2> SUFFICES ASSUME TypeOK, [Next]_vars PROVE TypeOK'
    OBVIOUS
  <2>1. ASSUME NEW h \in Codes \cup {"malformed"}, TrustCodeHash(h) PROVE TypeOK'
    <3>1. /\ trusted' = h /\ cache'.hash = h /\ cache'.until = now + CacheTtl
          /\ UNCHANGED <<sdk, key, now, issued, verdict>>
      BY <2>1 DEF TrustCodeHash
    <3>2. now + CacheTtl \in Nat
      OBVIOUS
    <3> QED
      BY <3>1, <3>2
  <2>2. ASSUME NEW e \in issued, NEW a \in Relayed(e.claim), VerifyAttestation(a, e.claim)
        PROVE  TypeOK'
    <3>1. a \in Claims
      BY DEF Relayed, Claims, SupportedPlatforms
    <3>2. verdict' \in Verdicts(now)
      BY <2>2, <3>1 DEF VerifyAttestation, Verdicts
    <3>3. cache' \in {cache, NoEntry} /\ UNCHANGED <<sdk, key, now, issued, trusted>>
      BY <2>2 DEF VerifyAttestation
    <3>4. cache'.hash \in Codes \cup {NoCode, "malformed"} /\ cache'.until \in Nat /\ cache'.until <= now + CacheTtl
      BY <3>3 DEF NoEntry
    <3> QED
      BY <3>2, <3>3, <3>4
  <2>3. ASSUME NEW h \in Codes, NEW n \in Ttls, NEW f \in Forms, Issue(h, n, f)
        PROVE  TypeOK'
    <3>1. [platform |-> "aws_nitro", code |-> h, pcrs |-> "pcr0",
           text |-> Written(f, now), ttl |-> n] \in Claims
      BY WrittenMeans DEF Claims, SupportedPlatforms
    <3> QED
      BY <2>3, <3>1 DEF Issue
  <2>4. CASE Tick
    <3>1. 0..now \subseteq 0..(now + 1)
      OBVIOUS
    <3>2. Verdicts(now) \subseteq Verdicts(now + 1)
      BY <3>1 DEF Verdicts
    <3> QED
      BY <2>4, <3>2 DEF Tick
  <2>5. CASE UNCHANGED vars
    BY <2>5 DEF vars
  <2> QED
    BY <2>1, <2>2, <2>3, <2>4, <2>5, RegistryTrusts DEF Next
<1> QED
  BY <1>1, <1>2, PTL DEF Spec

-----------------------------------------------------------------------------
\* Freshness

\* The SDKs agree on the protocol's timestamps, the last second apart.
THEOREM Agreement == Spec => []SdksAgree
<1>1. TypeOK => SdksAgree
  <2> SUFFICES ASSUME TypeOK, NEW f \in Forms, NEW n \in Ttls, NEW w \in 0..MaxClock,
                      f.zone = "Z", NEW s \in {"rust", "ts", "dart"}
               PROVE  /\ now - Meant(Written(f, w)) <= 2 * n => Fresh(s, Written(f, w), n, now)
                      /\ now - Meant(Written(f, w)) >= 2 * (n + 1) => ~Fresh(s, Written(f, w), n, now)
    BY DEF SdksAgree
  <2>1. Written(f, w) \in Texts /\ Written(f, w).form = f
    BY WrittenMeans
  <2> QED
    BY <2>1, FreshExactly DEF TypeOK
<1> QED
  BY <1>1, TypeCorrect, PTL

\* An attestation that has expired stays expired.
THEOREM StaysExpired == Spec => ExpiredStaysExpired
<1>1. TypeOK /\ [Next]_vars =>
          [\A f \in Forms, n \in Ttls, w \in 0..MaxClock :
              LET x == Written(f, w)
              IN ~Fresh(sdk, x, n, now) => ~Fresh(sdk', x, n, now')]_vars
  <2> SUFFICES ASSUME TypeOK, [Next]_vars, NEW f \in Forms, NEW n \in Ttls,
                      NEW w \in 0..MaxClock, ~Fresh(sdk, Written(f, w), n, now)
               PROVE  ~Fresh(sdk', Written(f, w), n, now')
    OBVIOUS
  <2>1. sdk' = sdk /\ now' \in {now, now + 1}
    BY RegistryTrusts DEF Next, TrustCodeHash, VerifyAttestation, Issue, Tick, vars
  <2>2. Written(f, w) \in Texts
    BY WrittenMeans
  <2>3. ~Fresh(sdk, Written(f, w), n, now + 1)
    BY <2>2, ExpiredForGood DEF TypeOK
  <2> QED
    BY <2>1, <2>3
<1> QED
  BY <1>1, TypeCorrect, PTL DEF Spec, ExpiredStaysExpired

\* What the enclave signed means no later instant than when it did, and has pcr0.
Signed == \A e \in issued : Meant(e.claim.text) <= e.at /\ e.claim.pcrs = "pcr0"

\* An attestation that passes was signed, for its code, TTL and measurement, less
\* than the TTL and a second ago, the shift of a zone that was dropped or assumed
\* apart.
THEOREM PassesFresh == Spec => []AcceptedIsFresh
<1> DEFINE Inv == TypeOK /\ Signed /\ AcceptedIsFresh
<1>1. TypeOK /\ Init => Inv
  BY DEF Init, Signed, AcceptedIsFresh, NoVerdict
<1>2. Inv /\ TypeOK' /\ [Next]_vars => Inv'
  <2> SUFFICES ASSUME Inv, TypeOK', [Next]_vars PROVE Signed' /\ AcceptedIsFresh'
    OBVIOUS
  <2>1. ASSUME NEW h \in Codes \cup {"malformed"}, TrustCodeHash(h) PROVE Signed' /\ AcceptedIsFresh'
    BY <2>1 DEF TrustCodeHash, Signed, AcceptedIsFresh, Meant, Shift
  <2>2. ASSUME NEW e \in issued, NEW a \in Relayed(e.claim), VerifyAttestation(a, e.claim)
        PROVE  Signed' /\ AcceptedIsFresh'
    <3>1. Signed'
      BY <2>2 DEF VerifyAttestation, Signed, Meant
    <3>2. ASSUME Passes(a, e.claim)
          PROVE  /\ e.claim.code = a.code /\ e.claim.ttl = a.ttl /\ e.claim.pcrs = a.pcrs
                 /\ now - e.at < 2 * (a.ttl + 1) + Shift(sdk, a.text.form)
      <4>1. Fresh(sdk, a.text, a.ttl, now) /\ Canonical(e.claim) = Canonical(a)
        BY <3>2 DEF Passes, SignedBy
      <4>2. e.claim.code = a.code /\ e.claim.ttl = a.ttl /\ e.claim.text = a.text
        BY <4>1 DEF Canonical
      <4>3. e.claim.pcrs = a.pcrs
        BY <4>1 DEF Canonical, Pcr0, Signed
      <4>4. a.text \in Texts /\ a.ttl \in Int /\ e.at \in Nat
        BY <4>2 DEF TypeOK, Claims
      <4>5. now \in Nat /\ sdk \in {"rust", "ts", "dart"}
        BY DEF TypeOK
      <4>6. now - Meant(a.text) < 2 * (a.ttl + 1) + Shift(sdk, a.text.form)
        BY <4>1, <4>4, <4>5, FreshBound
      <4>7. Meant(a.text) <= e.at /\ Meant(a.text) \in Int
        <5>1. Meant(a.text) <= e.at
          BY <4>2 DEF Signed
        <5>2. a.text.wall \in Int /\ a.text.form.offset \in Int /\ a.text.half \in 0..1
          BY <4>4 DEF Texts, TextForms
        <5> QED
          BY <5>1, <5>2 DEF Meant
      <4>8. Shift(sdk, a.text.form) \in Int
        BY <4>4 DEF Shift, Texts, TextForms
      <4> QED
        BY <4>2, <4>3, <4>4, <4>5, <4>6, <4>7, <4>8
    <3>3. CASE Passes(a, e.claim)
      <4>1. verdict'.claim = a /\ verdict'.at = now /\ issued' = issued /\ sdk' = sdk
        BY <2>2, <3>3 DEF VerifyAttestation
      <4> QED
        BY <3>1, <3>2, <3>3, <4>1 DEF AcceptedIsFresh, Shift
    <3>4. CASE ~Passes(a, e.claim)
      BY <2>2, <3>1, <3>4 DEF VerifyAttestation, AcceptedIsFresh, NoVerdict
    <3> QED
      BY <3>3, <3>4
  <2>3. ASSUME NEW h \in Codes, NEW n \in Ttls, NEW f \in Forms, Issue(h, n, f)
        PROVE  Signed' /\ AcceptedIsFresh'
    <3>1. Meant(Written(f, now)) <= now
      BY WrittenMeans DEF TypeOK
    <3>2. issued \subseteq issued' /\ verdict' = verdict
      BY <2>3 DEF Issue
    <3>3. \A e \in issued' \ issued :
              e.claim.text = Written(f, now) /\ e.at = now /\ e.claim.pcrs = "pcr0"
      BY <2>3 DEF Issue
    <3>4. \A e \in issued' : Meant(e.claim.text) <= e.at /\ e.claim.pcrs = "pcr0"
      BY <3>1, <3>3 DEF Signed
    <3>5. Signed'
      BY <3>4 DEF Signed, Meant
    <3>6. sdk' = sdk
      BY <2>3 DEF Issue
    <3> QED
      BY <3>2, <3>5, <3>6 DEF AcceptedIsFresh, Shift
  <2>4. CASE Tick
    BY <2>4 DEF Tick, Signed, AcceptedIsFresh, Meant, Shift
  <2>5. CASE UNCHANGED vars
    BY <2>5 DEF vars, Signed, AcceptedIsFresh, Meant, Shift
  <2> QED
    BY <2>1, <2>2, <2>3, <2>4, <2>5, RegistryTrusts DEF Next
<1> HIDE DEF Inv
<1>3. Inv => AcceptedIsFresh
  BY DEF Inv
<1> QED
  BY <1>1, <1>2, <1>3, TypeCorrect, PTL DEF Spec

\* The cache never disagrees with the map behind it: both are written together,
\* and a check only ever empties the cache.
CacheIsTrusted == cache.hash \in {NoCode, trusted}

\* Whenever a check passes, the code is the one trusted last.
THEOREM PassesTrusted == Spec => AcceptsTrustedCode
<1>1. Init => CacheIsTrusted
  BY DEF Init, NoEntry, CacheIsTrusted
<1>2. CacheIsTrusted /\ [Next]_vars => CacheIsTrusted'
  BY RegistryTrusts DEF Next, TrustCodeHash, VerifyAttestation, Issue, Tick, vars, NoEntry,
     CacheIsTrusted
<1>3. CacheIsTrusted /\ [Next]_vars =>
          [verdict' # verdict /\ verdict'.ok /\ trusted # NoCode
              => verdict'.claim.code = trusted]_vars
  <2> SUFFICES ASSUME CacheIsTrusted, [Next]_vars, verdict' # verdict, verdict'.ok,
                      trusted # NoCode
               PROVE  verdict'.claim.code = trusted
    OBVIOUS
  <2>1. PICK e \in issued : \E a \in Relayed(e.claim) : VerifyAttestation(a, e.claim)
    BY RegistryTrusts DEF Next, TrustCodeHash, Issue, Tick, vars
  <2>2. PICK a \in Relayed(e.claim) : VerifyAttestation(a, e.claim)
    BY <2>1
  <2>3. Passes(a, e.claim) /\ verdict'.claim = a
    BY <2>2 DEF VerifyAttestation, NoVerdict
  <2>4. Expected = trusted
    BY DEF Expected, Cached, CacheIsTrusted
  <2> QED
    BY <2>3, <2>4 DEF Passes
<1> QED
  BY <1>1, <1>2, <1>3, PTL DEF Spec, AcceptsTrustedCode
=============================================================================
