------------------------------ MODULE Calendar ------------------------------
(***************************************************************************)
(* How the Rust SDK reads a timestamp: the calendar arithmetic behind      *)
(* TeeAttestation::is_expired (rust/src/tee.rs) and Channel::is_expired    *)
(* (rust/src/models.rs), on i64 fields.  A text is its six numbers; the    *)
(* shape of the text around them is Attestation's concern.                 *)
(*                                                                         *)
(* The reference is the calendar itself: a walk from date to date, whose   *)
(* months are as long as days_in_month says, counting the days.            *)
(***************************************************************************)
EXTENDS Integers

CONSTANTS
    Starts,     \* dates a walk starts on
    Times,      \* times of day it stops at
    MaxDays,    \* bound on the days of a walk
    MaxInt      \* the largest integer: 2^63 - 1 in the code

\* Division in Rust drops the fraction, whatever the sign.
TruncDiv(a, b) == IF a >= 0 THEN a \div b ELSE -((-a) \div b)

IsLeapYear(year) == (year % 4 = 0 /\ year % 100 # 0) \/ year % 400 = 0

DaysInMonth(year, month) ==
    IF month \in {1, 3, 5, 7, 8, 10, 12} THEN 31
    ELSE IF month \in {4, 6, 9, 11} THEN 30
    ELSE IF month # 2 THEN 0
    ELSE IF IsLeapYear(year) THEN 29 ELSE 28

\* A year of an era counts from March, so that the leap day comes last.
DayOfYear(month, day) ==
    TruncDiv(153 * (IF month > 2 THEN month - 3 ELSE month + 9) + 2, 5) + day - 1

\* Eras of 400 years, of 146097 days each.
EraUnshifted(y) == TruncDiv(y, 400)     \* mutant: rounded towards year 0
Era(y) == TruncDiv(IF y >= 0 THEN y ELSE y - 399, 400)

DayOfEra(yoe, doy) == yoe * 365 + TruncDiv(yoe, 4) - TruncDiv(yoe, 100) + doy

\* The year that begins in March.
Shifted(year, month) == IF month <= 2 THEN year - 1 ELSE year

\* Days since 1970-01-01.
DaysFromCivil(year, month, day) ==
    LET y == Shifted(year, month)
    IN Era(y) * 146097 + DayOfEra(y - Era(y) * 400, DayOfYear(month, day)) - 719468

\* What chrono_like_parse takes, a leap second included.
Dates == {d \in [year : Int, month : 1..12, day : 1..31] : d.day <= DaysInMonth(d.year, d.month)}
ClockTimes == [hour : 0..23, minute : 0..59, second : 0..60]

\* Every text of the date is read without overflow.
Fits(date) ==
    DaysFromCivil(date.year, date.month, date.day)
        \in -(MaxInt \div 86400) .. (MaxInt \div 86400) - 2

TimeOfDay(time) == time.hour * 3600 + time.minute * 60 + time.second

\* Mutant: the seconds are dropped with the fraction.
MinutesOnly(date, time) ==
    DaysFromCivil(date.year, date.month, date.day) * 86400
        + time.hour * 3600 + time.minute * 60

\* The instant of a text, in seconds since 1970.
Seconds(date, time) ==
    DaysFromCivil(date.year, date.month, date.day) * 86400 + TimeOfDay(time)

-----------------------------------------------------------------------------
\* The calendar

NextDay(d) ==
    IF d.day < DaysInMonth(d.year, d.month) THEN [year |-> d.year, month |-> d.month, day |-> d.day + 1]
    ELSE IF d.month < 12 THEN [year |-> d.year, month |-> d.month + 1, day |-> 1]
    ELSE [year |-> d.year + 1, month |-> 1, day |-> 1]

ASSUME CalendarAssumption ==
    /\ Starts \subseteq Dates
    /\ Times \subseteq ClockTimes
    /\ MaxDays \in Nat
    /\ MaxInt \in Nat

VARIABLES start, today, time, walked
walkVars == <<start, today, time, walked>>

Start ==
    /\ start \in Starts
    /\ today = start
    /\ time \in Times
    /\ walked = 0

Later ==
    /\ time' \in {t \in Times : TimeOfDay(t) > TimeOfDay(time)}
    /\ UNCHANGED <<start, today, walked>>

Midnight ==
    /\ walked < MaxDays
    /\ today' = NextDay(today)
    /\ time' \in Times
    /\ walked' = walked + 1
    /\ UNCHANGED start

Walk == Later \/ Midnight

WalkSpec == Start /\ [][Walk]_walkVars

-----------------------------------------------------------------------------
\* Properties

\* The closed formula of days_from_civil counts the days of the calendar
\* days_in_month describes, across leap days, centuries and the year 0, and it
\* counts them from 1970-01-01.
DaysCounted ==
    /\ DaysFromCivil(1970, 1, 1) = 0
    /\ DaysFromCivil(today.year, today.month, today.day)
           = DaysFromCivil(start.year, start.month, start.day) + walked

\* A later text is read as a later instant, but for a leap second, which may be
\* read as the midnight it precedes: what expires first is found to expire
\* first.
LaterReadsLater ==
    [][Fits(today) /\ Fits(today') =>
          /\ Seconds(today', time') >= Seconds(today, time)
          /\ time.second < 60 => Seconds(today', time') > Seconds(today, time)]_walkVars
=============================================================================
