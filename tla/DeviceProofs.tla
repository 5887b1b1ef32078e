---------------------------- MODULE DeviceProofs ----------------------------
(***************************************************************************)
(* Proofs about what stands on a device: the disk driver with the         *)
(* installer, for every number of sectors to install and every set of      *)
(* sectors of the disk; and the date and time, for every series of seconds *)
(* of the CMOS clock and every format of its registers.                    *)
(***************************************************************************)
EXTENDS MCPrograms, ProgramProofs, SeqLemmas, TLAPS

-----------------------------------------------------------------------------
(***************************************************************************)
(* The calendar: the days of a month and of a year.                        *)
(***************************************************************************)
LEMMA BeforeValues ==
  /\ Before[1] = 0 /\ Before[2] = 31 /\ Before[3] = 59 /\ Before[4] = 90
  /\ Before[5] = 120 /\ Before[6] = 151 /\ Before[7] = 181 /\ Before[8] = 212
  /\ Before[9] = 243 /\ Before[10] = 273 /\ Before[11] = 304 /\ Before[12] = 334
  /\ Before[13] = 365
  BY DEF Before

LEMMA LeapYears ==
  ASSUME NEW y \in Nat
  PROVE  IsLeap(y) <=> (y % 4 = 0 /\ (y % 100 # 0 \/ y % 400 = 0))
<1>1. y % 400 = 0 => y % 4 = 0
  OBVIOUS
<1> QED BY <1>1 DEF IsLeap

LEMMA QuotientSteps ==
  ASSUME NEW y \in Nat
  PROVE  /\ (y % 4 = 0) => y \div 4 = ((y - 1) \div 4) + 1
         /\ (y % 4 # 0) => y \div 4 = (y - 1) \div 4
         /\ (y % 100 = 0) => y \div 100 = ((y - 1) \div 100) + 1
         /\ (y % 100 # 0) => y \div 100 = (y - 1) \div 100
         /\ (y % 400 = 0) => y \div 400 = ((y - 1) \div 400) + 1
         /\ (y % 400 # 0) => y \div 400 = (y - 1) \div 400
         /\ (y % 400 = 0) => (y % 100 = 0)
         /\ (y % 100 = 0) => (y % 4 = 0)
<1>1. (y % 4 = 0) => y \div 4 = ((y - 1) \div 4) + 1
  OBVIOUS
<1>2. (y % 4 # 0) => y \div 4 = (y - 1) \div 4
  OBVIOUS
<1>3. (y % 100 = 0) => y \div 100 = ((y - 1) \div 100) + 1
  OBVIOUS
<1>4. (y % 100 # 0) => y \div 100 = (y - 1) \div 100
  OBVIOUS
<1>5. (y % 400 = 0) => y \div 400 = ((y - 1) \div 400) + 1
  OBVIOUS
<1>6. (y % 400 # 0) => y \div 400 = (y - 1) \div 400
  OBVIOUS
<1>7. (y % 400 = 0) => (y % 100 = 0)
  OBVIOUS
<1>8. (y % 100 = 0) => (y % 4 = 0)
  OBVIOUS
<1> QED BY <1>1, <1>2, <1>3, <1>4, <1>5, <1>6, <1>7, <1>8

Leaps(y) == (y - 1) \div 4 - (y - 1) \div 100 + (y - 1) \div 400

LEMMA DaysBeforeIs ==
  ASSUME NEW y \in Nat, NEW mo \in 1..13
  PROVE  /\ Leaps(y) \in Int
         /\ DaysBefore(y, mo) =
              365 * y + Leaps(y) + Before[mo] + IF mo > 2 /\ IsLeap(y) THEN 1 ELSE 0
         /\ DaysBefore(y, mo) \in Int
<1>1. Leaps(y) \in Int
  BY DEF Leaps
<1>2. Before[mo] \in Int
  BY BeforeValues
<1>3. DaysBefore(y, mo) =
        365 * y + Leaps(y) + Before[mo] + IF mo > 2 /\ IsLeap(y) THEN 1 ELSE 0
  BY LeapYears DEF DaysBefore, Leaps
<1> QED BY <1>1, <1>2, <1>3

(* days_in_month is the length of the month in the reference calendar.     *)
LEMMA MonthLength ==
  ASSUME NEW y \in Nat, NEW mo \in 1..12
  PROVE  /\ DaysInMonth(y, mo) = DaysBefore(y, mo + 1) - DaysBefore(y, mo)
         /\ DaysInMonth(y, mo) \in 28..31
<1> DEFINE leap == IF IsLeap(y) THEN 1 ELSE 0
           L == Leaps(y)
<1>1. L \in Int /\ leap \in {0, 1}
  BY DaysBeforeIs, 1 \in 1..13
<1>2. \A m \in 1..13 :
        DaysBefore(y, m) = 365 * y + L + Before[m] + IF m > 2 THEN leap ELSE 0
  BY DaysBeforeIs
<1> HIDE DEF L
<1>3. DaysInMonth(y, mo) =
        IF mo = 2 THEN 28 + leap ELSE IF mo \in {4, 6, 9, 11} THEN 30 ELSE 31
  BY DEF DaysInMonth
<1> HIDE DEF leap
<1>4. /\ DaysBefore(y, mo + 1) = 365 * y + L + Before[mo + 1] + IF mo + 1 > 2 THEN leap ELSE 0
      /\ DaysBefore(y, mo) = 365 * y + L + Before[mo] + IF mo > 2 THEN leap ELSE 0
  BY <1>2
<1>5. Before[mo + 1] - Before[mo] =
        IF mo = 2 THEN 28 ELSE IF mo \in {4, 6, 9, 11} THEN 30 ELSE 31
  BY BeforeValues
<1>6. Before[mo] \in Int /\ Before[mo + 1] \in Int
  BY BeforeValues
<1> QED BY <1>1, <1>3, <1>4, <1>5, <1>6

(* The first of January follows the 31st of December.                      *)
LEMMA YearLength ==
  ASSUME NEW y \in Nat
  PROVE  DaysBefore(y + 1, 1) = DaysBefore(y, 12) + 31
<1>1. Leaps(y + 1) = Leaps(y) + IF IsLeap(y) THEN 1 ELSE 0
  BY QuotientSteps, LeapYears DEF Leaps
<1>2. DaysBefore(y + 1, 1) = 365 * (y + 1) + Leaps(y + 1)
  BY DaysBeforeIs, BeforeValues, y + 1 \in Nat, 1 \in 1..13
<1>3. DaysBefore(y, 12) = 365 * y + Leaps(y) + 334 + IF IsLeap(y) THEN 1 ELSE 0
  BY DaysBeforeIs, BeforeValues, 12 \in 1..13
<1>4. Leaps(y) \in Int
  BY DaysBeforeIs, 1 \in 1..13
<1> QED BY <1>1, <1>2, <1>3, <1>4

LEMMA LastYearIsNat == LastYear \in Nat
  BY DEF LastYear

LEMMA DateFields ==
  ASSUME NEW t \in DateTime
  PROVE  /\ t.year \in 0..LastYear /\ t.month \in 0..255 /\ t.day \in 0..255
         /\ t.hour \in 0..255 /\ t.minute \in 0..255 /\ t.second \in 0..255
         /\ t = Time(t.year, t.month, t.day, t.hour, t.minute, t.second)
  BY DEF DateTime, Time

LEMMA TimeFields ==
  ASSUME NEW y, NEW mo, NEW d, NEW h, NEW mi, NEW s,
         y \in 0..LastYear, mo \in 0..255, d \in 0..255,
         h \in 0..255, mi \in 0..255, s \in 0..255
  PROVE  /\ Time(y, mo, d, h, mi, s) \in DateTime
         /\ Time(y, mo, d, h, mi, s).year = y
         /\ Time(y, mo, d, h, mi, s).month = mo
         /\ Time(y, mo, d, h, mi, s).day = d
         /\ Time(y, mo, d, h, mi, s).hour = h
         /\ Time(y, mo, d, h, mi, s).minute = mi
         /\ Time(y, mo, d, h, mi, s).second = s
  BY DEF DateTime, Time

LEMMA SetTimeOfDay ==
  ASSUME NEW t \in DateTime, NEW h \in 0..255, NEW mi \in 0..255
  PROVE  /\ [t EXCEPT !.second = 0, !.minute = mi] =
              Time(t.year, t.month, t.day, t.hour, mi, 0)
         /\ [t EXCEPT !.second = 0, !.minute = 0, !.hour = h] =
              Time(t.year, t.month, t.day, h, 0, 0)
<1> DEFINE z == 0
           y == [t EXCEPT !.second = z]
           u == [y EXCEPT !.minute = mi]
           x == [y EXCEPT !.minute = z]
           v == [x EXCEPT !.hour = h]
<1>z. z = 0 /\ z \in 0..255
  OBVIOUS
<1>1. /\ [t EXCEPT !.second = 0, !.minute = mi] = u
      /\ [t EXCEPT !.second = 0, !.minute = 0, !.hour = h] = v
  OBVIOUS
<1> HIDE DEF u, v, x, y, z
<1>2. /\ y \in DateTime /\ y.second = z
      /\ y.year = t.year /\ y.month = t.month /\ y.day = t.day /\ y.hour = t.hour
  BY <1>z DEF DateTime, y
<1>3. /\ u \in DateTime /\ u.second = y.second /\ u.minute = mi
      /\ u.year = y.year /\ u.month = y.month /\ u.day = y.day /\ u.hour = y.hour
  BY <1>2 DEF DateTime, u
<1>4. /\ x \in DateTime /\ x.second = y.second /\ x.minute = z
      /\ x.year = y.year /\ x.month = y.month /\ x.day = y.day
  BY <1>z, <1>2 DEF DateTime, x
<1>a. /\ v \in DateTime /\ v.second = x.second /\ v.minute = x.minute /\ v.hour = h
      /\ v.year = x.year /\ v.month = x.month /\ v.day = x.day
  BY <1>4 DEF DateTime, v
<1>5. /\ u.year = t.year /\ u.month = t.month /\ u.day = t.day /\ u.hour = t.hour
      /\ u.minute = mi /\ u.second = z
  BY <1>2, <1>3
<1>6. /\ v.year = t.year /\ v.month = t.month /\ v.day = t.day /\ v.hour = h
      /\ v.minute = z /\ v.second = z
  BY <1>2, <1>4, <1>a
<1>7. /\ u = Time(u.year, u.month, u.day, u.hour, u.minute, u.second)
      /\ v = Time(v.year, v.month, v.day, v.hour, v.minute, v.second)
  BY <1>3, <1>a, DateFields
<1>8. u = Time(t.year, t.month, t.day, t.hour, mi, 0)
  BY <1>5, <1>7, <1>z
<1>9. v = Time(t.year, t.month, t.day, h, 0, 0)
  BY <1>6, <1>7, <1>z
<1> QED BY <1>1, <1>8, <1>9

(* The cases of datetime_tick, each as the time it ends with.              *)
LEMMA TickedIs ==
  ASSUME NEW t \in DateTime
  PROVE  Ticked(t) =
           IF t.second < 59
           THEN Time(t.year, t.month, t.day, t.hour, t.minute, t.second + 1)
           ELSE IF t.minute < 59 THEN Time(t.year, t.month, t.day, t.hour, t.minute + 1, 0)
           ELSE IF t.hour < 23 THEN Time(t.year, t.month, t.day, t.hour + 1, 0, 0)
           ELSE IF t.day < DaysInMonth(t.year, t.month)
           THEN Time(t.year, t.month, t.day + 1, 0, 0, 0)
           ELSE IF t.month < 12 THEN Time(t.year, t.month + 1, 1, 0, 0, 0)
           ELSE Time((t.year + 1) % (LastYear + 1), 1, 1, 0, 0, 0)
<1>1. [t EXCEPT !.second = t.second + 1] =
      Time(t.year, t.month, t.day, t.hour, t.minute, t.second + 1)
  BY DEF DateTime, Time
<1>2. t.minute < 59 => [t EXCEPT !.second = 0, !.minute = t.minute + 1] =
                       Time(t.year, t.month, t.day, t.hour, t.minute + 1, 0)
  <2>1. t.minute < 59 => t.minute + 1 \in 0..255
    BY DateFields
  <2>2. 0 \in 0..255
    OBVIOUS
  <2> QED BY <2>1, <2>2, SetTimeOfDay, ZenonT(30)
<1>3. t.hour < 23 => [t EXCEPT !.second = 0, !.minute = 0, !.hour = t.hour + 1] =
                     Time(t.year, t.month, t.day, t.hour + 1, 0, 0)
  <2>1. t.hour < 23 => t.hour + 1 \in 0..255
    BY DateFields
  <2>2. 0 \in 0..255
    OBVIOUS
  <2> QED BY <2>1, <2>2, SetTimeOfDay, ZenonT(30)
<1> QED BY <1>1, <1>2, <1>3 DEF Ticked

(* A date there is has no more days than its month.                        *)
LEMMA RealIs ==
  ASSUME NEW t \in DateTime
  PROVE  Real(t) <=> /\ t.month \in 1..12
                     /\ t.day \in 1..DaysInMonth(t.year, t.month)
                     /\ t.hour \in 0..23 /\ t.minute \in 0..59 /\ t.second \in 0..59
<1>1. t.year \in Nat
  BY DateFields
<1>2. t.month \in 1..12 =>
        DaysInMonth(t.year, t.month) =
          DaysBefore(t.year, t.month + 1) - DaysBefore(t.year, t.month)
  BY <1>1, MonthLength
<1> QED BY <1>2 DEF Real

LEMMA TimeIsReal ==
  ASSUME NEW y, NEW mo, NEW d, NEW h, NEW mi, NEW s,
         y \in 0..LastYear, mo \in 1..12, d \in 1..DaysInMonth(y, mo),
         h \in 0..23, mi \in 0..59, s \in 0..59
  PROVE  /\ Time(y, mo, d, h, mi, s) \in DateTime
         /\ Real(Time(y, mo, d, h, mi, s))
         /\ Stamp(Time(y, mo, d, h, mi, s)) = <<DaysBefore(y, mo) + d, 60 * (60 * h + mi) + s>>
<1> DEFINE t == Time(y, mo, d, h, mi, s)
<1>1. y \in Nat
  BY LastYearIsNat
<1>2. DaysInMonth(y, mo) \in 28..31
  BY <1>1, MonthLength
<1>3. mo \in 0..255 /\ d \in 0..255 /\ h \in 0..255 /\ mi \in 0..255 /\ s \in 0..255
  BY <1>2
<1>4. /\ t \in DateTime
      /\ t.year = y /\ t.month = mo /\ t.day = d
      /\ t.hour = h /\ t.minute = mi /\ t.second = s
  BY <1>3, TimeFields
<1> HIDE DEF t
<1>5. Real(t)
  BY <1>4, RealIs
<1>6. Stamp(t) = <<DaysBefore(y, mo) + d, 60 * (60 * h + mi) + s>>
  BY <1>4 DEF Stamp
<1> QED BY <1>4, <1>5, <1>6 DEF t

(* datetime_tick goes to the next second, over every end.                  *)
LEMMA NextSecondOf ==
  ASSUME NEW y \in 0..LastYear, NEW mo \in 1..12, NEW d \in 1..DaysInMonth(y, mo),
         NEW h \in 0..23, NEW mi \in 0..59, NEW s \in 0..59, y < LastYear
  PROVE  LET t == Time(y, mo, d, h, mi, s) IN
         /\ Ticked(t) \in DateTime /\ Real(Ticked(t)) /\ Successive(t, Ticked(t))
<1> DEFINE t == Time(y, mo, d, h, mi, s)
           Day == DaysBefore(y, mo) + d
           Sec == 60 * (60 * h + mi) + s
<1>1. t \in DateTime /\ Stamp(t) = <<Day, Sec>>
  BY TimeIsReal
<1>2. y \in Nat /\ y + 1 \in 0..LastYear
  BY LastYearIsNat
<1>3. /\ DaysInMonth(y, mo) \in 28..31 /\ DaysBefore(y, mo) \in Int
      /\ DaysBefore(y, mo + 1) = DaysBefore(y, mo) + DaysInMonth(y, mo)
  <2>1. DaysBefore(y, mo) \in Int /\ DaysBefore(y, mo + 1) \in Int
    BY <1>2, DaysBeforeIs
  <2> QED BY <1>2, <2>1, MonthLength
<1>4. Ticked(t) =
        IF s < 59 THEN Time(y, mo, d, h, mi, s + 1)
        ELSE IF mi < 59 THEN Time(y, mo, d, h, mi + 1, 0)
        ELSE IF h < 23 THEN Time(y, mo, d, h + 1, 0, 0)
        ELSE IF d < DaysInMonth(y, mo) THEN Time(y, mo, d + 1, 0, 0, 0)
        ELSE IF mo < 12 THEN Time(y, mo + 1, 1, 0, 0, 0)
        ELSE Time((y + 1) % (LastYear + 1), 1, 1, 0, 0, 0)
  <2>1. mo \in 0..255 /\ d \in 0..255 /\ h \in 0..255 /\ mi \in 0..255 /\ s \in 0..255
    BY <1>3
  <2>2. t.year = y /\ t.month = mo /\ t.day = d /\ t.hour = h /\ t.minute = mi /\ t.second = s
    BY <2>1, TimeFields
  <2> HIDE DEF t
  <2>3. Ticked(t) =
           IF t.second < 59
           THEN Time(t.year, t.month, t.day, t.hour, t.minute, t.second + 1)
           ELSE IF t.minute < 59 THEN Time(t.year, t.month, t.day, t.hour, t.minute + 1, 0)
           ELSE IF t.hour < 23 THEN Time(t.year, t.month, t.day, t.hour + 1, 0, 0)
           ELSE IF t.day < DaysInMonth(t.year, t.month)
           THEN Time(t.year, t.month, t.day + 1, 0, 0, 0)
           ELSE IF t.month < 12 THEN Time(t.year, t.month + 1, 1, 0, 0, 0)
           ELSE Time((t.year + 1) % (LastYear + 1), 1, 1, 0, 0, 0)
    BY <1>1, TickedIs
  <2> QED BY <2>2, <2>3
<1>5. ASSUME NEW u \in DateTime, Ticked(t) = u, Real(u),
             \/ Stamp(u) = <<Day, Sec + 1>>
             \/ Sec = 24 * 60 * 60 - 1 /\ Stamp(u) = <<Day + 1, 0>>
      PROVE  Ticked(t) \in DateTime /\ Real(Ticked(t)) /\ Successive(t, Ticked(t))
  BY <1>1, <1>5 DEF Successive
<1> HIDE DEF t
<1>6. CASE s < 59
  <2> DEFINE u == Time(y, mo, d, h, mi, s + 1)
  <2>1. s + 1 \in 0..59
    BY <1>6
  <2>2. u \in DateTime /\ Real(u)
        /\ Stamp(u) = <<DaysBefore(y, mo) + d, 60 * (60 * h + mi) + (s + 1)>>
    BY <2>1, TimeIsReal
  <2>3. 60 * (60 * h + mi) + (s + 1) = Sec + 1
    OBVIOUS
  <2>4. Ticked(t) = u
    BY <1>4, <1>6
  <2> HIDE DEF u
  <2> QED BY <1>5, <2>2, <2>3, <2>4 DEF t
<1>7. CASE ~(s < 59) /\ mi < 59
  <2> DEFINE u == Time(y, mo, d, h, mi + 1, 0)
  <2>1. mi + 1 \in 0..59 /\ 0 \in 0..59
    BY <1>7
  <2>2. u \in DateTime /\ Real(u)
        /\ Stamp(u) = <<DaysBefore(y, mo) + d, 60 * (60 * h + (mi + 1)) + 0>>
    BY <2>1, TimeIsReal
  <2>3. 60 * (60 * h + (mi + 1)) + 0 = Sec + 1
    BY <1>7
  <2>4. Ticked(t) = u
    BY <1>4, <1>7
  <2> HIDE DEF u
  <2> QED BY <1>5, <2>2, <2>3, <2>4 DEF t
<1>8. CASE ~(s < 59) /\ ~(mi < 59) /\ h < 23
  <2> DEFINE u == Time(y, mo, d, h + 1, 0, 0)
  <2>1. h + 1 \in 0..23 /\ 0 \in 0..59
    BY <1>8
  <2>2. u \in DateTime /\ Real(u)
        /\ Stamp(u) = <<DaysBefore(y, mo) + d, 60 * (60 * (h + 1) + 0) + 0>>
    BY <2>1, TimeIsReal
  <2>3. 60 * (60 * (h + 1) + 0) + 0 = Sec + 1
    BY <1>8
  <2>4. Ticked(t) = u
    BY <1>4, <1>8
  <2> HIDE DEF u
  <2> QED BY <1>5, <2>2, <2>3, <2>4 DEF t
<1>9. CASE ~(s < 59) /\ ~(mi < 59) /\ ~(h < 23)
  <2>1. Sec = 24 * 60 * 60 - 1
    BY <1>9
  <2>2. ASSUME NEW y2 \in 0..LastYear, NEW mo2 \in 1..12, NEW d2 \in 1..DaysInMonth(y2, mo2),
               Ticked(t) = Time(y2, mo2, d2, 0, 0, 0),
               DaysBefore(y2, mo2) + d2 = Day + 1
        PROVE  Ticked(t) \in DateTime /\ Real(Ticked(t)) /\ Successive(t, Ticked(t))
    <3> DEFINE u == Time(y2, mo2, d2, 0, 0, 0)
    <3>1. 0 \in 0..23 /\ 0 \in 0..59
      OBVIOUS
    <3>2. u \in DateTime /\ Real(u)
          /\ Stamp(u) = <<DaysBefore(y2, mo2) + d2, 60 * (60 * 0 + 0) + 0>>
      BY <3>1, TimeIsReal
    <3>3. 60 * (60 * 0 + 0) + 0 = 0
      OBVIOUS
    <3> HIDE DEF u
    <3>4. Ticked(t) = u
      BY <2>2 DEF u
    <3> HIDE DEF Sec, Day
    <3> QED BY <1>5, <2>1, <2>2, <3>2, <3>3, <3>4
  <2>3. CASE d < DaysInMonth(y, mo)
    <3>1. d + 1 \in 1..DaysInMonth(y, mo)
      BY <1>3, <2>3
    <3>2. Ticked(t) = Time(y, mo, d + 1, 0, 0, 0)
      BY <1>4, <1>9, <2>3
    <3>3. DaysBefore(y, mo) + (d + 1) = Day + 1
      BY <1>3
    <3> HIDE DEF Day, Sec
    <3> QED BY <2>2, <3>1, <3>2, <3>3 DEF t
  <2>4. CASE ~(d < DaysInMonth(y, mo)) /\ mo < 12
    <3>1. mo + 1 \in 1..12
      BY <2>4
    <3>2. 1 \in 1..DaysInMonth(y, mo + 1)
      <4>1. DaysInMonth(y, mo + 1) \in 28..31
        BY <1>2, <3>1, MonthLength
      <4> QED BY <4>1
    <3>3. Ticked(t) = Time(y, mo + 1, 1, 0, 0, 0)
      BY <1>4, <1>9, <2>4
    <3>4. DaysBefore(y, mo + 1) + 1 = Day + 1
      BY <1>3, <2>4
    <3> HIDE DEF Day, Sec
    <3> QED BY <2>2, <3>1, <3>2, <3>3, <3>4 DEF t
  <2>5. CASE ~(d < DaysInMonth(y, mo)) /\ ~(mo < 12)
    <3>1. mo = 12 /\ 1 \in 1..12
      BY <2>5
    <3>2. DaysInMonth(y, mo) = 31
      <4>1. 12 # 2 /\ 12 \notin {4, 6, 9, 11}
        OBVIOUS
      <4> QED BY <3>1, <4>1 DEF DaysInMonth
    <3>3. (y + 1) % (LastYear + 1) = y + 1
      <4>1. LastYear + 1 \in Nat \ {0} /\ y + 1 \in 0..(LastYear + 1) - 1
        BY <1>2, LastYearIsNat
      <4> HIDE DEF LastYear
      <4> QED BY <4>1, SmallRemainder
    <3>4. Ticked(t) = Time(y + 1, 1, 1, 0, 0, 0)
      BY <1>4, <1>9, <2>5, <3>3
    <3>5. 1 \in 1..DaysInMonth(y + 1, 1)
      <4>1. DaysInMonth(y + 1, 1) \in 28..31
        BY <1>2, <3>1, MonthLength, y + 1 \in Nat
      <4> QED BY <4>1
    <3>6. DaysBefore(y + 1, 1) + 1 = Day + 1
      <4>1. DaysBefore(y + 1, 1) = DaysBefore(y, 12) + 31
        BY <1>2, YearLength
      <4>2. d = 31
        BY <2>5, <3>2
      <4> QED BY <1>3, <3>1, <4>1, <4>2
    <3> HIDE DEF Day, Sec
    <3> QED BY <1>2, <2>2, <3>1, <3>4, <3>5, <3>6 DEF t
  <2> QED BY <2>3, <2>4, <2>5
<1> QED BY <1>6, <1>7, <1>8, <1>9 DEF t

LEMMA NextSecond ==
  ASSUME NEW t \in DateTime, Real(t), t.year < LastYear
  PROVE  Ticked(t) \in DateTime /\ Real(Ticked(t)) /\ Successive(t, Ticked(t))
<1>1. /\ t.year \in 0..LastYear /\ t.month \in 1..12 /\ t.day \in 1..DaysInMonth(t.year, t.month)
      /\ t.hour \in 0..23 /\ t.minute \in 0..59 /\ t.second \in 0..59
  BY RealIs, DateFields
<1>2. t = Time(t.year, t.month, t.day, t.hour, t.minute, t.second)
  BY DateFields
<1> DEFINE u == Time(t.year, t.month, t.day, t.hour, t.minute, t.second)
<1>3. Ticked(u) \in DateTime /\ Real(Ticked(u)) /\ Successive(u, Ticked(u))
  BY <1>1, NextSecondOf, ZenonT(30)
<1> HIDE DEF u
<1>4. t = u
  BY <1>2 DEF u
<1> QED BY <1>3, <1>4

-----------------------------------------------------------------------------
(***************************************************************************)
(* What the chip shows at a second of the series, and what six registers   *)
(* of one and the same second are converted to.                            *)
(***************************************************************************)
RegisterAt(i, f) ==
  CASE f = "hour" -> CodedHour(series[i].hour)
    [] f = "year" -> Coded(series[i].year % 100)
    [] OTHER -> Coded(series[i][f])

Formats == [bcd : BOOLEAN, h12 : BOOLEAN]

LEMMA FieldNames ==
  /\ Field[1] = "second" /\ Field[2] = "minute" /\ Field[3] = "hour"
  /\ Field[4] = "day" /\ Field[5] = "month" /\ Field[6] = "year"
  BY DEF Field

(* bcd_to_binary is the inverse of the coding of two digits.               *)
LEMMA BcdInverse ==
  ASSUME NEW v, v \in 0..99
  PROVE  /\ ((v \div 10) * 16) + (v % 10) \in 0..153
         /\ FromBcd(((v \div 10) * 16) + (v % 10)) = v
<1> DEFINE q == v \div 10
           r == v % 10
           c == (q * 16) + r
<1>1. q \in 0..9 /\ r \in 0..9 /\ v = 10 * q + r
  OBVIOUS
<1> HIDE DEF q, r
<1>2. c \in 0..153 /\ c \div 16 = q /\ c % 16 = r
  BY <1>1
<1> HIDE DEF c
<1>3. ((q * 10) + r) % 256 = v
  BY <1>1
<1>4. FromBcd(c) = v
  BY <1>2, <1>3 DEF FromBcd
<1> QED BY <1>2, <1>4 DEF c, q, r

LEMMA CodedIs ==
  ASSUME format \in Formats, NEW v, v \in 0..99
  PROVE  /\ Coded(v) \in 0..153
         /\ (IF format.bcd THEN FromBcd(Coded(v)) ELSE Coded(v)) = v
<1>1. CASE format.bcd
  BY <1>1, BcdInverse DEF Coded
<1>2. CASE ~format.bcd
  BY <1>2 DEF Coded
<1> QED BY <1>1, <1>2

(* From the register back to the hour; but an afternoon in BCD and 12      *)
(* hours ends above every hour.                                            *)
LEMMA HourIs ==
  ASSUME format \in Formats, NEW h, h \in 0..23, NEW v, NEW back,
         v = IF format.bcd THEN FromBcd(CodedHour(h)) ELSE CodedHour(h),
         back = IF format.h12 THEN From12(v) ELSE v
  PROVE  /\ CodedHour(h) \in 0..255
         /\ back = h \/ (format.bcd /\ format.h12 /\ h >= 12 /\ back \in 81..92)
<1>1. CASE ~format.h12
  <2>1. CodedHour(h) = Coded(h) /\ h \in 0..99
    BY <1>1 DEF CodedHour
  <2>2. v = h /\ CodedHour(h) \in 0..153
    BY <2>1, CodedIs
  <2> QED BY <1>1, <2>2
<1>2. CASE format.h12
  <2> DEFINE low == IF h % 12 = 0 THEN 12 ELSE h % 12
             c == Coded(low)
  <2>1. low \in 1..12
    OBVIOUS
  <2>2. /\ (h < 12 /\ low = 12) => h = 0
        /\ (h < 12 /\ low < 12) => h = low
        /\ (h >= 12 /\ low = 12) => h = 12
        /\ (h >= 12 /\ low < 12) => h = low + 12
    OBVIOUS
  <2>3. CodedHour(h) = c + (IF h >= 12 THEN 128 ELSE 0)
    BY <1>2 DEF CodedHour
  <2> HIDE DEF low
  <2>4. CASE ~format.bcd
    <3>1. c = low
      BY <2>4 DEF Coded
    <3>2. v = low + (IF h >= 12 THEN 128 ELSE 0)
      BY <2>3, <2>4, <3>1
    <3>3. back = From12(low + (IF h >= 12 THEN 128 ELSE 0))
      BY <1>2, <3>2
    <3>4. From12(low + (IF h >= 12 THEN 128 ELSE 0)) = h
      <4>1. CASE h >= 12
        <5>1. (low + 128) % 128 = low /\ low + 128 >= 128
          BY <2>1
        <5> QED BY <2>1, <2>2, <4>1, <5>1 DEF From12
      <4>2. CASE ~(h >= 12)
        <5>1. low % 128 = low /\ ~(low >= 128) /\ low + 0 = low
          BY <2>1
        <5> QED BY <2>1, <2>2, <4>2, <5>1 DEF From12
      <4> QED BY <4>1, <4>2
    <3>5. CodedHour(h) \in 0..255
      BY <2>1, <2>3, <3>1
    <3> QED BY <3>3, <3>4, <3>5
  <2>5. CASE format.bcd
    <3>1. c = IF low < 10 THEN low ELSE low + 6
      BY <2>1, <2>5 DEF Coded
    <3> HIDE DEF c
    <3>2. c \in 1..18 /\ CodedHour(h) \in 0..255
      BY <2>1, <2>3, <3>1
    <3>3. CASE h >= 12
      <4>1. v = FromBcd(c + 128)
        BY <2>3, <2>5, <3>3
      <4>2. FromBcd(c + 128) = 80 + low
        BY <2>1, <3>1 DEF FromBcd
      <4>3. back = From12(80 + low)
        BY <1>2, <4>1, <4>2
      <4>4. From12(80 + low) = 80 + low
        BY <2>1 DEF From12
      <4> QED BY <1>2, <2>1, <2>5, <3>2, <3>3, <4>3, <4>4
    <3>4. CASE ~(h >= 12)
      <4>1. v = FromBcd(c)
        BY <2>3, <2>5, <3>2, <3>4
      <4>2. FromBcd(c) = low
        BY <2>1, <3>1 DEF FromBcd
      <4>3. back = From12(low)
        BY <1>2, <4>1, <4>2
      <4>4. From12(low) = h
        BY <2>1, <2>2, <3>4 DEF From12
      <4> QED BY <3>2, <4>3, <4>4
    <3> QED BY <3>3, <3>4
  <2> QED BY <2>4, <2>5
<1> QED BY <1>1, <1>2 DEF Formats

-----------------------------------------------------------------------------
(***************************************************************************)
(* The series: its seconds count on, so that no two of less than a minute  *)
(* show the same.                                                          *)
(***************************************************************************)
InTime(t) ==
  /\ t \in DateTime /\ Real(t) /\ t.year \in 2000..2099
  /\ t.second \in 0..59 /\ t.minute \in 0..59 /\ t.hour \in 0..23
  /\ t.day \in 1..31 /\ t.month \in 1..12

LEMMA SeriesTimes ==
  ASSUME NEW s \in Series, NEW i \in 1..Len(s)
  PROVE  InTime(s[i])
<1>1. s \in Seq(DateTime) /\ Real(s[i]) /\ s[i].year \in 2000..2099
  BY SeriesAssumption
<1>2. s[i] \in DateTime
  BY <1>1
<1>3. /\ s[i].month \in 1..12 /\ s[i].day \in 1..DaysInMonth(s[i].year, s[i].month)
      /\ s[i].hour \in 0..23 /\ s[i].minute \in 0..59 /\ s[i].second \in 0..59
  BY <1>1, <1>2, RealIs
<1>4. DaysInMonth(s[i].year, s[i].month) \in 28..31
  <2>1. s[i].year \in Nat
    BY <1>2, LastYearIsNat, DateFields
  <2> QED BY <1>3, <2>1, MonthLength
<1> DEFINE n == DaysInMonth(s[i].year, s[i].month)
           d == s[i].day
<1>6. n \in 28..31 /\ d \in 1..n
  BY <1>3, <1>4
<1> HIDE DEF n, d
<1>7. d \in 1..31
  BY <1>6
<1>5. s[i].day \in 1..31
  BY <1>7 DEF d
<1> QED BY <1>1, <1>2, <1>3, <1>5 DEF InTime

LEMMA SecondOf ==
  ASSUME NEW s \in Series, NEW i \in 1..Len(s)
  PROVE  s[i].second \in 0..59
<1>1. InTime(s[i])
  BY SeriesTimes, Zenon
<1> QED BY <1>1 DEF InTime

LEMMA NextOfSixty ==
  ASSUME NEW a, NEW b, NEW x, NEW y, a \in Int, b \in Int, x \in 0..59, y \in 0..59,
         \/ 60 * b + y = (60 * a + x) + 1
         \/ 60 * a + x = 24 * 60 * 60 - 1 /\ 60 * b + y = 0
  PROVE  y = (x + 1) % 60
<1>1. CASE 60 * b + y = (60 * a + x) + 1
  BY <1>1
<1>2. CASE 60 * a + x = 24 * 60 * 60 - 1 /\ 60 * b + y = 0
  <2>1. x = 59 /\ y = 0
    BY <1>2
  <2> QED BY <2>1
<1> QED BY <1>1, <1>2

LEMMA SixtyCounts ==
  ASSUME NEW x, x \in 0..59
  PROVE  /\ (x + (1 - 1)) % 60 = x
         /\ \A m \in Int : (((x + ((m - 1) - 1)) % 60) + 1) % 60 = (x + (m - 1)) % 60
         /\ \A i, j \in 1..59 : (x + (i - 1)) % 60 = (x + (j - 1)) % 60 => i = j
<1>1. (x + (1 - 1)) % 60 = x
  OBVIOUS
<1>2. ASSUME NEW m \in Int
      PROVE  (((x + ((m - 1) - 1)) % 60) + 1) % 60 = (x + (m - 1)) % 60
  OBVIOUS
<1>3. ASSUME NEW i \in 1..59, NEW j \in 1..59, (x + (i - 1)) % 60 = (x + (j - 1)) % 60
      PROVE  i = j
  BY <1>3
<1> QED BY <1>1, <1>2, <1>3

LEMMA NextSecondShows ==
  ASSUME NEW t, NEW u, t \in DateTime, u \in DateTime, Real(t), Real(u), Successive(t, u)
  PROVE  u.second = (t.second + 1) % 60
<1>1. /\ t.hour \in 0..23 /\ t.minute \in 0..59 /\ t.second \in 0..59
      /\ u.hour \in 0..23 /\ u.minute \in 0..59 /\ u.second \in 0..59
  BY RealIs
<1> DEFINE a == 60 * t.hour + t.minute
           b == 60 * u.hour + u.minute
<1>2. a \in Int /\ b \in Int
  <2>1. t.hour \in Int /\ t.minute \in Int /\ u.hour \in Int /\ u.minute \in Int
    BY <1>1
  <2> QED BY <2>1
<1>3. Stamp(t)[2] = 60 * a + t.second /\ Stamp(u)[2] = 60 * b + u.second
  BY DEF Stamp
<1>4. \/ Stamp(u)[2] = Stamp(t)[2] + 1
      \/ Stamp(t)[2] = 24 * 60 * 60 - 1 /\ Stamp(u)[2] = 0
  BY DEF Successive
<1> HIDE DEF a, b
<1>5. \/ 60 * b + u.second = (60 * a + t.second) + 1
      \/ 60 * a + t.second = 24 * 60 * 60 - 1 /\ 60 * b + u.second = 0
  BY <1>3, <1>4
<1> DEFINE x == t.second
           y == u.second
<1>6. x \in 0..59 /\ y \in 0..59
  BY <1>1
<1>7. \/ 60 * b + y = (60 * a + x) + 1
      \/ 60 * a + x = 24 * 60 * 60 - 1 /\ 60 * b + y = 0
  BY <1>5
<1> HIDE DEF x, y
<1>8. y = (x + 1) % 60
  BY <1>2, <1>6, <1>7, NextOfSixty
<1> QED BY <1>8 DEF x, y

LEMMA SecondsCountOn ==
  ASSUME NEW s \in Series
  PROVE  \A i \in 1..Len(s) : s[i].second = (s[1].second + (i - 1)) % 60
<1> DEFINE P(i) == s[i].second = (s[1].second + (i - 1)) % 60
           Wrong == { i \in 1..Len(s) : ~P(i) }
<1>1. Len(s) \in 1..59
  BY SeriesAssumption
<1>0. 1 \in 1..Len(s) /\ 1..Len(s) \subseteq 1..59
  <2> DEFINE n == Len(s)
  <2>1. n \in 1..59
    BY <1>1
  <2> HIDE DEF n
  <2>2. 1 \in 1..n /\ 1..n \subseteq 1..59
    BY <2>1
  <2> QED BY <2>2 DEF n
<1>2. CASE Wrong # {}
  <2> DEFINE m == Min(Wrong)
  <2>1. m \in Wrong /\ \A x \in Wrong : m <= x
    <3>1. Wrong \in SUBSET Nat
      BY <1>1
    <3> HIDE DEF Wrong
    <3> QED BY <1>2, <3>1, MinOfNats
  <2>2. m \in 1..Len(s) /\ ~P(m)
    BY <2>1
  <2>3. P(1)
    <3>1. s[1].second \in 0..59
      BY <1>0, SecondOf, Zenon
    <3> QED BY <3>1, SixtyCounts
  <2> HIDE DEF m
  <2>4. m # 1
    BY <2>2, <2>3
  <2>5. m - 1 \in 1..Len(s) /\ m - 1 \in 1..(Len(s) - 1) /\ m - 1 < m
    BY <1>1, <2>2, <2>4
  <2>6. P(m - 1)
    BY <1>1, <2>1, <2>2, <2>5
  <2>7. s[m].second = (s[m - 1].second + 1) % 60
    <3>1. Successive(s[m - 1], s[(m - 1) + 1])
      BY <2>5, SuccessionAssumption
    <3>2. (m - 1) + 1 = m
      BY <1>1, <2>2
    <3>3. Successive(s[m - 1], s[m])
      BY <3>1, <3>2
    <3>4. m - 1 \in 1..Len(s) /\ m \in 1..Len(s)
      BY <2>2, <2>5
    <3>5. InTime(s[m - 1]) /\ InTime(s[m])
      BY <3>4, SeriesTimes, Zenon
    <3> QED BY <3>3, <3>5, NextSecondShows DEF InTime
  <2>8. s[1].second \in 0..59
    BY <1>0, SecondOf, Zenon
  <2>9. s[m].second = (s[1].second + (m - 1)) % 60
    <3> DEFINE x == s[1].second
    <3>1. s[m - 1].second = (x + ((m - 1) - 1)) % 60
      BY <2>6
    <3>2. (((x + ((m - 1) - 1)) % 60) + 1) % 60 = (x + (m - 1)) % 60
      <4>1. m \in Int /\ x \in 0..59
        BY <1>1, <2>2, <2>8
      <4> HIDE DEF x, m
      <4> QED BY <4>1, SixtyCounts
    <3> QED BY <2>7, <3>1, <3>2
  <2> QED BY <2>2, <2>9
<1>3. CASE Wrong = {}
  BY <1>3
<1> QED BY <1>2, <1>3

LEMMA SecondsDiffer ==
  ASSUME NEW s \in Series, NEW i \in 1..Len(s), NEW j \in 1..Len(s),
         s[i].second = s[j].second
  PROVE  i = j
<1>1. Len(s) \in 1..59
  BY SeriesAssumption
<1>0. 1 \in 1..Len(s) /\ 1..Len(s) \subseteq 1..59
  <2> DEFINE n == Len(s)
  <2>1. n \in 1..59
    BY <1>1
  <2> HIDE DEF n
  <2>2. 1 \in 1..n /\ 1..n \subseteq 1..59
    BY <2>1
  <2> QED BY <2>2 DEF n
<1>2. s[1].second \in 0..59
  BY <1>0, SecondOf, Zenon
<1>3. (s[1].second + (i - 1)) % 60 = (s[1].second + (j - 1)) % 60
  BY SecondsCountOn
<1>4. i \in 1..59 /\ j \in 1..59
  BY <1>0
<1> DEFINE x == s[1].second
<1>5. x \in 0..59 /\ (x + (i - 1)) % 60 = (x + (j - 1)) % 60
  BY <1>2, <1>3
<1> HIDE DEF x
<1> QED BY <1>4, <1>5, SixtyCounts, ZenonT(60)

-----------------------------------------------------------------------------
(***************************************************************************)
(* Reading.  Every register read since the last wait is one the chip       *)
(* showed at some second since, and they were read in the order of these   *)
(* seconds: w gives the second of each.                                    *)
(***************************************************************************)
FieldOf(k) == Field[((k - 1) % 6) + 1]

SeenAt(w, last) ==
  /\ w \in [1..12 -> Nat]
  /\ \A k \in 1..Len(read) :
       /\ w[k] \in during[1]..last
       /\ read[k] = RegisterAt(w[k], FieldOf(k))
       /\ \A j \in 1..k : w[j] <= w[k]

Seen(last) == \E w \in [1..12 -> Nat] : SeenAt(w, last)

ChipInv ==
  /\ series \in Series /\ at \in 1..Len(series)
  /\ format \in Formats
  /\ updating \in BOOLEAN /\ (updating => at < Len(series))

DuringInv == during[1] \in 1..at /\ during[2] \in during[1]..at

ReadInv ==
  /\ read \in Seq(0..255) /\ Len(read) \in 0..12
  /\ pc = "read" => Seen(at)
  /\ pc = "convert" =>
       /\ Len(read) = 12 /\ \A k \in 1..6 : read[k] = read[6 + k]
       /\ Seen(during[2])

InRange(t) ==
  t.month \in 1..12 /\ t.day \in 1..31 /\ t.hour \in 0..23 /\ t.minute \in 0..59 /\ t.second \in 0..59

ValidYear(y) == y \in Years

YearWithin(y, n) == n <= LastYear - 9999 => y \in 1970..(9999 + n)

YearInv == YearWithin(clock.year, ticks)

HeldInv ==
  pc \in {"done", "set"} => clock \in DateTime /\ InRange(clock) /\ YearInv

ClockInv ==
  /\ ChipInv /\ DuringInv /\ ReadInv /\ HeldInv /\ ReadingIsTrue
  /\ pc \in {"wait", "read", "convert", "done", "set"}
  /\ ticks \in Nat

LEMMA TimesNow ==
  ASSUME ChipInv, NEW i, i \in 1..Len(series)
  PROVE  /\ series[i] \in DateTime /\ series[i].year \in 2000..2099
         /\ series[i].second \in 0..59 /\ series[i].minute \in 0..59
         /\ series[i].hour \in 0..23 /\ series[i].day \in 1..31 /\ series[i].month \in 1..12
<1>1. series \in Series
  BY DEF ChipInv
<1>2. InTime(series[i])
  BY <1>1, SeriesTimes, Zenon
<1> QED BY <1>2 DEF InTime

LEMMA SecondNow ==
  ASSUME ChipInv, NEW i, i \in 1..Len(series)
  PROVE  series[i].second \in 0..99
<1>1. /\ series[i] \in DateTime /\ series[i].year \in 2000..2099
      /\ series[i].second \in 0..59 /\ series[i].minute \in 0..59
      /\ series[i].hour \in 0..23 /\ series[i].day \in 1..31 /\ series[i].month \in 1..12
  BY TimesNow
<1> QED BY <1>1

LEMMA RegistersAre ==
  ASSUME NEW i
  PROVE  /\ RegisterAt(i, "second") = Coded(series[i].second)
         /\ RegisterAt(i, "minute") = Coded(series[i].minute)
         /\ RegisterAt(i, "hour") = CodedHour(series[i].hour)
         /\ RegisterAt(i, "day") = Coded(series[i].day)
         /\ RegisterAt(i, "month") = Coded(series[i].month)
         /\ RegisterAt(i, "year") = Coded(series[i].year % 100)
<1>1. RegisterAt(i, "second") = Coded(series[i].second)
  BY DEF RegisterAt
<1>2. RegisterAt(i, "minute") = Coded(series[i].minute)
  BY DEF RegisterAt
<1>3. RegisterAt(i, "hour") = CodedHour(series[i].hour)
  BY DEF RegisterAt
<1>4. RegisterAt(i, "day") = Coded(series[i].day)
  BY DEF RegisterAt
<1>5. RegisterAt(i, "month") = Coded(series[i].month)
  BY DEF RegisterAt
<1>6. RegisterAt(i, "year") = Coded(series[i].year % 100)
  BY DEF RegisterAt
<1> QED BY <1>1, <1>2, <1>3, <1>4, <1>5, <1>6

LEMMA RegisterIs ==
  ASSUME ChipInv, NEW i \in 1..Len(series), NEW k \in 1..12
  PROVE  RegisterAt(i, FieldOf(k)) \in 0..255
<1>1. /\ series[i].second \in 0..59 /\ series[i].minute \in 0..59 /\ series[i].hour \in 0..23
      /\ series[i].day \in 1..31 /\ series[i].month \in 1..12 /\ series[i].year \in Nat
  <2>1. InTime(series[i])
    <3>1. series \in Series
      BY DEF ChipInv
    <3> QED BY <3>1, SeriesTimes, Zenon
  <2> QED BY <2>1, LastYearIsNat, DateFields DEF InTime
<1>2. ASSUME NEW v, v \in 0..99 PROVE Coded(v) \in 0..255
  <2>1. Coded(v) \in 0..153
    BY <1>2, CodedIs DEF ChipInv
  <2> QED BY <2>1
<1>3. series[i].year % 100 \in 0..99
  <2> DEFINE y == series[i].year
  <2>1. y \in Nat
    BY <1>1
  <2> HIDE DEF y
  <2>2. y % 100 \in 0..99
    BY <2>1
  <2> QED BY <2>2 DEF y
<1>4. CodedHour(series[i].hour) \in 0..255
  <2> DEFINE h == series[i].hour
  <2>1. PICK v : v = IF format.bcd THEN FromBcd(CodedHour(h)) ELSE CodedHour(h)
    OBVIOUS
  <2>2. PICK back : back = IF format.h12 THEN From12(v) ELSE v
    OBVIOUS
  <2>3. h \in 0..23 /\ format \in Formats
    BY <1>1 DEF ChipInv
  <2> HIDE DEF h
  <2>4. CodedHour(h) \in 0..255
    BY <2>1, <2>2, <2>3, HourIs, ZenonT(60)
  <2> QED BY <2>4 DEF h
<1>5. FieldOf(k) \in {"second", "minute", "hour", "day", "month", "year"}
  <2>1. ((k - 1) % 6) + 1 \in 1..6
    OBVIOUS
  <2> QED BY <2>1, FieldNames DEF FieldOf
<1>6. /\ series[i].second \in 0..99 /\ series[i].minute \in 0..99
      /\ series[i].day \in 0..99 /\ series[i].month \in 0..99
  BY <1>1
<1>7. /\ RegisterAt(i, "second") \in 0..255 /\ RegisterAt(i, "minute") \in 0..255
      /\ RegisterAt(i, "hour") \in 0..255 /\ RegisterAt(i, "day") \in 0..255
      /\ RegisterAt(i, "month") \in 0..255 /\ RegisterAt(i, "year") \in 0..255
  <2>1. /\ Coded(series[i].second) \in 0..255 /\ Coded(series[i].minute) \in 0..255
        /\ Coded(series[i].day) \in 0..255 /\ Coded(series[i].month) \in 0..255
        /\ Coded(series[i].year % 100) \in 0..255
    BY <1>2, <1>3, <1>6, Zenon
  <2> QED BY <1>4, <2>1, RegistersAre, ZenonT(60)
<1> QED BY <1>5, <1>7

(* When both readings agree, they agree in the seconds: all the first six  *)
(* registers are those of one second.                                      *)
LEMMA OneSecond ==
  ASSUME ChipInv, DuringInv, ReadInv, pc = "convert"
  PROVE  \E i \in during[1]..during[2] :
           \A k \in 1..6 : read[6 + k] = RegisterAt(i, Field[k])
<1>1. PICK w \in [1..12 -> Nat] : SeenAt(w, during[2])
  BY DEF ReadInv, Seen
<1>2. Len(read) = 12 /\ \A k \in 1..6 : read[k] = read[6 + k]
  BY DEF ReadInv
<1>3. \A k \in 1..12 : /\ w[k] \in during[1]..during[2]
                       /\ read[k] = RegisterAt(w[k], FieldOf(k))
                       /\ \A j \in 1..k : w[j] <= w[k]
  BY <1>1, <1>2 DEF SeenAt
<1>4. \A k \in 1..12 : w[k] \in 1..Len(series)
  <2>1. /\ during[1] \in 1..at /\ during[2] \in during[1]..at /\ at \in 1..Len(series)
        /\ Len(series) \in 1..59
    BY SeriesAssumption DEF DuringInv, ChipInv
  <2> DEFINE n == Len(series)
           a == during[1]
           b == during[2]
  <2>2. n \in 1..59 /\ at \in 1..n /\ a \in 1..at /\ b \in a..at
    BY <2>1
  <2> HIDE DEF n, a, b
  <2>3. a..b \subseteq 1..n
    BY <2>2
  <2> QED BY <1>3, <2>3 DEF n, a, b
<1>5. FieldOf(1) = "second" /\ FieldOf(7) = "second"
  BY FieldNames DEF FieldOf
<1>6. series[w[1]].second = series[w[7]].second
  <2>1. RegisterAt(w[1], "second") = RegisterAt(w[7], "second")
    BY <1>2, <1>3, <1>5
  <2>2. Coded(series[w[1]].second) = Coded(series[w[7]].second)
    BY <2>1, RegistersAre
  <2>3. ASSUME NEW k \in 1..12 PROVE series[w[k]].second \in 0..99
    <3>1. w[k] \in 1..Len(series)
      BY <1>4
    <3> QED BY <3>1, SecondNow
  <2>4. ASSUME NEW x, NEW y, x \in 0..99, y \in 0..99, Coded(x) = Coded(y)
        PROVE  x = y
    <3>1. (IF format.bcd THEN FromBcd(Coded(x)) ELSE Coded(x)) = x
      BY <2>4, CodedIs DEF ChipInv
    <3>2. (IF format.bcd THEN FromBcd(Coded(y)) ELSE Coded(y)) = y
      BY <2>4, CodedIs DEF ChipInv
    <3>3. (IF format.bcd THEN FromBcd(Coded(x)) ELSE Coded(x)) =
          (IF format.bcd THEN FromBcd(Coded(y)) ELSE Coded(y))
      BY <2>4, SMTT(30)
    <3> QED BY <3>1, <3>2, <3>3
  <2>5. series[w[1]].second \in 0..99 /\ series[w[7]].second \in 0..99
    <3>1. 1 \in 1..12 /\ 7 \in 1..12
      OBVIOUS
    <3> QED BY <2>3, <3>1
  <2> QED BY <2>2, <2>4, <2>5
<1>7. w[1] = w[7]
  <2>1. w[1] \in 1..Len(series) /\ w[7] \in 1..Len(series)
    BY <1>4
  <2> QED BY <1>6, <2>1, SecondsDiffer DEF ChipInv
<1>8. \A k \in 1..6 : w[k] = w[1]
  <2> SUFFICES ASSUME NEW k \in 1..6 PROVE w[k] = w[1]
    OBVIOUS
  <2>1. w[1] <= w[k] /\ w[k] <= w[7]
    BY <1>3
  <2>2. w[1] \in Nat /\ w[k] \in Nat /\ w[7] \in Nat
    OBVIOUS
  <2> QED BY <1>7, <2>1, <2>2
<1>9. \A k \in 1..6 : FieldOf(k) = Field[k]
  <2>1. \A k \in 1..6 : ((k - 1) % 6) + 1 = k
    OBVIOUS
  <2> QED BY <2>1 DEF FieldOf
<1>10. \A k \in 1..6 : read[6 + k] = RegisterAt(w[1], Field[k])
  <2> SUFFICES ASSUME NEW k \in 1..6 PROVE read[6 + k] = RegisterAt(w[1], Field[k])
    OBVIOUS
  <2>1. read[k] = RegisterAt(w[k], FieldOf(k))
    BY <1>3
  <2> QED BY <1>2, <1>8, <1>9, <2>1
<1>11. w[1] \in during[1]..during[2]
  BY <1>3
<1> QED BY <1>10, <1>11

(* What six registers of one second are converted to is this second, but   *)
(* for an afternoon in BCD and 12 hours.                                   *)
LEMMA ConvertedIs ==
  ASSUME ChipInv, DuringInv, ReadInv, pc = "convert"
  PROVE  \E i \in 1..Len(series) :
           /\ i \in during[1]..during[2]
           /\ \/ Converted = series[i]
              \/ /\ format.bcd /\ format.h12 /\ series[i].hour >= 12
                 /\ Converted.hour \in 81..92
<1>1. PICK i \in during[1]..during[2] : \A k \in 1..6 : read[6 + k] = RegisterAt(i, Field[k])
  BY OneSecond
<1> DEFINE t == series[i]
           value == [k \in 1..6 |-> IF format.bcd THEN FromBcd(Second[k]) ELSE Second[k]]
           hour == IF format.h12 THEN From12(value[3]) ELSE value[3]
<1>2. i \in 1..Len(series)
  <2> DEFINE n == Len(series)
             a == during[1]
             b == during[2]
  <2>1. n \in 1..59 /\ at \in 1..n /\ a \in 1..at /\ b \in a..at /\ i \in a..b
    BY SeriesAssumption DEF ChipInv, DuringInv
  <2> HIDE DEF n, a, b
  <2>2. i \in 1..n
    BY <2>1
  <2> QED BY <2>2 DEF n
<1>3. /\ t.second \in 0..59 /\ t.minute \in 0..59 /\ t.hour \in 0..23
      /\ t.day \in 1..31 /\ t.month \in 1..12 /\ t.year \in 2000..2099 /\ t \in DateTime
  BY <1>2, TimesNow
<1>4. Converted = Time(2000 + value[6], value[5], value[4], hour, value[2], value[1])
  BY DEF Converted
<1>5. \A k \in 1..6 : Second[k] = read[6 + k]
  BY DEF Second
<1>6. /\ Second[1] = Coded(t.second) /\ Second[2] = Coded(t.minute)
      /\ Second[3] = CodedHour(t.hour) /\ Second[4] = Coded(t.day)
      /\ Second[5] = Coded(t.month) /\ Second[6] = Coded(t.year % 100)
  <2>1. \A k \in 1..6 : Second[k] = RegisterAt(i, Field[k])
    BY <1>1, <1>5
  <2> HIDE DEF t
  <2>2. /\ Second[1] = RegisterAt(i, "second") /\ Second[2] = RegisterAt(i, "minute")
        /\ Second[3] = RegisterAt(i, "hour") /\ Second[4] = RegisterAt(i, "day")
        /\ Second[5] = RegisterAt(i, "month") /\ Second[6] = RegisterAt(i, "year")
    BY <2>1, FieldNames
  <2> QED BY <2>2, RegistersAre DEF t
<1>7. \A k \in 1..6 : value[k] = IF format.bcd THEN FromBcd(Second[k]) ELSE Second[k]
  OBVIOUS
<1> HIDE DEF value, t
<1>8. t.year % 100 \in 0..99 /\ 2000 + (t.year % 100) = t.year
  <2> DEFINE y == t.year
  <2>1. y \in 2000..2099
    BY <1>3
  <2> HIDE DEF y
  <2>2. y % 100 \in 0..99 /\ 2000 + (y % 100) = y
    BY <2>1
  <2> QED BY <2>2 DEF y
<1>9. /\ value[1] = t.second /\ value[2] = t.minute /\ value[4] = t.day
      /\ value[5] = t.month /\ value[6] = t.year % 100
  <2>1. /\ t.second \in 0..99 /\ t.minute \in 0..99 /\ t.day \in 0..99 /\ t.month \in 0..99
    BY <1>3
  <2>2. ASSUME NEW v, v \in 0..99
        PROVE  (IF format.bcd THEN FromBcd(Coded(v)) ELSE Coded(v)) = v
    BY <2>2, CodedIs DEF ChipInv
  <2>3. value[1] = t.second
    BY <1>6, <1>7, <2>1, <2>2
  <2>4. value[2] = t.minute
    BY <1>6, <1>7, <2>1, <2>2
  <2>5. value[4] = t.day
    BY <1>6, <1>7, <2>1, <2>2
  <2>6. value[5] = t.month
    BY <1>6, <1>7, <2>1, <2>2
  <2>7. value[6] = t.year % 100
    BY <1>6, <1>7, <1>8, <2>2
  <2> QED BY <2>3, <2>4, <2>5, <2>6, <2>7
<1>10. value[3] = IF format.bcd THEN FromBcd(CodedHour(t.hour)) ELSE CodedHour(t.hour)
  BY <1>6, <1>7
<1>11. \/ hour = t.hour
       \/ format.bcd /\ format.h12 /\ t.hour >= 12 /\ hour \in 81..92
  <2>1. hour = IF format.h12 THEN From12(value[3]) ELSE value[3]
    OBVIOUS
  <2>2. t.hour \in 0..23 /\ format \in Formats
    BY <1>3 DEF ChipInv
  <2> HIDE DEF hour
  <2> QED BY <1>10, <2>1, <2>2, HourIs
<1> HIDE DEF hour
<1>12. Converted = Time(t.year, t.month, t.day, hour, t.minute, t.second)
  BY <1>4, <1>8, <1>9
<1>13. CASE hour = t.hour
  <2>1. Converted = t
    BY <1>3, <1>12, <1>13, DateFields
  <2> QED BY <1>2, <2>1 DEF t
<1>14. CASE format.bcd /\ format.h12 /\ t.hour >= 12 /\ hour \in 81..92
  <2>1. Converted.hour = hour
    BY <1>12 DEF Time
  <2> QED BY <1>2, <1>14, <2>1 DEF t
<1> QED BY <1>11, <1>13, <1>14

-----------------------------------------------------------------------------
(***************************************************************************)
(* The steps.                                                              *)
(***************************************************************************)
LEMMA DuringIs ==
  ASSUME ChipInv, DuringInv
  PROVE  /\ at \in Nat /\ during[1] \in Nat /\ during[2] \in Nat
         /\ 1 <= during[1] /\ during[1] <= during[2] /\ during[2] <= at
<1> DEFINE n == Len(series)
           a == during[1]
           b == during[2]
<1>1. n \in 1..59 /\ at \in 1..n /\ a \in 1..at /\ b \in a..at
  BY SeriesAssumption DEF ChipInv, DuringInv
<1> HIDE DEF n, a, b
<1>2. at \in Nat
  BY <1>1
<1>3. a \in Nat /\ b \in Nat /\ 1 <= a /\ a <= b /\ b <= at
  BY <1>1, <1>2
<1> QED BY <1>2, <1>3 DEF a, b

LEMMA RegistersStay ==
  ASSUME series' = series, format' = format, NEW i, NEW f
  PROVE  RegisterAt(i, f)' = RegisterAt(i, f)
  BY DEF RegisterAt, CodedHour, Coded
(* What has been seen until a second has been seen until a later one.      *)
LEMMA SeenStays ==
  ASSUME series' = series, format' = format, read' = read, during'[1] = during[1],
         during[1] \in Int,
         NEW last, NEW more, last \in Int, more \in Int, last <= more, Seen(last)
  PROVE  \E w \in [1..12 -> Nat] :
           \A k \in 1..Len(read') :
             /\ w[k] \in during'[1]..more
             /\ read'[k] = (RegisterAt(w[k], FieldOf(k)))'
             /\ \A j \in 1..k : w[j] <= w[k]
<1>1. PICK w \in [1..12 -> Nat] : SeenAt(w, last)
  BY DEF Seen
<1> SUFFICES ASSUME NEW k \in 1..Len(read')
             PROVE  /\ w[k] \in during'[1]..more
                    /\ read'[k] = (RegisterAt(w[k], FieldOf(k)))'
                    /\ \A j \in 1..k : w[j] <= w[k]
  OBVIOUS
<1>3. /\ w[k] \in during[1]..last
      /\ read[k] = RegisterAt(w[k], FieldOf(k))
      /\ \A j \in 1..k : w[j] <= w[k]
  BY <1>1 DEF SeenAt
<1>4. w[k] \in during'[1]..more
  <2> DEFINE a == during[1]
             x == w[k]
  <2>1. a \in Int /\ x \in a..last
    BY <1>3
  <2> HIDE DEF a, x
  <2>2. x \in a..more
    BY <2>1
  <2> QED BY <2>2 DEF a, x
<1>5. (RegisterAt(w[k], FieldOf(k)))' = RegisterAt(w[k], FieldOf(k))
  BY RegistersStay
<1> QED BY <1>3, <1>4, <1>5

LEMMA ReadKeeps ==
  ASSUME ClockInv, ReadRegister
  PROVE  ReadInv'
<1> DEFINE n == Len(read)
           v == Register(Field[(n % 6) + 1])
<1>1. /\ ChipInv /\ DuringInv /\ read \in Seq(0..255) /\ n \in 0..12 /\ Seen(at)
  BY DEF ClockInv, ReadInv, ReadRegister
<1>2. /\ n \in 0..11 /\ read' = Append(read, v) /\ pc' = "read"
      /\ series' = series /\ at' = at /\ format' = format /\ during' = during
  <2>1. n \in 0..12 /\ n < 12
    BY <1>1 DEF ReadRegister
  <2>2. read' = Append(read, v) /\ pc = "read" /\ UNCHANGED <<chip, pc, clock, during, ticks>>
    BY Zenon DEF ReadRegister
  <2>3. series' = series /\ at' = at /\ format' = format
    BY <2>2, Zenon DEF chip
  <2> HIDE DEF n, v
  <2>4. n \in 0..11
    BY <2>1
  <2> QED BY <2>2, <2>3, <2>4, Zenon
<1> HIDE DEF n
<1>3. v = RegisterAt(at, FieldOf(n + 1)) /\ n + 1 \in 1..12
  <2>1. n + 1 \in 1..12 /\ (n + 1) - 1 = n
    BY <1>2
  <2>2. \A f : Register(f) = RegisterAt(at, f)
    BY DEF Register, RegisterAt
  <2> QED BY <2>1, <2>2 DEF FieldOf
<1> HIDE DEF v
<1>4. v \in 0..255
  BY <1>1, <1>3, RegisterIs DEF ChipInv
<1>5. read' \in Seq(0..255) /\ Len(read') = n + 1
  BY <1>1, <1>2, <1>4 DEF n
<1>6. \A k \in 1..n : read'[k] = read[k]
  BY <1>1, <1>2, <1>4 DEF n
<1>7. read'[n + 1] = v
  BY <1>1, <1>2, <1>4 DEF n
<1>8. PICK w \in [1..12 -> Nat] :
        \A k \in 1..n : /\ w[k] \in during[1]..at
                        /\ read[k] = RegisterAt(w[k], FieldOf(k))
                        /\ \A j \in 1..k : w[j] <= w[k]
  BY <1>1 DEF Seen, SeenAt, n
<1>9. /\ at \in Nat /\ during[1] \in Nat /\ during[2] \in Nat
      /\ 1 <= during[1] /\ during[1] <= during[2] /\ during[2] <= at
  BY <1>1, DuringIs
<1>10. PICK u \in [1..12 -> Nat] :
         u[n + 1] = at /\ \A k \in 1..n : u[k] = w[k]
  <2> DEFINE x == [k \in 1..12 |-> IF k = n + 1 THEN at ELSE w[k]]
  <2>1. x \in [1..12 -> Nat]
    BY <1>9
  <2>2. x[n + 1] = at
    BY <1>3
  <2>3. \A k \in 1..n : k \in 1..12 /\ k # n + 1
    <3>1. n \in 0..11
      BY <1>2
    <3> QED BY <3>1
  <2>4. \A k \in 1..n : x[k] = w[k]
    BY <2>3
  <2> HIDE DEF x
  <2> QED BY <2>1, <2>2, <2>4
<1>11. u[n + 1] = at
  BY <1>10
<1>12. ASSUME NEW k \in 1..n PROVE u[k] = w[k]
  BY <1>10
<1>13. ASSUME NEW k \in 1..n + 1
       PROVE  /\ u[k] \in during[1]..at
              /\ read'[k] = RegisterAt(u[k], FieldOf(k))
              /\ \A j \in 1..k : u[j] <= u[k]
  <2> DEFINE a == during[1]
  <2>0. a \in Nat /\ a <= at
    BY <1>9, SMT
  <2>1. CASE k = n + 1
    <3>1. ASSUME NEW j \in 1..n + 1 PROVE u[j] <= at
      <4>1. CASE j = n + 1
        BY <1>9, <1>11, <4>1
      <4>2. CASE j # n + 1
        <5>1. j \in 1..n
          BY <1>2, <4>2
        <5>2. u[j] = w[j] /\ w[j] \in a..at
          BY <1>8, <1>12, <5>1
        <5> HIDE DEF a
        <5> QED BY <1>9, <2>0, <5>2
      <4> QED BY <4>1, <4>2
    <3>2. at \in a..at
      <4> HIDE DEF a
      <4> QED BY <1>9, <2>0
    <3> QED BY <1>3, <1>7, <1>11, <2>1, <3>1, <3>2
  <2>2. CASE k # n + 1
    <3>1. k \in 1..n
      BY <1>2, <2>2
    <3>2. ASSUME NEW j \in 1..k PROVE j \in 1..n
      BY <1>2, <3>1
    <3>3. u[k] = w[k] /\ \A j \in 1..k : u[j] = w[j]
      BY <1>12, <3>1, <3>2
    <3> QED BY <1>6, <1>8, <3>1, <3>3
  <2> QED BY <2>1, <2>2
<1>14. \A k \in 1..n + 1 :
         /\ u[k] \in during'[1]..at'
         /\ read'[k] = (RegisterAt(u[k], FieldOf(k)))'
         /\ \A j \in 1..k : u[j] <= u[k]
  <2> SUFFICES ASSUME NEW k \in 1..n + 1
               PROVE  /\ u[k] \in during'[1]..at'
                      /\ read'[k] = (RegisterAt(u[k], FieldOf(k)))'
                      /\ \A j \in 1..k : u[j] <= u[k]
    OBVIOUS
  <2>1. (RegisterAt(u[k], FieldOf(k)))' = RegisterAt(u[k], FieldOf(k))
    BY <1>2, RegistersStay
  <2> QED BY <1>2, <1>13, <2>1
<1>15. Seen(at)'
  BY <1>5, <1>10, <1>14 DEF Seen, SeenAt
<1>16. Len(read') \in 0..12
  BY <1>2, <1>5
<1> QED BY <1>2, <1>5, <1>15, <1>16 DEF ReadInv

LEMMA ReadingStays ==
  ASSUME ClockInv, series' = series, format' = format, read' = read, during' = during,
         pc' = pc, at' \in Int, at <= at'
  PROVE  ReadInv'
<1>1. /\ at \in Nat /\ during[1] \in Nat /\ during[2] \in Nat
      /\ 1 <= during[1] /\ during[1] <= during[2] /\ during[2] <= at
  BY DuringIs DEF ClockInv
<1>2. ASSUME pc' = "read" PROVE Seen(at)'
  <2>1. Seen(at)
    BY <1>2 DEF ClockInv, ReadInv
  <2>2. at \in Int /\ during'[1] = during[1] /\ during[1] \in Int
    BY <1>1
  <2>3. \E w \in [1..12 -> Nat] :
          \A k \in 1..Len(read') :
             /\ w[k] \in during'[1]..at'
             /\ read'[k] = (RegisterAt(w[k], FieldOf(k)))'
             /\ \A j \in 1..k : w[j] <= w[k]
    BY <2>1, <2>2, SeenStays
  <2> QED BY <2>3 DEF Seen, SeenAt
<1>3. ASSUME pc' = "convert" PROVE Seen(during[2])'
  <2>1. Seen(during[2])
    BY <1>3 DEF ClockInv, ReadInv
  <2>2. /\ during'[1] = during[1] /\ during[1] \in Int
        /\ during'[2] = during[2] /\ during[2] \in Int /\ during[2] <= during[2]
    BY <1>1
  <2>3. \E w \in [1..12 -> Nat] :
          \A k \in 1..Len(read') :
             /\ w[k] \in during'[1]..during[2]
             /\ read'[k] = (RegisterAt(w[k], FieldOf(k)))'
             /\ \A j \in 1..k : w[j] <= w[k]
    BY <2>1, <2>2, SeenStays
  <2> QED BY <2>2, <2>3 DEF Seen, SeenAt
<1> QED BY <1>2, <1>3 DEF ClockInv, ReadInv

(* datetime_init, up to the comparison.                                    *)
LEMMA WaitKeeps ==
  ASSUME ClockInv, Wait
  PROVE  ReadInv'
<1>1. Len(read') = 0 /\ pc' = "read" /\ read' = <<>>
  BY DEF Wait
<1>2. Seen(at)'
  <2> DEFINE w == [k \in 1..12 |-> 0]
  <2>1. w \in [1..12 -> Nat]
    OBVIOUS
  <2> HIDE DEF w
  <2>2. 1..Len(read') = {}
    BY <1>1
  <2>3. \E x \in [1..12 -> Nat] :
          \A k \in 1..Len(read') :
             /\ x[k] \in during'[1]..at'
             /\ read'[k] = (RegisterAt(x[k], FieldOf(k)))'
             /\ \A j \in 1..k : x[j] <= x[k]
    BY <2>1, <2>2
  <2> QED BY <2>3 DEF Seen, SeenAt
<1>3. read' \in Seq(0..255) /\ Len(read') \in 0..12
  BY <1>1
<1> QED BY <1>1, <1>2, <1>3 DEF ReadInv

LEMMA CompareKeeps ==
  ASSUME ClockInv, Compare
  PROVE  ReadInv'
<1>1. /\ Seen(at) /\ Len(read) = 12 /\ read \in Seq(0..255)
      /\ read' = read /\ series' = series /\ format' = format
  BY DEF ClockInv, ReadInv, Compare, chip
<1>2. /\ at \in Nat /\ during[1] \in Nat /\ during[2] \in Nat
      /\ 1 <= during[1] /\ during[1] <= during[2] /\ during[2] <= at
  BY DuringIs DEF ClockInv
<1>3. during'[1] = during[1] /\ during'[2] = at
  BY DEF Compare
<1>4. pc' \in {"wait", "convert"} /\ (pc' = "convert" => SubSeq(read, 1, 6) = Second)
  BY DEF Compare
<1>5. ASSUME pc' = "convert" PROVE \A k \in 1..6 : read[k] = read[6 + k]
  <2> SUFFICES ASSUME NEW k \in 1..6 PROVE read[k] = read[6 + k]
    OBVIOUS
  <2>1. SubSeq(read, 1, 6) = Second
    BY <1>4, <1>5
  <2>2. SubSeq(read, 1, 6)[k] = read[k]
    BY <1>1
  <2>3. Second[k] = read[6 + k]
    BY DEF Second
  <2> QED BY <2>1, <2>2, <2>3
<1>6. Seen(during[2])'
  <2>1. at \in Int /\ at <= at /\ during[1] \in Int
    BY <1>2
  <2>2. \E w \in [1..12 -> Nat] :
          \A k \in 1..Len(read') :
             /\ w[k] \in during'[1]..at
             /\ read'[k] = (RegisterAt(w[k], FieldOf(k)))'
             /\ \A j \in 1..k : w[j] <= w[k]
    BY <1>1, <1>3, <2>1, SeenStays
  <2> QED BY <1>3, <2>2 DEF Seen, SeenAt
<1> QED BY <1>1, <1>4, <1>5, <1>6 DEF ReadInv

LEMMA YearHolds ==
  ASSUME NEW y, NEW n, n \in Nat, ValidYear(y)
  PROVE  YearWithin(y, n)
<1>1. y \in 1970..(9999 + n)
  BY SMT DEF ValidYear, Years
<1> QED BY <1>1, SMT DEF YearWithin

LEMMA YearTicks ==
  ASSUME NEW y, NEW n, NEW next, n \in Nat, YearWithin(y, n),
         y < LastYear => next \in {y, y + 1}
  PROVE  YearWithin(next, n + 1)
<1> SUFFICES ASSUME n + 1 <= LastYear - 9999 PROVE next \in 1970..(9999 + (n + 1))
  BY SMT DEF YearWithin
<1>1. y \in 1970..(9999 + n)
  BY LastYearIsNat, SMT DEF YearWithin
<1>2. y < LastYear
  BY <1>1, LastYearIsNat, SMT
<1>3. next \in {y, y + 1}
  BY SMTT(30), <1>2
<1> QED BY <1>1, <1>3, SMT

LEMMA ValidIs ==
  ASSUME NEW t
  PROVE  Valid(t) <=> InRange(t) /\ ValidYear(t.year)
  BY Zenon DEF Valid, InRange, ValidYear

LEMMA FallbackIs ==
  /\ Fallback \in DateTime /\ InRange(Fallback) /\ ValidYear(Fallback.year)
<1> DEFINE y == 2026
<1>1. y \in 0..LastYear /\ ValidYear(y)
  BY SMT DEF LastYear, ValidYear, Years
<1>2. 1 \in 0..255 /\ 0 \in 0..255
  OBVIOUS
<1>3. Fallback = Time(y, 1, 1, 0, 0, 0)
  BY DEF Fallback
<1> HIDE DEF y
<1>4. /\ Fallback \in DateTime /\ Fallback.year = y /\ Fallback.month = 1 /\ Fallback.day = 1
      /\ Fallback.hour = 0 /\ Fallback.minute = 0 /\ Fallback.second = 0
  <2>1. /\ Time(y, 1, 1, 0, 0, 0) \in DateTime
        /\ Time(y, 1, 1, 0, 0, 0).year = y
        /\ Time(y, 1, 1, 0, 0, 0).month = 1
        /\ Time(y, 1, 1, 0, 0, 0).day = 1
        /\ Time(y, 1, 1, 0, 0, 0).hour = 0
        /\ Time(y, 1, 1, 0, 0, 0).minute = 0
        /\ Time(y, 1, 1, 0, 0, 0).second = 0
    BY <1>1, <1>2, TimeFields
  <2> QED BY <1>3, <2>1, Zenon
<1>5. InRange(Fallback)
  BY <1>4 DEF InRange
<1> QED BY <1>1, <1>4, <1>5

(* What datetime_init ends with.                                           *)
LEMMA ConvertKeeps ==
  ASSUME ClockInv, Convert
  PROVE  HeldInv' /\ ReadingIsTrue'
<1>1. /\ pc = "convert" /\ pc' = "done" /\ ChipInv /\ DuringInv /\ ReadInv /\ ticks \in Nat
      /\ series' = series /\ format' = format /\ during' = during /\ ticks' = ticks
      /\ clock' = IF Valid(Converted) THEN Converted ELSE Fallback
  BY DEF ClockInv, Convert, chip
<1>2. PICK i \in 1..Len(series) :
        /\ i \in during[1]..during[2]
        /\ \/ Converted = series[i]
           \/ /\ format.bcd /\ format.h12 /\ series[i].hour >= 12
              /\ Converted.hour \in 81..92
  BY <1>1, ConvertedIs
<1>3. /\ series[i] \in DateTime /\ ValidYear(series[i].year)
      /\ series[i].second \in 0..59 /\ series[i].minute \in 0..59
      /\ series[i].hour \in 0..23 /\ series[i].day \in 1..31 /\ series[i].month \in 1..12
  <2>1. /\ series[i] \in DateTime /\ series[i].year \in 2000..2099
        /\ series[i].second \in 0..59 /\ series[i].minute \in 0..59
        /\ series[i].hour \in 0..23 /\ series[i].day \in 1..31 /\ series[i].month \in 1..12
    BY <1>1, TimesNow
  <2>2. ValidYear(series[i].year)
    <3> DEFINE y == series[i].year
    <3>1. y \in 2000..2099
      BY <2>1
    <3> HIDE DEF y
    <3>2. ValidYear(y)
      BY <3>1, SMT DEF ValidYear, Years
    <3> QED BY <3>2 DEF y
  <2> QED BY <2>1, <2>2, SMT
<1>4. series[i] \in Shown /\ Shown' = Shown
  BY <1>1, <1>2 DEF Shown
<1>5. CASE Converted = series[i]
  <2>1. Valid(Converted)
    BY <1>3, <1>5, ValidIs, Zenon DEF InRange
  <2>2. clock' = series[i]
    BY <1>1, <1>5, <2>1
  <2>3. InRange(clock') /\ ValidYear(clock'.year)
    BY <1>5, <2>1, <2>2, ValidIs, Zenon
  <2>4. YearInv'
    BY <1>1, <2>3, YearHolds, Zenon DEF YearInv
  <2> QED BY <1>1, <1>3, <1>4, <2>2, <2>3, <2>4, Zenon DEF HeldInv, ReadingIsTrue
<1>6. CASE /\ format.bcd /\ format.h12 /\ series[i].hour >= 12
           /\ Converted.hour \in 81..92
  <2>1. Converted.hour \notin 0..23
    <3> DEFINE h == Converted.hour
    <3>1. h \in 81..92
      BY <1>6
    <3> HIDE DEF h
    <3>2. h \notin 0..23
      BY <3>1
    <3> QED BY <3>2 DEF h
  <2>2. ~Valid(Converted)
    BY <2>1, ValidIs, Zenon DEF InRange
  <2>3. clock' = Fallback
    BY <1>1, <2>2
  <2>4. clock' \in DateTime /\ InRange(clock') /\ ValidYear(clock'.year)
    BY <2>3, FallbackIs
  <2>5. YearInv'
    BY <1>1, <2>4, YearHolds, Zenon DEF YearInv
  <2>6. Fallback' = Fallback
    BY DEF Fallback, Time
  <2> QED BY <1>1, <1>4, <1>6, <2>3, <2>4, <2>5, <2>6, Zenon DEF HeldInv, ReadingIsTrue
<1> QED BY <1>2, <1>5, <1>6

(* datetime_tick keeps the ranges, and adds a year at most.                *)
LEMMA TickedRange ==
  ASSUME NEW t \in DateTime, InRange(t)
  PROVE  /\ Ticked(t) \in DateTime /\ InRange(Ticked(t))
         /\ t.year < LastYear => Ticked(t).year \in {t.year, t.year + 1}
<1>1. /\ t.year \in 0..LastYear /\ t.month \in 1..12 /\ t.day \in 1..31
      /\ t.hour \in 0..23 /\ t.minute \in 0..59 /\ t.second \in 0..59
  BY DateFields DEF InRange
<1>2. ASSUME NEW y, NEW mo, NEW d, NEW h, NEW mi, NEW s,
             y \in 0..LastYear, mo \in 1..12, d \in 1..31, h \in 0..23, mi \in 0..59, s \in 0..59,
             Ticked(t) = Time(y, mo, d, h, mi, s),
             t.year < LastYear => y \in {t.year, t.year + 1}
      PROVE  /\ Ticked(t) \in DateTime /\ InRange(Ticked(t))
             /\ t.year < LastYear => Ticked(t).year \in {t.year, t.year + 1}
  <2>1. mo \in 0..255 /\ d \in 0..255 /\ h \in 0..255 /\ mi \in 0..255 /\ s \in 0..255
    BY <1>2, SMT
  <2>2. /\ Ticked(t) \in DateTime /\ Ticked(t).year = y /\ Ticked(t).month = mo
        /\ Ticked(t).day = d /\ Ticked(t).hour = h /\ Ticked(t).minute = mi
        /\ Ticked(t).second = s
    BY <1>2, <2>1, TimeFields
  <2> QED BY <1>2, <2>2 DEF InRange
<1> DEFINE y == t.year
           mo == t.month
           d == t.day
           h == t.hour
           mi == t.minute
           s == t.second
<1>3. Ticked(t) =
        IF s < 59 THEN Time(y, mo, d, h, mi, s + 1)
        ELSE IF mi < 59 THEN Time(y, mo, d, h, mi + 1, 0)
        ELSE IF h < 23 THEN Time(y, mo, d, h + 1, 0, 0)
        ELSE IF d < DaysInMonth(y, mo) THEN Time(y, mo, d + 1, 0, 0, 0)
        ELSE IF mo < 12 THEN Time(y, mo + 1, 1, 0, 0, 0)
        ELSE Time((y + 1) % (LastYear + 1), 1, 1, 0, 0, 0)
  BY TickedIs
<1>4. /\ y \in 0..LastYear /\ mo \in 1..12 /\ d \in 1..31
      /\ h \in 0..23 /\ mi \in 0..59 /\ s \in 0..59
  BY <1>1
<1>5. y < LastYear => y \in {t.year, t.year + 1}
  OBVIOUS
<1>6. y < LastYear => y + 1 \in {t.year, t.year + 1}
  OBVIOUS
<1>7. LastYear \in Nat
  BY LastYearIsNat
<1>8. DaysInMonth(y, mo) \in 28..31
  BY <1>4, <1>7, MonthLength
<1>9. t.year = y
  OBVIOUS
<1>10. 1 \in 1..12 /\ 1 \in 1..31 /\ 0 \in 0..23 /\ 0 \in 0..59
  OBVIOUS
<1> HIDE DEF y, mo, d, h, mi, s
<1>11. CASE s < 59
  <2>1. s + 1 \in 0..59
    BY <1>4, <1>11
  <2>2. Ticked(t) = Time(y, mo, d, h, mi, s + 1)
    BY <1>3, <1>11
  <2> QED BY <1>2, <1>4, <1>5, <1>9, <2>1, <2>2
<1>12. CASE ~(s < 59) /\ mi < 59
  <2>1. mi + 1 \in 0..59
    BY <1>4, <1>12
  <2>2. Ticked(t) = Time(y, mo, d, h, mi + 1, 0)
    BY <1>3, <1>12
  <2> QED BY <1>2, <1>4, <1>5, <1>9, <1>10, <2>1, <2>2
<1>13. CASE ~(s < 59) /\ ~(mi < 59) /\ h < 23
  <2>1. h + 1 \in 0..23
    BY <1>4, <1>13
  <2>2. Ticked(t) = Time(y, mo, d, h + 1, 0, 0)
    BY <1>3, <1>13
  <2> QED BY <1>2, <1>4, <1>5, <1>9, <1>10, <2>1, <2>2
<1>14. CASE ~(s < 59) /\ ~(mi < 59) /\ ~(h < 23) /\ d < DaysInMonth(y, mo)
  <2>1. d + 1 \in 1..31
    BY <1>4, <1>8, <1>14
  <2>2. Ticked(t) = Time(y, mo, d + 1, 0, 0, 0)
    BY <1>3, <1>14
  <2> QED BY <1>2, <1>4, <1>5, <1>9, <1>10, <2>1, <2>2
<1>15. CASE ~(s < 59) /\ ~(mi < 59) /\ ~(h < 23) /\ ~(d < DaysInMonth(y, mo)) /\ mo < 12
  <2>1. mo + 1 \in 1..12
    BY <1>4, <1>15
  <2>2. Ticked(t) = Time(y, mo + 1, 1, 0, 0, 0)
    BY <1>3, <1>15
  <2> QED BY <1>2, <1>4, <1>5, <1>9, <1>10, <2>1, <2>2
<1>16. CASE ~(s < 59) /\ ~(mi < 59) /\ ~(h < 23) /\ ~(d < DaysInMonth(y, mo)) /\ ~(mo < 12)
  <2> DEFINE y2 == (y + 1) % (LastYear + 1)
  <2>1. Ticked(t) = Time(y2, 1, 1, 0, 0, 0)
    BY <1>3, <1>16
  <2>2. y2 \in 0..LastYear
    BY <1>4, <1>7
  <2>3. y < LastYear => y2 \in {t.year, t.year + 1}
    <3>1. CASE y < LastYear
      <4>1. LastYear + 1 \in Nat \ {0} /\ y + 1 \in 0..(LastYear + 1) - 1
        BY <1>4, <1>7, <3>1
      <4>2. y2 = y + 1
        BY <4>1, SmallRemainder
      <4> QED BY <1>6, <3>1, <4>2
    <3> QED BY <3>1
  <2> HIDE DEF y2
  <2> QED BY <1>2, <1>9, <1>10, <2>1, <2>2, <2>3
<1> QED BY <1>11, <1>12, <1>13, <1>14, <1>15, <1>16

-----------------------------------------------------------------------------
(***************************************************************************)
(* The theorems.                                                           *)
(***************************************************************************)
LEMMA ClockStart == Init => ClockInv
<1> SUFFICES ASSUME Init PROVE ClockInv
  OBVIOUS
<1>1. /\ series \in Series /\ at = 1 /\ format \in Formats /\ updating = FALSE
      /\ pc = "wait" /\ read = <<>> /\ during = <<1, 1>> /\ ticks = 0
  BY DEF Init, Formats
<1>2. ChipInv
  <2>1. Len(series) \in 1..59
    BY <1>1, SeriesAssumption
  <2> DEFINE n == Len(series)
  <2>2. n \in 1..59
    BY <2>1
  <2> HIDE DEF n
  <2>3. 1 \in 1..n
    BY <2>2
  <2> QED BY <1>1, <2>3 DEF ChipInv, n
<1>3. DuringInv
  BY <1>1 DEF DuringInv
<1>4. ReadInv
  BY <1>1 DEF ReadInv
<1>5. HeldInv /\ ReadingIsTrue
  BY <1>1 DEF HeldInv, ReadingIsTrue
<1> QED BY <1>1, <1>2, <1>3, <1>4, <1>5 DEF ClockInv

(* What is left alone when only the chip goes on.                          *)
LEMMA ChipGoesOn ==
  ASSUME ClockInv, at' \in Int, at <= at',
         UNCHANGED <<series, format, pc, read, clock, during, ticks>>
  PROVE  ReadInv' /\ HeldInv' /\ ReadingIsTrue'
<1>1. /\ series' = series /\ format' = format /\ pc' = pc /\ read' = read
      /\ clock' = clock /\ during' = during /\ ticks' = ticks
  OBVIOUS
<1>2. ReadInv'
  BY <1>1, ReadingStays
<1>3. HeldInv'
  BY <1>1 DEF ClockInv, HeldInv, YearInv
<1>4. Shown' = Shown
  BY <1>1 DEF Shown
<1>5. Fallback' = Fallback
  BY DEF Fallback, Time
<1>6. ReadingIsTrue'
  BY <1>1, <1>4, <1>5, Zenon DEF ClockInv, ReadingIsTrue
<1> QED BY <1>2, <1>3, <1>6

LEMMA ClockStep == ClockInv /\ [Next]_vars => ClockInv'
<1> SUFFICES ASSUME ClockInv, [Next]_vars PROVE ClockInv'
  OBVIOUS
<1> USE DEF chip
<1>1. /\ ChipInv /\ DuringInv /\ ReadInv /\ HeldInv /\ ReadingIsTrue /\ ticks \in Nat
      /\ pc \in {"wait", "read", "convert", "done", "set"}
  BY DEF ClockInv
<1>2. /\ at \in Nat /\ during[1] \in Nat /\ during[2] \in Nat
      /\ 1 <= during[1] /\ during[1] <= during[2] /\ during[2] <= at
  BY <1>1, DuringIs
<1>3. CASE BeginUpdate
  <2>1. /\ UNCHANGED <<series, format, pc, read, clock, during, ticks>>
        /\ at' = at /\ at' \in Int /\ at <= at'
    BY <1>2, <1>3 DEF BeginUpdate
  <2>2. ChipInv'
    BY <1>1, <1>3 DEF BeginUpdate, ChipInv
  <2>3. DuringInv'
    BY <1>1, <2>1 DEF DuringInv
  <2>4. ReadInv' /\ HeldInv' /\ ReadingIsTrue'
    BY <2>1, ChipGoesOn
  <2> QED BY <1>1, <2>1, <2>2, <2>3, <2>4 DEF ClockInv
<1>4. CASE Update
  <2>1. /\ UNCHANGED <<series, format, pc, read, clock, during, ticks>>
        /\ at' = at + 1 /\ at' \in Int /\ at <= at'
    BY <1>2, <1>4 DEF Update
  <2>2. ChipInv'
    <3>1. at < Len(series) /\ Len(series) \in Nat
      BY <1>1, <1>4, SeriesAssumption DEF ChipInv, Update
    <3>2. at' \in 1..Len(series')
      BY <1>2, <2>1, <3>1
    <3> QED BY <1>1, <1>4, <3>2 DEF ChipInv, Update
  <2>3. DuringInv'
    BY <1>1, <1>2, <2>1 DEF DuringInv
  <2>4. ReadInv' /\ HeldInv' /\ ReadingIsTrue'
    BY <2>1, ChipGoesOn
  <2> QED BY <1>1, <2>1, <2>2, <2>3, <2>4 DEF ClockInv
<1>5. ASSUME UNCHANGED chip PROVE ChipInv' /\ at' = at
  BY <1>1, <1>5 DEF ChipInv
<1>6. CASE Wait
  <2>1. UNCHANGED chip /\ pc' = "read" /\ clock' = clock /\ ticks' = ticks
        /\ during' = <<at, at>>
    BY <1>6 DEF Wait
  <2>2. DuringInv'
    BY <1>2, <1>5, <2>1 DEF DuringInv
  <2>3. ReadInv'
    BY <1>6, WaitKeeps
  <2>4. HeldInv' /\ ReadingIsTrue'
    BY <2>1 DEF HeldInv, ReadingIsTrue
  <2> QED BY <1>1, <1>5, <2>1, <2>2, <2>3, <2>4 DEF ClockInv
<1>7. CASE ReadRegister
  <2>1. /\ UNCHANGED chip /\ pc' = "read" /\ clock' = clock /\ ticks' = ticks
        /\ during' = during
    BY <1>7 DEF ReadRegister
  <2>2. DuringInv'
    BY <1>1, <1>5, <2>1 DEF DuringInv
  <2>3. ReadInv'
    BY <1>7, ReadKeeps
  <2>4. HeldInv' /\ ReadingIsTrue'
    BY <2>1 DEF HeldInv, ReadingIsTrue
  <2> QED BY <1>1, <1>5, <2>1, <2>2, <2>3, <2>4 DEF ClockInv
<1>8. CASE Compare
  <2>1. /\ UNCHANGED chip /\ pc' \in {"wait", "convert"} /\ clock' = clock /\ ticks' = ticks
        /\ during' = <<during[1], at>>
    BY <1>8 DEF Compare
  <2>2. DuringInv'
    <3>1. at' = at
      BY <1>5, <2>1
    <3> DEFINE a == during[1]
    <3>2. a \in 1..at /\ at \in a..at
      <4>1. a \in Nat /\ 1 <= a /\ a <= at
        BY <1>2
      <4> HIDE DEF a
      <4> QED BY <1>2, <4>1
    <3>3. during'[1] = a /\ during'[2] = at
      BY <2>1
    <3> HIDE DEF a
    <3> QED BY <3>1, <3>2, <3>3 DEF DuringInv
  <2>3. ReadInv'
    BY <1>8, CompareKeeps
  <2>4. HeldInv' /\ ReadingIsTrue'
    BY <2>1 DEF HeldInv, ReadingIsTrue
  <2> QED BY <1>1, <1>5, <2>1, <2>2, <2>3, <2>4 DEF ClockInv
<1>9. ASSUME UNCHANGED <<chip, read, during>>, pc' \in {"done", "set"}
      PROVE  ChipInv' /\ DuringInv' /\ ReadInv'
  <2>1. ChipInv' /\ at' = at
    BY <1>5, <1>9
  <2>2. DuringInv'
    BY <1>1, <1>9, <2>1 DEF DuringInv
  <2>3. ReadInv'
    BY <1>1, <1>9 DEF ReadInv
  <2> QED BY <2>1, <2>2, <2>3
<1>10. CASE Convert
  <2>1. UNCHANGED <<chip, read, during>> /\ pc' = "done" /\ ticks' = ticks
    BY <1>10 DEF Convert
  <2>2. HeldInv' /\ ReadingIsTrue'
    BY <1>10, ConvertKeeps
  <2> QED BY <1>1, <1>9, <2>1, <2>2 DEF ClockInv
<1>11. ASSUME NEW t \in Settings, Set(t) PROVE ClockInv'
  <2>1. /\ UNCHANGED <<chip, read, during>> /\ pc' = "set" /\ ticks' = ticks
        /\ clock' = t /\ Valid(t)
    BY <1>11 DEF Set
  <2>2. InRange(clock') /\ ValidYear(clock'.year)
    BY <2>1, ValidIs
  <2>3. YearInv'
    BY <1>1, <2>1, <2>2, YearHolds, Zenon DEF YearInv
  <2>4. clock' \in DateTime
    BY <2>1, SettingsAssumption
  <2>5. HeldInv'
    BY <2>2, <2>3, <2>4 DEF HeldInv
  <2>6. ReadingIsTrue'
    BY <2>1 DEF ReadingIsTrue
  <2> QED BY <1>1, <1>9, <2>1, <2>5, <2>6 DEF ClockInv
<1>12. CASE Tick
  <2>1. /\ UNCHANGED <<chip, read, during>> /\ pc' = "set" /\ ticks' = ticks + 1
        /\ clock' = Ticked(clock) /\ pc \in {"done", "set"}
    BY <1>12 DEF Tick
  <2>2. clock \in DateTime /\ InRange(clock) /\ YearInv
    BY <1>1, <2>1 DEF HeldInv
  <2>3. /\ clock' \in DateTime /\ InRange(clock')
        /\ clock.year < LastYear => clock'.year \in {clock.year, clock.year + 1}
    BY <2>1, <2>2, TickedRange
  <2>4. YearInv'
    BY <1>1, <2>1, <2>2, <2>3, YearTicks, Zenon DEF YearInv
  <2>5. HeldInv'
    BY <2>3, <2>4 DEF HeldInv
  <2>6. ReadingIsTrue'
    BY <2>1 DEF ReadingIsTrue
  <2> QED BY <1>1, <1>9, <2>1, <2>5, <2>6 DEF ClockInv
<1>13. CASE UNCHANGED vars
  <2>1. /\ UNCHANGED <<series, format, pc, read, clock, during, ticks>> /\ UNCHANGED chip
        /\ at' = at /\ at' \in Int /\ at <= at'
    BY <1>2, <1>13 DEF vars
  <2>2. ReadInv' /\ HeldInv' /\ ReadingIsTrue'
    BY <2>1, ChipGoesOn
  <2>3. DuringInv'
    BY <1>1, <2>1 DEF DuringInv
  <2> QED BY <1>1, <1>5, <2>1, <2>2, <2>3 DEF ClockInv
<1> QED BY <1>3, <1>4, <1>6, <1>7, <1>8, <1>10, <1>11, <1>12, <1>13 DEF Next

(* The registers are only read between two waits, as what the chip showed  *)
(* in this order; the clock is then one of these seconds, and is kept in   *)
(* the ranges of a date by datetime_set and datetime_tick.                 *)
THEOREM ClockInvariance == Spec => []ClockInv
<1> QED BY ClockStart, ClockStep, PTL DEF Spec

(* Whatever the chip goes through, is set and is ticked, the clock holds a *)
(* date and a time of day in the ranges of datetime_is_valid.              *)
THEOREM ClockTypesHold == Spec => []TypeOK
<1>1. ClockInv => TypeOK
  <2> SUFFICES ASSUME ClockInv PROVE TypeOK
    OBVIOUS
  <2>1. at \in 1..Len(series) /\ during[1] \in 1..at /\ during[2] \in during[1]..at
    BY DEF ClockInv, ChipInv, DuringInv
  <2>2. Len(read) \in 0..12 /\ \A i \in 1..Len(read) : read[i] \in 0..255
    <3>1. read \in Seq(0..255) /\ Len(read) \in 0..12
      BY DEF ClockInv, ReadInv
    <3>2. ASSUME NEW i \in 1..Len(read) PROVE read[i] \in 0..255
      <4> DEFINE Byte == 0..255
      <4>1. read \in Seq(Byte)
        BY <3>1
      <4> HIDE DEF Byte
      <4>2. read[i] \in Byte
        BY <4>1
      <4> QED BY <4>2 DEF Byte
    <3> QED BY <3>1, <3>2
  <2>3. pc \in {"wait", "read", "convert", "done", "set"}
    BY DEF ClockInv
  <2>4. pc \in {"done", "set"} => clock \in DateTime /\ InRange(clock) /\ YearInv
    BY DEF ClockInv, HeldInv
  <2> QED BY <2>1, <2>2, <2>3, <2>4, SMT DEF TypeOK, InRange, YearInv, YearWithin
<1> QED BY <1>1, ClockInvariance, PTL

(* For every series of less than a minute and every format of the chip,    *)
(* however it goes on between two reads, datetime_init ends with a second  *)
(* the chip showed, but for an afternoon in BCD and 12 hours.              *)
THEOREM ClockIsTrue == Spec => []ReadingIsTrue
<1>1. ClockInv => ReadingIsTrue
  BY DEF ClockInv
<1> QED BY <1>1, ClockInvariance, PTL

(* datetime_tick goes to the next second of the calendar from every date,  *)
(* up to the last year of 16 bits.                                         *)
THEOREM TicksAreSeconds == Spec => TickIsNextSecond
<1> DEFINE Follows == Tick /\ Real(clock) /\ clock.year < LastYear =>
                        Real(clock') /\ Successive(clock, clock')
<1>1. ClockInv /\ [Next]_vars => [Follows]_vars
  <2> SUFFICES ASSUME ClockInv, Tick, Real(clock), clock.year < LastYear
               PROVE  Real(clock') /\ Successive(clock, clock')
    OBVIOUS
  <2>1. clock \in DateTime /\ clock' = Ticked(clock)
    BY DEF ClockInv, HeldInv, Tick
  <2>2. Ticked(clock) \in DateTime /\ Real(Ticked(clock)) /\ Successive(clock, Ticked(clock))
    BY <2>1, NextSecond
  <2> QED BY <2>1, <2>2
<1> QED BY <1>1, ClockInvariance, PTL DEF Spec, TickIsNextSecond

-----------------------------------------------------------------------------
(***************************************************************************)
(* The disk driver and the installer.                                      *)
(***************************************************************************)
(***************************************************************************)
(* A command that the driver has not given up is that of the present call, *)
(* and the data that the drive stores for it is that of the call.          *)
(***************************************************************************)
Owned ==
  ~drive.orphan =>
    /\ drive.state \in {"busy", "data"} =>
         call.at = "drq" /\ drive.lba = call.lba /\ drive.kind = call.kind
    /\ drive.state = "storing" =>
         call.at = "settle" /\ drive.lba = call.lba /\ drive.data = call.lba

(***************************************************************************)
(* A call that found the drive at rest knows what the drive does until the *)
(* call has ended, and leaves no command but its own behind.               *)
(***************************************************************************)
CleanCall ==
  call.clean =>
    /\ call.at \in {"select", "done"} => Rests
    /\ call.at \in {"drq", "settle"} => Rests \/ ~drive.orphan
    /\ call.at = "settle" =>
         call.kind = "write" /\ (Rests => platter[call.lba] \in {call.lba, Bad})
    /\ call.at = "failed" => Rests \/ drive.lba = call.lba
    /\ AnswersAreTrue

(* The driver and the drive, whoever calls.                                *)
DiskInv == DiskTypeOK /\ Owned /\ CleanCall

(***************************************************************************)
(* While the installer works, the call is its own; else it is one of the   *)
(* file system, for a sector behind the installed ones.                    *)
(***************************************************************************)
OwnCall ==
  IF inst.state = "WORKING"
  THEN /\ call.at # "none" /\ call.kind = "write" /\ call.lba \in Image
       /\ foundClean => call.clean
  ELSE call.at # "none" => call.lba \notin Image

(* No command that is still in the drive is for a sector already reached.  *)
Untouched == foundClean => Rests \/ drive.lba \notin 0..Reached - 1

(* The inductive invariant.                                                *)
InstInv == DiskInv /\ InstTypeOK /\ OwnCall /\ Untouched /\ VerdictIsTrue

-----------------------------------------------------------------------------
USE SectorAssumption, TotalAssumption

(* The steps of the driver keep its invariant, and every sector of which   *)
(* the installer speaks.                                                   *)
LEMMA DriverStepKeeps ==
  ASSUME DiskInv, DriverStep
  PROVE  /\ DiskInv'
         /\ platter' = platter
         /\ call'.at # "none" /\ call'.kind = call.kind
         /\ call'.lba = call.lba /\ call'.clean = call.clean
         /\ call.at \notin {"none", "done", "failed"}
         /\ Rests' \/ drive'.lba = call.lba \/ (~Rests /\ drive'.lba = drive.lba)
<1> USE DEF DiskInv, DiskTypeOK, Drive, Request, Kind, Data, Rests, BSY, AtRest,
            Return, GiveUp, Owned, CleanCall, AnswersAreTrue
<1>1. CASE Select BY <1>1 DEF Select
<1>2. CASE NoDrive BY <1>2 DEF NoDrive
<1>3. CASE Timeout BY <1>3 DEF Timeout
<1>4. CASE Refused BY <1>4, ZenonT(60) DEF Refused
<1>5. CASE TransferIn BY <1>5 DEF TransferIn
<1>6. CASE TransferOut BY <1>6 DEF TransferOut
<1>7. CASE Settle BY <1>7 DEF Settle
<1> QED BY <1>1, <1>2, <1>3, <1>4, <1>5, <1>6, <1>7 DEF DriverStep

(* So do those of the drive, which changes no sector but that of its       *)
(* command.                                                                *)
LEMMA DriveStepKeeps ==
  ASSUME DiskInv, DriveStep
  PROVE  /\ DiskInv'
         /\ call' = call
         /\ \A x \in Sector : platter'[x] # platter[x] =>
              x = drive.lba /\ (platter'[x] \in {x, Bad} \/ drive.orphan)
         /\ ~Rests
         /\ Rests' \/ drive'.lba = drive.lba
<1> USE DEF DiskInv, DiskTypeOK, Drive, Request, Kind, Data, Rests, AtRest,
            Owned, CleanCall, AnswersAreTrue
<1>1. CASE Answer
  <2>1. CASE drive' = [drive EXCEPT !.state = "data"]
    BY <1>1, <2>1 DEF Answer
  <2>2. CASE drive' = AtRest("failed")
    BY <1>1, <2>2 DEF Answer
  <2> QED BY <1>1, <2>1, <2>2 DEF Answer
<1>2. CASE Store
  <2>a. PICK s \in {"ready", "failed"} : drive' = AtRest(s)
    BY <1>2 DEF Store
  <2>1. call' = call /\ ~Rests /\ Rests' /\ ~drive'.orphan /\ drive' \in Drive
    BY <1>2, <2>a DEF Store
  <2>2. PICK d \in Data : /\ platter' = [platter EXCEPT ![drive.lba] = d]
                          /\ d \in {drive.data, Bad}
    BY <1>2 DEF Store
  <2>3. platter' \in [Sector -> Data]
        /\ \A x \in Sector : platter'[x] = IF x = drive.lba THEN d ELSE platter[x]
    BY <2>2
  <2>4. drive.orphan \/ (call.at = "settle" /\ drive.lba = call.lba /\ drive.data = call.lba)
    BY <1>2 DEF Store
  <2>5. call.clean => call.at \in {"settle", "failed", "none"}
    BY <2>1, <2>4
  <2>6. call.clean /\ call.at = "settle" => d \in {call.lba, Bad} /\ drive.lba = call.lba
    BY <2>1, <2>2, <2>4
  <2>7. call.lba \in Sector
    OBVIOUS
  <2>8. CleanCall'
    BY <2>1, <2>3, <2>5, <2>6, <2>7
  <2>9. Owned' /\ DiskTypeOK'
    BY <2>1, <2>3
  <2> QED BY <2>1, <2>2, <2>3, <2>4, <2>8, <2>9
<1> QED BY <1>1, <1>2 DEF DriveStep

-----------------------------------------------------------------------------
(* A call that begins finds the driver between two calls.                  *)
LEMMA BeginKeeps ==
  ASSUME DiskInv, NEW kind \in Kind, NEW x \in Sector, Begin(kind, x),
         call.at \in {"none", "done", "failed"},
         UNCHANGED <<platter, drive>>
  PROVE  DiskInv'
<1>1. Rests \in BOOLEAN
  BY DEF Rests
<1>2. call' \in Request
  BY <1>1 DEF Begin, Request, Data
<1>3. call'.at = "select" /\ (call'.clean <=> Rests)
  BY DEF Begin
<1>4. drive.orphan \/ Rests
  BY DEF DiskInv, DiskTypeOK, Drive, Owned, Rests
<1>5. DiskTypeOK'
  BY <1>2 DEF DiskInv, DiskTypeOK
<1>6. Owned'
  BY <1>4 DEF Owned, Rests
<1>7. CleanCall'
  BY <1>3 DEF CleanCall, AnswersAreTrue, Rests
<1> QED BY <1>5, <1>6, <1>7 DEF DiskInv

(* The end of a call.                                                      *)
LEMMA EndKeeps ==
  ASSUME DiskInv, call' = NoCall, UNCHANGED platter,
         \/ drive' = drive /\ call.at \in {"none", "done", "failed"}
         \/ \E s \in {"ready", "absent"} : drive' = AtRest(s)
  PROVE  DiskInv'
<1>1. call' \in Request /\ call'.at = "none"
  BY DEF NoCall, Request, Kind, Data
<1>2. drive' \in Drive /\ (drive'.orphan \/ Rests')
  <2>1. CASE drive' = drive /\ call.at \in {"none", "done", "failed"}
    BY <2>1 DEF DiskInv, DiskTypeOK, Drive, Owned, Rests
  <2>2. ASSUME NEW s \in {"ready", "absent"}, drive' = AtRest(s)
        PROVE  drive' \in Drive /\ (drive'.orphan \/ Rests')
    BY <2>2 DEF AtRest, Drive, Kind, Rests
  <2> QED BY <2>1, <2>2
<1>3. DiskTypeOK'
  BY <1>1, <1>2 DEF DiskInv, DiskTypeOK
<1>4. Owned' /\ CleanCall'
  BY <1>1, <1>2 DEF Owned, CleanCall, AnswersAreTrue, Rests
<1> QED BY <1>3, <1>4 DEF DiskInv

LEMMA MenusStay ==
  ASSUME NEW m \in Menus
  PROVE  /\ \A key : MenuKey(m, key) \in Menus
         /\ \A left \in BOOLEAN : RightButton(m, left) \in Menus
         /\ \A spot : MenuPress(m, spot) \in Menus
         /\ \A left \in BOOLEAN : [m EXCEPT !.prev = left] \in Menus
  BY DEF Menus, MenuKey, RightButton, MenuPress

LEMMA InitIInv == InstInit => InstInv
  BY DEF InstInit, DiskInit, AtRest, NoCall, Idle, Closed, InstInv, DiskInv, InstTypeOK,
         DiskTypeOK, Drive, Request, Kind, Data, Rests, Owned, CleanCall, AnswersAreTrue,
         OwnCall, Untouched, VerdictIsTrue, Reached, Image, Menus

(* start_install, in whatever state the drive was left.                    *)
LEMMA StartKeeps ==
  ASSUME InstInv, NEW m \in Menus, StartInstall(m), Attentive, UNCHANGED <<platter, drive>>
  PROVE  InstInv'
<1>1. 0 \in Image /\ "write" \in Kind
  BY DEF Image, Kind
<1>2. DiskInv'
  BY <1>1, BeginKeeps DEF InstInv, StartInstall, Attentive
<1>3. inst' \in [state : {"IDLE", "WORKING", "OK", "FAIL"}, failSector : Image, menus : Menus]
      /\ inst'.state = "WORKING"
  BY DEF InstInv, InstTypeOK, StartInstall
<1>4. call'.at = "select" /\ call'.kind = "write" /\ call'.lba = 0
      /\ call'.clean = Rests /\ foundClean' = Rests
  BY DEF StartInstall, Begin
<1>5. Rests \in BOOLEAN
  BY DEF Rests
<1>6. InstTypeOK'
  BY <1>2, <1>3, <1>4, <1>5 DEF InstTypeOK, DiskInv
<1>7. OwnCall'
  BY <1>1, <1>3, <1>4 DEF OwnCall, Image
<1>8. Reached' = 0
  BY <1>3, <1>4 DEF Reached
<1>9. Untouched' /\ VerdictIsTrue'
  BY <1>8, <1>6 DEF Untouched, VerdictIsTrue
<1> QED BY <1>2, <1>6, <1>7, <1>9 DEF InstInv

(* An event that the menus take.                                           *)
LEMMA StayKeeps ==
  ASSUME InstInv, NEW m \in Menus, StaysAt(m), UNCHANGED <<platter, drive>>
  PROVE  InstInv'
<1>1. inst' \in [state : {"IDLE", "WORKING", "OK", "FAIL"}, failSector : Image, menus : Menus]
      /\ inst'.state = inst.state /\ inst'.failSector = inst.failSector
  BY DEF InstInv, InstTypeOK, StaysAt
<1>2. UNCHANGED <<platter, drive, call, foundClean>>
  BY DEF StaysAt
<1>3. Reached' = Reached
  BY <1>1, <1>2 DEF Reached
<1>4. DiskInv'
  BY <1>2 DEF InstInv, DiskInv, DiskTypeOK, Owned, CleanCall, AnswersAreTrue, Rests
<1>5. InstTypeOK'
  BY <1>1, <1>2, <1>4 DEF InstInv, DiskInv, InstTypeOK
<1>6. OwnCall' /\ Untouched' /\ VerdictIsTrue'
  BY <1>1, <1>2, <1>3 DEF InstInv, OwnCall, Untouched, VerdictIsTrue, Rests
<1> QED BY <1>4, <1>5, <1>6 DEF InstInv

-----------------------------------------------------------------------------
(* The sectors reached are installed ones, and the call is for none of     *)
(* them.                                                                   *)
LEMMA ReachedInImage ==
  ASSUME InstInv
  PROVE  /\ Reached \in 0..Total
         /\ call.at # "none" => call.lba \notin 0..Reached - 1
         /\ \A x \in 0..Reached - 1 : x \in Image /\ x \in Sector
<1>1. Reached \in 0..Total
  BY DEF InstInv, InstTypeOK, OwnCall, Reached, Image
<1>2. inst.state = "WORKING" => Reached = call.lba
  BY DEF Reached
<1>3. \A x \in 0..Reached - 1 : x \in Image
  BY <1>1 DEF Image
<1> QED BY <1>1, <1>2, <1>3 DEF InstInv, OwnCall, DiskInv, DiskTypeOK, Request, Image

(* A step of the driver: the installer waits for its call.                 *)
LEMMA DriverIInv ==
  ASSUME InstInv, DriverStep, UNCHANGED <<inst, foundClean>>
  PROVE  InstInv'
<1>1. /\ DiskInv' /\ platter' = platter
      /\ call'.at # "none" /\ call'.kind = call.kind
      /\ call'.lba = call.lba /\ call'.clean = call.clean
      /\ call.at # "none"
      /\ Rests' \/ drive'.lba = call.lba \/ (~Rests /\ drive'.lba = drive.lba)
  BY DriverStepKeeps DEF InstInv
<1>2. Reached' = Reached
  BY <1>1 DEF Reached
<1>3. InstTypeOK'
  BY <1>1 DEF InstInv, InstTypeOK, DiskInv
<1>4. OwnCall' /\ VerdictIsTrue'
  BY <1>1, <1>2 DEF InstInv, OwnCall, VerdictIsTrue
<1>5. Untouched'
  BY <1>1, <1>2, ReachedInImage DEF InstInv, Untouched
<1> QED BY <1>1, <1>3, <1>4, <1>5 DEF InstInv

(* A step of the drive changes no sector that the installer has reached.   *)
LEMMA DriveIInv ==
  ASSUME InstInv, DriveStep, UNCHANGED <<inst, foundClean>>
  PROVE  InstInv'
<1>1. /\ DiskInv' /\ call' = call
      /\ \A x \in Sector : platter'[x] # platter[x] => x = drive.lba
      /\ ~Rests
      /\ Rests' \/ drive'.lba = drive.lba
  BY DriveStepKeeps DEF InstInv
<1>2. Reached' = Reached
  BY <1>1 DEF Reached
<1>3. InstTypeOK' /\ OwnCall'
  BY <1>1 DEF InstInv, InstTypeOK, DiskInv, OwnCall
<1>4. VerdictIsTrue' /\ Untouched'
  BY <1>1, <1>2, ReachedInImage DEF InstInv, Untouched, VerdictIsTrue
<1> QED BY <1>1, <1>3, <1>4 DEF InstInv

(* The loop of the installer, when the call for a sector has returned.     *)
LEMMA NextSectorIInv ==
  ASSUME InstInv, NextSector
  PROVE  InstInv'
<1>1. /\ call.kind = "write" /\ call.lba \in Image /\ call.lba \in Sector
      /\ foundClean => call.clean
      /\ Reached = call.lba
      /\ UNCHANGED <<platter, drive, foundClean>>
      /\ DiskInv
  BY DEF InstInv, OwnCall, NextSector, Reached, Image
<1>2. foundClean /\ call.at = "done" => Rests /\ platter[call.lba] \in {call.lba, Bad}
  BY <1>1 DEF DiskInv, CleanCall, AnswersAreTrue
<1>3. Rests' = Rests
  BY <1>1 DEF Rests
<1>4. CASE call.at = "failed"
  <2>1. inst' = [inst EXCEPT !.state = "FAIL", !.failSector = call.lba] /\ call' = NoCall
    BY <1>4 DEF NextSector
  <2>2. inst' \in [state : {"IDLE", "WORKING", "OK", "FAIL"}, failSector : Image, menus : Menus]
        /\ inst'.state = "FAIL" /\ inst'.failSector = call.lba /\ call'.at = "none"
    BY <1>1, <2>1 DEF InstInv, InstTypeOK, NoCall
  <2>3. DiskInv'
    BY <1>1, <1>4, <2>1, EndKeeps
  <2>4. Reached' = Reached
    BY <1>1, <2>2 DEF Reached
  <2>5. InstTypeOK' /\ OwnCall'
    BY <1>1, <2>2, <2>3 DEF InstInv, InstTypeOK, DiskInv, OwnCall
  <2>6. VerdictIsTrue' /\ Untouched'
    BY <1>1, <1>3, <2>4 DEF InstInv, VerdictIsTrue, Untouched
  <2> QED BY <2>3, <2>5, <2>6 DEF InstInv
<1>5. CASE call.at = "done" /\ call.lba + 1 < Total
  <2>1. Begin("write", call.lba + 1) /\ UNCHANGED inst /\ inst.state = "WORKING"
    BY <1>5 DEF NextSector
  <2>2. call.lba + 1 \in Image /\ call.lba + 1 \in Sector /\ "write" \in Kind
    BY <1>1, <1>5 DEF Image, Kind
  <2>3. DiskInv'
    BY <1>1, <1>5, <2>1, <2>2, BeginKeeps
  <2>4. call'.at = "select" /\ call'.kind = "write" /\ call'.lba = call.lba + 1
        /\ (call'.clean <=> Rests)
    BY <2>1 DEF Begin
  <2>5. Reached' = call.lba + 1
    BY <2>1, <2>4 DEF Reached
  <2>6. InstTypeOK' /\ OwnCall'
    BY <1>1, <1>2, <1>5, <2>1, <2>2, <2>3, <2>4 DEF InstInv, InstTypeOK, DiskInv, OwnCall
  <2>7. foundClean => \A x \in 0..call.lba : platter[x] \in {x, Bad}
    BY <1>1, <1>2, <1>5, <2>2 DEF InstInv, VerdictIsTrue, Image
  <2>8. VerdictIsTrue' /\ Untouched'
    BY <1>1, <1>2, <1>3, <1>5, <2>2, <2>5, <2>7 DEF VerdictIsTrue, Untouched, Image
  <2> QED BY <2>3, <2>6, <2>8 DEF InstInv
<1>6. CASE call.at = "done" /\ ~(call.lba + 1 < Total)
  <2>1. inst' = [inst EXCEPT !.state = "OK"] /\ call' = NoCall
    BY <1>6 DEF NextSector
  <2>2. inst' \in [state : {"IDLE", "WORKING", "OK", "FAIL"}, failSector : Image, menus : Menus]
        /\ inst'.state = "OK" /\ call'.at = "none"
    BY <2>1 DEF InstInv, InstTypeOK, NoCall
  <2>3. DiskInv'
    BY <1>1, <1>6, <2>1, EndKeeps
  <2>4. Reached' = Total /\ Total = call.lba + 1
    BY <1>1, <1>6, <2>2 DEF Reached, Image
  <2>5. InstTypeOK' /\ OwnCall'
    BY <1>1, <2>2, <2>3 DEF InstInv, InstTypeOK, DiskInv, OwnCall
  <2>6. foundClean => \A x \in 0..call.lba : platter[x] \in {x, Bad}
    BY <1>1, <1>2, <1>6 DEF InstInv, VerdictIsTrue, Image
  <2>7. VerdictIsTrue' /\ Untouched'
    BY <1>1, <1>2, <1>3, <1>6, <2>4, <2>6 DEF VerdictIsTrue, Untouched, Image
  <2> QED BY <2>3, <2>5, <2>7 DEF InstInv
<1> QED BY <1>4, <1>5, <1>6 DEF NextSector

(* The installer is closed, or starts again: it has reached nothing.       *)
LEMMA IdleKeeps ==
  ASSUME InstInv, inst' = Idle, call'.at = "none", DiskInv', UNCHANGED <<platter, foundClean>>
  PROVE  InstInv'
<1>1. inst' \in [state : {"IDLE", "WORKING", "OK", "FAIL"}, failSector : Image, menus : Menus]
      /\ inst'.state = "IDLE" /\ foundClean' \in BOOLEAN
  BY DEF InstInv, InstTypeOK, Idle, Closed, Menus, Image
<1>2. Reached' = 0
  BY <1>1 DEF Reached
<1>3. InstTypeOK' /\ OwnCall'
  BY <1>1 DEF InstTypeOK, DiskInv, OwnCall
<1>4. Untouched' /\ VerdictIsTrue'
  BY <1>1, <1>2 DEF Untouched, VerdictIsTrue
<1> QED BY <1>3, <1>4 DEF InstInv

(* The calls of the file system, none of which is for an installed sector. *)
LEMMA FsIInv ==
  ASSUME InstInv,
         FsReturns \/ \E kind \in Kind, x \in Sector \ Image : FsCalls(kind, x)
  PROVE  InstInv'
<1>1. /\ inst.state # "WORKING"
      /\ UNCHANGED <<platter, drive, inst, foundClean>>
  BY DEF InstInv, OwnCall, FsReturns, FsCalls, Attentive
<1>2. Reached' = Reached /\ Rests' = Rests
  BY <1>1 DEF Reached, Rests
<1>3. DiskInv' /\ OwnCall'
  <2>1. CASE FsReturns
    BY <1>1, <2>1, EndKeeps DEF FsReturns, InstInv, OwnCall, NoCall
  <2>2. ASSUME NEW kind \in Kind, NEW x \in Sector \ Image, FsCalls(kind, x)
        PROVE  DiskInv' /\ OwnCall'
    BY <1>1, <2>2, BeginKeeps DEF FsCalls, Attentive, InstInv, OwnCall, Begin
  <2> QED BY <2>1, <2>2
<1>4. InstTypeOK' /\ Untouched' /\ VerdictIsTrue'
  BY <1>1, <1>2, <1>3 DEF InstInv, InstTypeOK, DiskInv, Untouched, VerdictIsTrue
<1> QED BY <1>3, <1>4 DEF InstInv

(* The events, each of which the menus take or which starts the loop.      *)
LEMMA EventIInv ==
  ASSUME InstInv,
         \/ \E key \in InstKeys : InstKey(key)
         \/ \E spot \in InstSpots, left, right \in BOOLEAN : InstMouse(spot, left, right)
  PROVE  InstInv'
<1>1. inst.menus \in Menus
  BY DEF InstInv, InstTypeOK
<1>2. ASSUME NEW key \in InstKeys, InstKey(key)
      PROVE  \E m \in Menus : StaysAt(m) \/ StartInstall(m)
  <2>1. [inst.menus EXCEPT !.help = key = "H"] \in Menus
    BY <1>1 DEF Menus
  <2> QED BY <1>1, <1>2, <2>1, MenusStay DEF InstKey
<1>3. ASSUME NEW spot \in InstSpots, NEW left \in BOOLEAN, NEW right \in BOOLEAN,
             InstMouse(spot, left, right)
      PROVE  \E m \in Menus : StaysAt(m) \/ StartInstall(m)
  <2>1. /\ RightButton(inst.menus, left) \in Menus
        /\ [inst.menus EXCEPT !.prev = left] \in Menus
        /\ MenuPress(inst.menus, spot) \in Menus
        /\ [inst.menus EXCEPT !.prev = TRUE] \in Menus
    BY <1>1, MenusStay
  <2> QED BY <1>3, <2>1 DEF InstMouse
<1>4. Attentive /\ UNCHANGED <<platter, drive>>
  BY DEF InstKey, InstMouse
<1> QED BY <1>2, <1>3, <1>4, StartKeeps, StayKeeps

LEMMA NextIInv == InstInv /\ [InstNext]_instVars => InstInv'
<1> SUFFICES ASSUME InstInv, [InstNext]_instVars PROVE InstInv'
  OBVIOUS
<1>1. CASE DriverStep /\ UNCHANGED <<inst, foundClean>>
  BY <1>1, DriverIInv
<1>2. CASE NextSector
  BY <1>2, NextSectorIInv
<1>3. CASE DriveStep /\ UNCHANGED <<inst, foundClean>>
  BY <1>3, DriveIInv
<1>4. CASE FsReturns \/ \E kind \in Kind, x \in Sector \ Image : FsCalls(kind, x)
  BY <1>4, FsIInv
<1>5. CASE \/ \E key \in InstKeys : InstKey(key)
           \/ \E spot \in InstSpots : InstMouse(spot, TRUE, FALSE)
           \/ \E left, right \in BOOLEAN : InstMouse("NOWHERE", left, right)
  <2>1. "NOWHERE" \in InstSpots
    BY DEF InstSpots
  <2> QED BY <1>5, <2>1, EventIInv
<1>6. CASE InstStart
  <2>1. call.at = "none" /\ inst' = Idle /\ UNCHANGED <<platter, drive, call, foundClean>>
    BY <1>6 DEF InstStart, Attentive, diskVars
  <2>2. DiskInv'
    BY <2>1 DEF InstInv, DiskInv, DiskTypeOK, Owned, CleanCall, AnswersAreTrue, Rests
  <2> QED BY <2>1, <2>2, IdleKeeps
<1>7. CASE PowerFails
  <2>1. \E s \in {"ready", "absent"} : drive' = AtRest(s)
    BY <1>7 DEF PowerFails
  <2>2. call' = NoCall /\ inst' = Idle /\ UNCHANGED <<platter, foundClean>>
    BY <1>7 DEF PowerFails
  <2>3. DiskInv'
    BY <2>1, <2>2, EndKeeps DEF InstInv
  <2> QED BY <2>2, <2>3, IdleKeeps DEF NoCall
<1>8. CASE UNCHANGED instVars
  <2>1. UNCHANGED <<platter, drive, call, inst, foundClean>>
    BY <1>8 DEF instVars, diskVars
  <2> QED BY <2>1 DEF InstInv, DiskInv, DiskTypeOK, Owned, CleanCall, AnswersAreTrue, Rests,
                      InstTypeOK, OwnCall, Untouched, VerdictIsTrue, Reached
<1> QED BY <1>1, <1>2, <1>3, <1>4, <1>5, <1>6, <1>7, <1>8 DEF InstNext, Processor

-----------------------------------------------------------------------------
(* The inductive invariant holds in every state that is reached.           *)
THEOREM InstallerInvariance == InstSpec => []InstInv
<1> QED BY InitIInv, NextIInv, PTL DEF InstSpec

(* The variables of the driver and of the installer keep their types.      *)
THEOREM InstallerTypesHold == InstSpec => []InstTypeOK
<1>1. InstInv => InstTypeOK
  BY DEF InstInv
<1> QED BY <1>1, InstallerInvariance, PTL

(* A call of disk.c that returns 1 has read or written the sector it was   *)
(* asked for, if it found the drive at rest.                               *)
THEOREM TrueAnswers == InstSpec => []AnswersAreTrue
<1>1. InstInv => AnswersAreTrue
  BY DEF InstInv, DiskInv, CleanCall, AnswersAreTrue
<1> QED BY <1>1, InstallerInvariance, PTL

(* installer.c reports an installation as done only when the sectors are   *)
(* on the disk, and names the first sector that is not.                    *)
THEOREM TrueVerdict == InstSpec => []VerdictIsTrue
<1>1. InstInv => VerdictIsTrue
  BY DEF InstInv
<1> QED BY <1>1, InstallerInvariance, PTL

(* Data reaches the sector of another call only through a command that     *)
(* the driver of disk.c gave up.                                           *)
THEOREM DataLandsWhereMeant == InstSpec => LandsWhereMeant
<1> DEFINE Lands == \A x \in Sector :
             platter'[x] # platter[x] => platter'[x] \in {x, Bad} \/ drive.orphan
<1>1. InstInv /\ [InstNext]_instVars => [Lands]_diskVars
  <2> SUFFICES ASSUME InstInv, [InstNext]_instVars PROVE Lands \/ UNCHANGED diskVars
    OBVIOUS
  <2>1. CASE DriveStep
    BY <2>1, DriveStepKeeps DEF InstInv
  <2>2. CASE DriverStep
    BY <2>2, DriverStepKeeps DEF InstInv
  <2>3. CASE ~DriveStep /\ ~DriverStep
    BY <2>3 DEF InstNext, Processor, NextSector, FsReturns, FsCalls, InstKey, InstMouse,
                InstStart, PowerFails, instVars, diskVars
  <2> QED BY <2>1, <2>2, <2>3
<1> QED BY <1>1, InstallerInvariance, PTL DEF InstSpec, LandsWhereMeant

-----------------------------------------------------------------------------
(* The programs and devices of the computer run one after the other: each  *)
(* goes through behaviours of its own specification.                       *)
LEMMA EachPartRuns == PartsSpec => Spec /\ InstSpec /\ CalcSpec /\ PmSpec /\ SetSpec
<1>1. PartsInit => Init /\ InstInit /\ CalcInit /\ PmInit /\ SetInit
  BY DEF PartsInit
<1>2. [PartsNext]_allVars => /\ [Next]_vars /\ [InstNext]_instVars
                             /\ [CalcNext]_calcVars /\ [PmNext]_pmVars
                             /\ [SetNext]_setVars
  <2>1. CASE PartsNext
    BY <2>1 DEF PartsNext
  <2>2. CASE UNCHANGED allVars
    BY <2>2 DEF allVars
  <2> QED BY <2>1, <2>2
<1> QED BY <1>1, <1>2, PTL DEF PartsSpec, Spec, InstSpec, CalcSpec, PmSpec, SetSpec

(* Whichever of them runs, the variables of every one keep their types:    *)
(* the clock, the driver with the installer, the calculator, the program   *)
(* manager and the settings.                                               *)
THEOREM TypesAlwaysHold == PartsSpec => []TypesOK
<1>1. TypeOK /\ InstTypeOK /\ CalcTypeOK /\ PmTypeOK /\ SetTypeOK => TypesOK
  BY DEF TypesOK
<1> QED BY <1>1, EachPartRuns, ClockTypesHold, InstallerTypesHold, CalcTypesHold,
           PmTypesHold, SetTypesHold, PTL
=============================================================================
