------------------------------- MODULE Clock --------------------------------
(***************************************************************************)
(* The date and time of kernel/datetime.c: how datetime_init reads the   *)
(* registers of the CMOS clock one after the other while the chip goes on,*)
(* what it makes of their four formats, and datetime_set and datetime_tick*)
(* of the software clock.                                                *)
(*                                                                       *)
(* The chip is external.  It goes through a series of successive seconds,*)
(* says before each step that it is about to update, and changes all its *)
(* registers at once.                                                    *)
(***************************************************************************)
EXTENDS Integers, Sequences

CONSTANTS
  Series,      \* the successive seconds the chip can go through
  Settings,    \* the arguments of datetime_set
  MaxTicks     \* bound: calls of datetime_tick

Field == <<"second", "minute", "hour", "day", "month", "year">>

Time(y, mo, d, h, mi, s) ==
  [year |-> y, month |-> mo, day |-> d, hour |-> h, minute |-> mi, second |-> s]

(***************************************************************************)
(* The calendar, as a reference: days since a day in the past, and the   *)
(* dates there are.                                                      *)
(***************************************************************************)
Before == <<0, 31, 59, 90, 120, 151, 181, 212, 243, 273, 304, 334, 365>>

DaysBefore(y, mo) ==
  365 * y + (y - 1) \div 4 - (y - 1) \div 100 + (y - 1) \div 400
  + Before[mo]
  + IF mo > 2 /\ y % 4 = 0 /\ (y % 100 # 0 \/ y % 400 = 0) THEN 1 ELSE 0

Real(t) ==
  /\ t.month \in 1..12
  /\ t.day \in 1..(DaysBefore(t.year, t.month + 1) - DaysBefore(t.year, t.month))
  /\ t.hour \in 0..23 /\ t.minute \in 0..59 /\ t.second \in 0..59

Stamp(t) ==
  << DaysBefore(t.year, t.month) + t.day, 60 * (60 * t.hour + t.minute) + t.second >>

Successive(t, u) ==
  \/ Stamp(u) = <<Stamp(t)[1], Stamp(t)[2] + 1>>
  \/ Stamp(t)[2] = 24 * 60 * 60 - 1 /\ Stamp(u) = <<Stamp(t)[1] + 1, 0>>

LastYear == 256 * 256 - 1    \* UINT16_MAX

(* eos_datetime_t *)
DateTime ==
  [year : 0..LastYear, month : 0..255, day : 0..255, hour : 0..255, minute : 0..255,
   second : 0..255]

(* A series lasts less than a minute, in the century the code assumes;   *)
(* its seconds follow one another.                                       *)
ASSUME SeriesAssumption ==
  \A s \in Series :
    /\ s \in Seq(DateTime) /\ Len(s) \in 1..59
    /\ \A i \in 1..Len(s) : Real(s[i]) /\ s[i].year \in 2000..2099

ASSUME SuccessionAssumption ==
  \A s \in Series : \A i \in 1..(Len(s) - 1) : Successive(s[i], s[i + 1])

ASSUME SettingsAssumption == Settings \subseteq DateTime

ASSUME BoundAssumption == MaxTicks \in Nat

VARIABLES
  series, at,    \* the seconds the chip goes through, and the present one
  format,        \* status register B: BCD or binary, 12 or 24 hours
  updating,      \* status register A: an update is near
  pc,            \* where datetime_init is
  read,          \* the registers read since the last wait
  clock,         \* current_datetime
  during,        \* history: the chip's seconds at the last wait and at its end
  ticks          \* bound: calls of datetime_tick

chip == <<series, at, format, updating>>
vars == <<chip, pc, read, clock, during, ticks>>

-----------------------------------------------------------------------------
(***************************************************************************)
(* The chip, and what its registers hold.                                *)
(***************************************************************************)
BeginUpdate ==
  /\ ~updating /\ at < Len(series)
  /\ updating' = TRUE
  /\ UNCHANGED <<series, at, format, pc, read, clock, during, ticks>>

Update ==
  /\ updating
  /\ updating' = FALSE
  /\ at' = at + 1
  /\ UNCHANGED <<series, format, pc, read, clock, during, ticks>>

Coded(v) == IF format.bcd THEN ((v \div 10) * 16) + (v % 10) ELSE v

CodedHour(h) ==
  IF format.h12
  THEN Coded(IF h % 12 = 0 THEN 12 ELSE h % 12) + (IF h >= 12 THEN 128 ELSE 0)
  ELSE Coded(h)

Register(f) ==
  CASE f = "hour" -> CodedHour(series[at].hour)
    [] f = "year" -> Coded(series[at].year % 100)
    [] OTHER -> Coded(series[at][f])

-----------------------------------------------------------------------------
(***************************************************************************)
(* rtc_read_consistent                                                   *)
(***************************************************************************)
Wait ==
  /\ pc = "wait" /\ ~updating
  /\ pc' = "read"
  /\ read' = <<>>
  /\ during' = <<at, at>>
  /\ UNCHANGED <<chip, clock, ticks>>

(* Six registers, and the same six again.                                *)
ReadRegister ==
  /\ pc = "read"
  /\ Len(read) < 12
  /\ read' = Append(read, Register(Field[(Len(read) % 6) + 1]))
  /\ UNCHANGED <<chip, pc, clock, during, ticks>>

Second == [i \in 1..6 |-> read[6 + i]]

(* Mutated form: the second reading is not compared with the first.      *)
CompareNothing ==
  /\ pc = "read" /\ Len(read) = 12
  /\ pc' = "convert"
  /\ during' = <<during[1], at>>
  /\ UNCHANGED <<chip, read, clock, ticks>>

Compare ==
  /\ pc = "read" /\ Len(read) = 12
  /\ pc' = IF SubSeq(read, 1, 6) = Second THEN "convert" ELSE "wait"
  /\ during' = <<during[1], at>>
  /\ UNCHANGED <<chip, read, clock, ticks>>

(* bcd_to_binary, into 8 bits                                            *)
FromBcd(v) == (((v \div 16) * 10) + (v % 16)) % 256

(* Bit 7 is looked for after the conversion.                             *)
From12(h) ==
  LET pm == h >= 128
      low == h % 128
  IN IF pm /\ low < 12 THEN low + 12 ELSE IF ~pm /\ low = 12 THEN 0 ELSE low

Converted ==
  LET value == [i \in 1..6 |-> IF format.bcd THEN FromBcd(Second[i]) ELSE Second[i]]
  IN Time(2000 + value[6], value[5], value[4],
          IF format.h12 THEN From12(value[3]) ELSE value[3], value[2], value[1])

Years == 1970..9999

(* Mutated form: the hour is not looked at.                              *)
ValidButHour(t) ==
  /\ t.year \in Years /\ t.month \in 1..12 /\ t.day \in 1..31
  /\ t.minute \in 0..59 /\ t.second \in 0..59

(* datetime_is_valid                                                     *)
Valid(t) ==
  /\ t.year \in Years /\ t.month \in 1..12 /\ t.day \in 1..31
  /\ t.hour \in 0..23 /\ t.minute \in 0..59 /\ t.second \in 0..59

Fallback == Time(2026, 1, 1, 0, 0, 0)

(* The rest of datetime_init.                                            *)
Convert ==
  /\ pc = "convert"
  /\ pc' = "done"
  /\ clock' = IF Valid(Converted) THEN Converted ELSE Fallback
  /\ UNCHANGED <<chip, read, during, ticks>>

-----------------------------------------------------------------------------
(***************************************************************************)
(* datetime_set and datetime_tick                                        *)
(***************************************************************************)
Set(t) ==
  /\ pc \in {"done", "set"}
  /\ Valid(t)
  /\ clock' = t
  /\ pc' = "set"
  /\ UNCHANGED <<chip, read, during, ticks>>

(* Mutated form: every fourth year is a leap year.                       *)
LeapEveryFourth(y) == y % 4 = 0

IsLeap(y) == y % 400 = 0 \/ (y % 100 # 0 /\ y % 4 = 0)

DaysInMonth(y, mo) ==
  CASE mo = 2 -> IF IsLeap(y) THEN 29 ELSE 28
    [] mo \in {4, 6, 9, 11} -> 30
    [] OTHER -> 31

Ticked(t) ==
  IF t.second < 59 THEN [t EXCEPT !.second = @ + 1]
  ELSE IF t.minute < 59 THEN [t EXCEPT !.second = 0, !.minute = @ + 1]
  ELSE IF t.hour < 23 THEN [t EXCEPT !.second = 0, !.minute = 0, !.hour = @ + 1]
  ELSE IF t.day < DaysInMonth(t.year, t.month)
  THEN Time(t.year, t.month, t.day + 1, 0, 0, 0)
  ELSE IF t.month < 12 THEN Time(t.year, t.month + 1, 1, 0, 0, 0)
  ELSE Time((t.year + 1) % (LastYear + 1), 1, 1, 0, 0, 0)

Tick ==
  /\ pc \in {"done", "set"} /\ ticks < MaxTicks
  /\ ticks' = ticks + 1
  /\ clock' = Ticked(clock)
  /\ pc' = "set"
  /\ UNCHANGED <<chip, read, during>>

Init ==
  /\ series \in Series /\ at = 1
  /\ format \in [bcd : BOOLEAN, h12 : BOOLEAN]
  /\ updating = FALSE
  /\ pc = "wait"
  /\ read = <<>>
  /\ clock = Time(0, 0, 0, 0, 0, 0)
  /\ during = <<1, 1>>
  /\ ticks = 0

Next ==
  \/ BeginUpdate
  \/ Update
  \/ Wait
  \/ ReadRegister
  \/ Compare
  \/ Convert
  \/ \E t \in Settings : Set(t)
  \/ Tick

Spec == Init /\ [][Next]_vars

-----------------------------------------------------------------------------
(***************************************************************************)
(* The clock holds a date and a time of day once it has been read, in the*)
(* ranges that datetime_is_valid promises to those who read it, but for a*)
(* year past 9999 to which ticks have gone; in particular no code of a   *)
(* register gets through.                                                *)
(***************************************************************************)
TypeOK ==
  /\ at \in 1..Len(series) /\ during[1] \in 1..at /\ during[2] \in during[1]..at
  /\ Len(read) \in 0..12 /\ \A i \in 1..Len(read) : read[i] \in 0..255
  /\ pc \in {"wait", "read", "convert", "done", "set"}
  /\ pc \in {"done", "set"} =>
       /\ clock \in DateTime
       /\ ticks <= LastYear - 9999 => clock.year \in 1970..(9999 + ticks)
       /\ clock.month \in 1..12 /\ clock.day \in 1..31
       /\ clock.hour \in 0..23 /\ clock.minute \in 0..59 /\ clock.second \in 0..59

(* The seconds the chip showed during the reading that counted.          *)
Shown == { series[i] : i \in during[1]..during[2] }

(***************************************************************************)
(* Though the chip can go on between any two registers, also where all the*)
(* fields change, what datetime_init ends with is one time that the chip *)
(* really showed, never parts of two.  Only an afternoon in BCD and 12   *)
(* hours, whose mark the conversion from BCD loses, ends as the fallback.*)
(***************************************************************************)
ReadingIsTrue ==
  pc = "done" =>
    \/ clock \in Shown
    \/ /\ clock = Fallback
       /\ format.bcd /\ format.h12
       /\ \E t \in Shown : t.hour >= 12

(***************************************************************************)
(* A tick of a date there is goes to the next second of the calendar, over*)
(* the ends of months, of years and of Februaries, as long as the year   *)
(* fits in 16 bits.                                                      *)
(***************************************************************************)
TickIsNextSecond ==
  [][ Tick /\ Real(clock) /\ clock.year < LastYear =>
        Real(clock') /\ Successive(clock, clock') ]_vars
=============================================================================
