---------------------------- MODULE RtcCalendar ----------------------------
(***************************************************************************)
(* The counters of the MSM58321 clock module (bus.c): thirteen 4-bit       *)
(* digits, each with its own modulus, carrying into the next, as operators *)
(* on a register file.  A guest may write any nibble to any digit.         *)
(*                                                                         *)
(* The reference is a day number: a correct calendar makes one tick of one *)
(* second and lands on a valid date.                                       *)
(***************************************************************************)
EXTENDS Integers, Sequences

(* Register numbers: S1 S10 MI1 MI10 H1 H10 W D1 D10 MO1 MO10 Y1 Y10.      *)
Reg == 0 .. 12

-----------------------------------------------------------------------------
(* The fields of D10 and H10.                                              *)
LeapSel(r) == r[8] \div 4
Mode24(r)  == r[5] \div 8 = 1
Pm(r)      == (r[5] \div 4) % 2 = 1

Day(r)   == (r[8] % 4) * 10 + r[7]
Month(r) == (r[10] % 2) * 10 + r[9]
Year(r)  == r[12] * 10 + r[11]
Hour(r)  == (r[5] % 4) * 10 + r[4]

(* Mutant: the leap selection taken for a surplus counting up.             *)
rtc_mlen_counting_up(mo, sel) ==
  IF mo \notin 1 .. 12 THEN 31
  ELSE IF mo = 2 /\ sel = 3 THEN 29
  ELSE <<31, 28, 31, 30, 31, 30, 31, 31, 30, 31, 30, 31>>[mo]

(* Month length; February has 29 days when the leap selection is 00.       *)
rtc_mlen(mo, sel) ==
  IF mo \notin 1 .. 12 THEN 31
  ELSE IF mo = 2 /\ sel = 0 THEN 29
  ELSE <<31, 28, 31, 30, 31, 30, 31, 31, 30, 31, 30, 31>>[mo]

(* Day of the week of a date, 0 = Sunday.                                  *)
rtc_wday(y, m, d) ==
  LET t  == <<0, 3, 2, 5, 0, 3, 5, 1, 4, 6, 2, 4>>
      yy == IF m < 3 THEN y - 1 ELSE y
  IN  (yy + yy \div 4 - yy \div 100 + yy \div 400 + t[m] + d) % 7

(* The year, and the leap selection one code lower.                        *)
rtc_year_tick(r) ==
  LET y == (Year(r) + 1) % 100
  IN  [r EXCEPT ![11] = y % 10, ![12] = y \div 10,
                ![8] = (@ % 4) + ((LeapSel(r) + 3) % 4) * 4]

rtc_day_tick(r) ==
  LET w    == [r EXCEPT ![6] = (@ + 1) % 7]
      ends == Day(r) + 1 > rtc_mlen(Month(r), LeapSel(r))
      d    == IF ends THEN 1 ELSE Day(r) + 1
      mo   == IF Month(r) + 1 > 12 THEN 1 ELSE Month(r) + 1
      y    == IF ends /\ Month(r) + 1 > 12 THEN rtc_year_tick(w) ELSE w
      m    == IF ends THEN [y EXCEPT ![9] = mo % 10,
                                     ![10] = (@ \div 2) * 2 + mo \div 10]
                      ELSE y
  IN  [m EXCEPT ![7] = d % 10, ![8] = (@ \div 4) * 4 + d \div 10]

(* Does the hour that becomes h begin a day?                               *)
NewDay(r, h) ==
  IF Mode24(r) THEN h > 23 ELSE h = 12 /\ Pm(r)

rtc_hour_tick(r) ==
  LET h   == Hour(r) + 1
      day == IF NewDay(r, h) THEN rtc_day_tick(r) ELSE r
      pm  == IF h = 12 THEN ~Pm(r) ELSE Pm(r)
      hh  == IF Mode24(r) THEN IF h > 23 THEN 0 ELSE h
                          ELSE IF h > 12 THEN 1 ELSE h
  IN  [day EXCEPT ![4] = hh % 10,
                  ![5] = hh \div 10 + IF Mode24(r) THEN 8
                                      ELSE IF pm THEN 4 ELSE 0]

(* Digit i is at its last value, or beyond it.                             *)
Carry(r, i, max) == r[i] >= max

(* One second.                                                             *)
rtc_tick(r) ==
  LET s0 == [r EXCEPT ![0] = IF Carry(r, 0, 9) THEN 0 ELSE @ + 1]
      s1 == [s0 EXCEPT ![1] = IF Carry(r, 1, 5) THEN 0 ELSE @ + 1]
      s2 == [s1 EXCEPT ![2] = IF Carry(r, 2, 9) THEN 0 ELSE @ + 1]
      s3 == [s2 EXCEPT ![3] = IF Carry(r, 3, 5) THEN 0 ELSE @ + 1]
  IN  IF ~Carry(r, 0, 9) THEN s0
      ELSE IF ~Carry(r, 1, 5) THEN s1
      ELSE IF ~Carry(r, 2, 9) THEN s2
      ELSE IF ~Carry(r, 3, 5) THEN s3
      ELSE rtc_hour_tick(s3)

(* The registers rtc_set_time seeds, in 24-hour mode.                      *)
rtc_set_time(y, mo, d, h, mi, s) ==
  [i \in Reg |->
     <<s % 10, s \div 10, mi % 10, mi \div 10, h % 10, 8 + h \div 10,
       rtc_wday(y, mo, d), d % 10, ((4 - (y % 4)) % 4) * 4 + d \div 10,
       mo % 10, mo \div 10, (y % 100) % 10, (y % 100) \div 10>>[i + 1]]

-----------------------------------------------------------------------------
(* The calendar from 1978 to 2077, by day number: 365 days a year, a leap  *)
(* day in years divisible by four.                                         *)
FullYear(r) == IF Year(r) >= 78 THEN 1900 + Year(r) ELSE 2000 + Year(r)
IsLeap(y)   == y % 4 = 0
Before      == <<0, 31, 59, 90, 120, 151, 181, 212, 243, 273, 304, 334>>
MonthDays(y, m) == IF m = 12 THEN 31 ELSE
                   Before[m + 1] - Before[m] + IF m = 2 /\ IsLeap(y) THEN 1 ELSE 0

DayNumber(y, m, d) ==
  365 * (y - 1978) + (y - 1977) \div 4 + Before[m]
    + (IF m > 2 /\ IsLeap(y) THEN 1 ELSE 0) + d

Hour24(r) == IF Mode24(r) THEN Hour(r)
             ELSE (Hour(r) % 12) + IF Pm(r) THEN 12 ELSE 0

Valid(r) ==
  /\ \A i \in {0, 2, 4, 7, 9, 11, 12} : r[i] \in 0 .. 9
  /\ r[1] \in 0 .. 5 /\ r[3] \in 0 .. 5
  /\ Hour(r) \in (IF Mode24(r) THEN 0 .. 23 ELSE 1 .. 12)
  /\ Month(r) \in 1 .. 12 /\ Day(r) \in 1 .. MonthDays(FullYear(r), Month(r))

DateOf(r)   == DayNumber(FullYear(r), Month(r), Day(r))
TimeOf(r)   == Hour24(r) * 3600 + (r[3] * 10 + r[2]) * 60 + r[1] * 10 + r[0]
Apart(r, q) == (DateOf(r) - DateOf(q)) * 86400 + TimeOf(r) - TimeOf(q)

(* The registers r are a valid time n seconds after q, and the free-running *)
(* weekday and leap selection agree with the date.  The year is two digits,*)
(* so the last second of 2077 is out.                                      *)
Later(r, q, n) ==
  Valid(q) /\ FullYear(r) >= FullYear(q) =>
    /\ Valid(r) /\ Apart(r, q) = n
    /\ r[6] = rtc_wday(FullYear(r), Month(r), Day(r))
    /\ (LeapSel(r) = 0) <=> IsLeap(FullYear(r))

============================================================================
