-------------------------- MODULE AlgorithmsProofs --------------------------
(***************************************************************************)
(* What the algorithms compute, for inputs, widths and lengths of every    *)
(* size.                                                                   *)
(***************************************************************************)
EXTENDS Algorithms, FiniteSetTheorems, SequenceTheorems, WellFoundedInduction, TLAPS

(***************************************************************************)
(* Part one: numbers and steps.                                            *)
(*                                                                         *)
(* Induction and recursion are stated with sets and functions: the set of  *)
(* the numbers that have a property, the function that makes a step.       *)
(***************************************************************************)

(* A set of natural numbers has a first one.                               *)
LEMMA FirstOf ==
  ASSUME NEW S \in SUBSET Nat, S # {}
  PROVE  \E i \in S : \A j \in S : i <= j
<1>1. PICK i \in S : \A j \in S : ~(<<j, i>> \in OpToRel(<, Nat))
  BY NatLessThanWellFounded, WFMin, ZenonT(30)
<1>2. ASSUME NEW j \in S PROVE i <= j
  <2>1. i \in Nat /\ j \in Nat /\ <<j, i>> \in Nat \X Nat
    OBVIOUS
  <2>2. ~(j < i)
    BY <1>1, <2>1 DEF OpToRel
  <2> QED
    BY <2>1, <2>2
<1> QED
  BY <1>2

(* Induction: a set of numbers that has 0 and, with each number below N,   *)
(* the next one, has them all up to N.                                     *)
LEMMA Induct ==
  ASSUME NEW N \in Nat, NEW P,
         0 \in P, \A i \in 0..N - 1 : i \in P => i + 1 \in P
  PROVE  \A i \in 0..N : i \in P
<1> DEFINE Bad == {i \in 0..N : i \notin P}
<1>1. SUFFICES ASSUME Bad # {} PROVE FALSE
  OBVIOUS
<1>2. Bad \in SUBSET Nat
  OBVIOUS
<1>3. PICK k \in Bad : \A j \in Bad : k <= j
  <2> HIDE DEF Bad
  <2> QED
    BY <1>1, <1>2, FirstOf
<1>4. k \in 0..N /\ k # 0 /\ k - 1 \in 0..N - 1
  OBVIOUS
<1>5. k - 1 \in P
  BY <1>3, <1>4
<1>6. (k - 1) + 1 \in P
  BY <1>4, <1>5
<1> QED
  BY <1>3, <1>4, <1>6

(* Recursion: the values a step function gives, applied again and again.   *)
Iterates(f, N, start, step) ==
  f[0] = start /\ \A i \in 1..N : f[i] = step[i][f[i - 1]]

(* Such a function exists.                                                 *)
LEMMA Iterate ==
  ASSUME NEW N \in Nat, NEW S, NEW start \in S, NEW step \in [1..N -> [S -> S]]
  PROVE  \E f \in [0..N -> S] : Iterates(f, N, start, step)
<1> DEFINE P == {k \in 0..N : \E f \in [0..k -> S] : Iterates(f, k, start, step)}
<1>1. 0 \in P
  <2>1. [i \in 0..0 |-> start] \in [0..0 -> S]
    OBVIOUS
  <2>2. Iterates([i \in 0..0 |-> start], 0, start, step)
    BY DEF Iterates
  <2> QED
    BY <2>1, <2>2
<1>2. ASSUME NEW k \in 0..N - 1, k \in P PROVE k + 1 \in P
  <2>1. PICK f \in [0..k -> S] : Iterates(f, k, start, step)
    BY <1>2
  <2> DEFINE g == [i \in 0..k + 1 |-> IF i <= k THEN f[i] ELSE step[k + 1][f[k]]]
  <2>2. k + 1 \in 1..N /\ f[k] \in S /\ step[k + 1][f[k]] \in S
    BY <2>1
  <2>3. g \in [0..k + 1 -> S]
    BY <2>1, <2>2
  <2>4. g[0] = start
    BY <2>1 DEF Iterates
  <2>5. ASSUME NEW i \in 1..k + 1 PROVE g[i] = step[i][g[i - 1]]
    <3>1. CASE i <= k
      BY <2>1, <3>1 DEF Iterates
    <3>2. CASE i = k + 1
      BY <2>1, <3>2
    <3> QED
      BY <3>1, <3>2
  <2>6. Iterates(g, k + 1, start, step)
    BY <2>4, <2>5 DEF Iterates
  <2> QED
    BY <2>2, <2>3, <2>6
<1>3. \A k \in 0..N : k \in P
  <2> HIDE DEF P
  <2> QED
    BY <1>1, <1>2, Induct
<1> QED
  BY <1>3

(* A step carries on the job there is, in the way of its kind.             *)
LEMMA StepOf ==
  ASSUME "about" \in DOMAIN job, JobNext
  PROVE  /\ n' = n + 1 /\ given' = given
         /\ "about" \in DOMAIN job' /\ job'.about = job.about
         /\ job.about = "limbs" => Limb
         /\ job.about = "single" => Single
         /\ job.about = "shift" => Shift
         /\ job.about = "rotate" => Rotate
         /\ job.about = "decimal" => Decimal
         /\ job.about = "product" => Multiply \/ Divide
         /\ job.about = "quotient" => Divide
         /\ job.about = "stack" => StackStep
         /\ job.about = "clock" => Second
         /\ job.about = "mark" => PrintChar
         /\ job.about = "image" => Load
         /\ job.about = "arguments" => Arguments
<1>1. n' = n + 1 /\ given' = given
  BY DEF JobNext
<1>2. CASE Limb \/ Single \/ Shift \/ Rotate \/ Decimal \/ Multiply \/ Divide
  BY <1>1, <1>2 DEF Limb, Single, Shift, Rotate, Decimal, Multiply, Divide
<1>3. CASE StackStep
  BY <1>1, <1>3 DEF StackStep, PushWord, PushLong, CallOut, Pushed, PopWord, PopLong,
                    Back, TakeOff
<1>4. CASE Second
  BY <1>1, <1>4 DEF Second
<1>5. CASE PrintChar
  BY <1>1, <1>5 DEF PrintChar
<1>6. CASE Load \/ Arguments \/ FetchDecode
  <2>1. \E v : \/ job.about = "image" /\ job' = [about |-> "image", layout |-> v] /\ Load
               \/ job.about = "arguments" /\ job' = [about |-> "arguments", at |-> v]
                                          /\ Arguments
               \/ job.about = "decode" /\ job' = [about |-> "decode", fetched |-> v]
    BY <1>6, Zenon DEF Load, Arguments, FetchDecode
  <2>2. /\ "about" \in DOMAIN job' /\ job'.about = job.about
        /\ job.about \in {"image", "arguments", "decode"}
        /\ job.about = "image" => Load
        /\ job.about = "arguments" => Arguments
    BY <2>1
  <2> QED
    BY <1>1, <2>2
<1> QED
  BY <1>2, <1>3, <1>4, <1>5, <1>6 DEF JobNext

(* Every job begins as it is given.                                        *)
LEMMA Begins ==
  ASSUME JobInit
  PROVE  n = 0 /\ given = job /\ "about" \in DOMAIN job /\ Proper(job)
BY JobsAssumption DEF JobInit

(***************************************************************************)
(* Part two: the clock's digits are a calendar.                            *)
(*                                                                         *)
(* The registers hold a date, a time and a weekday (Dated, Timed,          *)
(* Weekday).  A tick keeps them so and moves the second of the day and the *)
(* number of the day on by one (Tick), through the carries of the hour     *)
(* (HourTick), the day (DayTick, DateTick) and the year (YearTick).        *)
(***************************************************************************)

(* A register file; a digit is four bits.                                  *)
Digits == [Reg -> 0..15]

(* A date in the registers, and the leap selection that goes with it.      *)
Dated(r) ==
  /\ r \in Digits
  /\ \A i \in {7, 9, 11, 12} : r[i] \in 0..9
  /\ Month(r) \in 1..12
  /\ Day(r) \in 1..MonthDays(FullYear(r), Month(r))
  /\ LeapSel(r) = (4 - (FullYear(r) % 4)) % 4

(* The years two digits tell apart.                                        *)
LEMMA YearIn ==
  ASSUME NEW r \in Digits, r[11] \in 0..9, r[12] \in 0..9
  PROVE  Year(r) \in 0..99 /\ FullYear(r) \in 1978..2077
BY DEF Digits, Reg, Year, FullYear

(* The days of the months.                                                 *)
LEMMA Lengths ==
  ASSUME NEW y \in Nat
  PROVE  /\ MonthDays(y, 1) = 31 /\ MonthDays(y, 3) = 31 /\ MonthDays(y, 4) = 30
         /\ MonthDays(y, 5) = 31 /\ MonthDays(y, 6) = 30 /\ MonthDays(y, 7) = 31
         /\ MonthDays(y, 8) = 31 /\ MonthDays(y, 9) = 30 /\ MonthDays(y, 10) = 31
         /\ MonthDays(y, 11) = 30 /\ MonthDays(y, 12) = 31
         /\ MonthDays(y, 2) = IF y % 4 = 0 THEN 29 ELSE 28
BY DEF MonthDays, Before, IsLeap

(* The leap selection of a date gives February its length (rtc_mlen).      *)
LEMMA MonthLength ==
  ASSUME NEW y \in 1978..2077, NEW m \in 1..12, NEW s, s = (4 - (y % 4)) % 4
  PROVE  /\ rtc_mlen(m, s) = MonthDays(y, m)
         /\ MonthDays(y, m) \in 28..31
<1>1. s = 0 <=> y % 4 = 0
  OBVIOUS
<1>2. m \in {1, 2, 3, 4, 5, 6, 7, 8, 9, 10, 11, 12}
  OBVIOUS
<1> QED
  BY <1>1, <1>2, Lengths DEF rtc_mlen

(* The day after is numbered one more, within a month, across its end and  *)
(* across the end of the year.                                             *)
LEMMA NextDay ==
  ASSUME NEW y, NEW m, NEW d, y \in 1978..2077, m \in 1..12, d \in 1..31
  PROVE  DayNumber(y, m, d + 1) = DayNumber(y, m, d) + 1
<1>1. m \in {1, 2, 3, 4, 5, 6, 7, 8, 9, 10, 11, 12}
  OBVIOUS
<1>2. (y - 1977) \div 4 \in Nat /\ Before[m] \in Nat
  BY <1>1 DEF Before
<1> QED
  BY <1>2 DEF DayNumber, IsLeap

(* The first of the next month is one day on.                              *)
LEMMA NextMonth ==
  ASSUME NEW y, NEW m, y \in 1978..2077, m \in 1..11
  PROVE  DayNumber(y, m + 1, 1) = DayNumber(y, m, MonthDays(y, m)) + 1
<1>1. m \in {1, 2, 3, 4, 5, 6, 7, 8, 9, 10, 11}
  OBVIOUS
<1>2. (y - 1977) \div 4 \in Nat /\ Before[m] \in Nat
  BY <1>1 DEF Before
<1> QED
  BY <1>1, <1>2 DEF DayNumber, IsLeap, MonthDays, Before

(* The first of the next year is one day on.                               *)
LEMMA NextYear ==
  ASSUME NEW y \in 1978..2077
  PROVE  DayNumber(y + 1, 1, 1) = DayNumber(y, 12, 31) + 1
<1>1. (y + 1 - 1977) \div 4 = (y - 1977) \div 4 + IF y % 4 = 0 THEN 1 ELSE 0
  OBVIOUS
<1> QED
  BY <1>1 DEF DayNumber, IsLeap, Before

(* Whole weeks do not change the day of the week.                          *)
LEMMA Sevens ==
  ASSUME NEW a \in Int, NEW b \in Int, NEW k \in Int, a = b + 7 * k
  PROVE  a % 7 = b % 7
OBVIOUS

(* The formula of rtc_wday names the days of the week in turn.             *)
LEMMA WeekdayOfDate ==
  ASSUME NEW y, NEW m, NEW d, y \in 1978..2077, m \in 1..12, d \in 1..31
  PROVE  rtc_wday(y, m, d) = (DayNumber(y, m, d) + 6) % 7
<1> DEFINE t  == <<0, 3, 2, 5, 0, 3, 5, 1, 4, 6, 2, 4>>
           yy == IF m < 3 THEN y - 1 ELSE y
           a  == yy + yy \div 4 - yy \div 100 + yy \div 400 + t[m] + d
           b  == DayNumber(y, m, d) + 6
<1>1. m \in {1, 2, 3, 4, 5, 6, 7, 8, 9, 10, 11, 12}
  OBVIOUS
<1>2. /\ (y - 1) \div 4 = (y - 1977) \div 4 + 494
      /\ y \div 4 = (y - 1977) \div 4 + 494 + IF y % 4 = 0 THEN 1 ELSE 0
      /\ (y - 1977) \div 4 \in Nat
  OBVIOUS
<1>3. /\ (y \div 400) - (y \div 100) = -15
      /\ ((y - 1) \div 400) - ((y - 1) \div 100) = -15
  OBVIOUS
<1>4. ASSUME m \in {1, 2} PROVE a % 7 = b % 7
  <2>1. /\ a = y + (y - 1977) \div 4 + 478 + t[m] + d
        /\ b = 365 * (y - 1978) + (y - 1977) \div 4 + Before[m] + d + 6
    BY <1>2, <1>3, <1>4 DEF DayNumber, Before
  <2>2. m = 1 => a = b + 7 * (103206 - 52 * y)
    BY <1>2, <2>1 DEF Before
  <2>3. m = 2 => a = b + 7 * (103202 - 52 * y)
    BY <1>2, <2>1 DEF Before
  <2>4. a \in Int /\ b \in Int
    BY <1>2, <1>4, <2>1 DEF Before
  <2>5. 103206 - 52 * y \in Int /\ 103202 - 52 * y \in Int
    OBVIOUS
  <2> HIDE DEF a, b
  <2> QED
    BY <1>4, <2>2, <2>3, <2>4, <2>5, Sevens
<1>5. ASSUME m \in 3..12 PROVE a % 7 = b % 7
  <2> DEFINE leap == IF y % 4 = 0 THEN 1 ELSE 0
  <2>1. /\ a = y + (y - 1977) \div 4 + 479 + leap + t[m] + d
        /\ b = 365 * (y - 1978) + (y - 1977) \div 4 + Before[m] + leap + d + 6
    BY <1>2, <1>3, <1>5 DEF DayNumber, Before, IsLeap
  <2>2. \E k \in Int : t[m] - Before[m] + 1 = 7 * k
    <3>1. /\ t[3] - Before[3] + 1 = 7 * (-8) /\ t[4] - Before[4] + 1 = 7 * (-12)
          /\ t[5] - Before[5] + 1 = 7 * (-17) /\ t[6] - Before[6] + 1 = 7 * (-21)
          /\ t[7] - Before[7] + 1 = 7 * (-25) /\ t[8] - Before[8] + 1 = 7 * (-30)
          /\ t[9] - Before[9] + 1 = 7 * (-34) /\ t[10] - Before[10] + 1 = 7 * (-38)
          /\ t[11] - Before[11] + 1 = 7 * (-43) /\ t[12] - Before[12] + 1 = 7 * (-47)
      BY DEF Before
    <3>2. m \in {3, 4, 5, 6, 7, 8, 9, 10, 11, 12}
      BY <1>5
    <3> HIDE DEF t
    <3> DEFINE x == t[m] - Before[m] + 1
    <3> DEFINE off(j) == t[j] - Before[j] + 1
    <3>a. /\ off(3) = 7 * (-8) /\ off(4) = 7 * (-12) /\ off(5) = 7 * (-17)
          /\ off(6) = 7 * (-21) /\ off(7) = 7 * (-25) /\ off(8) = 7 * (-30)
          /\ off(9) = 7 * (-34) /\ off(10) = 7 * (-38) /\ off(11) = 7 * (-43)
          /\ off(12) = 7 * (-47)
      BY <3>1
    <3>b. x = off(m)
      OBVIOUS
    <3> HIDE DEF x, off
    <3>3. \/ x = 7 * (-8) \/ x = 7 * (-12) \/ x = 7 * (-17) \/ x = 7 * (-21)
          \/ x = 7 * (-25) \/ x = 7 * (-30) \/ x = 7 * (-34) \/ x = 7 * (-38)
          \/ x = 7 * (-43) \/ x = 7 * (-47)
      BY <3>2, <3>a, <3>b
    <3>4. x \in {7 * (-8), 7 * (-12), 7 * (-17), 7 * (-21), 7 * (-25), 7 * (-30),
                 7 * (-34), 7 * (-38), 7 * (-43), 7 * (-47)}
      BY <3>3
    <3>5. x % 7 = 0 /\ x \div 7 \in Int /\ x = 7 * (x \div 7)
      BY <3>4
    <3> QED
      BY <3>5 DEF x
  <2>3. PICK k \in Int : t[m] - Before[m] + 1 = 7 * k
    BY <2>2
  <2>4. t[m] \in Int /\ Before[m] \in Int
    BY <1>1, <1>5 DEF Before
  <2>5. a = b + 7 * (103206 - 52 * y + k)
    BY <1>2, <2>1, <2>3, <2>4
  <2>6. a \in Int /\ b \in Int
    BY <1>2, <2>1, <2>4
  <2>7. 103206 - 52 * y + k \in Int
    OBVIOUS
  <2> HIDE DEF a, b
  <2> QED
    BY <2>5, <2>6, <2>7, Sevens
<1>6. rtc_wday(y, m, d) = a % 7
  BY DEF rtc_wday
<1> HIDE DEF a, b
<1>7. a % 7 = b % 7
  BY <1>1, <1>4, <1>5
<1> QED
  BY <1>6, <1>7 DEF b

(* The year counter, and the leap selection with it.                       *)
LEMMA YearTick ==
  ASSUME NEW r \in Digits, r[11] \in 0..9, r[12] \in 0..9
  PROVE  LET q == rtc_year_tick(r)
         IN  /\ q \in Digits
             /\ \A i \in Reg \ {8, 11, 12} : q[i] = r[i]
             /\ q[11] \in 0..9 /\ q[12] \in 0..9
             /\ Year(q) = (Year(r) + 1) % 100
             /\ LeapSel(q) = (LeapSel(r) + 3) % 4
<1> DEFINE y == (Year(r) + 1) % 100
           s == (LeapSel(r) + 3) % 4
           q == rtc_year_tick(r)
<1>1. Year(r) \in 0..99 /\ r[8] \in 0..15
  BY YearIn DEF Digits, Reg
<1>2. y \in 0..99 /\ s \in 0..3 /\ r[8] % 4 \in 0..3
  BY <1>1 DEF LeapSel
<1>3. q = [r EXCEPT ![11] = y % 10, ![12] = y \div 10, ![8] = (r[8] % 4) + s * 4]
  BY DEF rtc_year_tick
<1> HIDE DEF y, s, q
<1>4. y % 10 \in 0..9 /\ y \div 10 \in 0..9 /\ (r[8] % 4) + s * 4 \in 0..15
  BY <1>2
<1>5. /\ q \in Digits /\ \A i \in Reg \ {8, 11, 12} : q[i] = r[i]
      /\ q[11] = y % 10 /\ q[12] = y \div 10 /\ q[8] = (r[8] % 4) + s * 4
  BY <1>3, <1>4 DEF Digits, Reg
<1>6. Year(q) = y
  BY <1>2, <1>5 DEF Year
<1>7. LeapSel(q) = s
  BY <1>2, <1>5 DEF LeapSel
<1> QED
  BY <1>4, <1>5, <1>6, <1>7 DEF y, s, q

(* One day: the next of the month, or the first of the next month, or of   *)
(* the next year.                                                          *)
LEMMA DayTick ==
  ASSUME NEW r, Dated(r)
  PROVE  LET q == rtc_day_tick(r)
             last == Day(r) = MonthDays(FullYear(r), Month(r))
         IN  /\ q \in Digits
             /\ \A i \in 0..5 : q[i] = r[i]
             /\ \A i \in {7, 9, 11, 12} : q[i] \in 0..9
             /\ q[6] = (r[6] + 1) % 7
             /\ Day(q) = IF last THEN 1 ELSE Day(r) + 1
             /\ Month(q) = IF ~last THEN Month(r)
                           ELSE IF Month(r) = 12 THEN 1 ELSE Month(r) + 1
             /\ Year(q) = IF last /\ Month(r) = 12 THEN (Year(r) + 1) % 100 ELSE Year(r)
             /\ LeapSel(q) = IF last /\ Month(r) = 12 THEN (LeapSel(r) + 3) % 4
                             ELSE LeapSel(r)
<1> DEFINE w    == [r EXCEPT ![6] = (@ + 1) % 7]
           ends == Day(r) + 1 > rtc_mlen(Month(r), LeapSel(r))
           d    == IF ends THEN 1 ELSE Day(r) + 1
           mo   == IF Month(r) + 1 > 12 THEN 1 ELSE Month(r) + 1
           y    == IF ends /\ Month(r) + 1 > 12 THEN rtc_year_tick(w) ELSE w
           m    == IF ends THEN [y EXCEPT ![9] = mo % 10,
                                          ![10] = (@ \div 2) * 2 + mo \div 10]
                           ELSE y
           q    == rtc_day_tick(r)
           last == Day(r) = MonthDays(FullYear(r), Month(r))
<1>1. /\ r \in Digits /\ Month(r) \in 1..12 /\ FullYear(r) \in 1978..2077
      /\ r[11] \in 0..9 /\ r[12] \in 0..9 /\ r[7] \in 0..9 /\ r[9] \in 0..9
      /\ r[6] \in 0..15 /\ r[10] \in 0..15
  BY YearIn DEF Dated, Digits, Reg
<1>2. /\ rtc_mlen(Month(r), LeapSel(r)) = MonthDays(FullYear(r), Month(r))
      /\ MonthDays(FullYear(r), Month(r)) \in 28..31
  BY <1>1, MonthLength DEF Dated
<1>3. Day(r) \in 1..31 /\ Day(r) <= MonthDays(FullYear(r), Month(r))
  BY <1>2 DEF Dated
<1>4. ends <=> last
  BY <1>2, <1>3
<1>5. /\ w \in Digits /\ \A i \in Reg \ {6} : w[i] = r[i]
      /\ w[6] = (r[6] + 1) % 7
  BY <1>1 DEF Digits, Reg
<1>6. Year(w) = Year(r) /\ LeapSel(w) = LeapSel(r) /\ Month(w) = Month(r)
  BY <1>5 DEF Year, LeapSel, Month, Reg
<1>7. /\ y \in Digits /\ \A i \in Reg \ {6, 8, 11, 12} : y[i] = r[i]
      /\ y[6] = (r[6] + 1) % 7 /\ y[11] \in 0..9 /\ y[12] \in 0..9
      /\ Year(y) = IF last /\ Month(r) = 12 THEN (Year(r) + 1) % 100 ELSE Year(r)
      /\ LeapSel(y) = IF last /\ Month(r) = 12 THEN (LeapSel(r) + 3) % 4 ELSE LeapSel(r)
  <2>1. w[11] \in 0..9 /\ w[12] \in 0..9
    BY <1>1, <1>5 DEF Reg
  <2>2. LET v == rtc_year_tick(w)
        IN  /\ v \in Digits /\ \A i \in Reg \ {8, 11, 12} : v[i] = w[i]
            /\ v[11] \in 0..9 /\ v[12] \in 0..9
            /\ Year(v) = (Year(w) + 1) % 100 /\ LeapSel(v) = (LeapSel(w) + 3) % 4
    BY <1>5, <2>1, YearTick
  <2>3. CASE ends /\ Month(r) + 1 > 12
    <3>1. y = rtc_year_tick(w) /\ last /\ Month(r) = 12
      BY <1>1, <1>4, <2>3
    <3> HIDE DEF w, y, last
    <3> QED
      BY <1>5, <1>6, <2>2, <3>1 DEF Reg
  <2>4. CASE ~(ends /\ Month(r) + 1 > 12)
    <3>1. y = w /\ ~(last /\ Month(r) = 12)
      BY <1>1, <1>4, <2>4
    <3> HIDE DEF w, y, last
    <3> QED
      BY <1>5, <1>6, <2>1, <3>1 DEF Reg
  <2> QED
    BY <2>3, <2>4
<1>8. mo \in 1..12 /\ mo = IF Month(r) = 12 THEN 1 ELSE Month(r) + 1
  BY <1>1
<1>9. /\ m \in Digits /\ \A i \in Reg \ {9, 10} : m[i] = y[i]
      /\ m[9] \in 0..9 /\ Month(m) = IF last THEN mo ELSE Month(r)
  <2> HIDE DEF y, mo
  <2>1. CASE ends
    <3>1. mo % 10 \in 0..9 /\ (y[10] \div 2) * 2 + mo \div 10 \in 0..15
      BY <1>7, <1>8 DEF Digits, Reg
    <3>2. m = [y EXCEPT ![9] = mo % 10, ![10] = (y[10] \div 2) * 2 + mo \div 10]
      BY <2>1
    <3> HIDE DEF m
    <3>3. /\ m \in Digits /\ \A i \in Reg \ {9, 10} : m[i] = y[i]
          /\ m[9] = mo % 10 /\ m[10] = (y[10] \div 2) * 2 + mo \div 10
      BY <1>7, <3>1, <3>2 DEF Digits, Reg
    <3>4. Month(m) = mo
      <4>1. mo \div 10 \in 0..1 /\ y[10] \in 0..15
        BY <1>7, <1>8 DEF Digits, Reg
      <4>2. m[10] % 2 = mo \div 10
        BY <3>3, <4>1
      <4> QED
        BY <1>8, <3>3, <4>2 DEF Month
    <3> QED
      BY <1>4, <2>1, <3>1, <3>3, <3>4
  <2>2. CASE ~ends
    <3>1. m = y
      BY <2>2
    <3> QED
      BY <1>1, <1>4, <1>7, <2>2, <3>1 DEF Month, Reg
  <2> QED
    BY <2>1, <2>2
<1>10. d \in 1..31 /\ d = IF last THEN 1 ELSE Day(r) + 1
  BY <1>2, <1>3, <1>4
<1>11. q = [m EXCEPT ![7] = d % 10, ![8] = (m[8] \div 4) * 4 + d \div 10]
  BY DEF rtc_day_tick
<1> HIDE DEF w, ends, d, mo, y, m, q, last
<1>12. d % 10 \in 0..9 /\ d \div 10 \in 0..3 /\ m[8] \in 0..15
  BY <1>9, <1>10 DEF Digits, Reg
<1>13. (m[8] \div 4) * 4 + d \div 10 \in 0..15
  BY <1>12
<1>14. /\ q \in Digits /\ \A i \in Reg \ {7, 8} : q[i] = m[i]
       /\ q[7] = d % 10 /\ q[8] = (m[8] \div 4) * 4 + d \div 10
  BY <1>9, <1>11, <1>12, <1>13 DEF Digits, Reg
<1>15. q[8] % 4 = d \div 10 /\ q[8] \div 4 = m[8] \div 4
  BY <1>12, <1>14
<1>16. Day(q) = d
  BY <1>10, <1>14, <1>15 DEF Day
<1>17. LeapSel(q) = LeapSel(y)
  BY <1>9, <1>15 DEF LeapSel, Reg
<1>18. Month(q) = Month(m) /\ Year(q) = Year(y)
  BY <1>9, <1>14 DEF Month, Year, Reg
<1>19. /\ \A i \in 0..5 : q[i] = r[i]
       /\ \A i \in {7, 9, 11, 12} : q[i] \in 0..9
       /\ q[6] = (r[6] + 1) % 7
  BY <1>7, <1>9, <1>12, <1>14 DEF Reg
<1> QED
  BY <1>7, <1>8, <1>9, <1>10, <1>14, <1>16, <1>17, <1>18, <1>19 DEF q, last

(* The days before a year, and the place of a date in its year.            *)
YearStart(y) == 365 * (y - 1978) + (y - 1977) \div 4
YearDays(y)  == IF y % 4 = 0 THEN 366 ELSE 365

(* The days of a year are numbered from its start, the last of them 31     *)
(* December.                                                               *)
LEMMA InYear ==
  ASSUME NEW y, NEW m, NEW d,
         y \in 1978..2077, m \in 1..12, d \in 1..MonthDays(y, m)
  PROVE  /\ YearStart(y) < DayNumber(y, m, d)
         /\ DayNumber(y, m, d) <= YearStart(y) + YearDays(y)
         /\ (m = 12 /\ d = 31) <=> DayNumber(y, m, d) = YearStart(y) + YearDays(y)
<1> DEFINE leap == IF y % 4 = 0 THEN 1 ELSE 0
           past == IF m > 2 THEN leap ELSE 0
<1>1. m \in {1, 2, 3, 4, 5, 6, 7, 8, 9, 10, 11, 12}
  OBVIOUS
<1>2. YearStart(y) \in Nat
  BY DEF YearStart
<1>3. MonthDays(y, m) \in 28..31 /\ d \in 1..31
  BY MonthLength
<1>4. DayNumber(y, m, d) = YearStart(y) + Before[m] + past + d
  BY <1>3 DEF DayNumber, YearStart, IsLeap
<1>5. /\ Before[m] + past + d \in 1..365 + leap
      /\ (m = 12 /\ d = 31) <=> Before[m] + past + d = 365 + leap
  <2> DEFINE len == MonthDays(y, m)
  <2>1. Before[m] + past + len <= 365 + leap
    BY <1>1, Lengths DEF Before
  <2>2. m # 12 => Before[m] + past + len < 365 + leap
    BY <1>1, Lengths DEF Before
  <2>3. m = 12 => Before[m] = 334 /\ past = leap /\ len = 31
    BY Lengths DEF Before
  <2>4. Before[m] \in Nat /\ past \in 0..1 /\ leap \in 0..1 /\ len \in 28..31 /\ d <= len
    BY <1>1, <1>3 DEF Before
  <2> HIDE DEF len, past, leap
  <2> QED
    BY <1>3, <2>1, <2>2, <2>3, <2>4
<1>6. YearDays(y) = 365 + leap /\ Before[m] + past \in Nat
  BY <1>1 DEF YearDays, Before
<1> HIDE DEF past, leap
<1>7. Before[m] \in Nat /\ past \in Nat /\ leap \in Nat
  BY <1>1 DEF past, leap, Before
<1> QED
  BY <1>2, <1>3, <1>4, <1>5, <1>6, <1>7

(* A year begins where the one before it ends.                             *)
LEMMA Years ==
  ASSUME NEW y \in 1978..2077
  PROVE  /\ YearStart(y) \in Nat
         /\ YearStart(y + 1) = YearStart(y) + YearDays(y)
         /\ y # 2077 => YearStart(y) + YearDays(y) < 36525
         /\ YearStart(2077) + YearDays(2077) = 36525
BY DEF YearStart, YearDays

(* The days the two digits of the year tell apart: 1978 to 2077.           *)
LastDay == 36525
DayAfter(date) == IF date = LastDay THEN 1 ELSE date + 1

(* One day moves the number of the day on by one; the day after 31         *)
(* December 2077 is 1 January 1978 to two digits.                          *)
LEMMA DateTick ==
  ASSUME NEW r, Dated(r)
  PROVE  LET q == rtc_day_tick(r)
         IN  /\ Dated(q) /\ DateOf(q) = DayAfter(DateOf(r))
             /\ \A i \in 0..5 : q[i] = r[i]
             /\ q[6] = (r[6] + 1) % 7
<1> DEFINE q    == rtc_day_tick(r)
           y    == FullYear(r)
           last == Day(r) = MonthDays(y, Month(r))
<1>1. /\ r \in Digits /\ Month(r) \in 1..12 /\ y \in 1978..2077 /\ Year(r) \in 0..99
      /\ Day(r) \in 1..MonthDays(y, Month(r))
      /\ LeapSel(r) = (4 - (y % 4)) % 4
  BY YearIn DEF Dated
<1>2. /\ q \in Digits
      /\ \A i \in 0..5 : q[i] = r[i]
      /\ \A i \in {7, 9, 11, 12} : q[i] \in 0..9
      /\ q[6] = (r[6] + 1) % 7
      /\ Day(q) = IF last THEN 1 ELSE Day(r) + 1
      /\ Month(q) = IF ~last THEN Month(r)
                    ELSE IF Month(r) = 12 THEN 1 ELSE Month(r) + 1
      /\ Year(q) = IF last /\ Month(r) = 12 THEN (Year(r) + 1) % 100 ELSE Year(r)
      /\ LeapSel(q) = IF last /\ Month(r) = 12 THEN (LeapSel(r) + 3) % 4
                      ELSE LeapSel(r)
  BY DayTick, ZenonT(30)
<1>3. /\ \A m \in 1..12 : MonthDays(y, m) \in 28..31
      /\ MonthDays(1978, 1) = 31 /\ MonthDays(y, 12) = 31
      /\ MonthDays(y + 1, 1) = 31
  <2> HIDE DEF y
  <2>1. ASSUME NEW m \in 1..12 PROVE MonthDays(y, m) \in 28..31
    <3> DEFINE s == (4 - (y % 4)) % 4
    <3>1. s = (4 - (y % 4)) % 4
      OBVIOUS
    <3> HIDE DEF s
    <3> QED
      BY <1>1, <3>1, MonthLength
  <2>2. y \in Nat /\ y + 1 \in Nat /\ 1978 \in Nat
    BY <1>1
  <2>3. MonthDays(1978, 1) = 31 /\ MonthDays(y, 12) = 31 /\ MonthDays(y + 1, 1) = 31
    BY <2>2, Lengths
  <2> QED
    BY <2>1, <2>3
<1>4. Day(r) \in 1..31
  BY <1>1, <1>3
<1>5. DateOf(r) = LastDay => y = 2077 /\ Month(r) = 12 /\ Day(r) = 31
  <2> DEFINE date == DayNumber(y, Month(r), Day(r))
  <2> HIDE DEF y
  <2>1. /\ YearStart(y) < date /\ date <= YearStart(y) + YearDays(y)
        /\ (Month(r) = 12 /\ Day(r) = 31) <=> date = YearStart(y) + YearDays(y)
    <3> DEFINE m == Month(r)
               d == Day(r)
    <3>1. y \in 1978..2077 /\ m \in 1..12 /\ d \in 1..MonthDays(y, m)
      BY <1>1
    <3> HIDE DEF m, d
    <3>2. /\ YearStart(y) < DayNumber(y, m, d)
          /\ DayNumber(y, m, d) <= YearStart(y) + YearDays(y)
          /\ (m = 12 /\ d = 31) <=> DayNumber(y, m, d) = YearStart(y) + YearDays(y)
      BY <3>1, InYear
    <3> QED
      BY <3>2 DEF m, d
  <2>2. YearStart(y) \in Nat /\ YearDays(y) \in Nat
    BY <1>1, Years, SMTT(30) DEF YearDays
  <2>3. /\ y # 2077 => YearStart(y) + YearDays(y) < 36525
        /\ YearStart(2077) + YearDays(2077) = 36525
    BY <1>1, Years
  <2> HIDE DEF y, date
  <2> QED
    BY <2>1, <2>2, <2>3 DEF DateOf, LastDay, date, y
<1>6. /\ DayNumber(y, Month(r), Day(r) + 1) = DayNumber(y, Month(r), Day(r)) + 1
      /\ Month(r) < 12 => DayNumber(y, Month(r) + 1, 1)
                            = DayNumber(y, Month(r), MonthDays(y, Month(r))) + 1
  <2>1. y \in 1978..2077 /\ Month(r) \in 1..12 /\ Day(r) \in 1..31
        /\ (Month(r) < 12 => Month(r) \in 1..11)
    BY <1>1, <1>4
  <2> HIDE DEF y
  <2>2. DayNumber(y, Month(r), Day(r) + 1) = DayNumber(y, Month(r), Day(r)) + 1
    BY <2>1, NextDay
  <2> QED
    BY <2>1, <2>2, NextMonth
<1> HIDE DEF q
<1>7. CASE ~last
  <2>1. FullYear(q) = y
    BY <1>2, <1>7 DEF FullYear
  <2>2. Dated(q)
    BY <1>1, <1>2, <1>3, <1>4, <1>7, <2>1 DEF Dated
  <2>3. DateOf(q) = DateOf(r) + 1
    BY <1>2, <1>6, <1>7, <2>1 DEF DateOf
  <2>4. DateOf(r) # LastDay
    BY <1>3, <1>5, <1>7, Lengths
  <2> QED
    BY <1>2, <2>2, <2>3, <2>4 DEF DayAfter, q
<1>8. CASE last /\ Month(r) # 12
  <2>1. FullYear(q) = y
    BY <1>2, <1>8 DEF FullYear
  <2>2. Dated(q)
    BY <1>1, <1>2, <1>3, <1>4, <1>8, <2>1 DEF Dated
  <2>3. DateOf(q) = DateOf(r) + 1
    BY <1>1, <1>2, <1>6, <1>8, <2>1 DEF DateOf
  <2>4. DateOf(r) # LastDay
    BY <1>1, <1>5, <1>8
  <2> QED
    BY <1>2, <2>2, <2>3, <2>4 DEF DayAfter, q
<1>9. CASE last /\ Month(r) = 12
  <2>1. FullYear(q) = IF y = 2077 THEN 1978 ELSE y + 1
    BY <1>1, <1>2, <1>9 DEF FullYear
  <2>2. LeapSel(q) = (4 - (FullYear(q) % 4)) % 4
    BY <1>1, <1>2, <1>9, <2>1
  <2>3. Dated(q)
    BY <1>1, <1>2, <1>3, <1>9, <2>1, <2>2 DEF Dated
  <2>4. DateOf(r) = DayNumber(y, 12, 31) /\ DateOf(q) = DayNumber(FullYear(q), 1, 1)
    BY <1>2, <1>3, <1>9 DEF DateOf
  <2>5. DayNumber(2077, 12, 31) = LastDay /\ DayNumber(1978, 1, 1) = 1
    BY DEF DayNumber, LastDay, Before, IsLeap
  <2>6. y # 2077 => DayNumber(y, 12, 31) # LastDay
    BY <1>5, <2>4
  <2>7. DayNumber(y + 1, 1, 1) = DayNumber(y, 12, 31) + 1
    BY <1>1, NextYear
  <2>8. DateOf(q) = DayAfter(DateOf(r))
    BY <2>1, <2>4, <2>5, <2>6, <2>7 DEF DayAfter
  <2> QED
    BY <1>2, <2>3, <2>8 DEF q
<1> QED
  BY <1>7, <1>8, <1>9

(* A time of day in the registers, in either mode.                         *)
Timed(r) ==
  /\ \A i \in {0, 2, 4} : r[i] \in 0..9
  /\ r[1] \in 0..5 /\ r[3] \in 0..5
  /\ Hour(r) \in IF Mode24(r) THEN 0..23 ELSE 1..12

(* The weekday that goes with the date.                                    *)
Weekday(r) == r[6] = (DateOf(r) + 6) % 7

(* One hour: the twenty-fourth begins a day, in either mode.               *)
LEMMA HourTick ==
  ASSUME NEW r, Dated(r), Timed(r)
  PROVE  LET q   == rtc_hour_tick(r)
             new == Hour24(r) = 23
         IN  /\ Dated(q) /\ Timed(q)
             /\ \A i \in 0..3 : q[i] = r[i]
             /\ Hour24(r) \in 0..23
             /\ Hour24(q) = IF new THEN 0 ELSE Hour24(r) + 1
             /\ DateOf(q) = IF new THEN DayAfter(DateOf(r)) ELSE DateOf(r)
             /\ q[6] = IF new THEN (r[6] + 1) % 7 ELSE r[6]
<1> DEFINE q   == rtc_hour_tick(r)
           new == Hour24(r) = 23
           h   == Hour(r) + 1
           day == IF NewDay(r, h) THEN rtc_day_tick(r) ELSE r
           pm  == IF h = 12 THEN ~Pm(r) ELSE Pm(r)
           hh  == IF Mode24(r) THEN IF h > 23 THEN 0 ELSE h
                               ELSE IF h > 12 THEN 1 ELSE h
           h10 == hh \div 10 + IF Mode24(r) THEN 8 ELSE IF pm THEN 4 ELSE 0
<1>1. r \in Digits /\ r[4] \in 0..9 /\ r[5] \in 0..15
  BY DEF Dated, Timed, Digits, Reg
<1>2. Hour(r) \in IF Mode24(r) THEN 0..23 ELSE 1..12
  BY DEF Timed
<1>3. Hour24(r) \in 0..23 /\ (NewDay(r, h) <=> new)
  BY <1>2 DEF Hour24, NewDay
<1>4. hh \in IF Mode24(r) THEN 0..23 ELSE 1..12
  BY <1>2
<1>5. q = [day EXCEPT ![4] = hh % 10, ![5] = h10]
  BY DEF rtc_hour_tick
<1>6. h10 \in 0..15 /\ hh % 10 \in 0..9 /\ hh \in 0..23
  BY <1>4
<1>7. /\ h10 % 4 = hh \div 10 /\ (h10 \div 8 = 1 <=> Mode24(r))
      /\ ~Mode24(r) => ((h10 \div 4) % 2 = 1 <=> pm)
  BY <1>4
<1>8. /\ Dated(day) /\ \A i \in 0..5 : day[i] = r[i]
      /\ DateOf(day) = IF new THEN DayAfter(DateOf(r)) ELSE DateOf(r)
      /\ day[6] = IF new THEN (r[6] + 1) % 7 ELSE r[6]
  <2>1. CASE new
    <3>1. day = rtc_day_tick(r)
      BY <1>3, <2>1
    <3> HIDE DEF day, new
    <3> QED
      BY <2>1, <3>1, DateTick
  <2>2. CASE ~new
    BY <1>3, <2>2
  <2> QED
    BY <2>1, <2>2
<1> HIDE DEF day, q, h10
<1>9. /\ q \in Digits /\ \A i \in Reg \ {4, 5} : q[i] = day[i]
      /\ q[4] = hh % 10 /\ q[5] = h10
  <2>1. day \in Digits
    BY <1>8 DEF Dated
  <2> HIDE DEF hh
  <2> QED
    BY <1>5, <1>6, <2>1 DEF Digits, Reg
<1>10. /\ Month(q) = Month(day) /\ Day(q) = Day(day) /\ FullYear(q) = FullYear(day)
       /\ LeapSel(q) = LeapSel(day)
  BY <1>9 DEF Month, Day, FullYear, Year, LeapSel, Reg
<1>11. Dated(q) /\ DateOf(q) = DateOf(day)
  BY <1>8, <1>9, <1>10 DEF Dated, DateOf, Reg
<1>12. Hour(q) = hh /\ (Mode24(q) <=> Mode24(r)) /\ (~Mode24(r) => (Pm(q) <=> pm))
  BY <1>6, <1>7, <1>9 DEF Hour, Mode24, Pm
<1>13. \A i \in 0..3 : q[i] = r[i]
  BY <1>8, <1>9 DEF Reg
<1>14. Timed(q)
  BY <1>4, <1>6, <1>9, <1>12, <1>13 DEF Timed
<1>15. Hour24(q) = IF new THEN 0 ELSE Hour24(r) + 1
  BY <1>2, <1>12 DEF Hour24
<1>16. q[6] = day[6]
  BY <1>9 DEF Reg
<1> QED
  BY <1>3, <1>8, <1>11, <1>13, <1>14, <1>15, <1>16 DEF q

(* One tick is one second, and a day after the last second of a day.       *)
SecondAfter(q, r) ==
  LET new == TimeOf(r) = 86399
  IN  /\ TimeOf(q) = IF new THEN 0 ELSE TimeOf(r) + 1
      /\ DateOf(q) = IF new THEN DayAfter(DateOf(r)) ELSE DateOf(r)
      /\ q[6] = IF new THEN (r[6] + 1) % 7 ELSE r[6]

(* The seconds since the hour.                                             *)
Seconds(r) == r[3] * 600 + r[2] * 60 + r[1] * 10 + r[0]

(* The seconds of a day.                                                   *)
LEMMA TimeIn ==
  ASSUME NEW r, Timed(r)
  PROVE  /\ Hour24(r) \in 0..23 /\ Seconds(r) \in Nat /\ Seconds(r) < 3600
         /\ TimeOf(r) = Hour24(r) * 3600 + Seconds(r)
         /\ TimeOf(r) \in Nat /\ TimeOf(r) < 86400
<1>1. Hour24(r) \in 0..23
  BY DEF Timed, Hour24
<1>2. r[0] \in 0..9 /\ r[1] \in 0..5 /\ r[2] \in 0..9 /\ r[3] \in 0..5
  BY DEF Timed
<1>3. r[0] \in Nat /\ r[1] \in Nat /\ r[2] \in Nat /\ r[3] \in Nat
  BY <1>2
<1>4. r[0] <= 9 /\ r[1] <= 5 /\ r[2] <= 9 /\ r[3] <= 5
  BY <1>2
<1>5. Seconds(r) \in Nat
  BY <1>3, SMT DEF Seconds
<1>6. Seconds(r) < 3600
  BY <1>3, <1>4, SMT DEF Seconds
<1> DEFINE h == Hour24(r)
           t == h * 3600 + Seconds(r)
<1>7. h \in Nat /\ h <= 23
  BY <1>1
<1> HIDE DEF h
<1>8. t = h * 3600 + (r[3] * 10 + r[2]) * 60 + r[1] * 10 + r[0]
  BY <1>3, <1>7, SMT DEF Seconds
<1>9. t \in Nat /\ t < 86400
  BY <1>5, <1>6, <1>7, SMT
<1>10. TimeOf(r) = t
  BY <1>8, SMT DEF TimeOf, h
<1> HIDE DEF t
<1>11. TimeOf(r) \in Nat /\ TimeOf(r) < 86400
  BY <1>9, <1>10, SMT
<1>12. TimeOf(r) = Hour24(r) * 3600 + Seconds(r)
  BY <1>10, SMT DEF t, h
<1> QED
  BY <1>1, <1>5, <1>6, <1>11, <1>12, SMT

(* A tick keeps the registers a date and a time, one second later.         *)
LEMMA Tick ==
  ASSUME NEW r, Dated(r), Timed(r)
  PROVE  LET q == rtc_tick(r)
         IN  Dated(q) /\ Timed(q) /\ SecondAfter(q, r)
<1> DEFINE s0 == [r EXCEPT ![0] = IF Carry(r, 0, 9) THEN 0 ELSE @ + 1]
           s1 == [s0 EXCEPT ![1] = IF Carry(r, 1, 5) THEN 0 ELSE @ + 1]
           s2 == [s1 EXCEPT ![2] = IF Carry(r, 2, 9) THEN 0 ELSE @ + 1]
           s3 == [s2 EXCEPT ![3] = IF Carry(r, 3, 5) THEN 0 ELSE @ + 1]
           Low(q, k, v) == /\ q \in Digits /\ \A i \in Reg \ 0..k : q[i] = r[i]
                           /\ \A i \in 0..(k - 1) : q[i] = 0
                           /\ q[k] = v
           Full(k) == \A i \in 0..(k - 1) : r[i] = IF i \in {0, 2} THEN 9 ELSE 5
<1>1. /\ r \in Digits /\ r[0] \in 0..9 /\ r[1] \in 0..5 /\ r[2] \in 0..9 /\ r[3] \in 0..5
  BY DEF Dated, Timed
<1>2. /\ Hour24(r) \in 0..23 /\ Seconds(r) \in Nat /\ Seconds(r) < 3600
      /\ TimeOf(r) = Hour24(r) * 3600 + Seconds(r)
      /\ TimeOf(r) \in Nat /\ TimeOf(r) < 86400
  BY TimeIn, SMT
<1>4. ASSUME NEW q, NEW k \in 0..3, Low(q, k, r[k] + 1), Full(k),
             r[k] < IF k \in {0, 2} THEN 9 ELSE 5
      PROVE  Dated(q) /\ Timed(q) /\ SecondAfter(q, r)
  <2>1. \A i \in 4..12 : q[i] = r[i]
    BY <1>4 DEF Reg
  <2>2. /\ Month(q) = Month(r) /\ Day(q) = Day(r) /\ FullYear(q) = FullYear(r)
        /\ LeapSel(q) = LeapSel(r) /\ Hour(q) = Hour(r) /\ (Mode24(q) <=> Mode24(r))
        /\ Hour24(q) = Hour24(r)
    BY <2>1 DEF Month, Day, FullYear, Year, LeapSel, Hour, Mode24, Hour24, Pm
  <2>3. Dated(q) /\ DateOf(q) = DateOf(r) /\ q[6] = r[6]
    BY <1>4, <2>1, <2>2 DEF Dated, DateOf
  <2>4. /\ q[0] \in 0..9 /\ q[1] \in 0..5 /\ q[2] \in 0..9 /\ q[3] \in 0..5
        /\ Seconds(q) = Seconds(r) + 1
    <3>0. /\ r[0] \in Nat /\ r[1] \in Nat /\ r[2] \in Nat /\ r[3] \in Nat
          /\ r[0] <= 9 /\ r[1] <= 5 /\ r[2] <= 9 /\ r[3] <= 5
      BY <1>1
    <3>1. CASE k = 0
      <4>1. q[0] = r[0] + 1 /\ q[1] = r[1] /\ q[2] = r[2] /\ q[3] = r[3] /\ r[0] < 9
        BY <1>4, <3>1 DEF Reg
      <4>2. Seconds(q) = Seconds(r) + 1
        BY <3>0, <4>1, SMT DEF Seconds
      <4> QED
        BY <1>1, <4>1, <4>2, SMT
    <3>2. CASE k = 1
      <4>1. q[0] = 0 /\ q[1] = r[1] + 1 /\ q[2] = r[2] /\ q[3] = r[3]
            /\ r[0] = 9 /\ r[1] < 5
        BY <1>4, <3>2 DEF Reg
      <4>2. Seconds(q) = Seconds(r) + 1
        BY <3>0, <4>1, SMT DEF Seconds
      <4> QED
        BY <1>1, <4>1, <4>2, SMT
    <3>3. CASE k = 2
      <4>1. q[0] = 0 /\ q[1] = 0 /\ q[2] = r[2] + 1 /\ q[3] = r[3]
            /\ r[0] = 9 /\ r[1] = 5 /\ r[2] < 9
        BY <1>4, <3>3 DEF Reg
      <4>2. Seconds(q) = Seconds(r) + 1
        BY <3>0, <4>1, SMT DEF Seconds
      <4> QED
        BY <1>1, <4>1, <4>2, SMT
    <3>4. CASE k = 3
      <4>1. q[0] = 0 /\ q[1] = 0 /\ q[2] = 0 /\ q[3] = r[3] + 1
            /\ r[0] = 9 /\ r[1] = 5 /\ r[2] = 9 /\ r[3] < 5
        BY <1>4, <3>4 DEF Reg
      <4>2. Seconds(q) = Seconds(r) + 1
        BY <3>0, <4>1, SMT DEF Seconds
      <4> QED
        BY <1>1, <4>1, <4>2, SMT
    <3> QED
      BY <1>4, <3>1, <3>2, <3>3, <3>4
  <2>5. Timed(q)
    BY <2>1, <2>2, <2>4 DEF Timed
  <2>6. TimeOf(q) = TimeOf(r) + 1 /\ TimeOf(q) < 86400
    <3>1. TimeOf(q) = Hour24(q) * 3600 + Seconds(q) /\ TimeOf(q) < 86400
      BY <2>5, TimeIn, SMT
    <3> QED
      BY <1>2, <2>2, <2>4, <3>1, SMT
  <2>7. TimeOf(r) # 86399
    BY <1>2, <2>6, SMT
  <2> QED
    BY <2>3, <2>5, <2>6, <2>7, SMT DEF SecondAfter
<1>5. CASE ~Carry(r, 0, 9)
  <2>1. rtc_tick(r) = s0
    BY <1>5 DEF rtc_tick
  <2>2. Low(s0, 0, r[0] + 1) /\ r[0] < 9
    BY <1>1, <1>5 DEF Carry, Digits, Reg
  <2>3. Full(0) /\ r[0] < IF 0 \in {0, 2} THEN 9 ELSE 5
    BY <2>2
  <2> HIDE DEF s0, Low, Full
  <2> QED
    BY <1>4, <2>1, <2>2, <2>3, SMT
<1>6. CASE Carry(r, 0, 9) /\ ~Carry(r, 1, 5)
  <2>1. rtc_tick(r) = s1
    BY <1>6 DEF rtc_tick
  <2>2. Low(s1, 1, r[1] + 1) /\ r[1] < 5 /\ r[0] = 9
    BY <1>1, <1>6 DEF Carry, Digits, Reg
  <2>3. Full(1) /\ r[1] < IF 1 \in {0, 2} THEN 9 ELSE 5
    BY <2>2
  <2> HIDE DEF s1, Low, Full
  <2> QED
    BY <1>4, <2>1, <2>2, <2>3, SMT
<1>7. CASE Carry(r, 0, 9) /\ Carry(r, 1, 5) /\ ~Carry(r, 2, 9)
  <2>1. rtc_tick(r) = s2
    BY <1>7 DEF rtc_tick
  <2>2. Low(s2, 2, r[2] + 1) /\ r[2] < 9 /\ r[0] = 9 /\ r[1] = 5
    BY <1>1, <1>7 DEF Carry, Digits, Reg
  <2>3. Full(2) /\ r[2] < IF 2 \in {0, 2} THEN 9 ELSE 5
    BY <2>2
  <2> HIDE DEF s2, Low, Full
  <2> QED
    BY <1>4, <2>1, <2>2, <2>3, SMT
<1>8. CASE Carry(r, 0, 9) /\ Carry(r, 1, 5) /\ Carry(r, 2, 9) /\ ~Carry(r, 3, 5)
  <2>1. rtc_tick(r) = s3
    BY <1>8 DEF rtc_tick
  <2>2. Low(s3, 3, r[3] + 1) /\ r[3] < 5 /\ r[0] = 9 /\ r[1] = 5 /\ r[2] = 9
    BY <1>1, <1>8 DEF Carry, Digits, Reg
  <2>3. Full(3) /\ r[3] < IF 3 \in {0, 2} THEN 9 ELSE 5
    BY <2>2
  <2> HIDE DEF s3, Low, Full
  <2> QED
    BY <1>4, <2>1, <2>2, <2>3, SMT
<1>9. CASE Carry(r, 0, 9) /\ Carry(r, 1, 5) /\ Carry(r, 2, 9) /\ Carry(r, 3, 5)
  <2>1. rtc_tick(r) = rtc_hour_tick(s3)
    BY <1>9 DEF rtc_tick
  <2>2. Low(s3, 3, 0) /\ r[0] = 9 /\ r[1] = 5 /\ r[2] = 9 /\ r[3] = 5
    BY <1>1, <1>9 DEF Carry, Digits, Reg
  <2> DEFINE q == rtc_hour_tick(s3)
  <2> HIDE DEF s3
  <2>3. \A i \in 4..12 : s3[i] = r[i]
    BY <2>2 DEF Reg
  <2>4. \A i \in 0..3 : s3[i] = 0
    BY <2>2
  <2>5. /\ Month(s3) = Month(r) /\ Day(s3) = Day(r) /\ FullYear(s3) = FullYear(r)
        /\ LeapSel(s3) = LeapSel(r) /\ Hour(s3) = Hour(r) /\ (Mode24(s3) <=> Mode24(r))
        /\ Hour24(s3) = Hour24(r)
    BY <2>3 DEF Month, Day, FullYear, Year, LeapSel, Hour, Mode24, Hour24, Pm
  <2>6. Dated(s3) /\ DateOf(s3) = DateOf(r) /\ s3[6] = r[6]
    BY <2>2, <2>3, <2>5 DEF Dated, DateOf
  <2>7. Timed(s3)
    BY <2>3, <2>4, <2>5 DEF Timed
  <2>8. /\ Dated(q) /\ Timed(q)
        /\ \A i \in 0..3 : q[i] = 0
        /\ Hour24(q) = IF Hour24(r) = 23 THEN 0 ELSE Hour24(r) + 1
        /\ DateOf(q) = IF Hour24(r) = 23 THEN DayAfter(DateOf(r)) ELSE DateOf(r)
        /\ q[6] = IF Hour24(r) = 23 THEN (r[6] + 1) % 7 ELSE r[6]
    BY <2>4, <2>5, <2>6, <2>7, HourTick
  <2> HIDE DEF q
  <2>9. TimeOf(q) = Hour24(q) * 3600 + Seconds(q) /\ Hour24(q) \in 0..23
    BY <2>8, TimeIn, SMT
  <2>10. Seconds(q) = 0 /\ Seconds(r) = 3599
    <3>1. q[0] = 0 /\ q[1] = 0 /\ q[2] = 0 /\ q[3] = 0
      BY <2>8
    <3> QED
      BY <2>2, <3>1, SMT DEF Seconds
  <2>11. /\ Hour24(r) = 23 <=> TimeOf(r) = 86399
         /\ TimeOf(q) = IF Hour24(r) = 23 THEN 0 ELSE TimeOf(r) + 1
    <3> DEFINE h == Hour24(r)
               g == Hour24(q)
    <3>1. h \in 0..23 /\ g \in 0..23 /\ g = IF h = 23 THEN 0 ELSE h + 1
      BY <1>2, <2>8, <2>9
    <3>2. TimeOf(r) = h * 3600 + 3599 /\ TimeOf(q) = g * 3600 + 0
      BY <1>2, <2>9, <2>10, SMT
    <3> HIDE DEF h, g
    <3>3. (h = 23 <=> TimeOf(r) = 86399) /\ TimeOf(q) = IF h = 23 THEN 0 ELSE TimeOf(r) + 1
      BY <3>1, <3>2, SMT
    <3> QED
      BY <3>3, SMT DEF h
  <2> QED
    BY <2>1, <2>8, <2>11, SMT DEF q, SecondAfter
<1> QED
  BY <1>5, <1>6, <1>7, <1>8, <1>9, SMT

(* The number of a day lies in its year.                                   *)
LEMMA DateIn ==
  ASSUME NEW r, Dated(r)
  PROVE  /\ FullYear(r) \in 1978..2077 /\ Month(r) \in 1..12 /\ Day(r) \in 1..31
         /\ YearStart(FullYear(r)) \in Nat
         /\ DateOf(r) \in Nat /\ YearStart(FullYear(r)) < DateOf(r)
         /\ DateOf(r) <= YearStart(FullYear(r)) + 366 /\ DateOf(r) <= LastDay
<1> DEFINE y == FullYear(r)
           date == DayNumber(y, Month(r), Day(r))
<1>1. /\ y \in 1978..2077 /\ Month(r) \in 1..12 /\ Day(r) \in 1..MonthDays(y, Month(r))
  BY YearIn DEF Dated
<1>2. MonthDays(y, Month(r)) \in 28..31 /\ Day(r) \in 1..31
  BY <1>1, MonthLength
<1> HIDE DEF y
<1>3. /\ YearStart(y) < date /\ date <= YearStart(y) + YearDays(y)
  BY <1>1, InYear, SMT
<1>4. YearStart(y) \in Nat /\ YearDays(y) \in Nat /\ YearDays(y) <= 366
  BY <1>1, Years, SMTT(30) DEF YearDays
<1>5. YearStart(y) + YearDays(y) <= 36525
  BY <1>1, <1>4, Years, SMT
<1>6. date \in Nat
  <2>1. (y - 1977) \div 4 \in Nat /\ Before[Month(r)] \in Nat
    <3>1. Month(r) \in {1, 2, 3, 4, 5, 6, 7, 8, 9, 10, 11, 12}
      BY <1>1
    <3> QED
      BY <1>1, <3>1 DEF Before
  <2>2. date \in Int
    BY <1>1, <1>2, <2>1, SMT DEF DayNumber
  <2> HIDE DEF date
  <2> QED
    BY <1>3, <1>4, <2>2, SMT
<1>7. DateOf(r) = date
  BY DEF DateOf, y
<1> HIDE DEF date
<1> QED
  BY <1>1, <1>2, <1>3, <1>4, <1>5, <1>6, <1>7, SMT DEF y, LastDay

(* A date of the same year or a later one is at most a year earlier.       *)
LEMMA YearOrder ==
  ASSUME NEW r, Dated(r), NEW q, Dated(q), FullYear(r) >= FullYear(q)
  PROVE  DateOf(q) <= DateOf(r) + 365
<1> DEFINE y == FullYear(r)
           z == FullYear(q)
<1>1. y \in 1978..2077 /\ z \in 1978..2077 /\ y >= z
  BY DateIn, SMT
<1> HIDE DEF y, z
<1>2. YearStart(z) <= YearStart(y)
  BY <1>1, SMT DEF YearStart
<1>3. /\ YearStart(y) \in Nat /\ DateOf(r) \in Nat /\ YearStart(y) < DateOf(r)
      /\ YearStart(z) \in Nat /\ DateOf(q) \in Nat /\ DateOf(q) <= YearStart(z) + 366
  BY DateIn, SMT DEF y, z
<1> QED
  BY <1>2, <1>3, SMT

(* The weekday of a date is what rtc_wday computes.                        *)
LEMMA WeekdayMeans ==
  ASSUME NEW r, Dated(r)
  PROVE  Weekday(r) <=> r[6] = rtc_wday(FullYear(r), Month(r), Day(r))
<1>1. FullYear(r) \in 1978..2077 /\ Month(r) \in 1..12 /\ Day(r) \in 1..31
  BY DateIn
<1> QED
  BY <1>1, WeekdayOfDate DEF Weekday, DateOf

(* The registers r are k seconds behind q, or the years have run out and   *)
(* begun again.                                                            *)
Behind(r, q, k) ==
  \/ Weekday(r) /\ Apart(r, q) = k
  \/ Apart(r, q) = k - LastDay * 86400

(* Beyond a century of seconds the two digits of the year come round again *)
(* to the year of the seed.                                                *)
Century == 99 * 365 * 86400

(* One tick puts the registers one second further behind.                  *)
LEMMA TickBehind ==
  ASSUME NEW r, Dated(r), Timed(r), NEW q, Dated(q), Timed(q),
         NEW k \in Nat, k < Century, Behind(r, q, k)
  PROVE  /\ Dated(rtc_tick(r)) /\ Timed(rtc_tick(r))
         /\ Behind(rtc_tick(r), q, k + 1)
<1> DEFINE s == rtc_tick(r)
           new == TimeOf(r) = 86399
<1>1. Dated(s) /\ Timed(s) /\ SecondAfter(s, r)
  BY Tick
<1> HIDE DEF s
<1>2. /\ TimeOf(s) = IF new THEN 0 ELSE TimeOf(r) + 1
      /\ DateOf(s) = IF new THEN DayAfter(DateOf(r)) ELSE DateOf(r)
      /\ s[6] = IF new THEN (r[6] + 1) % 7 ELSE r[6]
  BY <1>1, SMT DEF SecondAfter
<1>3. /\ TimeOf(r) \in Nat /\ TimeOf(q) \in Nat /\ TimeOf(q) < 86400
      /\ DateOf(r) \in Nat /\ DateOf(q) \in Nat /\ DateOf(q) >= 1
  BY TimeIn, DateIn, SMT
<1>4. CASE ~new
  <2>1. TimeOf(s) = TimeOf(r) + 1 /\ DateOf(s) = DateOf(r) /\ s[6] = r[6]
    BY <1>2, <1>4, SMT
  <2>2. Apart(s, q) = Apart(r, q) + 1 /\ Apart(r, q) \in Int
    BY <1>3, <2>1, SMT DEF Apart
  <2>3. Weekday(s) <=> Weekday(r)
    BY <2>1 DEF Weekday
  <2> QED
    BY <1>1, <2>2, <2>3, SMT DEF Behind, LastDay, s
<1>5. CASE new /\ DateOf(r) # LastDay
  <2>1. TimeOf(s) = 0 /\ TimeOf(r) = 86399 /\ DateOf(s) = DateOf(r) + 1
        /\ s[6] = (r[6] + 1) % 7
    BY <1>2, <1>5, SMT DEF DayAfter
  <2>2. Apart(s, q) = Apart(r, q) + 1 /\ Apart(r, q) \in Int
    BY <1>3, <2>1, SMT DEF Apart
  <2>3. Weekday(r) => Weekday(s)
    BY <1>3, <2>1, SMT DEF Weekday
  <2> QED
    BY <1>1, <2>2, <2>3, SMT DEF Behind, LastDay, s
<1>6. CASE new /\ DateOf(r) = LastDay
  <2>1. TimeOf(s) = 0 /\ TimeOf(r) = 86399 /\ DateOf(s) = 1 /\ DateOf(r) = 36525
    BY <1>2, <1>6, SMT DEF DayAfter, LastDay
  <2>2. Apart(s, q) = Apart(r, q) + 1 - 36525 * 86400 /\ Apart(r, q) \in Int
    BY <1>3, <2>1, SMT DEF Apart
  <2>3. Apart(r, q) >= 0
    <3>1. DateOf(q) <= 36525
      BY DateIn, SMT DEF LastDay
    <3> QED
      BY <1>3, <2>1, <3>1, SMT DEF Apart
  <2>4. Apart(r, q) = k
    BY <2>2, <2>3, SMT DEF Behind, LastDay, Century
  <2> QED
    BY <1>1, <2>2, <2>4, SMT DEF Behind, LastDay, s
<1> QED
  BY <1>4, <1>5, <1>6

(* Registers that are k seconds behind and show no earlier year show the   *)
(* time k seconds later, for k below a century.                            *)
LEMMA BehindLater ==
  ASSUME NEW r, Dated(r), Timed(r), NEW q, Dated(q), Timed(q),
         NEW k \in Nat, k <= Century, Behind(r, q, k)
  PROVE  Later(r, q, k)
<1> SUFFICES ASSUME FullYear(r) >= FullYear(q)
             PROVE  /\ Valid(r) /\ Apart(r, q) = k
                    /\ r[6] = rtc_wday(FullYear(r), Month(r), Day(r))
                    /\ (LeapSel(r) = 0) <=> IsLeap(FullYear(r))
  BY DEF Later
<1>1. Valid(r)
  BY DEF Valid, Dated, Timed
<1>2. Apart(r, q) # k - LastDay * 86400
  <2>1. /\ TimeOf(r) \in Nat /\ TimeOf(q) \in Nat /\ TimeOf(q) < 86400
        /\ DateOf(r) \in Nat /\ DateOf(q) \in Nat
    BY TimeIn, DateIn, SMT
  <2>2. DateOf(q) <= DateOf(r) + 365
    BY YearOrder
  <2>3. Apart(r, q) > -(366 * 86400)
    BY <2>1, <2>2, SMT DEF Apart
  <2> QED
    BY <2>3, SMT DEF LastDay, Century
<1>3. Weekday(r) /\ Apart(r, q) = k
  BY <1>2 DEF Behind
<1>4. (LeapSel(r) = 0) <=> IsLeap(FullYear(r))
  <2>1. FullYear(r) \in 1978..2077
    BY DateIn
  <2> QED
    BY <2>1 DEF Dated, IsLeap
<1> QED
  BY <1>1, <1>3, <1>4, WeekdayMeans

(* A number is its two decimal digits.                                     *)
LEMMA TwoDigits ==
  ASSUME NEW v, NEW a, NEW b, v \in Nat, a = v \div 10, b = v % 10
  PROVE  a * 10 + b = v
OBVIOUS

(* Registers that show a date, a time and its weekday.                     *)
Seeded(r) == Dated(r) /\ Timed(r) /\ Weekday(r)

(* rtc_set_time writes the date and time it is given.                      *)
LEMMA SeedSound ==
  ASSUME NEW y, NEW m, NEW d, NEW h \in 0..23, NEW mi \in 0..59, NEW s \in 0..59,
         y \in 1978..2077, m \in 1..12, d \in 1..MonthDays(y, m)
  PROVE  /\ Seeded(rtc_set_time(y, m, d, h, mi, s))
         /\ DateOf(rtc_set_time(y, m, d, h, mi, s)) = DayNumber(y, m, d)
<1> DEFINE r == rtc_set_time(y, m, d, h, mi, s)
           w == rtc_wday(y, m, d)
<1>1. MonthDays(y, m) \in 28..31 /\ d \in 1..31
  BY MonthLength
<1>2. w = (DayNumber(y, m, d) + 6) % 7
  BY <1>1, WeekdayOfDate
<1>3. w \in 0..6
  <2> DEFINE yy == IF m < 3 THEN y - 1 ELSE y
             t  == <<0, 3, 2, 5, 0, 3, 5, 1, 4, 6, 2, 4>>
  <2>1. t[m] \in Nat
    <3>1. m \in {1, 2, 3, 4, 5, 6, 7, 8, 9, 10, 11, 12}
      OBVIOUS
    <3> QED
      BY <3>1
  <2>2. yy \in Nat /\ yy \div 4 \in Nat /\ yy \div 100 \in Nat /\ yy \div 400 \in Nat
    BY SMT
  <2> HIDE DEF yy, t
  <2>3. yy + yy \div 4 - yy \div 100 + yy \div 400 + t[m] + d \in Int
    BY <1>1, <2>1, <2>2, SMT
  <2> DEFINE v == yy + yy \div 4 - yy \div 100 + yy \div 400 + t[m] + d
  <2>4. w = v % 7
    BY DEF rtc_wday, yy, t
  <2>5. v \in Int
    BY <2>3
  <2> HIDE DEF v
  <2> QED
    BY <2>4, <2>5, SMT
<1> HIDE DEF w
<1>4. /\ DOMAIN r = Reg
      /\ r[0] = s % 10 /\ r[1] = s \div 10 /\ r[2] = mi % 10 /\ r[3] = mi \div 10
      /\ r[4] = h % 10 /\ r[5] = 8 + h \div 10 /\ r[6] = w
      /\ r[7] = d % 10 /\ r[8] = ((4 - (y % 4)) % 4) * 4 + d \div 10
      /\ r[9] = m % 10 /\ r[10] = m \div 10
      /\ r[11] = (y % 100) % 10 /\ r[12] = (y % 100) \div 10
  BY DEF rtc_set_time, Reg, w
<1>5. /\ s % 10 \in 0..9 /\ s \div 10 \in 0..5 /\ mi % 10 \in 0..9 /\ mi \div 10 \in 0..5
      /\ h % 10 \in 0..9 /\ h \div 10 \in 0..2 /\ d % 10 \in 0..9 /\ d \div 10 \in 0..3
      /\ m % 10 \in 0..9 /\ m \div 10 \in 0..1 /\ (y % 100) \in 0..99
      /\ (4 - (y % 4)) % 4 \in 0..3
  BY <1>1
<1>6. (y % 100) % 10 \in 0..9 /\ (y % 100) \div 10 \in 0..9
  BY <1>5
<1>7. \A i \in Reg : r[i] \in 0..15
  BY <1>3, <1>4, <1>5, <1>6, SMTT(30) DEF Reg
<1>8. r = [i \in Reg |-> r[i]]
  BY DEF rtc_set_time
<1> HIDE DEF r
<1>9. r \in Digits
  BY <1>7, <1>8 DEF Digits
<1>10. Month(r) = m /\ Day(r) = d /\ LeapSel(r) = (4 - (y % 4)) % 4
  <2>1. r[8] % 4 = d \div 10 /\ r[8] \div 4 = (4 - (y % 4)) % 4
    BY <1>4, <1>5
  <2>2. r[10] % 2 = m \div 10
    BY <1>4, <1>5
  <2>3. m \in Nat /\ d \in Nat
    BY <1>1
  <2>4. (r[10] % 2) * 10 + r[9] = m
    BY <1>4, <2>2, <2>3, TwoDigits
  <2>5. (r[8] % 4) * 10 + r[7] = d
    BY <1>4, <2>1, <2>3, TwoDigits
  <2> QED
    BY <2>1, <2>4, <2>5 DEF Month, Day, LeapSel
<1>11. FullYear(r) = y
  <2>1. Year(r) = y % 100
    BY <1>4, <1>5 DEF Year
  <2> QED
    BY <2>1 DEF FullYear
<1>12. Hour(r) = h /\ Mode24(r)
  <2>1. r[5] % 4 = h \div 10 /\ r[5] \div 8 = 1
    BY <1>4, <1>5
  <2>2. (r[5] % 4) * 10 + r[4] = h
    BY <1>4, <2>1, TwoDigits
  <2> QED
    BY <2>1, <2>2 DEF Hour, Mode24
<1>13. Dated(r)
  BY <1>4, <1>5, <1>6, <1>9, <1>10, <1>11 DEF Dated
<1>14. Timed(r)
  BY <1>4, <1>5, <1>12 DEF Timed
<1>15. DateOf(r) = DayNumber(y, m, d)
  BY <1>10, <1>11 DEF DateOf
<1> QED
  BY <1>2, <1>4, <1>13, <1>14, <1>15 DEF Seeded, Weekday, r

(* The jobs of the clock.                                                  *)
LEMMA SeededJob ==
  ASSUME NEW j, Proper(j), j.about = "clock"
  PROVE  "regs" \in DOMAIN j /\ Seeded(j.regs)
<1> DEFINE r == j.regs
<1>1. /\ "regs" \in DOMAIN j /\ r \in Digits /\ Valid(r)
      /\ r[6] = rtc_wday(FullYear(r), Month(r), Day(r))
      /\ LeapSel(r) = (4 - (FullYear(r) % 4)) % 4
  BY DEF Proper, Digits
<1> HIDE DEF r
<1>2. Dated(r) /\ Timed(r)
  BY <1>1 DEF Dated, Timed, Valid
<1> QED
  BY <1>1, <1>2, WeekdayMeans DEF Seeded, r

(* The inductive invariant: the registers show a time as many seconds      *)
(* behind the seed as there were ticks.                                    *)
ClockInv ==
  /\ "about" \in DOMAIN job /\ n \in Nat
  /\ job.about = "clock" =>
       /\ "regs" \in DOMAIN job /\ Dated(job.regs) /\ Timed(job.regs)
       /\ Dated(given.regs) /\ Timed(given.regs)
       /\ n <= Century /\ Behind(job.regs, given.regs, n)

(* A clock begins at the time it was given.                                *)
LEMMA ClockInit ==
  ASSUME JobInit
  PROVE  ClockInv
<1>1. n = 0 /\ given = job /\ "about" \in DOMAIN job
  BY Begins
<1>2. job.about = "clock" => "regs" \in DOMAIN job /\ Seeded(job.regs)
  BY Begins, SeededJob
<1>3. ASSUME Seeded(job.regs) PROVE Behind(job.regs, job.regs, 0)
  <2> DEFINE r == job.regs
  <2>1. DateOf(r) \in Nat /\ TimeOf(r) \in Nat
    BY <1>3, DateIn, TimeIn, SMT DEF Seeded
  <2> HIDE DEF r
  <2>2. Apart(r, r) = 0
    BY <2>1, SMT DEF Apart
  <2> QED
    BY <1>3, <2>2 DEF Seeded, Behind, r
<1>4. 0 <= Century
  BY SMT DEF Century
<1> QED
  BY <1>1, <1>2, <1>3, <1>4 DEF ClockInv, Seeded

(* Only a tick of the clock changes a clock's registers.                   *)
LEMMA ClockStep ==
  ASSUME ClockInv, [JobNext]_jvars
  PROVE  ClockInv'
<1>1. CASE UNCHANGED jvars
  BY <1>1 DEF jvars, ClockInv
<1>2. CASE JobNext
  <2>1. /\ "about" \in DOMAIN job /\ n \in Nat
        /\ n' = n + 1 /\ given' = given /\ "about" \in DOMAIN job' /\ job'.about = job.about
        /\ job.about = "clock" => Second
    BY <1>2, StepOf DEF ClockInv
  <2>2. CASE job.about # "clock"
    BY <2>1, <2>2 DEF ClockInv
  <2>3. CASE job.about = "clock"
    <3>1. n < MaxTicks /\ job' = [job EXCEPT !.regs = rtc_tick(job.regs)]
      BY <2>1, <2>3 DEF Second
    <3>2. /\ "regs" \in DOMAIN job /\ Dated(job.regs) /\ Timed(job.regs)
          /\ Dated(given.regs) /\ Timed(given.regs) /\ Behind(job.regs, given.regs, n)
      BY <2>3 DEF ClockInv
    <3>3. "regs" \in DOMAIN job' /\ job'.regs = rtc_tick(job.regs)
      BY <3>1, <3>2
    <3>4. n < Century /\ n' <= Century
      <4>1. MaxTicks \in Nat /\ MaxTicks <= Century
        BY JobsAssumption, SMT DEF Century
      <4>2. Century \in Nat
        BY SMT DEF Century
      <4> QED
        BY <2>1, <3>1, <4>1, <4>2
    <3>5. /\ Dated(rtc_tick(job.regs)) /\ Timed(rtc_tick(job.regs))
          /\ Behind(rtc_tick(job.regs), given.regs, n + 1)
      BY <2>1, <3>2, <3>4, TickBehind
    <3> QED
      BY <2>1, <3>2, <3>3, <3>4, <3>5 DEF ClockInv
  <2> QED
    BY <2>2, <2>3
<1> QED
  BY <1>1, <1>2

(* The clock shows the time: however long it runs, through the ends of     *)
(* months, leap Februaries and years, its registers show the second after  *)
(* second that passed since it was seeded, in either mode, with the day of *)
(* the week (rtc_tick).                                                    *)
THEOREM ClockSound == JobSpec => []ClockIsCalendar
<1>1. JobInit => ClockInv
  BY ClockInit
<1>2. ClockInv /\ [JobNext]_jvars => ClockInv'
  BY ClockStep
<1>3. ClockInv => ClockIsCalendar
  BY BehindLater DEF ClockInv, ClockIsCalendar
<1> QED
  BY <1>1, <1>2, <1>3, PTL DEF JobSpec

(***************************************************************************)
(* Part three: the argument frame of a program.                            *)
(***************************************************************************)

(* The greater of two numbers.                                             *)
LEMMA MaxTwo ==
  ASSUME NEW a \in Int, NEW b \in Int
  PROVE  Max({a, b}) = IF a >= b THEN a ELSE b
<1> DEFINE m == IF a >= b THEN a ELSE b
<1>1. m \in {a, b} /\ \A y \in {a, b} : m >= y
  OBVIOUS
<1>2. \A x \in {a, b} : (\A y \in {a, b} : x >= y) => x = m
  OBVIOUS
<1> HIDE DEF m
<1>3. Max({a, b}) \in {a, b} /\ \A y \in {a, b} : Max({a, b}) >= y
  BY <1>1, Zenon DEF Max
<1>4. Max({a, b}) = m
  BY <1>2, <1>3, Zenon
<1> QED
  BY <1>4 DEF m

(* The addresses of the strings: each behind the one before it and its end *)
(* mark.                                                                   *)
LEMMA StringsAt ==
  ASSUME NEW p \in Nat, NEW e \in Nat, NEW lengths \in Seq(Nat)
  PROVE  \E at \in [1..Len(lengths) + 1 -> Int] :
           /\ at[1] = PoolStart(p, e)
           /\ \A i \in 1..Len(lengths) : at[i + 1] = at[i] + lengths[i] + 1
           /\ Strings(p, e, lengths) =
                IF \E i \in 1..Len(lengths) + 1 : at[i] > PoolLimit THEN <<>>
                ELSE [i \in 1..Len(lengths) |-> at[i]]
<1> DEFINE N == Len(lengths)
           start == PoolStart(p, e)
           step == [i \in 1..N |-> [a \in Int |-> a + lengths[i] + 1]]
           P(f) == f = [i \in 1..N + 1 |->
                          IF i = 1 THEN start ELSE f[i - 1] + lengths[i - 1] + 1]
           at == CHOOSE f : P(f)
<1>1. N \in Nat /\ \A i \in 1..N : lengths[i] \in Nat
  OBVIOUS
<1>2. start \in Int
  BY LoutAssumption, MaxTwo DEF PoolStart, envp_arr, argv_arr
<1> HIDE DEF N, start
<1>3. step \in [1..N -> [Int -> Int]]
  BY <1>1
<1>4. PICK f \in [0..N -> Int] : Iterates(f, N, start, step)
  <2> HIDE DEF step
  <2> QED
    BY <1>1, <1>2, <1>3, Iterate
<1> DEFINE g == [i \in 1..N + 1 |-> f[i - 1]]
<1>5. P(g)
  <2>1. ASSUME NEW i \in 1..N + 1
        PROVE  f[i - 1] = IF i = 1 THEN start ELSE g[i - 1] + lengths[i - 1] + 1
    <3>1. CASE i = 1
      BY <1>4, <3>1 DEF Iterates
    <3>2. CASE i # 1
      <4>1. i - 1 \in 1..N /\ (i - 1) - 1 \in 0..N
        BY <1>1, <3>2
      <4>2. f[i - 1] = step[i - 1][f[(i - 1) - 1]]
        BY <1>4, <4>1 DEF Iterates
      <4>3. f[(i - 1) - 1] \in Int /\ g[i - 1] = f[(i - 1) - 1]
        BY <1>1, <1>4, <4>1
      <4> QED
        BY <3>2, <4>1, <4>2, <4>3
    <3> QED
      BY <3>1, <3>2
  <2> QED
    BY <2>1
<1>6. P(at)
  <2> HIDE DEF P, g
  <2> QED
    BY <1>5, Zenon
<1>7. at \in [1..N + 1 -> Int]
  <2> DEFINE S == {k \in 0..N : at[k + 1] \in Int}
  <2> HIDE DEF at
  <2>1. 0 \in S
    BY <1>1, <1>2, <1>6
  <2>2. ASSUME NEW k \in 0..N - 1, k \in S PROVE k + 1 \in S
    <3>1. at[k + 2] = at[k + 1] + lengths[k + 1] + 1
      BY <1>1, <1>6, <2>2
    <3> QED
      BY <1>1, <2>2, <3>1, SMTT(30)
  <2>3. \A k \in 0..N : k \in S
    <3> HIDE DEF S
    <3> QED
      BY <1>1, <2>1, <2>2, Induct
  <2>4. ASSUME NEW i \in 1..N + 1 PROVE at[i] \in Int
    <3>1. i - 1 \in 0..N
      BY <1>1
    <3>2. at[(i - 1) + 1] \in Int
      BY <2>3, <3>1
    <3> QED
      BY <1>1, <3>2
  <2> QED
    BY <1>6, <2>4
<1>8. Strings(p, e, lengths) =
        IF \E i \in 1..N + 1 : at[i] > PoolLimit THEN <<>>
        ELSE [i \in 1..N |-> at[i]]
  BY DEF Strings, N, start
<1>9. at[1] = start
  <2> HIDE DEF at
  <2> QED
    BY <1>1, <1>6
<1>10. ASSUME NEW i \in 1..N PROVE at[i + 1] = at[i] + lengths[i] + 1
  <2> HIDE DEF at
  <2> QED
    BY <1>1, <1>6
<1> HIDE DEF at
<1> QED
  BY <1>7, <1>8, <1>9, <1>10 DEF N, start

ArgumentsInv ==
  /\ "about" \in DOMAIN job /\ n \in Nat
  /\ job.about = "arguments" =>
       /\ given \in [about : {"arguments"}, nprog : Nat, nenv : Nat, lengths : Seq(Nat)]
       /\ n = 0 => job = given
       /\ n = 1 => /\ "at" \in DOMAIN job
                   /\ job.at = Strings(given.nprog, given.nenv, given.lengths)

(* The strings of the command line lie behind both pointer arrays, apart,  *)
(* and below the guard band, however many there are and however long they  *)
(* are (run_exec, put_str).                                                *)
THEOREM ArgumentsSound == JobSpec => []ArgumentsPlaced
<1>1. JobInit => ArgumentsInv
  BY Begins DEF Proper, ArgumentsInv
<1>2. ASSUME ArgumentsInv, [JobNext]_jvars PROVE ArgumentsInv'
  <2>1. CASE UNCHANGED jvars
    BY <1>2, <2>1 DEF jvars, ArgumentsInv
  <2>2. CASE JobNext
    <3>1. /\ n \in Nat /\ n' = n + 1 /\ given' = given
          /\ "about" \in DOMAIN job' /\ job'.about = job.about
          /\ job.about = "arguments" => Arguments
      BY <1>2, <2>2, StepOf DEF ArgumentsInv
    <3>2. ASSUME job.about = "arguments"
          PROVE  /\ n = 0 /\ job = given
                 /\ job' = [about |-> "arguments",
                            at |-> Strings(job.nprog, job.nenv, job.lengths)]
      BY <1>2, <3>1, <3>2 DEF Arguments, ArgumentsInv
    <3> QED
      BY <1>2, <3>1, <3>2 DEF ArgumentsInv
  <2> QED
    BY <1>2, <2>1, <2>2
<1>3. ASSUME ArgumentsInv, Done("arguments"), job.at # <<>>
      PROVE  LET at == job.at len == given.lengths
             IN  /\ at[1] >= argv_arr + (given.nprog + given.nenv + 2) * 4
                 /\ \A i \in 1 .. Len(at) :
                      at[i] + len[i] < (IF i = Len(at) THEN PoolLimit ELSE at[i + 1])
  <2> DEFINE p == given.nprog
             e == given.nenv
             len == given.lengths
             N == Len(len)
  <2>1. /\ p \in Nat /\ e \in Nat /\ len \in Seq(Nat) /\ job.at = Strings(p, e, len)
        /\ Strings(p, e, len) # <<>>
    BY <1>3 DEF ArgumentsInv, Done
  <2> HIDE DEF p, e, len
  <2>2. PICK at \in [1..N + 1 -> Int] :
          /\ at[1] = PoolStart(p, e)
          /\ \A i \in 1..N : at[i + 1] = at[i] + len[i] + 1
          /\ Strings(p, e, len) = IF \E i \in 1..N + 1 : at[i] > PoolLimit THEN <<>>
                                  ELSE [i \in 1..N |-> at[i]]
    BY <2>1, StringsAt, ZenonT(30)
  <2>3. N \in Nat /\ \A i \in 1..N : len[i] \in Nat
    BY <2>1
  <2>4. /\ \A i \in 1..N + 1 : at[i] <= PoolLimit
        /\ job.at = [i \in 1..N |-> at[i]]
    <3>1. ~\E i \in 1..N + 1 : at[i] > PoolLimit
      BY <2>1, <2>2
    <3>2. PoolLimit \in Nat /\ \A i \in 1..N + 1 : at[i] \in Int
      BY <2>2, LoutAssumption
    <3>3. job.at = [i \in 1..N |-> at[i]]
      BY <2>1, <2>2, <3>1, Zenon
    <3>4. ASSUME NEW i \in 1..N + 1 PROVE at[i] <= PoolLimit
      BY <3>1, <3>2
    <3> QED
      BY <3>3, <3>4
  <2> HIDE DEF N
  <2>5. Len(job.at) = N /\ N # 0
    <3>1. [i \in 1..0 |-> at[i]] = <<>>
      OBVIOUS
    <3> QED
      BY <2>1, <2>3, <2>4, <3>1
  <2>6. job.at[1] >= argv_arr + (p + e + 2) * 4
    <3>1. job.at[1] = PoolStart(p, e)
      BY <2>2, <2>3, <2>4, <2>5
    <3>2. PoolStart(p, e) \in Int /\ PoolStart(p, e) >= envp_arr(p) + (e + 1) * 4
      <4> DEFINE lo == envp_arr(p) + (e + 1) * 4
      <4>1. lo \in Int /\ PoolBase \in Int
        BY <2>1, LoutAssumption DEF envp_arr, argv_arr
      <4>2. PoolStart(p, e) = Max({PoolBase, lo})
        BY DEF PoolStart
      <4> HIDE DEF lo
      <4>3. Max({PoolBase, lo}) = IF PoolBase >= lo THEN PoolBase ELSE lo
        BY <4>1, MaxTwo
      <4>4. PoolStart(p, e) \in Int /\ PoolStart(p, e) >= lo
        BY <4>1, <4>2, <4>3
      <4> QED
        BY <4>4 DEF lo
    <3> QED
      BY <2>1, <3>1, <3>2, LoutAssumption DEF envp_arr, argv_arr
  <2>7. ASSUME NEW i \in 1..N
        PROVE  job.at[i] + len[i] < IF i = N THEN PoolLimit ELSE job.at[i + 1]
    <3>1. /\ at[i] \in Int /\ len[i] \in Nat /\ at[i + 1] = at[i] + len[i] + 1
          /\ at[i + 1] <= PoolLimit /\ job.at[i] = at[i]
      BY <2>2, <2>3, <2>4
    <3>2. i # N => job.at[i + 1] = at[i + 1]
      BY <2>3, <2>4
    <3> QED
      BY <3>1, <3>2, LoutAssumption
  <2> QED
    BY <2>5, <2>6, <2>7 DEF p, e, len
<1>4. ArgumentsInv => ArgumentsPlaced
  BY <1>3 DEF ArgumentsPlaced
<1> QED
  BY <1>1, <1>2, <1>4, PTL DEF JobSpec

(***************************************************************************)
(* Part four: the arithmetic of the ALU is that of whole numbers.          *)
(*                                                                         *)
(* The bit-serial adder adds (Chain, CarrySum); its value, C and PV are    *)
(* the exact unsigned and signed results modulo the width (AddFlags,       *)
(* SubFlags), for one limb (OneLimb) and for two with the carry between    *)
(* them (TwoLimbs); DAB corrects the digits (Corrected).                   *)
(***************************************************************************)

(* Quotient and remainder.                                                 *)
LEMMA DivFacts ==
  ASSUME NEW a \in Int, NEW d \in Nat \ {0}
  PROVE  /\ a \div d \in Int /\ a % d \in Nat /\ a % d < d
         /\ a = d * (a \div d) + (a % d)
OBVIOUS

(* Multiples of d are d apart.                                             *)
LEMMA Monotone ==
  ASSUME NEW d \in Nat \ {0}, NEW x \in Int, NEW y \in Int, x < y
  PROVE  d * x + d <= d * y
<1>1. y - x - 1 \in Nat
  OBVIOUS
<1>2. d * (y - x - 1) >= 0
  BY <1>1
<1>3. d * (y - x - 1) = d * y - d * x - d
  OBVIOUS
<1> QED
  BY <1>2, <1>3

(* Quotient and remainder are the only ones there are.                     *)
LEMMA DivUnique ==
  ASSUME NEW a \in Int, NEW d \in Nat \ {0}, NEW q \in Int, NEW r \in 0..d - 1,
         a = d * q + r
  PROVE  a \div d = q /\ a % d = r
<1> DEFINE p == a \div d
           s == a % d
<1>1. p \in Int /\ s \in Nat /\ s < d /\ a = d * p + s
  BY DivFacts
<1> HIDE DEF p, s
<1>2. ~(p < q)
  <2> SUFFICES ASSUME p < q PROVE FALSE
    OBVIOUS
  <2>1. d * p + d <= d * q
    BY <1>1, Monotone
  <2>2. d * p \in Int /\ d * q \in Int
    BY <1>1
  <2> QED
    BY <1>1, <2>1, <2>2
<1>3. ~(q < p)
  <2> SUFFICES ASSUME q < p PROVE FALSE
    OBVIOUS
  <2>1. d * q + d <= d * p
    BY <1>1, Monotone
  <2>2. d * p \in Int /\ d * q \in Int
    BY <1>1
  <2> QED
    BY <1>1, <2>1, <2>2
<1>4. p = q
  BY <1>1, <1>2, <1>3
<1> QED
  BY <1>1, <1>4 DEF p, s

(* A number below a power of two, and its next bit.                        *)
LEMMA BitSplit ==
  ASSUME NEW a \in Nat, NEW p \in Nat \ {0}
  PROVE  /\ (a \div p) % 2 \in 0..1
         /\ a % (2 * p) = (a % p) + p * ((a \div p) % 2)
<1> DEFINE q == a \div p
           r == a % p
           b == q % 2
           h == q \div 2
<1>1. q \in Int /\ r \in 0..p - 1 /\ a = p * q + r
  BY DivFacts
<1> HIDE DEF q, r
<1>2. b \in 0..1 /\ h \in Int /\ q = 2 * h + b
  BY <1>1
<1> HIDE DEF b, h
<1>3. a = (2 * p) * h + (p * b + r)
  BY <1>1, <1>2
<1>4. p * b + r \in 0..2 * p - 1
  <2>1. b = 0 \/ b = 1
    BY <1>2
  <2> QED
    BY <1>1, <2>1
<1>5. a % (2 * p) = p * b + r
  <2>1. 2 * p \in Nat \ {0} /\ a \in Int
    OBVIOUS
  <2> QED
    BY <1>2, <1>3, <1>4, <2>1, DivUnique
<1>6. p * b + r = r + p * b
  BY <1>1, <1>2
<1> QED
  BY <1>2, <1>5, <1>6 DEF q, r, b

(* The powers of two of a width.                                           *)
LEMMA Widthed ==
  ASSUME NEW w \in Widths
  PROVE  /\ Bits[w] \in Nat /\ Bits[w] > 1
         /\ \A i \in 0..Bits[w] : 2 ^ i \in Nat \ {0}
         /\ 2 ^ 0 = 1 /\ \A i \in 0..Bits[w] - 1 : 2 ^ (i + 1) = 2 * 2 ^ i
<1>1. Bits[w] \in Nat /\ Bits[w] > 1
  BY BitsAssumption
<1>2. 2 ^ 0 = 1 /\ \A i \in 0..Bits[w] - 1 : 2 ^ (i + 1) = 2 * 2 ^ i
  BY PowersOfTwo
<1> DEFINE S == {i \in 0..Bits[w] : 2 ^ i \in Nat \ {0}}
<1>3. 0 \in S
  BY <1>1, <1>2
<1>4. ASSUME NEW i \in 0..Bits[w] - 1, i \in S PROVE i + 1 \in S
  <2>1. 2 ^ (i + 1) = 2 * 2 ^ i
    BY <1>2
  <2> QED
    BY <1>1, <1>4, <2>1
<1>5. \A i \in 0..Bits[w] : i \in S
  <2> HIDE DEF S
  <2> QED
    BY <1>1, <1>3, <1>4, Induct
<1> QED
  BY <1>1, <1>2, <1>5

(* The sign bit of a width.                                                *)
Half(w) == 2 ^ (Bits[w] - 1)

(* The modulus is twice the sign bit.                                      *)
LEMMA Halves ==
  ASSUME NEW w \in Widths
  PROVE  /\ Half(w) \in Nat \ {0} /\ Mod(w) \in Nat \ {0} /\ Mod(w) = 2 * Half(w)
<1>1. Bits[w] \in Nat /\ Bits[w] - 1 \in 0..Bits[w] - 1 /\ (Bits[w] - 1) + 1 = Bits[w]
  BY Widthed
<1>2. 2 ^ ((Bits[w] - 1) + 1) = 2 * 2 ^ (Bits[w] - 1)
  BY <1>1, Widthed
<1> QED
  BY <1>1, <1>2, Widthed DEF Half, Mod

(* The carry of one bit.                                                   *)
Majority(p, q, r) == (p /\ q) \/ (q /\ r) \/ (p /\ r)

(* The bits c and sum of the adder, one after the other.                   *)
Adds(a, b, cin, w, c, sum) ==
  /\ c[0] = cin /\ sum[0] = 0
  /\ \A i \in 1..Bits[w] :
       /\ c[i] = Majority(Bit(a, i - 1), Bit(b, i - 1), c[i - 1])
       /\ sum[i] = sum[i - 1] + 2 ^ (i - 1) *
             ((Num(Bit(a, i - 1)) + Num(Bit(b, i - 1)) + Num(c[i - 1])) % 2)
  /\ carry_chain(a, b, cin, w) =
       [sum |-> sum[Bits[w]], cout |-> c[Bits[w]], cmsb |-> c[Bits[w] - 1],
        c4 |-> Bits[w] > 3 /\ c[4]]

(* The recursive functions of carry_chain exist.                           *)
LEMMA Adder ==
  ASSUME NEW w \in Widths, NEW a \in Nat, NEW b \in Nat, NEW cin \in BOOLEAN
  PROVE  \E c \in [0..Bits[w] -> BOOLEAN], sum \in [0..Bits[w] -> Nat] :
           Adds(a, b, cin, w, c, sum)
<1> DEFINE N == Bits[w]
           A(i) == Bit(a, i)
           Y(i) == Bit(b, i)
           PC(f) == f = [i \in 0..N |->
                      IF i = 0 THEN cin
                      ELSE LET p == A(i - 1) q == Y(i - 1) r == f[i - 1]
                           IN  (p /\ q) \/ (q /\ r) \/ (p /\ r)]
           c == CHOOSE f : PC(f)
           Out(i) == (Num(A(i - 1)) + Num(Y(i - 1)) + Num(c[i - 1])) % 2
           PS(f) == f = [i \in 0..N |-> IF i = 0 THEN 0 ELSE f[i - 1] + 2 ^ (i - 1) * Out(i)]
           sum == CHOOSE f : PS(f)
<1>1. N \in Nat /\ \A i \in 0..N : 2 ^ i \in Nat
  BY Widthed
<1>2. \A i : A(i) \in BOOLEAN /\ Y(i) \in BOOLEAN
  BY DEF Bit
<1> HIDE DEF N, A, Y
<1>3. PC(c)
  <2> DEFINE step == [i \in 1..N |-> [r \in BOOLEAN |-> Majority(A(i - 1), Y(i - 1), r)]]
  <2>1. step \in [1..N -> [BOOLEAN -> BOOLEAN]]
    BY <1>2, Zenon DEF Majority
  <2>2. PICK f \in [0..N -> BOOLEAN] : Iterates(f, N, cin, step)
    <3> HIDE DEF step
    <3> QED
      BY <1>1, <2>1, Iterate
  <2>3. PC(f)
    <3>1. \A i \in 1..N : f[i] = Majority(A(i - 1), Y(i - 1), f[i - 1])
      <4> SUFFICES ASSUME NEW i \in 1..N PROVE f[i] = Majority(A(i - 1), Y(i - 1), f[i - 1])
        OBVIOUS
      <4>1. f[i - 1] \in BOOLEAN
        BY <1>1, <2>2
      <4>2. f[i] = step[i][f[i - 1]]
        BY <2>2 DEF Iterates
      <4> QED
        BY <4>1, <4>2, Zenon
    <3>2. f[0] = cin
      BY <2>2 DEF Iterates
    <3>3. \A i \in 0..N : i = 0 \/ i \in 1..N
      BY <1>1
    <3>4. \A i \in 1..N : i # 0
      OBVIOUS
    <3> QED
      BY <2>2, <3>1, <3>2, <3>3, <3>4, Zenon DEF Majority
  <2> HIDE DEF PC
  <2> QED
    BY <2>3, Zenon
<1>4. /\ c[0] = cin /\ \A i \in 1..N : c[i] = Majority(A(i - 1), Y(i - 1), c[i - 1])
      /\ DOMAIN c = 0..N /\ c = [i \in 0..N |-> c[i]]
  <2> HIDE DEF c
  <2>1. 0 \in 0..N /\ \A i \in 1..N : i \in 0..N /\ i # 0
    BY <1>1
  <2> QED
    BY <1>3, <2>1, Zenon DEF Majority
<1> HIDE DEF c
<1>5. \A i \in 0..N : c[i] \in BOOLEAN
  <2> DEFINE S == {i \in 0..N : c[i] \in BOOLEAN}
  <2>1. 0 \in S
    BY <1>1, <1>4
  <2>2. ASSUME NEW i \in 0..N - 1, i \in S PROVE i + 1 \in S
    <3>1. i + 1 \in 1..N /\ (i + 1) - 1 = i
      BY <1>1
    <3>2. c[i + 1] = Majority(A(i), Y(i), c[i])
      BY <1>4, <3>1
    <3>3. c[i + 1] \in BOOLEAN
      BY <1>2, <2>2, <3>2 DEF Majority
    <3> QED
      BY <1>1, <3>3
  <2> HIDE DEF S
  <2>3. \A i \in 0..N : i \in S
    BY <1>1, <2>1, <2>2, Induct
  <2> QED
    BY <2>3 DEF S
<1>6. \A i : Out(i) \in 0..1
  <2>1. \A p : Num(p) \in 0..1
    BY DEF Num
  <2> QED
    BY <2>1
<1> HIDE DEF Out
<1>7. PS(sum)
  <2> DEFINE step == [i \in 1..N |-> [v \in Nat |-> v + 2 ^ (i - 1) * Out(i)]]
  <2>1. step \in [1..N -> [Nat -> Nat]]
    <3> SUFFICES ASSUME NEW i \in 1..N, NEW v \in Nat PROVE v + 2 ^ (i - 1) * Out(i) \in Nat
      OBVIOUS
    <3>1. 2 ^ (i - 1) \in Nat /\ Out(i) \in Nat
      BY <1>1, <1>6
    <3> QED
      BY <3>1
  <2>2. PICK f \in [0..N -> Nat] : Iterates(f, N, 0, step)
    <3> HIDE DEF step
    <3> QED
      BY <1>1, <2>1, Iterate
  <2>3. PS(f)
    <3>1. ASSUME NEW i \in 1..N PROVE f[i] = f[i - 1] + 2 ^ (i - 1) * Out(i)
      <4>1. f[i - 1] \in Nat
        BY <1>1, <2>2
      <4>2. f[i] = step[i][f[i - 1]]
        BY <2>2 DEF Iterates
      <4> QED
        BY <4>1, <4>2, Zenon
    <3>2. f[0] = 0
      BY <2>2 DEF Iterates
    <3>3. \A i \in 0..N : i = 0 \/ i \in 1..N
      BY <1>1
    <3>4. \A i \in 1..N : i # 0
      OBVIOUS
    <3> QED
      BY <2>2, <3>1, <3>2, <3>3, <3>4, Zenon
  <2> HIDE DEF PS
  <2> QED
    BY <2>3, Zenon
<1>8. /\ sum[0] = 0 /\ \A i \in 1..N : sum[i] = sum[i - 1] + 2 ^ (i - 1) * Out(i)
      /\ sum = [i \in 0..N |-> sum[i]]
  <2> HIDE DEF sum
  <2>1. 0 \in 0..N /\ \A i \in 1..N : i \in 0..N /\ i # 0
    BY <1>1
  <2> QED
    BY <1>7, <2>1, Zenon
<1>9. carry_chain(a, b, cin, w) = [sum |-> sum[N], cout |-> c[N], cmsb |-> c[N - 1],
                                   c4 |-> N > 3 /\ c[4]]
  BY Zenon DEF carry_chain, N, A, Y, Out, c, sum
<1> HIDE DEF sum
<1>10. \A i \in 0..N : sum[i] \in Nat
  <2> DEFINE S == {i \in 0..N : sum[i] \in Nat}
  <2>1. 0 \in S
    BY <1>1, <1>8
  <2>2. ASSUME NEW i \in 0..N - 1, i \in S PROVE i + 1 \in S
    <3>1. i + 1 \in 1..N /\ (i + 1) - 1 = i
      BY <1>1
    <3>2. sum[i + 1] = sum[i] + 2 ^ i * Out(i + 1)
      BY <1>8, <3>1
    <3>3. 2 ^ i \in Nat /\ Out(i + 1) \in Nat /\ sum[i] \in Nat
      BY <1>1, <1>6, <2>2
    <3> QED
      BY <1>1, <3>2, <3>3
  <2> HIDE DEF S
  <2>3. \A i \in 0..N : i \in S
    BY <1>1, <2>1, <2>2, Induct
  <2> QED
    BY <2>3 DEF S
<1>11. c \in [0..N -> BOOLEAN] /\ sum \in [0..N -> Nat]
  BY <1>4, <1>5, <1>8, <1>10
<1> QED
  BY <1>4, <1>8, <1>9, <1>11, Zenon DEF Adds, N, A, Y, Out

(* One bit of the adder.                                                   *)
LEMMA FullAdder ==
  ASSUME NEW p \in BOOLEAN, NEW q \in BOOLEAN, NEW r \in BOOLEAN
  PROVE  /\ (Num(p) + Num(q) + Num(r)) % 2 \in 0..1
         /\ Num(Majority(p, q, r)) \in 0..1
         /\ ((Num(p) + Num(q) + Num(r)) % 2) + 2 * Num(Majority(p, q, r))
              = Num(p) + Num(q) + Num(r)
BY DEF Num, Majority

(* A bit as a number.                                                      *)
LEMMA BitNum ==
  ASSUME NEW a \in Nat, NEW i, 2 ^ i \in Nat \ {0}
  PROVE  /\ Bit(a, i) \in BOOLEAN /\ Num(Bit(a, i)) \in 0..1
         /\ a % (2 * 2 ^ i) = (a % 2 ^ i) + 2 ^ i * Num(Bit(a, i))
<1> DEFINE p == 2 ^ i
<1>1. /\ (a \div p) % 2 \in 0..1
      /\ a % (2 * p) = (a % p) + p * ((a \div p) % 2)
  BY BitSplit
<1>2. Num(Bit(a, i)) = (a \div p) % 2
  <2> DEFINE b == (a \div p) % 2
  <2>1. Bit(a, i) <=> b = 1
    BY DEF Bit
  <2> HIDE DEF b
  <2> QED
    BY <1>1, <2>1 DEF Num, b
<1> QED
  BY <1>1, <1>2 DEF Bit

(* The adder adds, as a whole and in its part below any bit.               *)
LEMMA Chain ==
  ASSUME NEW w \in Widths, NEW a \in Nat, NEW b \in Nat, NEW cin \in BOOLEAN
  PROVE  \E c \in [0..Bits[w] -> BOOLEAN], sum \in [0..Bits[w] -> Nat] :
           /\ \A i \in 0..Bits[w] :
                /\ sum[i] < 2 ^ i
                /\ sum[i] + Num(c[i]) * 2 ^ i = (a % 2 ^ i) + (b % 2 ^ i) + Num(cin)
           /\ \A i \in 0..Bits[w] - 1 :
                \E d \in 0..1 : sum[i + 1] = sum[i] + 2 ^ i * d
           /\ carry_chain(a, b, cin, w) =
                [sum |-> sum[Bits[w]], cout |-> c[Bits[w]], cmsb |-> c[Bits[w] - 1],
                 c4 |-> Bits[w] > 3 /\ c[4]]
<1> DEFINE N == Bits[w]
           Out(i, k) == (Num(Bit(a, i)) + Num(Bit(b, i)) + Num(k)) % 2
<1>1. /\ N \in Nat /\ \A i \in 0..N : 2 ^ i \in Nat \ {0}
      /\ 2 ^ 0 = 1 /\ \A i \in 0..N - 1 : 2 ^ (i + 1) = 2 * 2 ^ i
  BY Widthed
<1>2. PICK c \in [0..N -> BOOLEAN], sum \in [0..N -> Nat] :
        /\ c[0] = cin /\ sum[0] = 0
        /\ \A i \in 1..N :
             /\ c[i] = Majority(Bit(a, i - 1), Bit(b, i - 1), c[i - 1])
             /\ sum[i] = sum[i - 1] + 2 ^ (i - 1) * Out(i - 1, c[i - 1])
        /\ carry_chain(a, b, cin, w) =
             [sum |-> sum[N], cout |-> c[N], cmsb |-> c[N - 1], c4 |-> N > 3 /\ c[4]]
  <2>1. PICK c \in [0..N -> BOOLEAN], sum \in [0..N -> Nat] : Adds(a, b, cin, w, c, sum)
    BY Adder
  <2> QED
    BY <2>1, Zenon DEF Adds
<1> HIDE DEF N
<1>3. ASSUME NEW i \in 0..N - 1
      PROVE  /\ c[i + 1] = Majority(Bit(a, i), Bit(b, i), c[i])
             /\ sum[i + 1] = sum[i] + 2 ^ i * Out(i, c[i])
             /\ Out(i, c[i]) \in 0..1 /\ c[i] \in BOOLEAN /\ sum[i] \in Nat
             /\ Out(i, c[i]) + 2 * Num(c[i + 1])
                  = Num(Bit(a, i)) + Num(Bit(b, i)) + Num(c[i])
  <2>1. i + 1 \in 1..N /\ (i + 1) - 1 = i /\ i \in 0..N
    BY <1>1
  <2>2. /\ c[i + 1] = Majority(Bit(a, i), Bit(b, i), c[i])
        /\ sum[i + 1] = sum[i] + 2 ^ i * Out(i, c[i])
    BY <1>2, <2>1
  <2>3. Bit(a, i) \in BOOLEAN /\ Bit(b, i) \in BOOLEAN /\ c[i] \in BOOLEAN
    BY <1>2, <2>1 DEF Bit
  <2>4. /\ Out(i, c[i]) \in 0..1
        /\ Out(i, c[i]) + 2 * Num(Majority(Bit(a, i), Bit(b, i), c[i]))
                  = Num(Bit(a, i)) + Num(Bit(b, i)) + Num(c[i])
    BY <2>3, FullAdder
  <2> QED
    BY <1>2, <2>1, <2>2, <2>3, <2>4
<1> HIDE DEF Out
<1> DEFINE Sum(i) == /\ sum[i] < 2 ^ i
                     /\ sum[i] + Num(c[i]) * 2 ^ i = (a % 2 ^ i) + (b % 2 ^ i) + Num(cin)
           S == {i \in 0..N : Sum(i)}
<1>4. 0 \in S
  <2>1. a % 1 = 0 /\ b % 1 = 0 /\ Num(cin) \in 0..1
    BY DEF Num
  <2> QED
    BY <1>1, <1>2, <2>1
<1>5. ASSUME NEW i \in 0..N - 1, i \in S PROVE i + 1 \in S
  <2> DEFINE p == 2 ^ i
             x == a % p
             y == b % p
             u == Num(Bit(a, i))
             v == Num(Bit(b, i))
             d == Out(i, c[i])
             e == Num(c[i + 1])
             k == Num(c[i])
  <2>1. p \in Nat \ {0} /\ 2 ^ (i + 1) = 2 * p /\ i \in 0..N
    BY <1>1
  <2>2. /\ u \in 0..1 /\ a % (2 * p) = x + p * u
        /\ v \in 0..1 /\ b % (2 * p) = y + p * v
    BY <2>1, BitNum
  <2>3. k \in 0..1 /\ e \in 0..1 /\ Num(cin) \in Nat
    BY DEF Num
  <2>4. /\ sum[i] \in Nat /\ d \in 0..1 /\ d + 2 * e = u + v + k
        /\ sum[i + 1] = sum[i] + p * d
    BY <1>3
  <2>5. sum[i] < p /\ sum[i] + k * p = x + y + Num(cin)
    BY <1>5
  <2>6. x \in Nat /\ y \in Nat
    BY <2>1, DivFacts
  <2> HIDE DEF p, x, y, u, v, d, e, k
  <2>7. (sum[i] + p * d) + e * (2 * p) = (x + p * u) + (y + p * v) + Num(cin)
    <3> DEFINE s == sum[i]
    <3>1. s \in Nat /\ s + k * p = x + y + Num(cin)
      BY <2>4, <2>5
    <3> HIDE DEF s
    <3>2. p * (d + 2 * e) = p * (u + v + k)
      BY <2>4
    <3>3. p * d + e * (2 * p) = p * u + p * v + k * p
      BY <2>1, <2>2, <2>3, <2>4, <3>2
    <3>4. p * d \in Nat /\ e * (2 * p) \in Nat /\ p * u \in Nat /\ p * v \in Nat /\ k * p \in Nat
      BY <2>1, <2>2, <2>3, <2>4
    <3>5. (s + p * d) + e * (2 * p) = (x + p * u) + (y + p * v) + Num(cin)
      <4> DEFINE pd == p * d
                 ep == e * (2 * p)
                 pu == p * u
                 pv == p * v
                 kp == k * p
                 z == Num(cin)
      <4>1. pd + ep = pu + pv + kp /\ s + kp = x + y + z
        BY <3>1, <3>3
      <4>2. pd \in Nat /\ ep \in Nat /\ pu \in Nat /\ pv \in Nat /\ kp \in Nat /\ z \in Nat
        BY <2>3, <3>4
      <4> HIDE DEF pd, ep, pu, pv, kp, z
      <4>3. (s + pd) + ep = (x + pu) + (y + pv) + z
        BY <2>6, <3>1, <4>1, <4>2
      <4> QED
        BY <4>3 DEF pd, ep, pu, pv, z
    <3> QED
      BY <3>5 DEF s
  <2>8. sum[i] + p * d < 2 * p
    <3>1. d = 0 \/ d = 1
      BY <2>4
    <3> QED
      BY <2>1, <2>4, <2>5, <3>1
  <2>9. sum[i + 1] < 2 ^ (i + 1)
    BY <2>1, <2>4, <2>8
  <2>10. sum[i + 1] + Num(c[i + 1]) * 2 ^ (i + 1)
           = (a % 2 ^ (i + 1)) + (b % 2 ^ (i + 1)) + Num(cin)
    BY <2>1, <2>2, <2>4, <2>7 DEF e
  <2> QED
    BY <1>1, <2>9, <2>10
<1>6. \A i \in 0..N : i \in S
  <2> HIDE DEF S
  <2> QED
    BY <1>1, <1>4, <1>5, Induct
<1>7. \A i \in 0..N : Sum(i)
  BY <1>6
<1>8. \A i \in 0..N - 1 : \E d \in 0..1 : sum[i + 1] = sum[i] + 2 ^ i * d
  BY <1>3
<1> QED
  BY <1>2, <1>7, <1>8 DEF N

(* The top bit of a value.                                                 *)
LEMMA TopBit ==
  ASSUME NEW w \in Widths, NEW v \in Nat, v < Mod(w)
  PROVE  /\ Bit(v, Bits[w] - 1) <=> v >= Half(w)
         /\ v % Half(w) = IF v >= Half(w) THEN v - Half(w) ELSE v
         /\ Signed(v, w) = IF v >= Half(w) THEN v - 2 * Half(w) ELSE v
<1> DEFINE h == Half(w)
           q == IF v >= h THEN 1 ELSE 0
           r == IF v >= h THEN v - h ELSE v
<1>1. h \in Nat \ {0} /\ Mod(w) = 2 * h
  BY Halves
<1> HIDE DEF h
<1>2. q \in Int /\ r \in 0..h - 1 /\ v = h * q + r /\ v \in Int
  BY <1>1
<1> HIDE DEF r, q
<1>3. v \div h = q /\ v % h = r
  BY <1>1, <1>2, DivUnique
<1>4. Bit(v, Bits[w] - 1) <=> v >= h
  <2>1. q % 2 = 1 <=> v >= h
    BY <1>1 DEF q
  <2> QED
    BY <1>3, <2>1 DEF Bit, h, Half
<1> QED
  BY <1>1, <1>3, <1>4 DEF Signed, h, r

(* The chain with its parts named: the carries c and the sums below them.  *)
Chained(w, a, b, cin) ==
  \E c \in [0..Bits[w] -> BOOLEAN], sum \in [0..Bits[w] -> Nat] :
     /\ \A i \in 0..Bits[w] :
          /\ sum[i] < 2 ^ i
          /\ sum[i] + Num(c[i]) * 2 ^ i = (a % 2 ^ i) + (b % 2 ^ i) + Num(cin)
     /\ \A i \in 0..Bits[w] - 1 :
          \E d \in 0..1 : sum[i + 1] = sum[i] + 2 ^ i * d
     /\ carry_chain(a, b, cin, w) =
          [sum |-> sum[Bits[w]], cout |-> c[Bits[w]], cmsb |-> c[Bits[w] - 1],
           c4 |-> Bits[w] > 3 /\ c[4]]

(* Chain, under its name.                                                  *)
LEMMA ChainHolds ==
  ASSUME NEW w \in Widths, NEW a \in Nat, NEW b \in Nat, NEW cin \in BOOLEAN
  PROVE  Chained(w, a, b, cin)
<1>1. Chained(w, a, b, cin)
  BY Chain, ZenonT(30) DEF Chained
<1> QED
  BY <1>1

(* What CarrySum says of the chain k.                                      *)
ChainAdds(k, w, a, b, cin) ==
  /\ k.sum \in Nat /\ k.sum < Mod(w)
  /\ k.cout \in BOOLEAN /\ k.cmsb \in BOOLEAN
  /\ k.sum + Num(k.cout) * Mod(w) = a + b + Num(cin)
  /\ Signed(k.sum, w) + (Num(k.cmsb) - Num(k.cout)) * Mod(w)
       = Signed(a, w) + Signed(b, w) + Num(cin)

(* Sum, carry and signed overflow of the adder.                            *)
LEMMA CarrySum ==
  ASSUME NEW w \in Widths, NEW a \in Nat, a < Mod(w), NEW b \in Nat, b < Mod(w),
         NEW cin \in BOOLEAN
  PROVE  ChainAdds(carry_chain(a, b, cin, w), w, a, b, cin)
<1> DEFINE N == Bits[w]
           h == Half(w)
           k == carry_chain(a, b, cin, w)
<1>1. PICK c \in [0..N -> BOOLEAN], sum \in [0..N -> Nat] :
        /\ \A i \in 0..N :
             /\ sum[i] < 2 ^ i
             /\ sum[i] + Num(c[i]) * 2 ^ i = (a % 2 ^ i) + (b % 2 ^ i) + Num(cin)
        /\ \A i \in 0..N - 1 :
             \E d \in 0..1 : sum[i + 1] = sum[i] + 2 ^ i * d
        /\ k = [sum |-> sum[N], cout |-> c[N], cmsb |-> c[N - 1], c4 |-> N > 3 /\ c[4]]
  BY Chain, ZenonT(30)
<1>2. N \in Nat /\ N - 1 \in 0..N - 1 /\ N - 1 \in 0..N /\ N \in 0..N /\ (N - 1) + 1 = N
  <2>1. N \in Nat /\ N > 1
    BY Widthed
  <2> HIDE DEF N
  <2> QED
    BY <2>1
<1>3. h \in Nat \ {0} /\ Mod(w) = 2 * h /\ 2 ^ (N - 1) = h /\ 2 ^ N = 2 * h
  BY Halves DEF Half, Mod
<1> DEFINE s == sum[N]
           t == sum[N - 1]
           co == Num(c[N])
           cm == Num(c[N - 1])
           z == Num(cin)
<1>4. s \in Nat /\ t \in Nat /\ co \in 0..1 /\ cm \in 0..1 /\ z \in 0..1
  BY <1>1, <1>2 DEF Num
<1>5. /\ s < 2 * h /\ s + co * (2 * h) = (a % (2 * h)) + (b % (2 * h)) + z
      /\ t < h /\ t + cm * h = (a % h) + (b % h) + z
  BY <1>1, <1>2, <1>3
<1>6. PICK d \in 0..1 : s = t + h * d
  <2>1. \E d \in 0..1 : sum[(N - 1) + 1] = sum[N - 1] + 2 ^ (N - 1) * d
    BY <1>1, <1>2
  <2> QED
    BY <1>2, <1>3, <2>1
<1>r. k.sum = sum[N] /\ k.cout = c[N] /\ k.cmsb = c[N - 1]
  <2>1. k = [sum |-> sum[N], cout |-> c[N], cmsb |-> c[N - 1], c4 |-> N > 3 /\ c[4]]
    BY <1>1, Zenon
  <2> HIDE DEF k, N
  <2> QED
    BY <2>1
<1>b. k.cout \in BOOLEAN /\ k.cmsb \in BOOLEAN
  <2>1. c[N] \in BOOLEAN /\ c[N - 1] \in BOOLEAN
    <3>1. c \in [0..N -> BOOLEAN]
      BY <1>1, Zenon
    <3> HIDE DEF N
    <3> QED
      BY <1>2, <3>1
  <2> QED
    BY <1>r, <2>1, Zenon
<1>7. k.sum = s /\ Num(k.cout) = co /\ Num(k.cmsb) = cm
  BY <1>r, Zenon
<1> HIDE DEF N, k, s, t, co, cm, z
<1>8. a % (2 * h) = a /\ b % (2 * h) = b
  <2> DEFINE p == 2 * h
  <2>1. p \in Nat \ {0} /\ a \in Nat /\ b \in Nat /\ a < p /\ b < p
    BY <1>3
  <2> HIDE DEF p
  <2>2. a % p = a /\ b % p = b
    BY <2>1
  <2> QED
    BY <2>2 DEF p
<1>9. /\ a % h = IF a >= h THEN a - h ELSE a
      /\ Signed(a, w) = IF a >= h THEN a - 2 * h ELSE a
      /\ b % h = IF b >= h THEN b - h ELSE b
      /\ Signed(b, w) = IF b >= h THEN b - 2 * h ELSE b
  BY TopBit
<1>10. Signed(s, w) = IF s >= h THEN s - 2 * h ELSE s
  BY <1>3, <1>4, <1>5, TopBit
<1> HIDE DEF h
<1>11. t < h /\ s = IF d = 1 THEN t + h ELSE t
  <2>1. d = 0 \/ d = 1
    OBVIOUS
  <2>2. t < h
    BY <1>5
  <2> QED
    BY <1>3, <1>4, <1>6, <2>1, <2>2
<1>12. s + co * (2 * h) = a + b + z
  BY <1>5, <1>8
<1>13. Signed(s, w) + (cm - co) * (2 * h) = Signed(a, w) + Signed(b, w) + z
  <2> DEFINE low(v) == IF v >= h THEN v - h ELSE v
             sig(v) == IF v >= h THEN v - 2 * h ELSE v
             coh == IF co = 1 THEN h ELSE 0
             cmh == IF cm = 1 THEN h ELSE 0
  <2>1. co * (2 * h) = 2 * coh /\ cm * h = cmh /\ (cm - co) * (2 * h) = 2 * cmh - 2 * coh
    <3>1. (co = 0 \/ co = 1) /\ (cm = 0 \/ cm = 1)
      BY <1>4
    <3> QED
      BY <1>3, <3>1
  <2>2. t + cmh = low(a) + low(b) + z
    BY <1>5, <1>9, <2>1
  <2>3. s + 2 * coh = a + b + z
    BY <1>12, <2>1
  <2>4. cmh \in {0, h} /\ coh \in {0, h}
    OBVIOUS
  <2> HIDE DEF coh, cmh
  <2>5. sig(s) + 2 * cmh - 2 * coh = sig(a) + sig(b) + z
    BY <1>3, <1>4, <1>11, <2>2, <2>3, <2>4
  <2>6. sig(s) \in Int /\ sig(a) \in Int /\ sig(b) \in Int /\ cmh \in Int /\ coh \in Int
    BY <1>3, <1>4, <2>4
  <2> QED
    BY <1>4, <1>9, <1>10, <2>1, <2>5, <2>6
<1> QED
  <2>1. k.sum \in Nat /\ k.sum < Mod(w)
    BY <1>3, <1>4, <1>5, <1>7
  <2>2. k.sum + Num(k.cout) * Mod(w) = a + b + Num(cin)
    BY <1>3, <1>7, <1>12 DEF z
  <2>3. Signed(k.sum, w) + (Num(k.cmsb) - Num(k.cout)) * Mod(w)
          = Signed(a, w) + Signed(b, w) + Num(cin)
    BY <1>3, <1>7, <1>13 DEF z
  <2> QED
    BY <1>b, <2>1, <2>2, <2>3, Zenon DEF k, ChainAdds

(* What a sum or difference v leaves in value and flags: e is 0, or how it *)
(* left the signed range.                                                  *)
Outcome(w, v, f, e, exact) ==
  /\ v \in Nat /\ v < Mod(w) /\ e \in -1..1
  /\ Signed(v, w) + e * Mod(w) = exact
  /\ "PV" \in f <=> e # 0
  /\ "Z" \in f <=> v = 0
  /\ "S" \in f <=> v >= Half(w)

(* What do_add returns, as whole numbers.                                  *)
LEMMA AddFlags ==
  ASSUME NEW w \in Widths, NEW a \in Nat, a < Mod(w), NEW b \in Nat, b < Mod(w),
         NEW carry \in BOOLEAN, NEW old
  PROVE  LET r == do_add(a, b, carry, w)
             f == apply_flags(old, r)
         IN  /\ r.value + (IF "C" \in f THEN Mod(w) ELSE 0) = a + b + Num(carry)
             /\ \E e : Outcome(w, r.value, f, e, Signed(a, w) + Signed(b, w) + Num(carry))
<1> DEFINE k == carry_chain(a, b, carry, w)
           r == do_add(a, b, carry, w)
           f == apply_flags(old, r)
           e == Num(k.cmsb) - Num(k.cout)
<1>1. /\ k.sum \in Nat /\ k.sum < Mod(w)
      /\ k.sum + Num(k.cout) * Mod(w) = a + b + Num(carry)
      /\ Signed(k.sum, w) + e * Mod(w) = Signed(a, w) + Signed(b, w) + Num(carry)
      /\ k.cout \in BOOLEAN /\ k.cmsb \in BOOLEAN
  <2>1. ChainAdds(k, w, a, b, carry)
    BY CarrySum
  <2> QED
    BY <2>1, Zenon DEF ChainAdds
<1>2. /\ r.value = k.sum
      /\ "C" \in f <=> k.cout
      /\ "PV" \in f <=> k.cout # k.cmsb
      /\ "Z" \in f <=> k.sum = 0
      /\ "S" \in f <=> Bit(k.sum, Bits[w] - 1)
  <2> HIDE DEF k
  <2> QED
    BY DEF do_add, apply_flags, Result, ZS, When, AddMask, CZSV, k
<1> HIDE DEF k, r, f
<1>3. Bit(k.sum, Bits[w] - 1) <=> k.sum >= Half(w)
  BY <1>1, TopBit
<1>4. e \in -1..1 /\ (e # 0 <=> k.cout # k.cmsb)
  BY <1>1 DEF Num
<1>5. Num(k.cout) * Mod(w) = IF "C" \in f THEN Mod(w) ELSE 0
  BY <1>2, Halves DEF Num
<1> HIDE DEF e
<1>6. Outcome(w, r.value, f, e, Signed(a, w) + Signed(b, w) + Num(carry))
  BY <1>1, <1>2, <1>3, <1>4 DEF Outcome
<1> QED
  BY <1>1, <1>2, <1>5, <1>6 DEF r, f

(* What do_sub returns, as whole numbers.                                  *)
LEMMA SubFlags ==
  ASSUME NEW w \in Widths, NEW a \in Nat, a < Mod(w), NEW b \in Nat, b < Mod(w),
         NEW borrow \in BOOLEAN, NEW old
  PROVE  LET r == do_sub(a, b, borrow, w)
             f == apply_flags(old, r)
         IN  /\ r.value - (IF "C" \in f THEN Mod(w) ELSE 0) = a - b - Num(borrow)
             /\ \E e : Outcome(w, r.value, f, e, Signed(a, w) - Signed(b, w) - Num(borrow))
<1> DEFINE m == Mod(w)
           u == m - 1 - b
           k == carry_chain(a, u, ~borrow, w)
           r == do_sub(a, b, borrow, w)
           f == apply_flags(old, r)
           e == Num(k.cmsb) - Num(k.cout)
<1>1. m \in Nat \ {0} /\ u \in Nat /\ u < m
  BY Halves
<1>2. Signed(u, w) = -1 - Signed(b, w) /\ Signed(a, w) \in Int /\ Signed(b, w) \in Int
  <2>1. /\ Signed(u, w) = IF u >= Half(w) THEN u - 2 * Half(w) ELSE u
        /\ Signed(b, w) = IF b >= Half(w) THEN b - 2 * Half(w) ELSE b
        /\ Signed(a, w) = IF a >= Half(w) THEN a - 2 * Half(w) ELSE a
    <3> HIDE DEF u
    <3> QED
      BY <1>1, TopBit
  <2> QED
    BY <1>1, <2>1, Halves
<1>3. Num(~borrow) = 1 - Num(borrow) /\ Num(borrow) \in 0..1
  BY DEF Num
<1> HIDE DEF u
<1>c. ChainAdds(k, w, a, u, ~borrow)
  <2> DEFINE nb == ~borrow
  <2>1. nb \in BOOLEAN /\ u < Mod(w)
    BY <1>1
  <2> HIDE DEF nb, m
  <2>2. ChainAdds(carry_chain(a, u, nb, w), w, a, u, nb)
    BY <1>1, <2>1, CarrySum
  <2> QED
    BY <2>2, Zenon DEF nb
<1>4. /\ k.sum \in Nat /\ k.sum < m
      /\ k.sum + Num(k.cout) * m = a + u + Num(~borrow)
      /\ Signed(k.sum, w) + e * m = Signed(a, w) + Signed(u, w) + Num(~borrow)
  BY <1>c, Zenon DEF ChainAdds
<1>5. k.cout \in BOOLEAN /\ k.cmsb \in BOOLEAN
  BY <1>c, Zenon DEF ChainAdds
<1>6. k = Complement(a, b, borrow, w)
  BY DEF Complement, u
<1>7. /\ r.value = k.sum
      /\ "C" \in f <=> ~k.cout
      /\ "PV" \in f <=> k.cout # k.cmsb
      /\ "Z" \in f <=> k.sum = 0
      /\ "S" \in f <=> Bit(k.sum, Bits[w] - 1)
  <2> HIDE DEF k
  <2> QED
    BY <1>6 DEF do_sub, apply_flags, Result, ZS, When, AddMask, CZSV
<1> HIDE DEF k, r, f
<1>8. Bit(k.sum, Bits[w] - 1) <=> k.sum >= Half(w)
  BY <1>4, TopBit
<1>9. e \in -1..1 /\ (e # 0 <=> k.cout # k.cmsb)
  BY <1>5 DEF Num
<1>10. r.value - (IF "C" \in f THEN m ELSE 0) = a - b - Num(borrow)
  <2>1. Num(k.cout) * m = IF "C" \in f THEN 0 ELSE m
    BY <1>1, <1>7 DEF Num
  <2>2. u = m - 1 - b
    BY DEF u
  <2> HIDE DEF m
  <2> QED
    BY <1>1, <1>3, <1>4, <1>7, <2>1, <2>2
<1> HIDE DEF e
<1>11. Signed(k.sum, w) + e * m = Signed(a, w) - Signed(b, w) - Num(borrow)
  <2> HIDE DEF m
  <2> QED
    BY <1>2, <1>3, <1>4
<1>12. Outcome(w, r.value, f, e, Signed(a, w) - Signed(b, w) - Num(borrow))
  BY <1>4, <1>7, <1>8, <1>9, <1>11 DEF Outcome
<1> QED
  BY <1>10, <1>12 DEF r, f

(* One turn around the modulus at most.                                    *)
LEMMA Around ==
  ASSUME NEW m \in Nat \ {0}, NEW z \in Int, z >= -m, z < 2 * m
  PROVE  z % m = IF z < 0 THEN z + m ELSE IF z < m THEN z ELSE z - m
<1> DEFINE q == IF z < 0 THEN -1 ELSE IF z < m THEN 0 ELSE 1
           s == IF z < 0 THEN z + m ELSE IF z < m THEN z ELSE z - m
<1>1. q \in Int /\ s \in 0..m - 1 /\ z = m * q + s
  OBVIOUS
<1> HIDE DEF q, s
<1>2. z % m = s
  BY <1>1, DivUnique
<1> QED
  BY <1>2 DEF s

(* NEG, INC and DEC: the result is exact, modulo the width, and PV tells   *)
(* whether it left the signed range.                                       *)
Settled(w, v, f, exact) ==
  /\ v = exact % Mod(w)
  /\ "PV" \in f <=> exact # Signed(v, w)
  /\ "Z" \in f <=> v = 0

(* How the three instructions settle.                                      *)
LEMMA SingleFlags ==
  ASSUME NEW w \in Widths, NEW a \in Nat, a < Mod(w), NEW b \in Nat, b < Half(w),
         NEW op \in {"NEG", "INC", "DEC"}, NEW carry, NEW old
  PROVE  LET r == alu_exec(op, a, b, carry, w)
             f == apply_flags(old, r)
         IN  /\ op = "NEG" => Settled(w, r.value, f, -Signed(a, w))
             /\ op = "INC" => Settled(w, r.value, f, Signed(a, w) + b)
             /\ op = "DEC" => Settled(w, r.value, f, Signed(a, w) - b)
<1> DEFINE h == Half(w)
           m == Mod(w)
           r == alu_exec(op, a, b, carry, w)
           f == apply_flags(old, r)
           x == Signed(a, w)
<1>1. h \in Nat \ {0} /\ m = 2 * h
  BY Halves
<1>2. /\ Bit(a, Bits[w] - 1) <=> a >= h
      /\ x = IF a >= h THEN a - m ELSE a
      /\ ~Bit(b, Bits[w] - 1)
  BY <1>1, TopBit
<1>0. a < m /\ b < h /\ m \in Nat \ {0}
  BY <1>1
<1> HIDE DEF h, m, x
<1>3. ASSUME NEW v \in Nat, v < m
      PROVE  /\ Bit(v, Bits[w] - 1) <=> v >= h
             /\ Signed(v, w) = IF v >= h THEN v - m ELSE v
  BY <1>1, <1>3, TopBit DEF h, m
<1> HIDE DEF r, f
<1>8. \A v, i : Bit(v, i) \in BOOLEAN
  BY DEF Bit
<1>5. CASE op = "NEG"
  <2>1. r = do_neg(a, w)
    BY <1>5 DEF alu_exec, r
  <2>2. r.value = (m - a) % m /\ (m - a) % m = IF a = 0 THEN 0 ELSE m - a
    <3>1. (m - a) % m = IF a = 0 THEN 0 ELSE m - a
      <4>1. m - a \in Int /\ m - a >= -m /\ m - a < 2 * m
        BY <1>0
      <4>2. (m - a) % m = IF m - a < 0 THEN m - a + m ELSE IF m - a < m THEN m - a ELSE m - a - m
        BY <1>0, <4>1, Around, Zenon
      <4> QED
        BY <1>0, <4>2
    <3> QED
      BY <2>1, <3>1 DEF do_neg, Result, m
  <2>3. ("PV" \in f <=> a = m \div 2) /\ ("Z" \in f <=> r.value = 0)
    <3>1. ("Z" \in f <=> (m - a) % m = 0) /\ ("PV" \in f <=> a = m \div 2)
      <4> DEFINE v == (Mod(w) - a) % Mod(w)
      <4> HIDE DEF v
      <4>1. do_neg(a, w) = Result(v, ZS(v, w) \cup When(a # 0, "C")
                                       \cup When(a = Mod(w) \div 2, "PV"), CZSV)
        BY DEF do_neg, v
      <4>2. ("Z" \in f <=> v = 0) /\ ("PV" \in f <=> a = Mod(w) \div 2)
        BY <2>1, <4>1 DEF f, apply_flags, Result, ZS, When, CZSV
      <4> QED
        BY <4>2 DEF v, m
    <3> QED
      BY <2>2, <3>1
  <2>4. (-x) % m = (IF a = 0 THEN 0 ELSE m - a)
    <3>1. -x \in Int /\ -x >= -m /\ -x < 2 * m
      BY <1>0, <1>1, <1>2
    <3>2. (-x) % m = IF -x < 0 THEN -x + m ELSE IF -x < m THEN -x ELSE -x - m
      BY <1>0, <3>1, Around, Zenon
    <3> QED
      BY <1>0, <1>1, <1>2, <3>2
  <2>5. a = m \div 2 <=> -x # Signed(r.value, w)
    BY <1>0, <1>1, <1>2, <1>3, <2>2
  <2>6. Settled(w, r.value, f, -x)
    <3>1. r.value = (-x) % m
      BY <2>2, <2>4
    <3> QED
      BY <2>2, <2>3, <2>5, <3>1 DEF Settled, m
  <2> QED
    BY <1>5, <2>6 DEF x, r, f
<1>6. CASE op = "INC"
  <2> DEFINE v == (a + b) % m
  <2>1. v = IF a + b < m THEN a + b ELSE a + b - m
    <3>1. a + b \in Int /\ a + b >= -m /\ a + b < 2 * m
      BY <1>0, <1>1
    <3> HIDE DEF v
    <3> DEFINE z == a + b
    <3>2. z \in Int /\ z >= -m /\ z < 2 * m
      BY <3>1
    <3> HIDE DEF z
    <3>3. z % m = IF z < 0 THEN z + m ELSE IF z < m THEN z ELSE z - m
      BY <1>0, <3>2, Around
    <3> QED
      BY <1>0, <3>1, <3>3 DEF v, z
  <2>2. v \in Nat /\ v < m
    BY <1>0, <1>1, <2>1
  <2>3. (x + b) % m = v
    <3>1. x + b \in Int /\ x + b >= -m /\ x + b < 2 * m
      BY <1>0, <1>1, <1>2
    <3> DEFINE z == x + b
    <3>2. z \in Int /\ z >= -m /\ z < 2 * m
      BY <3>1
    <3> HIDE DEF z
    <3>3. z % m = IF z < 0 THEN z + m ELSE IF z < m THEN z ELSE z - m
      BY <1>0, <3>2, Around
    <3> HIDE DEF v
    <3> QED
      BY <1>0, <1>1, <1>2, <2>1, <3>1, <3>3 DEF z
  <2> HIDE DEF v
  <2>4. r = Result(v, ZS(v, w) \cup When(~SignsDiffer(a, b, w) /\ SignsDiffer(a, v, w), "PV"),
                   {"Z", "S", "PV"})
    BY <1>6 DEF r, alu_exec, do_inc, v, m
  <2>5. /\ r.value = v /\ ("Z" \in f <=> v = 0)
        /\ "PV" \in f <=> ~SignsDiffer(a, b, w) /\ SignsDiffer(a, v, w)
    <3> QED
      BY <2>4 DEF f, apply_flags, Result, ZS, When
  <2>6. (~SignsDiffer(a, b, w) /\ SignsDiffer(a, v, w)) <=> x + b # Signed(v, w)
    <3>1. /\ Bit(v, Bits[w] - 1) <=> v >= h
          /\ Signed(v, w) = IF v >= h THEN v - m ELSE v
      BY <1>3, <2>2
    <3>2. (~SignsDiffer(a, b, w) /\ SignsDiffer(a, v, w)) <=> ~(a >= h) /\ v >= h
      BY <1>2, <1>8, <3>1 DEF SignsDiffer
    <3> QED
      BY <1>0, <1>1, <1>2, <2>1, <3>1, <3>2
  <2>7. Settled(w, r.value, f, x + b)
    BY <2>3, <2>5, <2>6 DEF Settled, m
  <2> QED
    BY <1>6, <2>7 DEF x, r, f
<1>7. CASE op = "DEC"
  <2> DEFINE v == (a - b) % m
  <2>1. v = IF a < b THEN a - b + m ELSE a - b
    <3>1. a - b \in Int /\ a - b >= -m /\ a - b < 2 * m
      BY <1>0, <1>1
    <3>2. (a - b) % m = IF a - b < 0 THEN a - b + m ELSE IF a - b < m THEN a - b ELSE a - b - m
      BY <1>0, <3>1, Around, Zenon
    <3> QED
      BY <1>0, <3>2
  <2>2. v \in Nat /\ v < m
    BY <1>0, <1>1, <2>1
  <2>3. (x - b) % m = v
    <3>1. x - b \in Int /\ x - b >= -m /\ x - b < 2 * m
      BY <1>0, <1>1, <1>2
    <3>2. (x - b) % m = IF x - b < 0 THEN x - b + m ELSE IF x - b < m THEN x - b ELSE x - b - m
      BY <1>0, <3>1, Around, Zenon
    <3> HIDE DEF v
    <3> QED
      BY <1>0, <1>1, <1>2, <2>1, <3>2
  <2> HIDE DEF v
  <2>4. r = Result(v, ZS(v, w) \cup When(SignsDiffer(a, b, w) /\ SignsDiffer(a, v, w), "PV"),
                   {"Z", "S", "PV"})
    BY <1>7 DEF r, alu_exec, do_dec, v, m
  <2>5. /\ r.value = v /\ ("Z" \in f <=> v = 0)
        /\ "PV" \in f <=> SignsDiffer(a, b, w) /\ SignsDiffer(a, v, w)
    <3> QED
      BY <2>4 DEF f, apply_flags, Result, ZS, When
  <2>6. (SignsDiffer(a, b, w) /\ SignsDiffer(a, v, w)) <=> x - b # Signed(v, w)
    <3>1. /\ Bit(v, Bits[w] - 1) <=> v >= h
          /\ Signed(v, w) = IF v >= h THEN v - m ELSE v
      BY <1>3, <2>2
    <3>2. (SignsDiffer(a, b, w) /\ SignsDiffer(a, v, w)) <=> a >= h /\ ~(v >= h)
      BY <1>2, <1>8, <3>1 DEF SignsDiffer
    <3> QED
      BY <1>0, <1>1, <1>2, <2>1, <3>1, <3>2
  <2>7. Settled(w, r.value, f, x - b)
    BY <2>3, <2>5, <2>6 DEF Settled, m
  <2> QED
    BY <1>7, <2>7 DEF x, r, f
<1> QED
  BY <1>5, <1>6, <1>7

(* Two limbs as one number, unsigned and signed.                           *)
LEMMA LongParts ==
  ASSUME NEW lo \in Nat, lo < Mod("word"), NEW hi \in Nat, hi < Mod("word")
  PROVE  LET v == Long2(<<lo, hi>>)
         IN  /\ v = lo + hi * Mod("word") /\ v \in Nat /\ v < Square
             /\ v = 0 <=> lo = 0 /\ hi = 0
             /\ Signed2(v) = lo + Signed(hi, "word") * Mod("word")
             /\ Signed2(v) \in Int
             /\ -(Square \div 2) <= Signed2(v) /\ Signed2(v) < Square \div 2
             /\ Signed2(v) < 0 <=> hi >= Half("word")
<1> DEFINE h == Half("word")
           m == Mod("word")
           v == Long2(<<lo, hi>>)
           P == hi * m
           M == m * m
           G == h * m
<1>1. h \in Nat \ {0} /\ m \in Nat \ {0} /\ m = 2 * h
  BY Halves DEF Widths
<1>2. Signed(hi, "word") = IF hi >= h THEN hi - m ELSE hi
  BY <1>1, TopBit DEF Widths
<1>3. v = lo + P /\ Square = M
  BY DEF Long2, Square
<1> HIDE DEF h, m, v
<1>0. lo < m /\ hi < m
  BY DEF m
<1>4. P \in Nat /\ M \in Nat /\ G \in Nat /\ M = 2 * G /\ G >= m
  <2>1. P \in Nat /\ M \in Nat /\ G \in Nat
    BY <1>1
  <2>2. m * m = 2 * (h * m)
    BY <1>1
  <2>3. h * m >= m
    BY <1>1
  <2> QED
    BY <2>1, <2>2, <2>3
<1>5. P + m <= M /\ P \in Nat
  <2>1. m * hi + m <= m * m
    BY <1>0, <1>1, Monotone
  <2>2. m * hi = hi * m
    BY <1>1
  <2> QED
    BY <1>4, <2>1, <2>2
<1>6. IF hi >= h THEN P >= G ELSE P + m <= G
  <2>1. m * hi = hi * m /\ m * h = h * m
    BY <1>1
  <2>2. CASE hi < h
    <3>1. m * hi + m <= m * h
      BY <1>1, <2>2, Monotone
    <3> QED
      BY <1>1, <2>1, <2>2, <3>1
  <2>3. CASE hi > h
    <3>1. m * h + m <= m * hi
      BY <1>1, <2>3, Monotone
    <3>2. m * h \in Nat /\ m * hi \in Nat
      BY <1>1
    <3>3. m * hi >= m * h
      <4> DEFINE mh == m * h
                 mi == m * hi
      <4>1. mh + m <= mi /\ mh \in Nat /\ mi \in Nat
        BY <3>1, <3>2
      <4> HIDE DEF mh, mi
      <4>2. mi >= mh
        BY <1>1, <4>1
      <4> QED
        BY <4>2 DEF mh, mi
    <3> QED
      BY <1>1, <2>1, <2>3, <3>3
  <2>4. CASE hi = h
    BY <1>1, <2>4
  <2> QED
    BY <1>1, <2>2, <2>3, <2>4
<1>7. Signed(hi, "word") * m = IF hi >= h THEN P - M ELSE P
  <2>1. (hi - m) * m = hi * m - m * m
    BY <1>1
  <2> QED
    BY <1>2, <2>1
<1>8. P = 0 <=> hi = 0
  BY <1>1
<1> HIDE DEF P, M, G
<1>9. M \div 2 = G
  BY <1>4
<1>10. v \in Nat /\ v < M /\ (v >= G <=> hi >= h) /\ (v = 0 <=> lo = 0 /\ hi = 0)
  BY <1>0, <1>1, <1>3, <1>4, <1>5, <1>6, <1>8
<1>11. Signed2(v) = IF v >= G THEN v - M ELSE v
  BY <1>3, <1>9 DEF Signed2
<1>12. /\ Signed2(v) = lo + Signed(hi, "word") * m
       /\ Signed2(v) \in Int /\ -G <= Signed2(v) /\ Signed2(v) < G
       /\ Signed2(v) < 0 <=> hi >= h
  <2> DEFINE t == Signed(hi, "word") * m
             y == Signed2(v)
  <2>1. t = IF hi >= h THEN P - M ELSE P
    BY <1>7
  <2>2. y = IF v >= G THEN v - M ELSE v
    BY <1>11
  <2> HIDE DEF t, y
  <2>3. y = lo + t /\ y \in Int /\ -G <= y /\ y < G /\ (y < 0 <=> hi >= h)
    BY <1>3, <1>4, <1>10, <2>1, <2>2
  <2> QED
    BY <2>3 DEF t, y
<1> QED
  BY <1>3, <1>9, <1>10, <1>12 DEF v, P, m, h

(* Which of two signed numbers is the less, by the sign of their           *)
(* difference and whether it left the signed range.                        *)
LEMMA Order ==
  ASSUME NEW G \in Nat \ {0}, NEW x \in Int, -G <= x, x < G, NEW y \in Int, -G <= y, y < G,
         NEW s \in Int, -G <= s, s < G, NEW e \in -1..1, s + e * (2 * G) = x - y
  PROVE  /\ (s < 0) # (e # 0) <=> x < y
         /\ e # 0 <=> x - y # s
<1>1. e = -1 \/ e = 0 \/ e = 1
  OBVIOUS
<1> QED
  BY <1>1

(* The range of a signed value.                                            *)
LEMMA SignedRange ==
  ASSUME NEW w \in Widths, NEW v \in Nat, v < Mod(w)
  PROVE  /\ Signed(v, w) \in Int /\ -Half(w) <= Signed(v, w) /\ Signed(v, w) < Half(w)
         /\ Signed(v, w) < 0 <=> v >= Half(w)
<1> DEFINE h == Half(w)
           s == Signed(v, w)
<1>1. h \in Nat \ {0} /\ v < 2 * h
  BY Halves
<1>2. s = IF v >= h THEN v - 2 * h ELSE v
  BY TopBit
<1> HIDE DEF h, s
<1>3. s \in Int /\ -h <= s /\ s < h /\ (s < 0 <=> v >= h)
  BY <1>1, <1>2
<1> QED
  BY <1>3 DEF h, s

(* The flags of two limbs are those of the whole number: lo and c left by  *)
(* the first limb, hi and e by the second, sum the exact unsigned result.  *)
Carried(x1, x2, y1, y2, lo, hi, k, c1, c2, e) ==
  /\ {x1, x2, y1, y2, lo, hi} \subseteq 0..Mod("word") - 1
  /\ k \in {-1, 1} /\ c1 \in 0..1 /\ c2 \in 0..1 /\ e \in -1..1
  /\ lo + k * c1 * Mod("word") = x1 + k * y1
  /\ hi + k * c2 * Mod("word") = x2 + k * y2 + k * c1
  /\ Signed(hi, "word") + e * Mod("word")
       = Signed(x2, "word") + k * Signed(y2, "word") + k * c1

Adding(k, c, e, x, y, v) ==
  /\ v + k * c * Square = x + k * y
  /\ Signed2(v) + e * Square = Signed2(x) + k * Signed2(y)

(* The limbs carry as the whole number does.                               *)
LEMMA WholeNumber ==
  ASSUME NEW x1, NEW x2, NEW y1, NEW y2, NEW lo, NEW hi, NEW k, NEW c1, NEW c2, NEW e,
         Carried(x1, x2, y1, y2, lo, hi, k, c1, c2, e)
  PROVE  Adding(k, c2, e, Long2(<<x1, x2>>), Long2(<<y1, y2>>), Long2(<<lo, hi>>))
<1> DEFINE m == Mod("word")
           v == Long2(<<lo, hi>>)
           x == Long2(<<x1, x2>>)
           y == Long2(<<y1, y2>>)
           M == m * m
<1>1. m \in Nat \ {0} /\ M \in Nat /\ Square = M
  <2>1. "word" \in Widths
    BY DEF Widths
  <2>2. m \in Nat \ {0}
    BY <2>1, Halves
  <2> HIDE DEF m
  <2> QED
    BY <2>2 DEF Square, m
<1>0. /\ x1 \in Nat /\ x1 < m /\ x2 \in Nat /\ x2 < m /\ y1 \in Nat /\ y1 < m
      /\ y2 \in Nat /\ y2 < m /\ lo \in Nat /\ lo < m /\ hi \in Nat /\ hi < m
      /\ k \in {-1, 1} /\ c1 \in 0..1 /\ c2 \in 0..1 /\ e \in -1..1
  <2> HIDE DEF M
  <2>1. {x1, x2, y1, y2, lo, hi} \subseteq 0..m - 1
    BY DEF Carried
  <2> HIDE DEF m
  <2> QED
    BY <1>1, <2>1 DEF Carried
<1>2. /\ v = lo + hi * m /\ x = x1 + x2 * m /\ y = y1 + y2 * m
      /\ Signed2(v) = lo + Signed(hi, "word") * m
      /\ Signed2(x) = x1 + Signed(x2, "word") * m
      /\ Signed2(y) = y1 + Signed(y2, "word") * m
  BY <1>0, LongParts
<1>3. k = 1 \/ k = -1
  BY <1>0
<1> DEFINE Sh == Signed(hi, "word")
           Sx == Signed(x2, "word")
           Sy == Signed(y2, "word")
<1>4. Sh \in Int /\ Sx \in Int /\ Sy \in Int
  <2>1. "word" \in Widths
    BY DEF Widths
  <2> QED
    BY <1>0, <2>1, SignedRange
<1>5. /\ lo + k * c1 * m = x1 + k * y1
      /\ hi + k * c2 * m = x2 + k * y2 + k * c1
      /\ Sh + e * m = Sx + k * Sy + k * c1
  BY DEF Carried
<1> HIDE DEF m, v, x, y, Sh, Sx, Sy
<1>6. (hi + k * c2 * m) * m = (x2 + k * y2 + k * c1) * m
  BY <1>5
<1>7. (Sh + e * m) * m = (Sx + k * Sy + k * c1) * m
  BY <1>5
<1>8. /\ (hi + k * c2 * m) * m = hi * m + k * c2 * M
      /\ (x2 + k * y2 + k * c1) * m = x2 * m + k * (y2 * m) + k * c1 * m
      /\ (Sh + e * m) * m = Sh * m + e * M
      /\ (Sx + k * Sy + k * c1) * m = Sx * m + k * (Sy * m) + k * c1 * m
  <2>1. CASE k = 1
    BY <1>0, <1>1, <1>4, <2>1
  <2>2. CASE k = -1
    BY <1>0, <1>1, <1>4, <2>2
  <2> QED
    BY <1>3, <2>1, <2>2
<1> DEFINE H == hi * m
           X == x2 * m
           Y == y2 * m
           C == k * c1 * m
           F == k * c2 * M
           HS == Sh * m
           XS == Sx * m
           YS == Sy * m
           E == e * M
<1>9. /\ H + F = X + k * Y + C /\ HS + E = XS + k * YS + C
      /\ lo + C = x1 + k * y1
      /\ v = lo + H /\ x = x1 + X /\ y = y1 + Y
      /\ Signed2(v) = lo + HS /\ Signed2(x) = x1 + XS /\ Signed2(y) = y1 + YS
  BY <1>2, <1>5, <1>6, <1>7, <1>8 DEF Sh, Sx, Sy, m
<1>10. /\ H \in Int /\ X \in Int /\ Y \in Int /\ C \in Int /\ F \in Int
       /\ HS \in Int /\ XS \in Int /\ YS \in Int /\ E \in Int
  <2>1. k \in Int /\ c1 \in Int /\ c2 \in Int /\ e \in Int
    BY <1>0, <1>3
  <2> QED
    BY <1>0, <1>1, <1>4, <2>1
<1> HIDE DEF M, H, X, Y, C, F, HS, XS, YS, E
<1>11. v + F = x + k * y /\ Signed2(v) + E = Signed2(x) + k * Signed2(y)
  <2> DEFINE sv == Signed2(v)
             sx == Signed2(x)
             sy == Signed2(y)
  <2>0. sv = lo + HS /\ sx = x1 + XS /\ sy = y1 + YS
    BY <1>9
  <2> HIDE DEF sv, sx, sy
  <2>1. CASE k = 1
    <3>1. v + F = x + k * y /\ sv + E = sx + k * sy
      BY <1>0, <1>9, <1>10, <2>0, <2>1
    <3> QED
      BY <3>1 DEF sv, sx, sy
  <2>2. CASE k = -1
    <3>1. v + F = x + k * y /\ sv + E = sx + k * sy
      BY <1>0, <1>9, <1>10, <2>0, <2>2
    <3> QED
      BY <3>1 DEF sv, sx, sy
  <2> QED
    BY <1>3, <2>1, <2>2
<1> QED
  BY <1>1, <1>11 DEF v, x, y, F, E, Adding

(* v and f are a sum (k = 1) or difference (k = -1) of a, b and a carry.   *)
Sums(w, k, a, b, z, v, f) ==
  /\ v \in Nat /\ v < Mod(w)
  /\ v + k * Num("C" \in f) * Mod(w) = a + k * b + k * Num(z)
  /\ \E e : Outcome(w, v, f, e, Signed(a, w) + k * Signed(b, w) + k * Num(z))

(* An addition is a sum.                                                   *)
LEMMA AddSums ==
  ASSUME NEW w \in Widths, NEW a \in Nat, a < Mod(w), NEW b \in Nat, b < Mod(w),
         NEW carry \in BOOLEAN, NEW old
  PROVE  LET r == do_add(a, b, carry, w)
         IN  Sums(w, 1, a, b, carry, r.value, apply_flags(old, r))
<1> DEFINE r == do_add(a, b, carry, w)
           v == r.value
           f == apply_flags(old, r)
           z == Num(carry)
           m == Mod(w)
           c == Num("C" \in f)
<1>1. /\ v + (IF "C" \in f THEN m ELSE 0) = a + b + z
      /\ \E e : Outcome(w, v, f, e, Signed(a, w) + Signed(b, w) + z)
  BY AddFlags
<1>2. Signed(a, w) \in Int /\ Signed(b, w) \in Int /\ z \in Int /\ m \in Nat
  BY SignedRange, Halves DEF Num
<1> HIDE DEF r, v, f
<1>3. v \in Nat /\ v < m
  BY <1>1 DEF Outcome
<1>4. v + 1 * c * m = a + 1 * b + 1 * z
  <2>1. 1 * c * m = IF "C" \in f THEN m ELSE 0
    BY <1>2 DEF Num
  <2> HIDE DEF c, z, m
  <2> QED
    BY <1>1, <1>2, <2>1
<1>5. Signed(a, w) + Signed(b, w) + z = Signed(a, w) + 1 * Signed(b, w) + 1 * z
  BY <1>2
<1>6. \E e : Outcome(w, v, f, e, Signed(a, w) + 1 * Signed(b, w) + 1 * z)
  BY <1>1, <1>5
<1> QED
  BY <1>3, <1>4, <1>6 DEF Sums, r, v, f

(* A subtraction is a difference.                                          *)
LEMMA SubSums ==
  ASSUME NEW w \in Widths, NEW a \in Nat, a < Mod(w), NEW b \in Nat, b < Mod(w),
         NEW borrow \in BOOLEAN, NEW old
  PROVE  LET r == do_sub(a, b, borrow, w)
         IN  Sums(w, -1, a, b, borrow, r.value, apply_flags(old, r))
<1> DEFINE r == do_sub(a, b, borrow, w)
           v == r.value
           f == apply_flags(old, r)
           z == Num(borrow)
           m == Mod(w)
           c == Num("C" \in f)
<1>1. /\ v - (IF "C" \in f THEN m ELSE 0) = a - b - z
      /\ \E e : Outcome(w, v, f, e, Signed(a, w) - Signed(b, w) - z)
  BY SubFlags
<1>2. Signed(a, w) \in Int /\ Signed(b, w) \in Int /\ z \in Int /\ m \in Nat
  BY SignedRange, Halves DEF Num
<1> HIDE DEF r, v, f
<1>3. v \in Nat /\ v < m
  BY <1>1 DEF Outcome
<1>4. v + (-1) * c * m = a + (-1) * b + (-1) * z
  <2>1. (-1) * c * m = IF "C" \in f THEN -m ELSE 0
    BY <1>2 DEF Num
  <2> HIDE DEF c, z, m
  <2> QED
    BY <1>1, <1>2, <1>3, <2>1
<1>5. Signed(a, w) - Signed(b, w) - z = Signed(a, w) + (-1) * Signed(b, w) + (-1) * z
  BY <1>2
<1>6. \E e : Outcome(w, v, f, e, Signed(a, w) + (-1) * Signed(b, w) + (-1) * z)
  BY <1>1, <1>5
<1> QED
  BY <1>3, <1>4, <1>6 DEF Sums, r, v, f

(* C, PV and the value of two limbs are those of the exact result.         *)
Agrees(v, f, exact, signed) ==
  /\ v = exact % Square
  /\ "C" \in f <=> exact \notin 0..Square - 1
  /\ "PV" \in f <=> signed # Signed2(v)

(* Two limbs, the second taking the carry of the first.                    *)
LEMMA TwoLimbs ==
  ASSUME NEW x1 \in Nat, x1 < Mod("word"), NEW x2 \in Nat, x2 < Mod("word"),
         NEW y1 \in Nat, y1 < Mod("word"), NEW y2 \in Nat, y2 < Mod("word"),
         NEW k \in {-1, 1}, NEW lo, NEW hi, NEW f1, NEW f2,
         Sums("word", k, x1, y1, FALSE, lo, f1),
         Sums("word", k, x2, y2, "C" \in f1, hi, f2)
  PROVE  LET x == Long2(<<x1, x2>>) y == Long2(<<y1, y2>>)
         IN  /\ Agrees(Long2(<<lo, hi>>), f2, x + k * y, Signed2(x) + k * Signed2(y))
             /\ k = -1 => /\ Less(f2) <=> Signed2(x) < Signed2(y)
                          /\ "C" \in f2 <=> x < y
<1> DEFINE m == Mod("word")
           c1 == Num("C" \in f1)
           c2 == Num("C" \in f2)
           x == Long2(<<x1, x2>>)
           y == Long2(<<y1, y2>>)
           v == Long2(<<lo, hi>>)
           M == Square
<1>1. "word" \in Widths /\ Num(FALSE) = 0 /\ m \in Nat \ {0}
  BY Halves DEF Widths, Num
<1>2. /\ lo \in Nat /\ lo < m /\ lo + k * c1 * m = x1 + k * y1 + k * Num(FALSE)
      /\ hi \in Nat /\ hi < m /\ hi + k * c2 * m = x2 + k * y2 + k * c1
  BY DEF Sums
<1>3. PICK e : Outcome("word", hi, f2, e, Signed(x2, "word") + k * Signed(y2, "word") + k * c1)
  BY DEF Sums
<1>4. /\ e \in -1..1
      /\ Signed(hi, "word") + e * m = Signed(x2, "word") + k * Signed(y2, "word") + k * c1
      /\ ("PV" \in f2 <=> e # 0) /\ ("S" \in f2 <=> hi >= Half("word"))
  BY <1>3 DEF Outcome
<1>5. c1 \in 0..1 /\ c2 \in 0..1 /\ (c2 = 1 <=> "C" \in f2)
  BY DEF Num
<1>6. lo + k * c1 * m = x1 + k * y1
  <2> DEFINE t == k * c1 * m
             z == Num(FALSE)
  <2>1. k = 1 \/ k = -1
    OBVIOUS
  <2>2. t \in Int
    <3> HIDE DEF m, c1
    <3> QED
      BY <1>1, <1>5, <2>1
  <2>4. z = 0 /\ lo + t = x1 + k * y1 + k * z
    BY <1>1, <1>2
  <2> HIDE DEF t, z
  <2>3. lo + t = x1 + k * y1
    BY <1>2, <2>1, <2>2, <2>4
  <2> QED
    BY <2>3 DEF t
<1>7. v + k * c2 * Square = x + k * y /\ Signed2(v) + e * Square = Signed2(x) + k * Signed2(y)
  <2> HIDE DEF c1, c2
  <2>1. {x1, x2, y1, y2, lo, hi} \subseteq 0..m - 1
    <3>1. x1 < m /\ x2 < m /\ y1 < m /\ y2 < m
      OBVIOUS
    <3> HIDE DEF m
    <3> QED
      BY <1>1, <1>2, <3>1
  <2>2. Carried(x1, x2, y1, y2, lo, hi, k, c1, c2, e)
    BY <1>2, <1>4, <1>5, <1>6, <2>1 DEF Carried
  <2>3. Adding(k, c2, e, x, y, v)
    BY <2>2, WholeNumber, Zenon
  <2> QED
    BY <2>3 DEF Adding
<1>8. /\ v \in Nat /\ v < M /\ Signed2(v) \in Int
      /\ x \in Nat /\ x < M /\ y \in Nat /\ y < M
  BY <1>2, LongParts
<1> DEFINE G == M \div 2
           sv == Signed2(v)
           sx == Signed2(x)
           sy == Signed2(y)
<1>9. /\ sv \in Int /\ -G <= sv /\ sv < G /\ (sv < 0 <=> hi >= Half("word"))
      /\ sx \in Int /\ -G <= sx /\ sx < G /\ sy \in Int /\ -G <= sy /\ sy < G
  BY <1>2, LongParts
<1>10. M = 2 * G /\ G \in Nat \ {0} /\ M \in Nat \ {0}
  <2> DEFINE h == Half("word")
             q == 2 * (h * h)
  <2>1. h \in Nat \ {0} /\ Mod("word") = 2 * h
    BY <1>1, Halves
  <2> HIDE DEF h
  <2>2. h * h \in Nat \ {0}
    BY <2>1
  <2>3. M = 2 * q
    BY <2>1 DEF Square
  <2> DEFINE hh == h * h
  <2>4. hh \in Nat \ {0} /\ q = 2 * hh
    BY <2>2
  <2> HIDE DEF hh, q, M
  <2> QED
    BY <2>3, <2>4
<1>11. v + k * c2 * M = x + k * y /\ sv + e * M = sx + k * sy
  BY <1>7
<1> HIDE DEF x, y, v, c2, M, G, sv, sx, sy
<1>12. c2 = 0 \/ c2 = 1
  BY <1>5
<1>13. k = 1 \/ k = -1
  OBVIOUS
<1>14. (x + k * y) % M = v
  <2> DEFINE z == x + k * y
             q == k * c2
  <2>1. z = M * q + v /\ q \in Int /\ z \in Int
    BY <1>8, <1>10, <1>11, <1>12, <1>13
  <2>2. v \in 0..M - 1
    BY <1>8, <1>10
  <2> HIDE DEF z, q
  <2>3. z % M = v
    BY <1>10, <2>1, <2>2, DivUnique
  <2> QED
    BY <2>3 DEF z
<1>15. "C" \in f2 <=> x + k * y \notin 0..M - 1
  BY <1>5, <1>8, <1>10, <1>11, <1>12, <1>13
<1>16. "PV" \in f2 <=> sx + k * sy # sv
  <2>1. e = -1 \/ e = 0 \/ e = 1
    BY <1>4
  <2>2. sx + k * sy # sv <=> e # 0
    BY <1>9, <1>10, <1>11, <1>13, <2>1
  <2> QED
    BY <1>4, <2>2
<1>17. ASSUME k = -1 PROVE (Less(f2) <=> sx < sy) /\ ("C" \in f2 <=> x < y)
  <2>1. sv + e * (2 * G) = sx - sy
    BY <1>9, <1>10, <1>11, <1>17
  <2>2. (sv < 0) # (e # 0) <=> sx < sy
    BY <1>4, <1>9, <1>10, <2>1, Order
  <2>3. "C" \in f2 <=> x < y
    BY <1>5, <1>8, <1>10, <1>11, <1>12, <1>17
  <2> QED
    BY <1>4, <1>9, <2>2, <2>3 DEF Less
<1> QED
  BY <1>14, <1>15, <1>16, <1>17 DEF Agrees, x, y, v, M, sv, sx, sy

(* ADCB on eight bits: H is the carry out of the low digit.                *)
LEMMA HalfCarry ==
  ASSUME Bits["byte"] = 8, NEW a \in Nat, a < 256, NEW b \in Nat, b < 256,
         NEW cin \in BOOLEAN, NEW old
  PROVE  LET r == do_add(a, b, cin, "byte")
             f == apply_flags(old, r)
             v == r.value
         IN  /\ v \in Nat /\ v < 256
             /\ v + (IF "C" \in f THEN 256 ELSE 0) = a + b + Num(cin)
             /\ (v % 16) + (IF "H" \in f THEN 16 ELSE 0) = (a % 16) + (b % 16) + Num(cin)
<1> DEFINE k == carry_chain(a, b, cin, "byte")
           r == do_add(a, b, cin, "byte")
           f == apply_flags(old, r)
           z == Num(cin)
<1>0. "byte" \in Widths
  BY DEF Widths
<1>1. 2^0 = 1 /\ 2^1 = 2 /\ 2^2 = 4 /\ 2^3 = 8 /\ 2^4 = 16 /\ 2^5 = 32 /\ 2^6 = 64
      /\ 2^7 = 128 /\ 2^8 = 256
  <2>1. 2^0 = 1 /\ \A i \in 0..7 : 2 ^ (i + 1) = 2 * 2 ^ i
    BY <1>0, Widthed
  <2>2. /\ 2^(0 + 1) = 2 * 2^0 /\ 2^(1 + 1) = 2 * 2^1 /\ 2^(2 + 1) = 2 * 2^2
        /\ 2^(3 + 1) = 2 * 2^3 /\ 2^(4 + 1) = 2 * 2^4 /\ 2^(5 + 1) = 2 * 2^5
        /\ 2^(6 + 1) = 2 * 2^6 /\ 2^(7 + 1) = 2 * 2^7
    BY <2>1
  <2> QED
    BY <2>1, <2>2
<1> DEFINE N == Bits["byte"]
<1>n. N = 8 /\ N - 1 = 7
  OBVIOUS
<1>p. PICK c \in [0..N -> BOOLEAN], sum \in [0..N -> Nat] :
          /\ \A i \in 0..N :
               /\ sum[i] < 2 ^ i
               /\ sum[i] + Num(c[i]) * 2 ^ i = (a % 2 ^ i) + (b % 2 ^ i) + z
          /\ \A i \in 0..N - 1 : \E d \in 0..1 : sum[i + 1] = sum[i] + 2 ^ i * d
          /\ k = [sum |-> sum[N], cout |-> c[N], cmsb |-> c[N - 1], c4 |-> N > 3 /\ c[4]]
  <2> DEFINE B == "byte"
  <2>1. B \in Widths /\ a \in Nat /\ b \in Nat /\ cin \in BOOLEAN
    BY <1>0
  <2> HIDE DEF B
  <2>2. Chained(B, a, b, cin)
    BY <2>1, ChainHolds
  <2> QED
    BY <2>2, ZenonT(30) DEF B, Chained
<1>2. /\ c \in [0..8 -> BOOLEAN] /\ sum \in [0..8 -> Nat]
      /\ \A i \in 0..8 :
             /\ sum[i] < 2 ^ i
             /\ sum[i] + Num(c[i]) * 2 ^ i = (a % 2 ^ i) + (b % 2 ^ i) + z
      /\ \A i \in 0..7 : \E d \in 0..1 : sum[i + 1] = sum[i] + 2 ^ i * d
  <2> HIDE DEF N, k, z
  <2> QED
    BY <1>n, <1>p
<1>3. k.sum = sum[8] /\ (k.cout <=> c[8]) /\ (k.c4 <=> c[4])
  <2> HIDE DEF N, k
  <2>1. k = [sum |-> sum[8], cout |-> c[8], cmsb |-> c[N - 1], c4 |-> 8 > 3 /\ c[4]]
    BY <1>n, <1>p
  <2>2. k.sum = sum[8] /\ k.cout = c[8] /\ k.c4 = (8 > 3 /\ c[4])
    BY <2>1, Zenon
  <2>3. 8 > 3
    OBVIOUS
  <2> QED
    BY <2>2, <2>3, Zenon
<1>4. r.value = k.sum /\ ("C" \in f <=> k.cout) /\ ("H" \in f <=> k.c4)
  <2> HIDE DEF k
  <2> QED
    BY DEF do_add, apply_flags, Result, ZS, When, AddMask, CZSV, k
<1> HIDE DEF k, r, f
<1>5. z \in 0..1 /\ z \in Int
  BY DEF Num
<1>6. /\ sum[8] \in Nat /\ sum[8] < 256
      /\ sum[8] + (IF c[8] THEN 256 ELSE 0) = a + b + z
  <2>1. sum[8] < 2^8 /\ sum[8] + Num(c[8]) * 2^8 = (a % 2^8) + (b % 2^8) + z
    BY <1>2
  <2>2. a % 256 = a /\ b % 256 = b
    OBVIOUS
  <2> HIDE DEF z
  <2>3. sum[8] < 256 /\ sum[8] + Num(c[8]) * 256 = a + b + z
    BY <1>1, <2>1, <2>2
  <2> QED
    BY <1>2, <2>3 DEF Num
<1>7. /\ sum[4] \in Nat /\ sum[4] < 16
      /\ sum[4] + (IF c[4] THEN 16 ELSE 0) = (a % 16) + (b % 16) + z
  <2>1. sum[4] < 2^4 /\ sum[4] + Num(c[4]) * 2^4 = (a % 2^4) + (b % 2^4) + z
    BY <1>2
  <2> HIDE DEF z
  <2>3. sum[4] < 16 /\ sum[4] + Num(c[4]) * 16 = (a % 16) + (b % 16) + z
    BY <1>1, <2>1
  <2> QED
    BY <1>2, <2>3 DEF Num
<1>8. sum[8] % 16 = sum[4]
  <2>1. /\ \E d \in 0..1 : sum[4 + 1] = sum[4] + 2^4 * d
        /\ \E d \in 0..1 : sum[5 + 1] = sum[5] + 2^5 * d
        /\ \E d \in 0..1 : sum[6 + 1] = sum[6] + 2^6 * d
        /\ \E d \in 0..1 : sum[7 + 1] = sum[7] + 2^7 * d
    BY <1>2
  <2>2. PICK d \in 0..1 : sum[4 + 1] = sum[4] + 2^4 * d
    BY <2>1
  <2>3. PICK e \in 0..1 : sum[5 + 1] = sum[5] + 2^5 * e
    BY <2>1
  <2>4. PICK g \in 0..1 : sum[6 + 1] = sum[6] + 2^6 * g
    BY <2>1
  <2>5. PICK h \in 0..1 : sum[7 + 1] = sum[7] + 2^7 * h
    BY <2>1
  <2>6. /\ sum[5] = sum[4] + 16 * d /\ sum[6] = sum[5] + 32 * e
        /\ sum[7] = sum[6] + 64 * g /\ sum[8] = sum[7] + 128 * h
    BY <1>1, <2>2, <2>3, <2>4, <2>5
  <2>7. sum[8] = 16 * (d + 2 * e + 4 * g + 8 * h) + sum[4]
    BY <1>7, <2>6
  <2> QED
    BY <1>6, <1>7, <2>7
<1> QED
  BY <1>3, <1>4, <1>6, <1>7, <1>8 DEF r, f

(* What two decimal bytes and a carry leave in v, C and H, and in the      *)
(* result r of DAB.                                                        *)
DigitsAdded(a, b, z, v, c, h) ==
  /\ a \in 0..153 /\ a % 16 < 10 /\ b \in 0..153 /\ b % 16 < 10 /\ z \in 0..1
  /\ v \in Nat /\ v < 256 /\ c \in BOOLEAN /\ h \in BOOLEAN
  /\ v + (IF c THEN 256 ELSE 0) = a + b + z
  /\ (v % 16) + (IF h THEN 16 ELSE 0) = (a % 16) + (b % 16) + z
DecimalSum(a, b, z) == Tens(a) + Tens(b) + z
HoldsDecimal(r, s) ==
  /\ Tens(r.value) = s % 100 /\ r.value % 16 < 10
  /\ r.mask = {"C", "Z", "S"} /\ r.flags \subseteq {"C", "Z", "S"}
  /\ "C" \in r.flags <=> s > 99

(* The correction DAB makes.                                               *)
LEMMA Corrected ==
  ASSUME NEW a, NEW b, NEW z, NEW v, NEW c, NEW h, DigitsAdded(a, b, z, v, c, h)
  PROVE  HoldsDecimal(do_dab(v, h, c), DecimalSum(a, b, z))
<1>0. /\ a \in 0..153 /\ a % 16 < 10 /\ b \in 0..153 /\ b % 16 < 10 /\ z \in 0..1
      /\ v \in Nat /\ v < 256 /\ c \in BOOLEAN /\ h \in BOOLEAN
      /\ v + (IF c THEN 256 ELSE 0) = a + b + z
      /\ (v % 16) + (IF h THEN 16 ELSE 0) = (a % 16) + (b % 16) + z
  BY DEF DigitsAdded
<1> DEFINE low == v % 16 > 9 \/ h
           u   == IF low THEN (v + 6) % 256 ELSE v
           d   == c \/ (low /\ u < 16)
           r   == IF HighDigit(u, d) THEN (u + 96) % 256 ELSE u
           s   == Tens(a) + Tens(b) + z
           p   == (a \div 16) + (b \div 16)
           L   == (a % 16) + (b % 16) + z
           ld  == IF L > 9 THEN L - 10 ELSE L
           H   == IF L > 9 THEN p + 1 ELSE p
           hd  == IF H > 9 THEN H - 10 ELSE H
<1>1. p \in 0..18 /\ L \in 0..19 /\ a + b + z = 16 * p + L /\ s = 10 * p + L
  BY <1>0 DEF Tens
<1>2. v + (IF c THEN 256 ELSE 0) = 16 * p + L
  BY <1>0, <1>1
<1>3. (v % 16) + (IF h THEN 16 ELSE 0) = L
  BY <1>0
<1> HIDE DEF p, L, s
<1>4. low <=> L > 9
  BY <1>0, <1>1, <1>3
<1>5. ld \in 0..9 /\ H \in 0..19 /\ s = 10 * H + ld
  BY <1>1
<1> HIDE DEF low
<1>6. u = IF H >= 16 THEN 16 * H + ld - 256 ELSE 16 * H + ld
  BY <1>0, <1>1, <1>2, <1>4
<1>7. d <=> H >= 16
  BY <1>0, <1>1, <1>2, <1>4, <1>6
<1> HIDE DEF u, d, ld, H
<1>8. HighDigit(u, d) <=> H > 9
  BY <1>5, <1>6, <1>7 DEF HighDigit
<1>9. r = 16 * hd + ld /\ hd \in 0..9
  BY <1>5, <1>6, <1>8
<1> HIDE DEF r
<1>10. Tens(r) = s % 100 /\ r % 16 < 10 /\ (s > 99 <=> H > 9)
  BY <1>5, <1>9 DEF Tens
<1> HIDE DEF s
<1>11. do_dab(v, h, c) = Result(r, ZS(r, "byte") \cup When(HighDigit(u, d), "C"), {"C", "Z", "S"})
  BY Zenon DEF do_dab, r, u, d, low
<1>12. LET t == do_dab(v, h, c)
       IN  /\ t.value = r /\ t.mask = {"C", "Z", "S"}
           /\ "C" \in t.flags <=> HighDigit(u, d)
           /\ t.flags \subseteq {"C", "Z", "S"}
  BY <1>11 DEF Result, ZS, When
<1> QED
  BY <1>8, <1>10, <1>12 DEF s, HoldsDecimal, DecimalSum

(* What DecimalAdd says of ADCB and the DAB after it.                      *)
AddsDecimally(a, b, carry, old) ==
  LET r1 == alu_exec("ADC", a, b, carry, "byte")
      f1 == apply_flags(old, r1)
      r2 == alu_exec("DAB", r1.value, Num("H" \in f1), "C" \in f1, "byte")
      f2 == apply_flags(f1, r2)
      s  == DecimalSum(a, b, Num(carry))
  IN  /\ Tens(r2.value) = s % 100 /\ r2.value % 16 < 10
      /\ "C" \in f2 <=> s > 99

(* ADCB and DAB add decimally.                                             *)
LEMMA DecimalAdd ==
  ASSUME Bits["byte"] = 8, NEW a \in 0..153, a % 16 < 10, NEW b \in 0..153, b % 16 < 10,
         NEW carry \in BOOLEAN, NEW old
  PROVE  AddsDecimally(a, b, carry, old)
<1> DEFINE r1 == alu_exec("ADC", a, b, carry, "byte")
           v == r1.value
           f1 == apply_flags(old, r1)
           h == "H" \in f1
           c == "C" \in f1
           r2 == alu_exec("DAB", r1.value, Num(h), c, "byte")
           f2 == apply_flags(f1, r2)
           z == Num(carry)
<1>1. r1 = do_add(a, b, carry, "byte")
  BY DEF alu_exec
<1>2. /\ v \in Nat /\ v < 256
      /\ v + (IF c THEN 256 ELSE 0) = a + b + z
      /\ (v % 16) + (IF h THEN 16 ELSE 0) = (a % 16) + (b % 16) + z
  BY <1>1, HalfCarry, a < 256, b < 256
<1>3. h \in BOOLEAN /\ c \in BOOLEAN /\ z \in 0..1
  BY DEF Num
<1>4. Bit(Num(h), 0) <=> h
  <2>1. 2^0 = 1
    BY PowersOfTwo
  <2>2. Num(h) = IF h THEN 1 ELSE 0
    BY DEF Num
  <2> HIDE DEF h
  <2>3. (Num(h) \div 1) % 2 = 1 <=> h
    BY <1>3, <2>2
  <2> QED
    BY <2>1, <2>3 DEF Bit
<1> HIDE DEF r1, v, h, c, f1, z
<1>5. r2 = do_dab(v, h, c)
  <2>1. r2 = do_dab(v, Bit(Num(h), 0), c)
    BY DEF alu_exec, v
  <2>2. Bit(Num(h), 0) = h
    BY <1>3, <1>4 DEF Bit
  <2> QED
    BY <2>1, <2>2, Zenon
<1> DEFINE s == DecimalSum(a, b, z)
<1>6. /\ Tens(r2.value) = s % 100 /\ r2.value % 16 < 10
      /\ r2.mask = {"C", "Z", "S"} /\ ("C" \in r2.flags <=> s > 99)
      /\ r2.flags \subseteq {"C", "Z", "S"}
  <2> HIDE DEF r2
  <2>1. DigitsAdded(a, b, z, v, c, h)
    BY <1>2, <1>3 DEF DigitsAdded
  <2>2. HoldsDecimal(do_dab(v, h, c), s)
    BY <2>1, Corrected, Zenon
  <2> QED
    BY <1>5, <2>2 DEF HoldsDecimal
<1> HIDE DEF r2, s
<1>7. "C" \in apply_flags(f1, r2) <=> s > 99
  BY <1>6 DEF apply_flags
<1> QED
  BY <1>6, <1>7, Zenon DEF r2, c, h, f1, r1, v, z, s, AddsDecimally

(* The conditions a program tests after one subtraction.                   *)
LEMMA OneLimb ==
  ASSUME NEW w \in Widths, NEW a \in Nat, a < Mod(w), NEW b \in Nat, b < Mod(w),
         NEW v, NEW f, Sums(w, -1, a, b, FALSE, v, f)
  PROVE  /\ Less(f) <=> Signed(a, w) < Signed(b, w)
         /\ "Z" \in f <=> Signed(a, w) = Signed(b, w)
         /\ "C" \in f <=> a < b
         /\ "Z" \in f <=> a = b
<1> DEFINE m == Mod(w)
           G == Half(w)
           x == Signed(a, w)
           y == Signed(b, w)
           s == Signed(v, w)
           c == Num("C" \in f)
<1>1. m = 2 * G /\ G \in Nat \ {0} /\ a < m /\ b < m
  BY Halves
<1>2. Num(FALSE) = 0
  BY DEF Num
<1>3. v \in Nat /\ v < m /\ v + (-1) * c * m = a + (-1) * b + (-1) * Num(FALSE)
  BY DEF Sums
<1>4. PICK e : Outcome(w, v, f, e, x + (-1) * y + (-1) * Num(FALSE))
  BY DEF Sums
<1>5. /\ e \in -1..1 /\ s + e * m = x + (-1) * y + (-1) * Num(FALSE)
      /\ ("PV" \in f <=> e # 0) /\ ("Z" \in f <=> v = 0) /\ ("S" \in f <=> v >= G)
  BY <1>4 DEF Outcome
<1>6. /\ x \in Int /\ -G <= x /\ x < G /\ y \in Int /\ -G <= y /\ y < G
      /\ s \in Int /\ -G <= s /\ s < G /\ (s < 0 <=> v >= G)
  BY <1>3, SignedRange
<1>7. s = IF v >= G THEN v - 2 * G ELSE v
  BY <1>3, TopBit
<1>8. c \in 0..1 /\ (c = 1 <=> "C" \in f)
  BY DEF Num
<1> HIDE DEF m, G, x, y, s, c
<1>9. s + e * (2 * G) = x - y
  <2> DEFINE z == Num(FALSE)
             t == e * m
  <2>0. e = -1 \/ e = 0 \/ e = 1
    BY <1>5
  <2>1. z = 0 /\ s + t = x + (-1) * y + (-1) * z /\ t \in Int
    <3>1. s + t = x + (-1) * y + (-1) * z
      BY <1>5
    <3>2. t \in Int
      BY <1>1, <2>0
    <3> HIDE DEF t
    <3> QED
      BY <1>2, <3>1, <3>2
  <2> HIDE DEF z, t
  <2>2. s + t = x - y
    BY <1>6, <2>1
  <2> QED
    BY <1>1, <2>0, <2>2 DEF t
<1>10. Less(f) <=> x < y
  <2>1. (s < 0) # (e # 0) <=> x < y
    BY <1>1, <1>5, <1>6, <1>9, Order
  <2> QED
    BY <1>5, <1>6, <2>1 DEF Less
<1>11. v = 0 <=> x = y
  <2>1. e = -1 \/ e = 0 \/ e = 1
    BY <1>5
  <2> QED
    BY <1>1, <1>3, <1>6, <1>7, <1>9, <2>1
<1>12. v - (IF c = 1 THEN m ELSE 0) = a - b
  <2> DEFINE z == Num(FALSE)
             t == (-1) * c * m
  <2>1. z = 0 /\ v + t = a + (-1) * b + (-1) * z
    BY <1>2, <1>3
  <2>2. t = IF c = 1 THEN -m ELSE 0
    <3>1. c = 0 \/ c = 1
      BY <1>8
    <3> QED
      BY <1>1, <3>1
  <2> HIDE DEF z, t
  <2> QED
    BY <1>1, <1>3, <2>1, <2>2
<1>13. ("C" \in f <=> a < b) /\ (v = 0 <=> a = b)
  BY <1>1, <1>3, <1>8, <1>12
<1> QED
  BY <1>5, <1>10, <1>11, <1>13 DEF x, y

(* The conditions, one by one.                                             *)
LEMMA Conditions ==
  ASSUME NEW f
  PROVE  /\ Taken("LT", FALSE, f) <=> Less(f)
         /\ Taken("LE", FALSE, f) <=> Less(f) \/ "Z" \in f
         /\ Taken("ULE", FALSE, f) <=> "C" \in f \/ "Z" \in f
         /\ Taken("EQ", TRUE, f) <=> "Z" \notin f
         /\ Taken("ULT", TRUE, f) <=> "C" \notin f
<1>1. /\ cond_true("LT", f) = Less(f)
      /\ cond_true("LE", f) = (Less(f) \/ "Z" \in f)
      /\ cond_true("ULE", f) = (f \cap {"C", "Z"} # {})
      /\ cond_true("EQ", f) = ("Z" \in f)
      /\ cond_true("ULT", f) = ("C" \in f)
  BY DEF cond_true
<1>2. f \cap {"C", "Z"} # {} <=> "C" \in f \/ "Z" \in f
  OBVIOUS
<1>3. Less(f) \in BOOLEAN
  BY DEF Less
<1> QED
  BY <1>1, <1>2, <1>3 DEF Taken

(* Writing one limb and the flags.                                         *)
LEMMA WriteLimb ==
  ASSUME NEW j, {"x", "y", "op", "fcw"} \subseteq DOMAIN j, NEW p, NEW q, j.x = <<p, q>>,
         NEW i \in {1, 2}, NEW v, NEW f
  PROVE  LET k == [j EXCEPT !.x[i] = v, !.fcw = f]
         IN  /\ {"x", "y", "op", "fcw"} \subseteq DOMAIN k
             /\ k.x = IF i = 1 THEN <<v, q>> ELSE <<p, v>>
             /\ k.fcw = f /\ k.op = j.op /\ k.y = j.y
<1> DEFINE k == [j EXCEPT !.x[i] = v, !.fcw = f]
<1>1. /\ {"x", "y", "op", "fcw"} \subseteq DOMAIN k /\ k.fcw = f /\ k.op = j.op /\ k.y = j.y
      /\ k.x = [j.x EXCEPT ![i] = v]
  OBVIOUS
<1>2. [<<p, q>> EXCEPT ![i] = v] = IF i = 1 THEN <<v, q>> ELSE <<p, v>>
  OBVIOUS
<1> QED
  BY <1>1, <1>2

(* The jobs of two limbs.                                                  *)
Sign(op) == IF op = "ADD" THEN 1 ELSE -1
LimbJobs == [about : {"limbs"}, op : {"ADD", "SUB"}, x : Value("word") \X Value("word"),
             y : Value("word") \X Value("word"), fcw : SUBSET Flags]

(* A limb is a value.                                                      *)
LEMMA LimbValue ==
  ASSUME NEW v \in Value("word")
  PROVE  v \in Nat /\ v < Mod("word")
<1>1. "word" \in Widths
  BY DEF Widths
<1>2. Mod("word") \in Nat
  BY <1>1, Halves
<1> QED
  BY <1>2 DEF Value

(* One instruction of the two is a sum or difference of the limb.          *)
LEMMA LimbSums ==
  ASSUME NEW op \in {"ADD", "SUB"}, NEW first \in BOOLEAN,
         NEW a \in Nat, a < Mod("word"), NEW b \in Nat, b < Mod("word"),
         NEW carry \in BOOLEAN, NEW old
  PROVE  LET r == alu_exec(IF first THEN op ELSE IF op = "ADD" THEN "ADC" ELSE "SBC",
                           a, b, carry, "word")
         IN  Sums("word", Sign(op), a, b, IF first THEN FALSE ELSE carry, r.value,
                  apply_flags(old, r))
<1> DEFINE c == IF first THEN FALSE ELSE carry
           r == alu_exec(IF first THEN op ELSE IF op = "ADD" THEN "ADC" ELSE "SBC",
                         a, b, carry, "word")
<1>1. "word" \in Widths /\ c \in BOOLEAN
  BY DEF Widths
<1>2. CASE op = "ADD"
  <2>1. r = do_add(a, b, c, "word")
    BY <1>2 DEF alu_exec
  <2> HIDE DEF r, c
  <2>2. Sums("word", 1, a, b, c, r.value, apply_flags(old, r))
    BY <1>1, <2>1, AddSums
  <2> QED
    BY <1>2, <2>2 DEF Sign, r, c
<1>3. CASE op = "SUB"
  <2>1. r = do_sub(a, b, c, "word")
    BY <1>3 DEF alu_exec
  <2> HIDE DEF r, c
  <2>2. Sums("word", -1, a, b, c, r.value, apply_flags(old, r))
    BY <1>1, <2>1, SubSums
  <2> QED
    BY <1>3, <2>2 DEF Sign, r, c
<1> QED
  BY <1>2, <1>3

(* What the limbs hold on the way.                                         *)
LimbsInv ==
  /\ given \in LimbJobs /\ n \in 0..2
  /\ n = 0 => job = given
  /\ n \in {1, 2} =>
       /\ {"x", "y", "op", "fcw"} \subseteq DOMAIN job
       /\ job.op = given.op /\ job.y = given.y
  /\ n = 1 => /\ job.x = <<job.x[1], given.x[2]>>
              /\ Sums("word", Sign(given.op), given.x[1], given.y[1], FALSE, job.x[1], job.fcw)
  /\ n = 2 => LimbsRight

(* A step of two limbs keeps them right.                                   *)
LEMMA LimbsStep ==
  ASSUME LimbsInv, Limb, n' = n + 1, given' = given
  PROVE  LimbsInv'
<1> DEFINE x1 == given.x[1]
           x2 == given.x[2]
           y1 == given.y[1]
           y2 == given.y[2]
           op == given.op
           k  == Sign(op)
<1>1. /\ given \in LimbJobs /\ given.x = <<x1, x2>> /\ given.y = <<y1, y2>>
      /\ x1 \in Value("word") /\ x2 \in Value("word") /\ y1 \in Value("word")
      /\ y2 \in Value("word") /\ op \in {"ADD", "SUB"}
  BY DEF LimbsInv, LimbJobs
<1>2. /\ x1 \in Nat /\ x1 < Mod("word") /\ x2 \in Nat /\ x2 < Mod("word")
      /\ y1 \in Nat /\ y1 < Mod("word") /\ y2 \in Nat /\ y2 < Mod("word")
  BY <1>1, LimbValue
<1>3. n \in 0..1
  BY DEF Limb, LimbsInv
<1>4. k \in {-1, 1}
  BY <1>1 DEF Sign
<1>5. CASE n = 0
  <2> DEFINE r == alu_exec(op, x1, y1, "C" \in given.fcw, "word")
             f == apply_flags(given.fcw, r)
  <2>1. job = given
    BY <1>5 DEF LimbsInv
  <2>2. job' = [given EXCEPT !.x[1] = r.value, !.fcw = f]
    BY <1>5, <2>1 DEF Limb
  <2>3. Sums("word", k, x1, y1, FALSE, r.value, f)
    <3>1. LET q == alu_exec(IF TRUE THEN op ELSE IF op = "ADD" THEN "ADC" ELSE "SBC",
                           x1, y1, "C" \in given.fcw, "word")
          IN  Sums("word", Sign(op), x1, y1, IF TRUE THEN FALSE ELSE "C" \in given.fcw,
                   q.value, apply_flags(given.fcw, q))
      <4>1. ("C" \in given.fcw) \in BOOLEAN /\ TRUE \in BOOLEAN
        OBVIOUS
      <4> QED
        BY <1>1, <1>2, <4>1, LimbSums, Zenon
    <3> QED
      BY <3>1, Zenon
  <2> HIDE DEF r, f
  <2>4. {"x", "y", "op", "fcw"} \subseteq DOMAIN given
    BY <1>1 DEF LimbJobs
  <2>5. /\ {"x", "y", "op", "fcw"} \subseteq DOMAIN job'
        /\ job'.x = <<r.value, x2>> /\ job'.fcw = f /\ job'.op = given.op /\ job'.y = given.y
    <3> HIDE DEF x1, x2
    <3> QED
      BY <1>1, <2>2, <2>4, WriteLimb
  <2>6. n' = 1 /\ job'.x[1] = r.value
    BY <1>5, <2>5
  <2>7. /\ job'.x = <<job'.x[1], given.x[2]>>
        /\ Sums("word", Sign(given.op), given.x[1], given.y[1], FALSE, job'.x[1], job'.fcw)
    BY <2>3, <2>5, <2>6
  <2>8. given' \in LimbJobs /\ n' \in 0..2 /\ n' # 0 /\ n' # 2 /\ given' = given
    BY <1>1, <2>6
  <2> QED
    BY <2>5, <2>7, <2>8 DEF LimbsInv
<1>6. CASE n = 1
  <2> DEFINE v1 == job.x[1]
             f1 == job.fcw
             r  == alu_exec(IF op = "ADD" THEN "ADC" ELSE "SBC", x2, y2, "C" \in f1, "word")
             f  == apply_flags(f1, r)
  <2>1. /\ {"x", "y", "op", "fcw"} \subseteq DOMAIN job
        /\ job.op = op /\ job.y = given.y /\ job.x = <<v1, x2>>
        /\ Sums("word", k, x1, y1, FALSE, v1, f1)
    BY <1>6 DEF LimbsInv
  <2>2. job' = [job EXCEPT !.x[2] = r.value, !.fcw = f]
    <3>1. job.x[2] = x2 /\ job.y[2] = y2 /\ n + 1 = 2
      BY <1>1, <1>6, <2>1
    <3> DEFINE q == alu_exec(IF n = 0 THEN job.op ELSE IF job.op = "ADD" THEN "ADC" ELSE "SBC",
                            job.x[n + 1], job.y[n + 1], "C" \in job.fcw, "word")
    <3>2. job' = [job EXCEPT !.x[n + 1] = q.value, !.fcw = apply_flags(job.fcw, q)]
      BY DEF Limb
    <3>3. (IF n = 0 THEN job.op ELSE IF job.op = "ADD" THEN "ADC" ELSE "SBC")
             = IF op = "ADD" THEN "ADC" ELSE "SBC"
      BY <1>6, <2>1
    <3>4. q = r
      BY <3>1, <3>3
    <3> HIDE DEF q, r
    <3> QED
      BY <3>1, <3>2, <3>4
  <2>3. Sums("word", k, x2, y2, "C" \in f1, r.value, f)
    <3>1. LET q == alu_exec(IF FALSE THEN op ELSE IF op = "ADD" THEN "ADC" ELSE "SBC",
                           x2, y2, "C" \in f1, "word")
          IN  Sums("word", Sign(op), x2, y2, IF FALSE THEN FALSE ELSE "C" \in f1,
                   q.value, apply_flags(f1, q))
      <4>1. ("C" \in f1) \in BOOLEAN /\ FALSE \in BOOLEAN
        OBVIOUS
      <4> QED
        BY <1>1, <1>2, <4>1, LimbSums, Zenon
    <3> QED
      BY <3>1, Zenon
  <2> HIDE DEF r, f, v1, f1
  <2>4. /\ {"x", "y", "op", "fcw"} \subseteq DOMAIN job'
        /\ job'.x = <<v1, r.value>> /\ job'.fcw = f /\ job'.op = given.op /\ job'.y = given.y
    <3> HIDE DEF x1, x2
    <3> QED
      BY <2>1, <2>2, WriteLimb
  <2> DEFINE x == Long2(<<x1, x2>>)
             y == Long2(<<y1, y2>>)
             v == Long2(<<v1, r.value>>)
  <2>5. /\ Agrees(v, f, x + k * y, Signed2(x) + k * Signed2(y))
        /\ k = -1 => /\ Less(f) <=> Signed2(x) < Signed2(y)
                     /\ "C" \in f <=> x < y
    BY <1>2, <1>4, <2>1, <2>3, TwoLimbs, ZenonT(30)
  <2>6. x \in Nat /\ y \in Nat /\ Signed2(x) \in Int /\ Signed2(y) \in Int
    BY <1>2, LongParts
  <2>7. Long2(given.x) = x /\ Long2(given.y) = y /\ Long2(job'.x) = v /\ job'.fcw = f
        /\ job'.op = op
    BY <1>1, <2>4
  <2> HIDE DEF x, y, v
  <2>8. /\ x + k * y = Exactly(op, x, y)
        /\ Signed2(x) + k * Signed2(y) = Exactly(op, Signed2(x), Signed2(y))
    <3> DEFINE sx == Signed2(x)
               sy == Signed2(y)
    <3>1. sx \in Int /\ sy \in Int
      BY <2>6
    <3> HIDE DEF sx, sy, op
    <3>2. x + k * y = Exactly(op, x, y) /\ sx + k * sy = Exactly(op, sx, sy)
      BY <1>1, <2>6, <3>1 DEF Exactly, Sign
    <3> QED
      BY <3>2 DEF sx, sy
  <2>9. /\ v = Exactly(op, x, y) % Square
        /\ ("C" \in f) = (Exactly(op, x, y) \notin 0..Square - 1)
        /\ ("PV" \in f) = (Exactly(op, Signed2(x), Signed2(y)) # Signed2(v))
    BY <2>5, <2>8 DEF Agrees
  <2>10. op = "SUB" => /\ Taken("LT", FALSE, f) = (Signed2(x) < Signed2(y))
                       /\ Taken("ULT", TRUE, f) = (x >= y)
    <3> SUFFICES ASSUME op = "SUB"
                 PROVE  /\ Taken("LT", FALSE, f) = (Signed2(x) < Signed2(y))
                        /\ Taken("ULT", TRUE, f) = (x >= y)
      OBVIOUS
    <3> DEFINE sx == Signed2(x)
               sy == Signed2(y)
               lt == Taken("LT", FALSE, f)
               ge == Taken("ULT", TRUE, f)
    <3>0. sx \in Int /\ sy \in Int
      BY <2>6
    <3>1. k = -1
      BY DEF Sign
    <3>2. (lt <=> Less(f)) /\ (ge <=> ~("C" \in f))
      BY Conditions
    <3>3. (Less(f) <=> sx < sy) /\ ("C" \in f <=> x < y)
      BY <2>5, <3>1
    <3>4. lt \in BOOLEAN /\ ge \in BOOLEAN
      BY DEF Taken
    <3> HIDE DEF sx, sy, lt, ge
    <3>5. (lt <=> sx < sy) /\ (ge <=> x >= y)
      BY <2>6, <3>0, <3>2, <3>3
    <3>6. lt = (sx < sy) /\ ge = (x >= y)
      BY <3>4, <3>5
    <3> QED
      BY <3>6 DEF lt, ge, sx, sy
  <2>11. LimbsRight'
    BY <2>7, <2>9, <2>10, Zenon DEF LimbsRight
  <2> QED
    BY <1>1, <1>6, <2>4, <2>11 DEF LimbsInv
<1> QED
  BY <1>3, <1>5, <1>6

(* Writing a value and the flags.                                          *)
LEMMA WriteValue ==
  ASSUME NEW j, {"a", "fcw"} \subseteq DOMAIN j, NEW v, NEW f
  PROVE  LET k == [j EXCEPT !.a = v, !.fcw = f]
         IN  /\ DOMAIN k = DOMAIN j /\ k.a = v /\ k.fcw = f
             /\ \A x \in DOMAIN j : x \notin {"a", "fcw"} => k[x] = j[x]
OBVIOUS

(* The jobs of one instruction.                                            *)
SingleJob(j) ==
  /\ j \in [about : {"single"}, op : {"NEG", "INC", "DEC"}, width : Widths,
            a : Nat, b : Nat, fcw : SUBSET Flags]
  /\ j.a < Mod(j.width) /\ j.b < Mod(j.width) \div 2

SingleInv ==
  /\ SingleJob(given) /\ n \in 0..1
  /\ n = 0 => job = given
  /\ n = 1 => SingleRight

(* One instruction leaves its result.                                      *)
LEMMA SingleStep ==
  ASSUME SingleInv, Single, n' = n + 1, given' = given
  PROVE  SingleInv'
<1> DEFINE op == given.op
           w == given.width
           a == given.a
           b == given.b
           r == alu_exec(op, a, b, "C" \in given.fcw, w)
           f == apply_flags(given.fcw, r)
           x == Signed(a, w)
<1>1. n = 0 /\ job = given /\ SingleJob(given)
  BY DEF SingleInv, Single
<1>2. /\ op \in {"NEG", "INC", "DEC"} /\ w \in Widths /\ a \in Nat /\ b \in Nat
      /\ a < Mod(w) /\ b < Half(w)
  <2>1. /\ op \in {"NEG", "INC", "DEC"} /\ w \in Widths /\ a \in Nat /\ b \in Nat
        /\ a < Mod(w) /\ b < Mod(w) \div 2
    BY <1>1 DEF SingleJob
  <2>2. Mod(w) = 2 * Half(w) /\ Half(w) \in Nat
    BY <2>1, Halves
  <2> HIDE DEF w
  <2>3. Mod(w) \div 2 = Half(w)
    BY <2>2
  <2> QED
    BY <2>1, <2>3
<1>3. job' = [given EXCEPT !.a = r.value, !.fcw = f]
  BY <1>1 DEF Single
<1>4. /\ op = "NEG" => Settled(w, r.value, f, -Signed(a, w))
      /\ op = "INC" => Settled(w, r.value, f, Signed(a, w) + b)
      /\ op = "DEC" => Settled(w, r.value, f, Signed(a, w) - b)
  <2> HIDE DEF op, w, a, b
  <2> QED
    BY <1>2, SingleFlags
<1> HIDE DEF r, f
<1>5. job'.a = r.value /\ job'.fcw = f /\ job'.op = op /\ job'.width = w
  <2>1. {"a", "fcw", "op", "width"} \subseteq DOMAIN given
    BY <1>1 DEF SingleJob
  <2> QED
    BY <1>3, <2>1, WriteValue
<1>6. SingleRight'
  <2> DEFINE e == CASE job'.op = "NEG" -> -x [] job'.op = "INC" -> x + b
                    [] job'.op = "DEC" -> x - b
  <2>1. Settled(w, r.value, f, e)
    <3>1. CASE op = "NEG"
      <4>1. e = -x
        BY <1>5, <3>1
      <4> QED
        BY <1>4, <3>1, <4>1, Zenon
    <3>2. CASE op = "INC"
      <4>1. e = x + b
        BY <1>5, <3>2
      <4> QED
        BY <1>4, <3>2, <4>1, Zenon
    <3>3. CASE op = "DEC"
      <4>1. e = x - b
        BY <1>5, <3>3
      <4> QED
        BY <1>4, <3>3, <4>1, Zenon
    <3> QED
      BY <1>2, <3>1, <3>2, <3>3
  <2>2. SingleRight' <=> /\ job'.a = e % Mod(job'.width)
                         /\ ("PV" \in job'.fcw) = (e # Signed(job'.a, job'.width))
                         /\ ("Z" \in job'.fcw) = (job'.a = 0)
    <3>1. x = Signed(given'.a, job'.width) /\ b = given'.b
      BY <1>5
    <3> QED
      BY <3>1, Zenon DEF SingleRight
  <2> HIDE DEF e
  <2> QED
    BY <1>5, <2>1, <2>2 DEF Settled
<1> QED
  BY <1>1, <1>6 DEF SingleInv

(* The decimal jobs.                                                       *)
DecimalJob(j) ==
  /\ j \in [about : {"decimal"}, a : 0 .. 153, b : 0 .. 153, fcw : SUBSET Flags]
  /\ j.a % 16 < 10 /\ j.b % 16 < 10 /\ Bits["byte"] = 8

(* The byte and its flags between the addition and its correction.         *)
Added(j) ==
  LET r == alu_exec("ADC", j.a, j.b, "C" \in j.fcw, "byte")
  IN  [value |-> r.value, flags |-> apply_flags(j.fcw, r)]

DecimalInv ==
  /\ DecimalJob(given) /\ n \in 0..2
  /\ n = 0 => job = given
  /\ n = 1 => /\ {"a", "fcw"} \subseteq DOMAIN job
              /\ job.a = Added(given).value /\ job.fcw = Added(given).flags
  /\ n = 2 => DecimalRight

(* An addition, then its correction.                                       *)
LEMMA DecimalStep ==
  ASSUME DecimalInv, Decimal, n' = n + 1, given' = given
  PROVE  DecimalInv'
<1>1. DecimalJob(given) /\ n \in 0..1
  BY DEF DecimalInv, Decimal
<1>2. CASE n = 0
  <2> DEFINE r == alu_exec("ADC", given.a, given.b, "C" \in given.fcw, "byte")
             f == apply_flags(given.fcw, r)
  <2>1. job' = [given EXCEPT !.a = r.value, !.fcw = f]
    BY <1>2 DEF DecimalInv, Decimal
  <2>2. Added(given).value = r.value /\ Added(given).flags = f
    BY DEF Added
  <2>3. {"a", "fcw"} \subseteq DOMAIN given
    BY <1>1 DEF DecimalJob
  <2> HIDE DEF r, f
  <2>4. {"a", "fcw"} \subseteq DOMAIN job' /\ job'.a = r.value /\ job'.fcw = f
    BY <2>1, <2>3, WriteValue
  <2> QED
    BY <1>1, <1>2, <2>2, <2>4 DEF DecimalInv
<1>3. CASE n = 1
  <2> DEFINE a == given.a
             b == given.b
             r1 == alu_exec("ADC", a, b, "C" \in given.fcw, "byte")
             f1 == apply_flags(given.fcw, r1)
             r2 == alu_exec("DAB", r1.value, Num("H" \in f1), "C" \in f1, "byte")
             f2 == apply_flags(f1, r2)
             s  == DecimalSum(a, b, Num("C" \in given.fcw))
  <2>1. {"a", "fcw"} \subseteq DOMAIN job /\ job.a = r1.value /\ job.fcw = f1
    BY <1>3 DEF DecimalInv, Added
  <2>2. job' = [job EXCEPT !.a = r2.value, !.fcw = f2]
    <3> DEFINE q == IF n = 0 THEN alu_exec("ADC", job.a, job.b, "C" \in job.fcw, "byte")
                    ELSE alu_exec("DAB", job.a, Num("H" \in job.fcw), "C" \in job.fcw, "byte")
    <3>1. job' = [job EXCEPT !.a = q.value, !.fcw = apply_flags(job.fcw, q)]
      BY DEF Decimal
    <3>2. q = r2
      <4>1. n # 0
        BY <1>3
      <4> HIDE DEF r1, f1
      <4> QED
        BY <2>1, <4>1, Zenon
    <3> HIDE DEF q, r2, f1, r1
    <3> QED
      BY <2>1, <3>1, <3>2
  <2>3. /\ a \in 0..153 /\ a % 16 < 10 /\ b \in 0..153 /\ b % 16 < 10 /\ Bits["byte"] = 8
        /\ ("C" \in given.fcw) \in BOOLEAN
    BY <1>1 DEF DecimalJob
  <2>4. /\ Tens(r2.value) = s % 100 /\ r2.value % 16 < 10
        /\ "C" \in f2 <=> s > 99
    <3> DEFINE carry == "C" \in given.fcw
               old == given.fcw
    <3>1. carry \in BOOLEAN
      BY <2>3, SMTT(30)
    <3> HIDE DEF a, b, carry, old
    <3>2. AddsDecimally(a, b, carry, old)
      BY <2>3, <3>1, DecimalAdd, ZenonT(30)
    <3> QED
      BY <3>2, Zenon DEF AddsDecimally, carry, old
  <2> HIDE DEF r1, f1, r2, f2
  <2>5. job'.a = r2.value /\ job'.fcw = f2
    BY <2>1, <2>2, WriteValue
  <2>6. DecimalRight'
    <3>1. s = (Tens(given.a) + Tens(given.b) + Num("C" \in given.fcw))'
      BY DEF DecimalSum
    <3> HIDE DEF s
    <3> QED
      BY <2>4, <2>5, <3>1 DEF DecimalRight
  <2> QED
    BY <1>1, <1>3, <2>6 DEF DecimalInv
<1> QED
  BY <1>1, <1>2, <1>3

ArithmeticInv ==
  /\ "about" \in DOMAIN job /\ n \in Nat
  /\ job.about = "limbs" => LimbsInv
  /\ job.about = "single" => SingleInv
  /\ job.about = "decimal" => DecimalInv

(* The flags and values of the ALU are those of whole numbers, at every    *)
(* width (do_add, do_sub, do_neg, do_inc, do_dec, do_dab, cond_true).      *)
THEOREM ArithmeticSound == JobSpec => []ArithmeticRight
<1>1. JobInit => ArithmeticInv
  <2> SUFFICES ASSUME JobInit PROVE ArithmeticInv
    OBVIOUS
  <2>1. n = 0 /\ given = job /\ "about" \in DOMAIN job /\ Proper(job)
    BY Begins
  <2> QED
    BY <2>1 DEF Proper, ArithmeticInv, LimbsInv, LimbJobs, SingleInv, SingleJob,
                DecimalInv, DecimalJob
<1>2. ASSUME ArithmeticInv, [JobNext]_jvars PROVE ArithmeticInv'
  <2>1. CASE UNCHANGED jvars
    BY <1>2, <2>1, ZenonT(30) DEF jvars, ArithmeticInv, LimbsInv, SingleInv, DecimalInv, LimbsRight,
                      SingleRight, DecimalRight
  <2>2. CASE JobNext
    <3>1. /\ n \in Nat /\ n' = n + 1 /\ given' = given
          /\ "about" \in DOMAIN job' /\ job'.about = job.about
          /\ job.about = "limbs" => Limb
          /\ job.about = "single" => Single
          /\ job.about = "decimal" => Decimal
      BY <1>2, <2>2, StepOf DEF ArithmeticInv
    <3>2. job.about = "limbs" => LimbsInv'
      BY <1>2, <3>1, LimbsStep DEF ArithmeticInv
    <3>3. job.about = "single" => SingleInv'
      BY <1>2, <3>1, SingleStep DEF ArithmeticInv
    <3>4. job.about = "decimal" => DecimalInv'
      BY <1>2, <3>1, DecimalStep DEF ArithmeticInv
    <3> QED
      BY <3>1, <3>2, <3>3, <3>4 DEF ArithmeticInv
  <2> QED
    BY <1>2, <2>1, <2>2
<1>3. ASSUME LimbsInv, n = 1 PROVE FirstCompared
  <2> DEFINE x == given.x[1]
             y == given.y[1]
             sx == Signed(x, "word")
             sy == Signed(y, "word")
             f == job.fcw
             v == job.x[1]
  <2>1. /\ job.op = given.op /\ given \in LimbJobs
        /\ Sums("word", Sign(given.op), x, y, FALSE, v, f)
    BY <1>3 DEF LimbsInv
  <2>2. x \in Value("word") /\ y \in Value("word") /\ "word" \in Widths
    BY <2>1 DEF LimbJobs, Widths
  <2>3. x \in Nat /\ x < Mod("word") /\ y \in Nat /\ y < Mod("word")
    BY <2>2, LimbValue
  <2>4. SUFFICES ASSUME job.op = "SUB"
                 PROVE  /\ Taken("LE", FALSE, f) = (sx <= sy)
                        /\ Taken("ULE", FALSE, f) = (x <= y)
                        /\ Taken("EQ", TRUE, f) = (x # y)
    BY Zenon DEF FirstCompared
  <2>5. Sums("word", -1, x, y, FALSE, v, f)
    BY <2>1, <2>4 DEF Sign
  <2>6. sx \in Int /\ sy \in Int
    BY <2>2, <2>3, SignedRange
  <2> HIDE DEF x, y, f, v
  <2>7. /\ Less(f) <=> sx < sy
        /\ "Z" \in f <=> sx = sy
        /\ "C" \in f <=> x < y
        /\ "Z" \in f <=> x = y
    BY <2>2, <2>3, <2>5, OneLimb, Zenon
  <2> DEFINE le == Taken("LE", FALSE, f)
             ule == Taken("ULE", FALSE, f)
             ne == Taken("EQ", TRUE, f)
  <2>8. /\ le <=> Less(f) \/ "Z" \in f
        /\ ule <=> "C" \in f \/ "Z" \in f
        /\ ne <=> "Z" \notin f
    BY Conditions
  <2>9. le \in BOOLEAN /\ ule \in BOOLEAN /\ ne \in BOOLEAN
    BY DEF Taken
  <2> HIDE DEF le, ule, ne, sx, sy
  <2>10. (le <=> sx <= sy) /\ (ule <=> x <= y) /\ (ne <=> x # y)
    BY <2>3, <2>6, <2>7, <2>8
  <2>11. le = (sx <= sy) /\ ule = (x <= y) /\ ne = (x # y)
    BY <2>9, <2>10
  <2> QED
    BY <2>11 DEF le, ule, ne, sx, sy
<1>4. ArithmeticInv => ArithmeticRight
  BY <1>3 DEF ArithmeticInv, ArithmeticRight, Done, LimbsInv, SingleInv, DecimalInv
<1> QED
  BY <1>1, <1>2, <1>4, PTL DEF JobSpec

(***************************************************************************)
(* Part five: division.                                                    *)
(*                                                                         *)
(* exec_div divides the absolute values and signs the quotient and the     *)
(* remainder (Truncated); the pair it writes reads back as both (Divided), *)
(* and the pair MULT writes is the exact product (Multiplied, Undone).     *)
(***************************************************************************)

(* Division towards zero: the remainder has the sign of the dividend and   *)
(* is smaller than the divisor.                                            *)
LEMMA Truncated ==
  ASSUME NEW x \in Int, NEW y \in Int, y # 0
  PROVE  /\ Quot(x, y) \in Int /\ Rem(x, y) \in Int
         /\ Quot(x, y) * y + Rem(x, y) = x
         /\ Abs(Rem(x, y)) < Abs(y)
         /\ Rem(x, y) = 0 \/ (Rem(x, y) < 0 <=> x < 0)
         /\ Abs(Quot(x, y)) * Abs(y) <= Abs(x)
<1> DEFINE a == Abs(x)
           d == Abs(y)
           p == a \div d
           s == a % d
           q == Quot(x, y)
           r == Rem(x, y)
<1>1. a \in Nat /\ d \in Nat \ {0}
  BY DEF Abs
<1>2. /\ x = IF x < 0 THEN -a ELSE a
      /\ y = IF y < 0 THEN -d ELSE d
  BY DEF Abs
<1> HIDE DEF a, d
<1>3. p \in Int /\ s \in Nat /\ s < d /\ a = d * p + s
  BY <1>1, DivFacts
<1>4. p \in Nat
  BY <1>1
<1>5. q = p * IF (x < 0) = (y < 0) THEN 1 ELSE -1
  BY DEF Quot, a, d
<1>6. r = x - y * q
  BY DEF Rem
<1> HIDE DEF p, s, q, r
<1>7. q = IF (x < 0 <=> y < 0) THEN p ELSE -p
  BY <1>4, <1>5
<1> DEFINE t == d * p
<1>8. t \in Nat /\ a = t + s
  BY <1>1, <1>3, <1>4
<1>9. y * q = IF x < 0 THEN -t ELSE t
  <2>1. CASE x < 0 /\ y < 0
    BY <1>1, <1>2, <1>4, <1>7, <2>1
  <2>2. CASE x < 0 /\ ~(y < 0)
    BY <1>1, <1>2, <1>4, <1>7, <2>2
  <2>3. CASE ~(x < 0) /\ y < 0
    BY <1>1, <1>2, <1>4, <1>7, <2>3
  <2>4. CASE ~(x < 0) /\ ~(y < 0)
    BY <1>1, <1>2, <1>4, <1>7, <2>4
  <2> QED
    BY <2>1, <2>2, <2>3, <2>4
<1>10. q \in Int /\ q * y = y * q
  BY <1>4, <1>7
<1>11. Abs(q) * d = t
  <2>1. Abs(q) = p
    BY <1>4, <1>7 DEF Abs
  <2> QED
    BY <1>1, <1>4, <2>1
<1> DEFINE u == y * q
<1> HIDE DEF t, u
<1>12. r \in Int /\ u + r = x /\ r = IF x < 0 THEN -s ELSE s
  <2>1. u = IF x < 0 THEN -t ELSE t
    BY <1>9 DEF u
  <2>2. r = x - u
    BY <1>6 DEF u
  <2> QED
    BY <1>2, <1>3, <1>8, <2>1, <2>2
<1>13. q * y = u
  BY <1>10 DEF u
<1>14. Abs(r) = s /\ (r = 0 \/ (r < 0 <=> x < 0))
  BY <1>3, <1>12 DEF Abs
<1>15. q * y + r = x
  BY <1>12, <1>13
<1>16. Abs(q) * d <= a
  BY <1>3, <1>8, <1>11
<1> QED
  BY <1>3, <1>10, <1>12, <1>14, <1>15, <1>16 DEF q, r, a, d

(* Division of a multiple.                                                 *)
LEMMA Exact ==
  ASSUME NEW z \in Int, NEW y \in Int, y # 0
  PROVE  Quot(z * y, y) = z /\ Rem(z * y, y) = 0
<1> DEFINE x == z * y
           a == Abs(z)
           d == Abs(y)
<1>1. a \in Nat /\ d \in Nat \ {0} /\ x \in Int
  BY DEF Abs
<1>2. Abs(x) = d * a
  <2>1. CASE z < 0 /\ y < 0
    BY <2>1 DEF Abs
  <2>2. CASE z < 0 /\ ~(y < 0)
    BY <2>2 DEF Abs
  <2>3. CASE ~(z < 0) /\ y < 0
    BY <2>3 DEF Abs
  <2>4. CASE ~(z < 0) /\ ~(y < 0)
    BY <2>4 DEF Abs
  <2> QED
    BY <2>1, <2>2, <2>3, <2>4
<1>3. Abs(x) \div d = a
  <2>1. Abs(x) = d * a + 0 /\ 0 \in 0..d - 1 /\ a \in Int /\ Abs(x) \in Int
    BY <1>1, <1>2
  <2> HIDE DEF a, d, x
  <2> QED
    BY <1>1, <2>1, DivUnique
<1>4. z # 0 => (x < 0 <=> ~(z < 0 <=> y < 0))
  <2> SUFFICES ASSUME z # 0 PROVE x < 0 <=> ~(z < 0 <=> y < 0)
    OBVIOUS
  <2>1. CASE z < 0 /\ y < 0
    BY <2>1
  <2>2. CASE z < 0 /\ ~(y < 0)
    BY <2>2
  <2>3. CASE ~(z < 0) /\ y < 0
    BY <2>3
  <2>4. CASE ~(z < 0) /\ ~(y < 0)
    BY <2>4
  <2> QED
    BY <2>1, <2>2, <2>3, <2>4
<1>5. Quot(x, y) = a * IF (x < 0) = (y < 0) THEN 1 ELSE -1
  BY <1>3 DEF Quot
<1>6. Quot(x, y) = z
  <2>1. a = IF z < 0 THEN -z ELSE z
    BY DEF Abs
  <2> HIDE DEF x, a
  <2>2. Quot(x, y) = IF (x < 0 <=> y < 0) THEN a ELSE -a
    BY <1>1, <1>5
  <2> QED
    BY <1>1, <1>4, <2>1, <2>2
<1>7. Rem(x, y) = x - y * z
  BY <1>6 DEF Rem
<1>8. y * z = x /\ x \in Int
  OBVIOUS
<1> QED
  BY <1>6, <1>7, <1>8

(* A number within the signed range, kept modulo the width.                *)
LEMMA Stays ==
  ASSUME NEW z \in Int, -Half("word") <= z, z < Half("word")
  PROVE  /\ z % Mod("word") \in Nat /\ z % Mod("word") < Mod("word")
         /\ Signed(z % Mod("word"), "word") = z
<1> DEFINE h == Half("word")
           m == Mod("word")
           v == z % m
<1>1. "word" \in Widths
  BY DEF Widths
<1>2. h \in Nat \ {0} /\ m = 2 * h /\ m \in Nat \ {0} /\ -h <= z /\ z < h
  BY <1>1, Halves
<1> HIDE DEF h, m
<1>3. v = IF z < 0 THEN z + m ELSE z
  <2>1. z >= -m /\ z < 2 * m
    BY <1>2
  <2>2. z % m = IF z < 0 THEN z + m ELSE IF z < m THEN z ELSE z - m
    BY <1>2, <2>1, Around
  <2> QED
    BY <1>2, <2>2
<1>4. v \in Nat /\ v < m
  BY <1>2, <1>3
<1> HIDE DEF v
<1>5. Signed(v, "word") = IF v >= h THEN v - 2 * h ELSE v
  BY <1>1, <1>4, TopBit DEF h, m
<1>6. Signed(v, "word") = z
  BY <1>2, <1>3, <1>5
<1> QED
  BY <1>4, <1>6 DEF v, m

(* The two registers of a pair.                                            *)
LEMMA PairParts ==
  ASSUME NEW m \in Nat \ {0}, NEW hi \in Nat, NEW lo \in Nat, lo < m
  PROVE  /\ (hi * m + lo) \div m = hi /\ (hi * m + lo) % m = lo
<1> DEFINE a == hi * m + lo
<1>1. a = m * hi + lo /\ a \in Int /\ lo \in 0..m - 1
  OBVIOUS
<1> HIDE DEF a
<1>2. a \div m = hi /\ a % m = lo
  BY <1>1, DivUnique
<1> QED
  BY <1>2 DEF a

(* What a division of x by y may leave in a pair v that was old, and in    *)
(* the flags f.                                                            *)
Divides(x, y, k, r) == k * y + r = x /\ Abs(r) < Abs(y) /\ (r = 0 \/ (r < 0) = (x < 0))
DivisionLeft(x, y, old, v, f) ==
  LET m == Mod("word")
      r == Signed(v \div m, "word")
      q == Signed(v % m, "word")
  IN  IF "PV" \notin f THEN Divides(x, y, q, r)
      ELSE IF "C" \in f THEN \E k \in {q + m, q - m} : Divides(x, y, k, r)
      ELSE v = old /\ (y # 0 => Abs(x) >= Abs(y) * m)

(* What exec_div leaves in a pair.                                         *)
LEMMA Divided ==
  ASSUME NEW pair \in Int, NEW b \in Nat, b < Mod("word"), NEW old,
         SignedWide(pair, "word") \in Int,
         exec_div(pair, b, "word") # Undefined
  PROVE  LET r == exec_div(pair, b, "word")
         IN  DivisionLeft(SignedWide(pair, "word"), Signed(b, "word"), pair, r.value,
                          apply_flags(old, r))
<1> DEFINE m == Mod("word")
           h == Half("word")
           x == SignedWide(pair, "word")
           y == Signed(b, "word")
           q == Quot(x, y)
           e == Rem(x, y)
           r == exec_div(pair, b, "word")
           f == apply_flags(old, r)
           far == FarOutside(q, "word")
           just == JustOutside(q, "word")
           flags == IF far THEN {"PV"}
                    ELSE When(just, "C") \cup When(just, "PV")
                         \cup When(q < 0, "S") \cup When(q % m = 0, "Z")
<1>1. "word" \in Widths
  BY DEF Widths
<1>2. h \in Nat \ {0} /\ m = 2 * h /\ m \in Nat \ {0}
  BY <1>1, Halves
<1>3. y \in Int /\ -h <= y /\ y < h /\ x \in Int
  BY <1>1, SignedRange
<1>4. CASE y = 0
  <2>1. r = Result(pair, {"Z", "PV"}, CZSV)
    BY <1>4 DEF exec_div
  <2> HIDE DEF r, x, y
  <2>2. r.value = pair /\ "PV" \in f /\ "C" \notin f
    BY <2>1 DEF apply_flags, Result, CZSV
  <2> HIDE DEF f
  <2>3. DivisionLeft(x, y, pair, r.value, f)
    BY <1>4, <2>2 DEF DivisionLeft
  <2> QED
    BY <2>3 DEF x, y, r, f
<1>5. CASE y # 0
  <2> DEFINE v == IF Kept(q, "word") THEN (e % m) * m + (q % m) ELSE pair
  <2>1. r = Result(v, flags, CZSV)
    <3>1. r = IF Nowhere(q, "word") THEN Undefined ELSE Result(v, flags, CZSV)
      BY <1>5, Zenon DEF exec_div
    <3>2. r # Undefined
      OBVIOUS
    <3> HIDE DEF r, v, flags
    <3> QED
      BY <3>1, <3>2, Zenon
  <2>2. /\ q \in Int /\ e \in Int /\ q * y + e = x /\ Abs(e) < Abs(y)
        /\ e = 0 \/ (e < 0 <=> x < 0)
        /\ Abs(q) * Abs(y) <= Abs(x)
    BY <1>3, <1>5, Truncated
  <2> HIDE DEF x, y, q, e, h, r
  <2>3. /\ far <=> q < -m \/ q > m - 1
        /\ just <=> ~far /\ ~(-h <= q /\ q < h)
        /\ far \in BOOLEAN /\ just \in BOOLEAN
        /\ Kept(q, "word") <=> ~far
    <3>1. m \div 2 = h
      BY <1>2
    <3> HIDE DEF m
    <3>2. Mod("word") = m
      BY DEF m
    <3>3. InRange(q, "word") <=> -h <= q /\ q < h
      BY <1>2, <2>2, <3>1, <3>2 DEF InRange
    <3> QED
      BY <3>2, <3>3 DEF FarOutside, JustOutside, Kept
  <2> HIDE DEF far, just, v, flags
  <2>4. r.value = v /\ ("PV" \in f <=> "PV" \in flags) /\ ("C" \in f <=> "C" \in flags)
    BY <2>1 DEF apply_flags, Result, CZSV
  <2> HIDE DEF f
  <2>5. -h < e /\ e < h
    BY <1>2, <1>3, <2>2 DEF Abs
  <2>6. CASE far
    <3>1. v = pair /\ "PV" \in f /\ "C" \notin f
      BY <2>3, <2>4, <2>6 DEF v, flags
    <3>2. Abs(x) >= Abs(y) * m
      <4> DEFINE a == Abs(q)
                 d == Abs(y)
      <4>1. a \in Nat /\ a >= m /\ d \in Nat /\ Abs(x) \in Nat
        BY <1>2, <1>3, <2>2, <2>3, <2>6 DEF Abs
      <4>2. a * d <= Abs(x)
        BY <2>2
      <4> HIDE DEF a, d, m
      <4>3. a * d >= d * m
        <5>1. (a - m) * d >= 0
          BY <1>2, <4>1
        <5>2. (a - m) * d = a * d - d * m
          BY <1>2, <4>1
        <5>3. a * d \in Int /\ d * m \in Int
          BY <1>2, <4>1
        <5> QED
          BY <5>1, <5>2, <5>3
      <4>4. a * d \in Int /\ d * m \in Int
        BY <1>2, <4>1
      <4> DEFINE ad == a * d
                 dm == d * m
      <4> HIDE DEF ad, dm
      <4>5. Abs(x) >= dm
        <5>1. ad <= Abs(x) /\ ad >= dm /\ ad \in Int /\ dm \in Int
          BY <4>2, <4>3, <4>4 DEF ad, dm
        <5> QED
          BY <4>1, <5>1
      <4> QED
        BY <4>5 DEF dm, d
    <3>3. DivisionLeft(x, y, pair, r.value, f)
      BY <2>4, <3>1, <3>2 DEF DivisionLeft
    <3> QED
      BY <3>3 DEF x, y, r, f
  <2>7. CASE ~far
    <3> DEFINE hi == e % m
               lo == q % m
    <3>1. v = hi * m + lo /\ ("PV" \in f <=> just) /\ ("C" \in f <=> just)
      BY <2>3, <2>4, <2>7 DEF v, flags, When
    <3>2. hi \in Nat /\ hi < m /\ Signed(hi, "word") = e
      BY <1>2, <2>2, <2>5, Stays DEF h
    <3>3. lo \in Nat /\ lo < m
      BY <1>2, <2>2
    <3>4. v \div m = hi /\ v % m = lo
      <4> HIDE DEF hi, lo, m
      <4> QED
        BY <1>2, <3>1, <3>2, <3>3, PairParts, SMTT(30)
    <3> DEFINE z == Signed(lo, "word")
    <3>5. Divides(x, y, q, e)
      BY <2>2 DEF Divides
    <3>6. CASE ~just
      <4>1. -h <= q /\ q < h
        BY <2>3, <2>7, <3>6
      <4>2. z = q
        BY <2>2, <4>1, Stays DEF h
      <4>3. DivisionLeft(x, y, pair, r.value, f)
        BY <2>4, <3>1, <3>2, <3>4, <3>5, <3>6, <4>2 DEF DivisionLeft
      <4> QED
        BY <4>3 DEF x, y, r, f
    <3>7. CASE just
      <4>1. -m <= q /\ q <= m - 1 /\ ~(-h <= q /\ q < h)
        BY <1>2, <2>2, <2>3, <2>7, <3>7
      <4>2. lo = IF q < 0 THEN q + m ELSE q
        <5>1. q >= -m /\ q < 2 * m
          BY <1>2, <2>2, <4>1
        <5>2. q % m = IF q < 0 THEN q + m ELSE IF q < m THEN q ELSE q - m
          <6> HIDE DEF m
          <6> QED
            BY <1>2, <2>2, <5>1, Around
        <5> QED
          BY <1>2, <2>2, <4>1, <5>2
      <4> HIDE DEF lo
      <4>3. z = IF lo >= h THEN lo - 2 * h ELSE lo
        BY <1>1, <3>3, TopBit DEF h
      <4> HIDE DEF z
      <4>4. q = z + m \/ q = z - m
        BY <1>2, <2>2, <3>3, <4>1, <4>2, <4>3
      <4>5. \E k \in {z + m, z - m} : Divides(x, y, k, e)
        BY <3>5, <4>4
      <4>6. DivisionLeft(x, y, pair, r.value, f)
        BY <2>4, <3>1, <3>2, <3>4, <3>7, <4>5 DEF DivisionLeft, z
      <4> QED
        BY <4>6 DEF x, y, r, f
    <3> QED
      BY <2>3, <3>6, <3>7
  <2> QED
    BY <2>3, <2>6, <2>7
<1> QED
  BY <1>4, <1>5

(* The product of two signed limbs, in a pair.                             *)
LEMMA Multiplied ==
  ASSUME NEW a \in Nat, a < Mod("word"), NEW b \in Nat, b < Mod("word")
  PROVE  LET v == exec_mul(a, b, "word").value
         IN  /\ v \in Nat
             /\ SignedWide(v, "word") = Signed(a, "word") * Signed(b, "word")
<1> DEFINE m == Mod("word")
           h == Half("word")
           s == Signed(a, "word")
           t == Signed(b, "word")
           p == s * t
           M == m * m
           H == h * h
           v == exec_mul(a, b, "word").value
<1>1. "word" \in Widths
  BY DEF Widths
<1>2. h \in Nat \ {0} /\ m = 2 * h
  BY <1>1, Halves
<1>3. s \in Int /\ -h <= s /\ s < h /\ t \in Int /\ -h <= t /\ t < h
  BY <1>1, SignedRange
<1>4. v = p % M
  BY DEF exec_mul, Result, Wide
<1>5. Wide("word") = M
  BY DEF Wide
<1> HIDE DEF m, h, s, t, v
<1>6. M = 4 * H /\ H \in Nat \ {0} /\ p \in Int
  BY <1>2, <1>3
<1>7. -H <= p /\ p <= H
  <2>1. (h - s) * (h + t) >= 0 /\ (h + s) * (h - t) >= 0
    <3>1. h - s \in Nat /\ h + t \in Nat /\ h + s \in Nat /\ h - t \in Nat
      BY <1>2, <1>3
    <3> DEFINE x1 == h - s
               x2 == h + t
               x3 == h + s
               x4 == h - t
    <3> HIDE DEF x1, x2, x3, x4
    <3>2. x1 * x2 >= 0 /\ x3 * x4 >= 0
      BY <3>1 DEF x1, x2, x3, x4
    <3> QED
      BY <3>2 DEF x1, x2, x3, x4
  <2>2. (h + s) * (h + t) >= 0 /\ (h - s) * (h - t) >= 0
    <3>1. h - s \in Nat /\ h + t \in Nat /\ h + s \in Nat /\ h - t \in Nat
      BY <1>2, <1>3
    <3> DEFINE x1 == h - s
               x2 == h + t
               x3 == h + s
               x4 == h - t
    <3> HIDE DEF x1, x2, x3, x4
    <3>2. x3 * x2 >= 0 /\ x1 * x4 >= 0
      BY <3>1 DEF x1, x2, x3, x4
    <3> QED
      BY <3>2 DEF x1, x2, x3, x4
  <2>3. /\ (h - s) * (h + t) + (h + s) * (h - t) = 2 * H - 2 * p
        /\ (h + s) * (h + t) + (h - s) * (h - t) = 2 * H + 2 * p
    BY <1>2, <1>3
  <2> DEFINE y1 == (h - s) * (h + t)
             y2 == (h + s) * (h - t)
             y3 == (h + s) * (h + t)
             y4 == (h - s) * (h - t)
  <2>4. /\ y1 >= 0 /\ y2 >= 0 /\ y3 >= 0 /\ y4 >= 0
        /\ y1 + y2 = 2 * H - 2 * p /\ y3 + y4 = 2 * H + 2 * p
    BY <2>1, <2>2, <2>3
  <2>5. y1 \in Int /\ y2 \in Int /\ y3 \in Int /\ y4 \in Int
    BY <1>2, <1>3
  <2> HIDE DEF y1, y2, y3, y4, H, p
  <2> QED
    BY <1>6, <2>4, <2>5
<1> HIDE DEF M, H, p
<1>8. v = IF p < 0 THEN p + M ELSE p
  <2>1. p >= -M /\ p < 2 * M /\ M \in Nat \ {0}
    BY <1>6, <1>7
  <2>2. p % M = IF p < 0 THEN p + M ELSE IF p < M THEN p ELSE p - M
    BY <1>6, <2>1, Around
  <2> QED
    BY <1>4, <1>6, <1>7, <2>2
<1>9. M \div 2 = 2 * H
  BY <1>6
<1>10. v \in Nat /\ SignedWide(v, "word") = p
  BY <1>5, <1>6, <1>7, <1>8, <1>9 DEF SignedWide
<1> QED
  BY <1>10 DEF v, p, s, t

(* DIV by the same number takes the product apart again.                   *)
LEMMA Undone ==
  ASSUME NEW a \in Nat, a < Mod("word"), NEW b \in Nat, b < Mod("word"), b # 0,
         NEW v \in Nat, SignedWide(v, "word") = Signed(a, "word") * Signed(b, "word")
  PROVE  exec_div(v, b, "word").value = a
<1> DEFINE m == Mod("word")
           h == Half("word")
           s == Signed(a, "word")
           y == Signed(b, "word")
           x == SignedWide(v, "word")
<1>1. "word" \in Widths
  BY DEF Widths
<1>2. h \in Nat \ {0} /\ m = 2 * h /\ m \in Nat \ {0} /\ a < m /\ b < m
  BY <1>1, Halves
<1>3. s \in Int /\ -h <= s /\ s < h /\ y \in Int
  BY <1>1, SignedRange
<1>4. /\ s = IF a >= h THEN a - 2 * h ELSE a
      /\ y = IF b >= h THEN b - 2 * h ELSE b
  BY <1>1, TopBit
<1> HIDE DEF h, s, y
<1>5. y # 0
  BY <1>2, <1>4
<1>6. Quot(x, y) = s /\ Rem(x, y) = 0
  <2>1. x = s * y
    BY DEF s, y
  <2> HIDE DEF x
  <2> QED
    BY <1>3, <1>5, <2>1, Exact
<1>7. Kept(s, "word") /\ ~Nowhere(s, "word")
  <2>1. ~(s < -m \/ s > m - 1)
    <3> HIDE DEF m
    <3> QED
      BY <1>2, <1>3
  <2>2. Wide("word") \div 2 >= h
    <3> DEFINE H == h * h
               M == m * m
    <3> HIDE DEF m
    <3>1. M = 4 * H /\ H \in Nat /\ H >= h
      BY <1>2
    <3>2. Wide("word") = M
      BY DEF Wide, m
    <3> HIDE DEF H, M
    <3> QED
      BY <1>2, <3>1, <3>2
  <2>3. ~(s >= Wide("word") \div 2)
    <3> DEFINE W2 == Wide("word") \div 2
    <3>1. W2 \in Int
      <4>1. Wide("word") \in Int
        BY <1>2 DEF Wide
      <4> QED
        BY <4>1
    <3>2. W2 >= h
      BY <2>2
    <3> HIDE DEF W2
    <3>3. ~(s >= W2)
      BY <1>2, <1>3, <3>1, <3>2
    <3> QED
      BY <3>3 DEF W2
  <2> QED
    BY <2>1, <2>3 DEF Kept, FarOutside, Nowhere
<1>8. exec_div(v, b, "word").value = (0 % m) * m + (s % m)
  <2> DEFINE g == IF FarOutside(s, "word") THEN {"PV"}
               ELSE When(JustOutside(s, "word"), "C") \cup When(JustOutside(s, "word"), "PV")
                      \cup When(s < 0, "S") \cup When(s % m = 0, "Z")
             u == (0 % m) * m + (s % m)
  <2> HIDE DEF x, g, u
  <2>1. exec_div(v, b, "word")
          = IF y = 0 THEN Result(v, {"Z", "PV"}, CZSV)
            ELSE IF Nowhere(s, "word") THEN Undefined
            ELSE Result(IF Kept(s, "word") THEN u ELSE v, g, CZSV)
    BY <1>6, Zenon DEF exec_div, x, y, g, u
  <2>2. exec_div(v, b, "word") = Result(u, g, CZSV)
    BY <1>5, <1>7, <2>1, Zenon
  <2>3. exec_div(v, b, "word").value = u
    BY <2>2 DEF Result
  <2> QED
    BY <2>3 DEF u
<1>9. s % m = a
  <2> HIDE DEF m
  <2>1. s >= -m /\ s < 2 * m
    BY <1>2, <1>3
  <2>2. s % m = IF s < 0 THEN s + m ELSE IF s < m THEN s ELSE s - m
    BY <1>2, <1>3, <2>1, Around
  <2> QED
    BY <1>2, <1>4, <2>2
<1>10. (0 % m) * m = 0
  <2> HIDE DEF m
  <2>1. 0 % m = 0
    BY <1>2
  <2> QED
    BY <1>2, <2>1
<1> DEFINE u == (0 % m) * m
           t == s % m
<1>11. exec_div(v, b, "word").value = u + t /\ u = 0 /\ t = a
  BY <1>8, <1>9, <1>10
<1> HIDE DEF u, t
<1> QED
  BY <1>11

QuotientInv ==
  /\ given \in [about : {"quotient"}, pair : 0 .. Wide("word") - 1, b : Value("word"),
                fcw : SUBSET Flags]
  /\ n \in 0..1
  /\ n = 0 => job = given
  /\ n = 1 => QuotientRight

ProductInv ==
  /\ given \in [about : {"product"}, pair : Value("word"), b : Value("word"),
                fcw : SUBSET Flags]
  /\ n \in 0..2
  /\ n = 0 => job = given
  /\ n = 1 => /\ {"pair", "b", "fcw"} \subseteq DOMAIN job /\ job.b = given.b
              /\ job.pair = exec_mul(given.pair % Mod("word"), given.b, "word").value
  /\ n = 2 /\ job.b # 0 => job.pair = given.pair % Mod("word")

(* Writing a pair and the flags.                                           *)
LEMMA WritePair ==
  ASSUME NEW j, {"pair", "b", "fcw"} \subseteq DOMAIN j, NEW v, NEW f
  PROVE  LET k == [j EXCEPT !.pair = v, !.fcw = f]
         IN  /\ {"pair", "b", "fcw"} \subseteq DOMAIN k
             /\ k.pair = v /\ k.fcw = f /\ k.b = j.b
OBVIOUS

(* A division leaves its quotient and remainder.                           *)
LEMMA QuotientStep ==
  ASSUME QuotientInv, job.about = "quotient", Divide, n' = n + 1, given' = given
  PROVE  QuotientInv'
<1> DEFINE p == given.pair
           b == given.b
           r == exec_div(p, b, "word")
           f == apply_flags(given.fcw, r)
<1>1. n = 0 /\ job = given /\ p \in 0..Wide("word") - 1 /\ b \in Value("word")
      /\ {"pair", "b", "fcw"} \subseteq DOMAIN given
  BY DEF QuotientInv, Divide
<1>2. r # Undefined /\ job' = [given EXCEPT !.pair = r.value, !.fcw = f]
  BY <1>1 DEF Divide
<1>3. b \in Nat /\ b < Mod("word")
  BY <1>1, LimbValue
<1>4. p \in Int /\ SignedWide(p, "word") \in Int
  <2>1. "word" \in Widths
    BY DEF Widths
  <2>2. Mod("word") \in Nat
    BY <2>1, Halves
  <2>3. Wide("word") \in Int
    BY <2>2 DEF Wide
  <2> QED
    BY <1>1, <2>3 DEF SignedWide
<1>5. DivisionLeft(SignedWide(p, "word"), Signed(b, "word"), p, r.value, f)
  <2> HIDE DEF p, b
  <2> QED
    BY <1>2, <1>3, <1>4, Divided, Zenon
<1> HIDE DEF r, f
<1>6. job'.pair = r.value /\ job'.fcw = f
  BY <1>1, <1>2, WritePair
<1>7. QuotientRight'
  BY <1>5, <1>6, Zenon DEF QuotientRight, DivisionLeft, Divides
<1> QED
  BY <1>1, <1>7 DEF QuotientInv

(* A multiplication leaves the product, the division takes it apart.       *)
LEMMA ProductStep ==
  ASSUME ProductInv, job.about = "product", Multiply \/ Divide, n' = n + 1, given' = given
  PROVE  ProductInv'
<1> DEFINE m == Mod("word")
           a == given.pair % m
           b == given.b
<1>1. /\ given.pair \in Value("word") /\ b \in Value("word")
      /\ {"pair", "b", "fcw"} \subseteq DOMAIN given
  BY DEF ProductInv
<1>2. "word" \in Widths
  BY DEF Widths
<1>3. b \in Nat /\ b < m /\ a \in Nat /\ a < m
  <2>1. m \in Nat \ {0}
    BY <1>2, Halves
  <2>2. b \in Nat /\ b < m /\ given.pair \in Nat
    BY <1>1, LimbValue
  <2> HIDE DEF m
  <2> QED
    BY <2>1, <2>2
<1>4. CASE n = 0
  <2> DEFINE r == exec_mul(a, b, "word")
             f == apply_flags(given.fcw, r)
  <2>1. job' = [given EXCEPT !.pair = r.value, !.fcw = f]
    <3>1. job = given /\ Multiply
      BY <1>4 DEF ProductInv, Divide
    <3> QED
      BY <3>1 DEF Multiply
  <2> HIDE DEF r, f
  <2>2. {"pair", "b", "fcw"} \subseteq DOMAIN job' /\ job'.pair = r.value /\ job'.b = b
    BY <1>1, <2>1, WritePair
  <2> QED
    BY <1>4, <2>2 DEF ProductInv, r
<1>5. CASE n = 1
  <2> DEFINE v == job.pair
             r == exec_div(v, b, "word")
             f == apply_flags(job.fcw, r)
  <2>1. {"pair", "b", "fcw"} \subseteq DOMAIN job /\ job.b = b /\ v = exec_mul(a, b, "word").value
    BY <1>5 DEF ProductInv
  <2>2. job' = [job EXCEPT !.pair = r.value, !.fcw = f]
    <3>1. Divide
      BY <1>5 DEF Multiply
    <3> QED
      BY <2>1, <3>1 DEF Divide
  <2>3. v \in Nat /\ SignedWide(v, "word") = Signed(a, "word") * Signed(b, "word")
    <3> HIDE DEF a, b
    <3> QED
      BY <1>3, <2>1, Multiplied
  <2> HIDE DEF v
  <2>4. b # 0 => r.value = a
    <3> HIDE DEF a, b
    <3> QED
      BY <1>3, <2>3, Undone
  <2> HIDE DEF r, f
  <2>5. job'.pair = r.value /\ job'.b = b
    BY <2>1, <2>2, WritePair
  <2> QED
    BY <1>5, <2>4, <2>5 DEF ProductInv
<1>6. n \in {0, 1}
  BY DEF ProductInv, Multiply, Divide
<1> QED
  BY <1>4, <1>5, <1>6

DivisionInv ==
  /\ "about" \in DOMAIN job /\ n \in Nat
  /\ job.about = "quotient" => QuotientInv
  /\ job.about = "product" => ProductInv

(* DIV leaves quotient and remainder, or says that it did not, and undoes  *)
(* MULT, at every width (exec_mul, exec_div).                              *)
THEOREM DivisionSound == JobSpec => []DivisionRight
<1>1. JobInit => DivisionInv
  <2> SUFFICES ASSUME JobInit PROVE DivisionInv
    OBVIOUS
  <2>1. n = 0 /\ given = job /\ "about" \in DOMAIN job /\ Proper(job)
    BY Begins
  <2> QED
    BY <2>1 DEF Proper, DivisionInv, QuotientInv, ProductInv
<1>2. ASSUME DivisionInv, [JobNext]_jvars PROVE DivisionInv'
  <2>1. CASE UNCHANGED jvars
    BY <1>2, <2>1, Zenon DEF jvars, DivisionInv, QuotientInv, ProductInv, QuotientRight
  <2>2. CASE JobNext
    <3>1. /\ n \in Nat /\ n' = n + 1 /\ given' = given
          /\ "about" \in DOMAIN job' /\ job'.about = job.about
          /\ job.about = "quotient" => Divide
          /\ job.about = "product" => Multiply \/ Divide
      BY <1>2, <2>2, StepOf DEF DivisionInv
    <3>2. job.about = "quotient" => QuotientInv'
      BY <1>2, <3>1, QuotientStep DEF DivisionInv
    <3>3. job.about = "product" => ProductInv'
      BY <1>2, <3>1, ProductStep DEF DivisionInv
    <3> QED
      BY <3>1, <3>2, <3>3 DEF DivisionInv
  <2> QED
    BY <1>2, <2>1, <2>2
<1>3. DivisionInv => DivisionRight
  BY DEF DivisionInv, DivisionRight, Done, QuotientInv, ProductInv
<1> QED
  BY <1>1, <1>2, <1>3, PTL DEF JobSpec

(***************************************************************************)
(* Part six: the stack.                                                    *)
(*                                                                         *)
(* The word T deep on the stack lies at Slot(T), the pointer stands at it  *)
(* (At), and each instruction moves the pointer by what it stores.  What   *)
(* was pushed is then what the slots hold (StackInv).                      *)
(***************************************************************************)

(* Remainders of what differs by whole segments.                           *)
LEMMA ModShift ==
  ASSUME NEW d \in Nat \ {0}, NEW c \in Int, NEW x \in Int
  PROVE  (c * d + x) % d = x % d
<1> DEFINE q == x \div d
           r == x % d
           a == c * d + x
<1>1. q \in Int /\ r \in Nat /\ r < d /\ x = d * q + r
  BY DivFacts
<1> HIDE DEF q, r
<1>2. a = d * (c + q) + r /\ c + q \in Int /\ a \in Int /\ r \in 0..d - 1
  BY <1>1
<1> HIDE DEF a
<1>3. a % d = r
  <2> DEFINE p == c + q
  <2>1. a = d * p + r /\ p \in Int
    BY <1>2
  <2> HIDE DEF p
  <2> QED
    BY <1>2, <2>1, DivUnique
<1> QED
  BY <1>3 DEF a, r

(* Reducing early changes nothing.                                         *)
LEMMA ModTwice ==
  ASSUME NEW d \in Nat \ {0}, NEW x \in Int, NEW y \in Int
  PROVE  ((x % d) + y) % d = (x + y) % d
<1> DEFINE q == x \div d
           r == x % d
           p == -q
           z == x + y
<1>1. q \in Int /\ r \in Nat /\ x = d * q + r
  BY DivFacts
<1>2. p \in Int /\ z \in Int
  BY <1>1
<1> HIDE DEF q, r
<1>3. r + y = p * d + z
  <2>1. p * d = -(d * q)
    BY <1>1
  <2> DEFINE pd == p * d
             dq == d * q
  <2>2. pd = -dq /\ dq \in Int /\ x = dq + r
    BY <1>1, <2>1
  <2> HIDE DEF pd, dq
  <2>3. r + y = pd + (x + y)
    BY <1>1, <2>2
  <2> QED
    BY <2>3 DEF pd
<1> HIDE DEF p
<1>4. (p * d + z) % d = z % d
  <2> HIDE DEF z
  <2> QED
    BY <1>2, ModShift
<1> QED
  BY <1>3, <1>4 DEF r

(* Within a segment addresses do not repeat.                               *)
LEMMA ModApart ==
  ASSUME NEW d \in Nat \ {0}, NEW x \in Int, NEW y \in Int, x < y, y - x < d
  PROVE  x % d # y % d
<1> DEFINE p == x \div d
           q == y \div d
           r == x % d
           s == y % d
<1>1. p \in Int /\ q \in Int /\ r \in Nat /\ s \in Nat /\ x = d * p + r /\ y = d * q + s
  BY DivFacts
<1> HIDE DEF p, q, r, s
<1>2. SUFFICES ASSUME r = s PROVE FALSE
  BY DEF r, s
<1> DEFINE dp == d * p
           dq == d * q
<1>3. dp < dq /\ dq - dp < d /\ dp \in Int /\ dq \in Int
  <2>1. dp \in Int /\ dq \in Int /\ x = dp + r /\ y = dq + r
    BY <1>1, <1>2
  <2> HIDE DEF dp, dq
  <2> QED
    BY <1>1, <2>1
<1>4. CASE p < q
  <2>1. d * p + d <= d * q
    BY <1>1, <1>4, Monotone
  <2>2. dp + d <= dq
    BY <2>1
  <2> HIDE DEF dp, dq
  <2> QED
    BY <1>3, <2>2
<1>5. CASE q < p
  <2>1. d * q + d <= d * p
    BY <1>1, <1>5, Monotone
  <2>2. dq + d <= dp
    BY <2>1
  <2> HIDE DEF dp, dq
  <2> QED
    BY <1>3, <2>2
<1>6. CASE p = q
  BY <1>3, <1>6
<1> QED
  BY <1>1, <1>4, <1>5, <1>6

(* Segment and offset of an address.                                       *)
LEMMA SegmentOffset ==
  ASSUME NEW c \in 0..Segs - 1, NEW o \in 0..W - 1
  PROVE  /\ c * W + o \in Addr
         /\ (c * W + o) \div W = c /\ SegOf(c * W + o) = c * W /\ Off(c * W + o) = o
<1>1. W \in Nat \ {0} /\ Segs \in Nat \ {0}
  BY StackAssumption
<1> DEFINE a == c * W + o
           S == Segs * W
           P == c * W
<1>2. a = W * c + o /\ a \in Int
  BY <1>1
<1>3. a \div W = c /\ a % W = o
  <2> HIDE DEF a
  <2> QED
    BY <1>1, <1>2, DivUnique
<1>4. P + W <= S /\ P \in Nat /\ S \in Nat
  <2>1. c < Segs
    BY <1>1
  <2>2. W * c + W <= W * Segs
    BY <1>1, <2>1, Monotone
  <2>3. W * c = P /\ W * Segs = S /\ P \in Nat /\ S \in Nat
    BY <1>1
  <2> QED
    BY <2>2, <2>3
<1>5. P + o \in 0..S - 1
  <2> HIDE DEF P, S
  <2> QED
    BY <1>1, <1>4
<1> QED
  BY <1>3, <1>5 DEF Addr, SegOf, Off

(* An address is its segment and its offset.                               *)
LEMMA AddressParts ==
  ASSUME NEW a \in Addr
  PROVE  /\ a \div W \in 0..Segs - 1 /\ Off(a) \in 0..W - 1
         /\ a = (a \div W) * W + Off(a) /\ SegOf(a) = (a \div W) * W
<1>1. W \in Nat \ {0} /\ Segs \in Nat \ {0}
  BY StackAssumption
<1> DEFINE S == Segs * W
           q == a \div W
           r == a % W
<1>2. S \in Nat
  BY <1>1
<1>3. a \in Nat /\ a < S
  <2>1. a \in 0..S - 1
    BY DEF Addr
  <2> HIDE DEF S
  <2> QED
    BY <1>2, <2>1
<1>4. q \in Int /\ r \in Nat /\ r < W /\ a = W * q + r
  BY <1>1, <1>3, DivFacts
<1>5. q \in Nat
  BY <1>1, <1>3
<1> HIDE DEF q, r
<1>6. q < Segs
  <2> SUFFICES ASSUME ~(q < Segs) PROVE FALSE
    OBVIOUS
  <2>1. (q - Segs) * W >= 0
    BY <1>1, <1>5
  <2>2. (q - Segs) * W = W * q - S
    BY <1>1, <1>5
  <2> DEFINE P == W * q
  <2>3. P >= S /\ P \in Nat /\ a = P + r
    BY <1>1, <1>2, <1>4, <1>5, <2>1, <2>2
  <2> HIDE DEF P, S
  <2> QED
    BY <1>2, <1>3, <1>4, <2>3
<1>7. W * q = q * W
  BY <1>1, <1>5
<1> QED
  BY <1>1, <1>4, <1>5, <1>6, <1>7 DEF q, r, Off, SegOf

Machines == [segd : BOOLEAN, pc : Addr, mem : [Addr -> Nat],
             sp : [seg : 0 .. Segs - 1, off : 0 .. W - 1]]

(* The segment the stack is in, the offset d words deep, its address.      *)
Bottom(g)     == IF g.segd THEN g.sp.seg ELSE g.pc \div W
Place(g, d) == (g.sp.off - 2 * d) % W
Slot(g, d)  == Bottom(g) * W + Place(g, d)

(* A machine m that began as g has T words on its stack.                   *)
At(g, m, T) ==
  /\ m \in Machines /\ m.segd = g.segd /\ m.sp.seg = g.sp.seg
  /\ m.sp.off = Place(g, T)
  /\ ~g.segd => m.pc \div W = Bottom(g)

(* A slot is an address; moving the offset moves to another slot.          *)
LEMMA Slots ==
  ASSUME NEW g \in Machines, NEW d \in Int, NEW k \in Int
  PROVE  /\ Bottom(g) \in 0..Segs - 1 /\ Place(g, d) \in 0..W - 1
         /\ Slot(g, d) \in Addr /\ SegOf(Slot(g, d)) = Bottom(g) * W
         /\ Slot(g, d) \div W = Bottom(g) /\ Off(Slot(g, d)) = Place(g, d)
         /\ Bottom(g) * W + ((Slot(g, d) + 2 * k) % W) = Slot(g, d - k)
         /\ (Place(g, d) + 2 * k) % W = Place(g, d - k)
<1> DEFINE o == g.sp.off
           B == Bottom(g)
           x == o - 2 * d
           p == x % W
<1>1. W \in Nat \ {0} /\ o \in Int /\ x \in Int
  BY StackAssumption DEF Machines
<1>2. B \in 0..Segs - 1
  <2>1. g.pc \in Addr /\ g.sp.seg \in 0..Segs - 1
    BY DEF Machines
  <2>2. g.pc \div W \in 0..Segs - 1
    BY <2>1, AddressParts
  <2> QED
    BY <2>1, <2>2 DEF Bottom
<1>3. p \in 0..W - 1 /\ p = Place(g, d)
  <2>1. p \in Nat /\ p < W
    <3> HIDE DEF x
    <3> QED
      BY <1>1, DivFacts
  <2> QED
    BY <1>1, <2>1 DEF Place
<1> HIDE DEF B, p
<1>4. /\ B * W + p \in Addr
      /\ (B * W + p) \div W = B /\ SegOf(B * W + p) = B * W /\ Off(B * W + p) = p
  BY <1>2, <1>3, SegmentOffset
<1>5. Slot(g, d) = B * W + p
  BY <1>3 DEF Slot, B
<1>6. (p + 2 * k) % W = Place(g, d - k)
  <2> DEFINE y == 2 * k
  <2>1. ((x % W) + y) % W = (x + y) % W
    <3> HIDE DEF x, y
    <3>1. y \in Int
      BY DEF y
    <3> QED
      BY <1>1, <3>1, ModTwice
  <2>2. x + y = o - 2 * (d - k)
    BY <1>1
  <2> QED
    BY <2>1, <2>2 DEF p, Place
<1>7. (B * W + p + 2 * k) % W = (p + 2 * k) % W
  <2> DEFINE y == p + 2 * k
  <2>1. y \in Int /\ B \in Int
    BY <1>1, <1>2, <1>3
  <2>2. B * W + p + 2 * k = B * W + y
    <3> DEFINE P == B * W
    <3>1. P \in Int
      BY <1>1, <2>1
    <3> HIDE DEF P
    <3>2. P + p + 2 * k = P + y
      BY <1>1, <1>3, <3>1
    <3> QED
      BY <3>2 DEF P
  <2> HIDE DEF y
  <2>3. (B * W + y) % W = y % W
    BY <1>1, <2>1, ModShift
  <2> QED
    BY <2>2, <2>3 DEF y
<1>8. Bottom(g) * W + ((Slot(g, d) + 2 * k) % W) = Slot(g, d - k)
  <2>1. (Slot(g, d) + 2 * k) % W = Place(g, d - k)
    BY <1>5, <1>6, <1>7
  <2> QED
    BY <2>1 DEF Slot
<1> QED
  BY <1>2, <1>3, <1>4, <1>5, <1>6, <1>8 DEF B

(* The slots of a stack within its bound are apart.                        *)
LEMMA SlotsApart ==
  ASSUME NEW g \in Machines, NEW d \in 1..MaxStack, NEW e \in 1..MaxStack, d # e
  PROVE  Slot(g, d) # Slot(g, e)
<1>1. W \in Nat \ {0} /\ MaxStack \in Nat /\ MaxStack * 2 <= W
  BY StackAssumption, JobsAssumption
<1>2. ASSUME NEW i \in 1..MaxStack, NEW j \in 1..MaxStack, i < j
      PROVE  Place(g, i) # Place(g, j)
  <2> DEFINE x == g.sp.off - 2 * j
             y == g.sp.off - 2 * i
  <2>1. g.sp.off \in Int
    BY <1>1 DEF Machines
  <2>2. x \in Int /\ y \in Int /\ x < y /\ y - x < W
    BY <1>1, <1>2, <2>1
  <2> HIDE DEF x, y
  <2>3. x % W # y % W
    BY <1>1, <2>2, ModApart
  <2> QED
    BY <2>3 DEF Place, x, y
<1>3. Place(g, d) # Place(g, e)
  <2>1. d < e \/ e < d
    BY <1>1
  <2> QED
    BY <1>2, <2>1
<1>4. Off(Slot(g, d)) = Place(g, d) /\ Off(Slot(g, e)) = Place(g, e)
  <2>1. d \in Int /\ e \in Int /\ 0 \in Int
    BY <1>1
  <2> QED
    BY <2>1, Slots
<1> QED
  BY <1>3, <1>4

(* The address in the stack pointer.                                       *)
LEMMA PointsAt ==
  ASSUME NEW g \in Machines, NEW m, NEW T \in Int, At(g, m, T)
  PROVE  /\ addr_from_reg(m) = Slot(g, T) /\ Slot(g, T) \in Addr
         /\ \A k \in Int : addr_add(addr_from_reg(m), 2 * k) = Slot(g, T - k)
         /\ Top(m) = m.mem[Slot(g, T)]
<1>1. /\ m \in Machines /\ m.segd = g.segd /\ m.sp.seg = g.sp.seg
      /\ m.sp.off = Place(g, T)
      /\ ~g.segd => m.pc \div W = Bottom(g)
  BY DEF At
<1>2. addr_from_reg(m) = Slot(g, T)
  <2>1. CASE g.segd
    BY <1>1, <2>1 DEF addr_from_reg, Slot, Bottom
  <2>2. CASE ~g.segd
    <3>1. SegOf(m.pc) = Bottom(g) * W
      BY <1>1, <2>2 DEF SegOf
    <3> QED
      BY <1>1, <2>2, <3>1 DEF addr_from_reg, Slot
  <2> QED
    BY <2>1, <2>2
<1>3. ASSUME NEW k \in Int PROVE addr_add(Slot(g, T), 2 * k) = Slot(g, T - k)
  <2>1. /\ SegOf(Slot(g, T)) = Bottom(g) * W
        /\ Bottom(g) * W + ((Slot(g, T) + 2 * k) % W) = Slot(g, T - k)
    BY Slots
  <2> QED
    BY <2>1 DEF addr_add
<1>4. Slot(g, T) \in Addr
  BY Slots, 0 \in Int
<1> QED
  BY <1>2, <1>3, <1>4 DEF Top, mem_r16

(* The stack pointer set to a slot.                                        *)
LEMMA PointTo ==
  ASSUME NEW g \in Machines, NEW m, NEW T \in Int, At(g, m, T), NEW U \in Int
  PROVE  LET k == addr_to_reg(m, Slot(g, U))
         IN  At(g, k, U) /\ k.mem = m.mem /\ k.pc = m.pc
<1> DEFINE a == Slot(g, U)
           k == addr_to_reg(m, a)
<1>1. /\ m \in Machines /\ m.segd = g.segd /\ m.sp.seg = g.sp.seg
      /\ ~g.segd => m.pc \div W = Bottom(g)
  BY DEF At
<1>2. a \div W = Bottom(g) /\ Off(a) = Place(g, U) /\ Bottom(g) \in 0..Segs - 1
      /\ Place(g, U) \in 0..W - 1
  BY Slots, 0 \in Int
<1> HIDE DEF a
<1>3. k = [m EXCEPT !.sp = [seg |-> IF m.segd THEN a \div W ELSE m.sp.seg, off |-> Off(a)]]
  BY DEF addr_to_reg
<1>4. (IF m.segd THEN a \div W ELSE m.sp.seg) = g.sp.seg
  BY <1>1, <1>2 DEF Bottom
<1>5. k = [m EXCEPT !.sp = [seg |-> g.sp.seg, off |-> Place(g, U)]]
  BY <1>2, <1>3, <1>4
<1> HIDE DEF k
<1>6. g.sp.seg \in 0..Segs - 1
  BY DEF Machines
<1>7. k \in Machines /\ k.segd = m.segd /\ k.pc = m.pc /\ k.mem = m.mem
      /\ k.sp.seg = g.sp.seg /\ k.sp.off = Place(g, U)
  BY <1>1, <1>2, <1>5, <1>6 DEF Machines
<1> QED
  BY <1>1, <1>7 DEF At, k, a

(* A word written.                                                         *)
LEMMA Written ==
  ASSUME NEW g, NEW m, NEW T, At(g, m, T), NEW a \in Addr, NEW v \in Nat
  PROVE  LET k == mem_w16(m, a, v)
         IN  At(g, k, T) /\ k.mem = [m.mem EXCEPT ![a] = v] /\ k.pc = m.pc
<1> DEFINE k == mem_w16(m, a, v)
<1>1. k = [m EXCEPT !.mem = [m.mem EXCEPT ![a] = v]]
  BY DEF mem_w16
<1>2. m \in Machines
  BY DEF At
<1> HIDE DEF k
<1>3. /\ k \in Machines /\ k.segd = m.segd /\ k.pc = m.pc /\ k.sp = m.sp
      /\ k.mem = [m.mem EXCEPT ![a] = v]
  BY <1>1, <1>2 DEF Machines
<1> QED
  BY <1>3 DEF At, k

(* The words an entry takes up, and how it lies t words deep in memory.    *)
Entry == [kind : {"word", "return"}, v : Nat]
Words(g, e) == IF e.kind = "return" /\ g.segd THEN 2 ELSE 1
Lies(g, mem, e, t) ==
  IF e.kind = "word" THEN mem[Slot(g, t)] = e.v
  ELSE /\ e.v \in Addr
       /\ g.segd => mem[Slot(g, t)] = SegWord(e.v) /\ mem[Slot(g, t - 1)] = Off(e.v)
       /\ ~g.segd => mem[Slot(g, t)] = Off(e.v) /\ e.v \div W = Bottom(g)

(* How deep each entry of P lies.                                          *)
Heights(g, P, h) ==
  /\ h \in [1 .. Len(P) + 1 -> Nat] /\ h[Len(P) + 1] = 0
  /\ \A i \in 1 .. Len(P) : h[i] = h[i + 1] + Words(g, P[i])
  /\ \A i, j \in 1 .. Len(P) + 1 : i <= j => h[j] <= h[i]

(* The entries P, newest first, lie in memory, T words in all.             *)
Stacked(g, mem, P, T) ==
  \E h : Heights(g, P, h) /\ h[1] = T /\ \A i \in 1 .. Len(P) : Lies(g, mem, P[i], h[i])

Returns(P) == {i \in DOMAIN P : P[i].kind = "return"}
DepthOf(P) == Len(P) + Cardinality(Returns(P))

(* One more entry.                                                         *)
LEMMA ConsParts ==
  ASSUME NEW S, NEW e \in S, NEW P \in Seq(S)
  PROVE  /\ <<e>> \o P \in Seq(S) /\ Len(<<e>> \o P) = Len(P) + 1 /\ Len(P) \in Nat
         /\ (<<e>> \o P)[1] = e
         /\ \A i \in 1 .. Len(P) : (<<e>> \o P)[i + 1] = P[i]
OBVIOUS

(* A sequence is its first and the rest.                                   *)
LEMMA TailParts ==
  ASSUME NEW S, NEW P \in Seq(S), P # <<>>
  PROVE  LET Q == SubSeq(P, 2, Len(P))
         IN  /\ P[1] \in S /\ Q \in Seq(S) /\ P = <<P[1]>> \o Q /\ Len(P) = Len(Q) + 1
<1> DEFINE Q == SubSeq(P, 2, Len(P))
<1>1. Len(P) \in Nat /\ Len(P) >= 1 /\ P[1] \in S
  OBVIOUS
<1>2. /\ Q \in Seq(S) /\ Len(Q) = Len(P) - 1
      /\ \A i \in 1 .. Len(Q) : Q[i] = P[i + 1]
  <2>1. \A i \in 2 .. Len(P) : P[i] \in S
    BY <1>1
  <2>2. /\ Q \in Seq(S) /\ Len(Q) = IF 2 <= Len(P) THEN Len(P) - 2 + 1 ELSE 0
        /\ \A i \in 1 .. Len(P) - 2 + 1 : Q[i] = P[2 + i - 1]
    BY <1>1, <2>1, SubSeqProperties
  <2> HIDE DEF Q
  <2>3. Len(Q) = Len(P) - 1
    <3> DEFINE k == Len(P)
               l == Len(Q)
    <3>1. k \in Nat /\ k >= 1 /\ l = IF 2 <= k THEN k - 2 + 1 ELSE 0
      BY <1>1, <2>2
    <3> HIDE DEF k, l
    <3>2. l = k - 1
      BY <3>1
    <3> QED
      BY <3>2 DEF k, l
  <2>4. ASSUME NEW i \in 1 .. Len(Q) PROVE Q[i] = P[i + 1]
    <3>1. i \in 1 .. Len(P) - 2 + 1 /\ 2 + i - 1 = i + 1
      BY <1>1, <2>3
    <3>2. Q[i] = P[2 + i - 1]
      BY <2>2, <3>1
    <3> QED
      BY <3>1, <3>2
  <2> QED
    BY <2>2, <2>3, <2>4
<1>3. \A i \in 1 .. Len(Q) : Q[i] = P[i + 1]
  BY <1>2
<1> HIDE DEF Q
<1>4. P = <<P[1]>> \o Q
  <2>1. /\ <<P[1]>> \o Q \in Seq(S) /\ Len(<<P[1]>> \o Q) = Len(Q) + 1
        /\ (<<P[1]>> \o Q)[1] = P[1]
        /\ \A i \in 1 .. Len(Q) : (<<P[1]>> \o Q)[i + 1] = Q[i]
    BY <1>1, <1>2, ConsParts
  <2> DEFINE R == <<P[1]>> \o Q
  <2> HIDE DEF R
  <2>2. R \in Seq(S) /\ Len(R) = Len(P) /\ R[1] = P[1]
    BY <1>1, <1>2, <2>1 DEF R
  <2>3. ASSUME NEW i \in 1 .. Len(P) PROVE R[i] = P[i]
    <3>1. CASE i = 1
      BY <2>2, <3>1
    <3>2. CASE i # 1
      <4>1. i - 1 \in 1 .. Len(Q) /\ (i - 1) + 1 = i
        BY <1>1, <1>2, <3>2
      <4>2. R[(i - 1) + 1] = Q[i - 1] /\ Q[i - 1] = P[(i - 1) + 1]
        BY <1>3, <2>1, <4>1 DEF R
      <4> QED
        BY <4>1, <4>2
    <3> QED
      BY <3>1, <3>2
  <2>4. R = P
    BY <2>2, <2>3
  <2> QED
    BY <2>4 DEF R
<1> QED
  BY <1>1, <1>2, <1>4 DEF Q

(* An entry more makes the stack one or two deeper.                        *)
LEMMA DepthCons ==
  ASSUME NEW e \in Entry, NEW P \in Seq(Entry)
  PROVE  /\ DepthOf(P) \in Nat
         /\ DepthOf(<<e>> \o P) = DepthOf(P) + (IF e.kind = "return" THEN 2 ELSE 1)
<1> DEFINE Q == <<e>> \o P
           A == Returns(P)
           f == [i \in A |-> i + 1]
           B == {i + 1 : i \in A}
<1>1. /\ Q \in Seq(Entry) /\ Len(Q) = Len(P) + 1 /\ Len(P) \in Nat /\ Q[1] = e
      /\ \A i \in 1 .. Len(P) : Q[i + 1] = P[i]
  BY ConsParts
<1> HIDE DEF Q
<1>2. DOMAIN P = 1 .. Len(P) /\ DOMAIN Q = 1 .. Len(P) + 1
  BY <1>1
<1>3. A \subseteq 1 .. Len(P) /\ IsFiniteSet(A)
  <2>1. A \subseteq 1 .. Len(P)
    BY <1>2 DEF Returns
  <2>2. IsFiniteSet(1 .. Len(P))
    BY <1>1, FS_Interval
  <2> QED
    BY <2>1, <2>2, FS_Subset
<1>4. IsFiniteSet(B) /\ Cardinality(B) = Cardinality(A)
  <2>1. f \in Bijection(A, B)
    <3>1. f \in [A -> B] /\ \A i, j \in A : f[i] = f[j] => i = j
      BY <1>1, <1>3
    <3>2. \A b \in B : \E i \in A : f[i] = b
      OBVIOUS
    <3> QED
      BY <3>1, <3>2 DEF Bijection, Injection, Surjection, IsInjective
  <2> HIDE DEF f, B
  <2> QED
    BY <1>3, <2>1, FS_Bijection DEF ExistsBijection
<1>5. Returns(Q) = IF e.kind = "return" THEN B \cup {1} ELSE B
  <2>1. \A i : i \in Returns(Q) => i \in B \/ (i = 1 /\ e.kind = "return")
    <3> SUFFICES ASSUME NEW i \in Returns(Q), i # 1 PROVE i \in B
      BY <1>1 DEF Returns
    <3>1. i \in 1 .. Len(P) + 1 /\ Q[i].kind = "return"
      BY <1>2 DEF Returns
    <3>2. i - 1 \in 1 .. Len(P) /\ (i - 1) + 1 = i
      BY <1>1, <3>1
    <3>3. P[i - 1] = Q[i]
      BY <1>1, <3>2
    <3>4. i - 1 \in A
      BY <1>2, <3>1, <3>2, <3>3 DEF Returns
    <3> QED
      BY <3>2, <3>4
  <2>2. ASSUME NEW b \in B PROVE b \in Returns(Q)
    <3>1. PICK i \in A : b = i + 1
      OBVIOUS
    <3>2. i \in 1 .. Len(P) /\ P[i].kind = "return"
      BY <1>2 DEF Returns
    <3>3. b \in 1 .. Len(P) + 1 /\ Q[b] = P[i]
      BY <1>1, <3>1, <3>2
    <3> QED
      BY <1>2, <3>2, <3>3 DEF Returns
  <2>3. e.kind = "return" => 1 \in Returns(Q)
    BY <1>1, <1>2 DEF Returns
  <2> QED
    BY <2>1, <2>2, <2>3
<1>6. 1 \notin B
  BY <1>1, <1>3
<1> HIDE DEF A, B
<1>7. Cardinality(A) \in Nat
  BY <1>3, FS_CardinalityType
<1>8. Cardinality(Returns(Q)) = Cardinality(A) + (IF e.kind = "return" THEN 1 ELSE 0)
  <2>1. CASE e.kind = "return"
    <3>1. Cardinality(B \cup {1}) = Cardinality(B) + 1
      BY <1>4, <1>6, FS_AddElement
    <3> QED
      BY <1>4, <1>5, <2>1, <3>1
  <2>2. CASE e.kind # "return"
    BY <1>4, <1>5, <1>7, <2>2
  <2> QED
    BY <2>1, <2>2
<1>9. DepthOf(P) = Len(P) + Cardinality(A) /\ DepthOf(Q) = Len(P) + 1 + Cardinality(Returns(Q))
  BY <1>1 DEF DepthOf, A
<1> QED
  BY <1>1, <1>7, <1>8, <1>9 DEF Q

(* An entry's words are one or two.                                        *)
LEMMA OneOrTwo ==
  ASSUME NEW g, NEW e
  PROVE  Words(g, e) \in {1, 2}
BY DEF Words

(* Nothing lies on an empty stack.                                         *)
LEMMA NothingStacked ==
  ASSUME NEW g, NEW mem
  PROVE  /\ Stacked(g, mem, <<>>, 0)
         /\ \A T : Stacked(g, mem, <<>>, T) => T = 0
<1>1. Stacked(g, mem, <<>>, 0)
  <2> DEFINE h == [i \in 1 .. 1 |-> 0]
  <2>1. h \in [1 .. Len(<<>>) + 1 -> Nat] /\ h[Len(<<>>) + 1] = 0 /\ h[1] = 0
        /\ 1 .. Len(<<>>) = {}
    OBVIOUS
  <2> HIDE DEF h
  <2> QED
    BY <2>1 DEF Stacked, Heights
<1>2. ASSUME NEW T, Stacked(g, mem, <<>>, T) PROVE T = 0
  <2>1. PICK h : Heights(g, <<>>, h) /\ h[1] = T
    BY <1>2 DEF Stacked
  <2>2. h[Len(<<>>) + 1] = 0 /\ Len(<<>>) + 1 = 1
    BY <2>1 DEF Heights
  <2> QED
    BY <2>1, <2>2
<1> QED
  BY <1>1, <1>2

(* An entry pushed: it lies above the others, which lie as they did.       *)
LEMMA PushedOn ==
  ASSUME NEW g \in Machines, NEW old, NEW mem, NEW P \in Seq(Entry), NEW e \in Entry,
         NEW T \in Nat, Stacked(g, old, P, T),
         \A t \in 1 .. T : mem[Slot(g, t)] = old[Slot(g, t)],
         Lies(g, mem, e, T + Words(g, e))
  PROVE  Stacked(g, mem, <<e>> \o P, T + Words(g, e))
<1>1. PICK h : /\ Heights(g, P, h) /\ h[1] = T
               /\ \A i \in 1 .. Len(P) : Lies(g, old, P[i], h[i])
  BY DEF Stacked
<1> DEFINE Q == <<e>> \o P
           U == T + Words(g, e)
           k == [i \in 1 .. Len(Q) + 1 |-> IF i = 1 THEN U ELSE h[i - 1]]
<1>2. /\ Q \in Seq(Entry) /\ Len(Q) = Len(P) + 1 /\ Len(P) \in Nat /\ Q[1] = e
      /\ \A i \in 1 .. Len(P) : Q[i + 1] = P[i]
  BY ConsParts
<1> HIDE DEF Q
<1>3. /\ h \in [1 .. Len(P) + 1 -> Nat] /\ h[Len(P) + 1] = 0
      /\ \A i \in 1 .. Len(P) : h[i] = h[i + 1] + Words(g, P[i])
      /\ \A i, j \in 1 .. Len(P) + 1 : i <= j => h[j] <= h[i]
  BY <1>1 DEF Heights
<1>4. Words(g, e) \in {1, 2}
  BY OneOrTwo
<1>5. U \in Nat /\ T < U /\ U = T + Words(g, e)
  BY <1>4
<1> HIDE DEF U
<1>6. /\ k \in [1 .. Len(Q) + 1 -> Nat] /\ k[1] = U
      /\ \A i \in 1 .. Len(P) + 1 : k[i + 1] = h[i]
  <2>1. ASSUME NEW i \in 1 .. Len(Q) + 1 PROVE (IF i = 1 THEN U ELSE h[i - 1]) \in Nat
    <3>1. i # 1 => i - 1 \in 1 .. Len(P) + 1
      BY <1>2
    <3> QED
      BY <1>3, <1>5, <3>1
  <2>2. ASSUME NEW i \in 1 .. Len(P) + 1 PROVE k[i + 1] = h[i]
    <3>1. i + 1 \in 1 .. Len(Q) + 1 /\ i + 1 # 1 /\ (i + 1) - 1 = i
      BY <1>2
    <3> QED
      BY <3>1
  <2>3. 1 \in 1 .. Len(Q) + 1
    BY <1>2
  <2> QED
    BY <2>1, <2>2, <2>3
<1> HIDE DEF k
<1>7. ASSUME NEW i \in 1 .. Len(Q)
      PROVE  k[i] = k[i + 1] + Words(g, Q[i]) /\ Lies(g, mem, Q[i], k[i])
  <2>1. CASE i = 1
    <3>1. k[1 + 1] = h[1] /\ 1 \in 1 .. Len(P) + 1
      BY <1>2, <1>6
    <3>2. k[i] = U /\ k[i + 1] = T /\ Q[i] = e
      BY <1>1, <1>2, <1>6, <2>1, <3>1
    <3>3. Lies(g, mem, Q[i], k[i])
      BY <1>5, <3>2
    <3> QED
      BY <1>5, <1>6, <3>2, <3>3
  <2>2. CASE i # 1
    <3>1. PICK j \in 1 .. Len(P) : i = j + 1
      <4>1. i - 1 \in 1 .. Len(P) /\ i = (i - 1) + 1
        BY <1>2, <2>2
      <4> QED
        BY <4>1
    <3>2. j \in 1 .. Len(P) + 1 /\ j + 1 \in 1 .. Len(P) + 1
      BY <1>2
    <3>3. k[i] = h[j] /\ k[i + 1] = h[j + 1] /\ Q[i] = P[j]
      BY <1>2, <1>6, <3>1, <3>2
    <3>4. h[j] = h[j + 1] + Words(g, P[j]) /\ h[j] <= T /\ h[j] \in Nat /\ h[j + 1] \in Nat
      <4>1. h[j] <= h[1] /\ h[j] = h[j + 1] + Words(g, P[j])
        BY <1>2, <1>3, <3>2
      <4> QED
        BY <1>1, <1>3, <3>2, <4>1
    <3>5. Lies(g, old, P[j], h[j]) /\ Words(g, P[j]) \in {1, 2}
      BY <1>1, OneOrTwo
    <3>6. h[j] \in 1 .. T
      BY <3>4, <3>5
    <3>7. mem[Slot(g, h[j])] = old[Slot(g, h[j])]
      BY <3>6
    <3>8. P[j].kind # "word" /\ g.segd => mem[Slot(g, h[j] - 1)] = old[Slot(g, h[j] - 1)]
      <4> SUFFICES ASSUME P[j].kind # "word", g.segd
                   PROVE  mem[Slot(g, h[j] - 1)] = old[Slot(g, h[j] - 1)]
        OBVIOUS
      <4>1. P[j] \in Entry
        BY <1>2
      <4>2. P[j].kind = "return"
        BY <4>1 DEF Entry
      <4>3. Words(g, P[j]) = 2
        BY <4>2 DEF Words
      <4>4. h[j] - 1 \in 1 .. T
        BY <3>4, <4>3
      <4> QED
        BY <4>4
    <3>9. Lies(g, mem, P[j], h[j])
      BY <3>5, <3>7, <3>8 DEF Lies
    <3> QED
      BY <1>5, <1>6, <3>3, <3>4, <3>9
  <2> QED
    BY <2>1, <2>2
<1>8. k[Len(Q) + 1] = 0
  <2>1. Len(P) + 1 \in 1 .. Len(P) + 1
    BY <1>2
  <2>2. k[(Len(P) + 1) + 1] = h[Len(P) + 1]
    BY <1>6, <2>1
  <2> QED
    BY <1>2, <1>3, <2>2
<1>9. ASSUME NEW i \in 1 .. Len(Q) + 1, NEW j \in 1 .. Len(Q) + 1, i <= j
      PROVE  k[j] <= k[i]
  <2>1. ASSUME NEW m \in 1 .. Len(Q) + 1, m # 1
        PROVE  m - 1 \in 1 .. Len(P) + 1 /\ k[m] = h[m - 1]
    <3>1. m - 1 \in 1 .. Len(P) + 1 /\ (m - 1) + 1 = m
      BY <1>2, <2>1
    <3>2. k[(m - 1) + 1] = h[m - 1]
      BY <1>6, <3>1
    <3> QED
      BY <3>1, <3>2
  <2>2. CASE j = 1
    BY <1>2, <1>9, <1>5, <1>6, <2>2
  <2>3. CASE i = 1 /\ j # 1
    <3>1. j - 1 \in 1 .. Len(P) + 1 /\ k[j] = h[j - 1] /\ 1 \in 1 .. Len(P) + 1
      BY <1>2, <2>1, <2>3
    <3>2. h[j - 1] <= h[1] /\ h[j - 1] \in Nat
      BY <1>2, <1>3, <3>1
    <3> QED
      BY <1>1, <1>5, <1>6, <2>3, <3>1, <3>2
  <2>4. CASE i # 1 /\ j # 1
    <3>1. /\ i - 1 \in 1 .. Len(P) + 1 /\ k[i] = h[i - 1]
          /\ j - 1 \in 1 .. Len(P) + 1 /\ k[j] = h[j - 1]
      BY <2>1, <2>4
    <3>2. i - 1 <= j - 1
      BY <1>2, <1>9
    <3>3. h[j - 1] <= h[i - 1]
      BY <1>3, <3>1, <3>2
    <3> QED
      BY <3>1, <3>3
  <2> QED
    BY <2>2, <2>3, <2>4
<1>10. Heights(g, Q, k)
  BY <1>6, <1>7, <1>8, <1>9 DEF Heights
<1> QED
  BY <1>6, <1>7, <1>10 DEF Stacked, Q, U

(* An entry taken off: it lay on top, and the others lie as they did.      *)
LEMMA TakenOff ==
  ASSUME NEW g \in Machines, NEW mem, NEW P \in Seq(Entry), P # <<>>,
         NEW T \in Nat, Stacked(g, mem, P, T)
  PROVE  /\ Lies(g, mem, P[1], T) /\ Words(g, P[1]) <= T
         /\ Stacked(g, mem, SubSeq(P, 2, Len(P)), T - Words(g, P[1]))
<1>1. PICK h : /\ Heights(g, P, h) /\ h[1] = T
               /\ \A i \in 1 .. Len(P) : Lies(g, mem, P[i], h[i])
  BY DEF Stacked
<1> DEFINE Q == SubSeq(P, 2, Len(P))
           k == [i \in 1 .. Len(Q) + 1 |-> h[i + 1]]
<1>2. P[1] \in Entry /\ Q \in Seq(Entry) /\ P = <<P[1]>> \o Q /\ Len(P) = Len(Q) + 1
  BY TailParts
<1> HIDE DEF Q
<1>3. Len(Q) \in Nat /\ \A i \in 1 .. Len(Q) : P[i + 1] = Q[i]
  <2>1. Len(Q) \in Nat /\ \A i \in 1 .. Len(Q) : (<<P[1]>> \o Q)[i + 1] = Q[i]
    BY <1>2, ConsParts
  <2> QED
    BY <1>2, <2>1
<1>4. /\ h \in [1 .. Len(P) + 1 -> Nat] /\ h[Len(P) + 1] = 0
      /\ \A i \in 1 .. Len(P) : h[i] = h[i + 1] + Words(g, P[i])
      /\ \A i, j \in 1 .. Len(P) + 1 : i <= j => h[j] <= h[i]
  BY <1>1 DEF Heights
<1>5. 1 \in 1 .. Len(P) /\ 2 \in 1 .. Len(P) + 1 /\ 1 + 1 = 2 /\ 1 \in 1 .. Len(P) + 1
  BY <1>2, <1>3
<1>6. T = h[2] + Words(g, P[1]) /\ Lies(g, mem, P[1], T) /\ h[2] \in Nat
      /\ Words(g, P[1]) \in {1, 2}
  BY <1>1, <1>4, <1>5, OneOrTwo
<1>7. /\ k \in [1 .. Len(Q) + 1 -> Nat] /\ k[1] = h[2] /\ k[Len(Q) + 1] = 0
      /\ \A i \in 1 .. Len(Q) + 1 : k[i] = h[i + 1]
  <2>1. \A i \in 1 .. Len(Q) + 1 : i + 1 \in 1 .. Len(P) + 1
    BY <1>2, <1>3
  <2>2. 1 \in 1 .. Len(Q) + 1 /\ Len(Q) + 1 \in 1 .. Len(Q) + 1
    BY <1>3
  <2>3. k \in [1 .. Len(Q) + 1 -> Nat]
    BY <1>4, <2>1
  <2>4. k[1] = h[1 + 1] /\ k[Len(Q) + 1] = h[(Len(Q) + 1) + 1]
    BY <2>2
  <2> QED
    BY <1>2, <1>4, <1>5, <2>3, <2>4
<1> HIDE DEF k
<1>8. ASSUME NEW i \in 1 .. Len(Q)
      PROVE  k[i] = k[i + 1] + Words(g, Q[i]) /\ Lies(g, mem, Q[i], k[i])
  <2>1. i \in 1 .. Len(Q) + 1 /\ i + 1 \in 1 .. Len(Q) + 1 /\ i + 1 \in 1 .. Len(P)
        /\ i + 1 \in 1 .. Len(P) + 1 /\ (i + 1) + 1 \in 1 .. Len(P) + 1
    BY <1>2, <1>3
  <2>2. k[i] = h[i + 1] /\ k[i + 1] = h[(i + 1) + 1] /\ P[i + 1] = Q[i]
    BY <1>3, <1>7, <2>1
  <2>3. h[i + 1] = h[(i + 1) + 1] + Words(g, P[i + 1]) /\ Lies(g, mem, P[i + 1], h[i + 1])
    BY <1>1, <1>4, <2>1
  <2> QED
    BY <2>2, <2>3
<1>9. ASSUME NEW i \in 1 .. Len(Q) + 1, NEW j \in 1 .. Len(Q) + 1, i <= j
      PROVE  k[j] <= k[i]
  <2>1. i + 1 \in 1 .. Len(P) + 1 /\ j + 1 \in 1 .. Len(P) + 1 /\ i + 1 <= j + 1
    BY <1>2, <1>3, <1>9
  <2> QED
    BY <1>4, <1>7, <2>1
<1>10. Heights(g, Q, k)
  BY <1>7, <1>8, <1>9 DEF Heights
<1>11. Words(g, P[1]) <= T /\ T - Words(g, P[1]) = h[2]
  BY <1>6
<1>12. Stacked(g, mem, Q, h[2])
  BY <1>7, <1>8, <1>10 DEF Stacked
<1> QED
  BY <1>6, <1>11, <1>12 DEF Q

(* Moving inside the segment.                                              *)
LEMMA AddSlots ==
  ASSUME NEW g \in Machines, NEW d \in Int, NEW k \in Int
  PROVE  addr_add(Slot(g, d), 2 * k) = Slot(g, d - k)
<1>1. /\ SegOf(Slot(g, d)) = Bottom(g) * W
      /\ Bottom(g) * W + ((Slot(g, d) + 2 * k) % W) = Slot(g, d - k)
  BY Slots
<1> QED
  BY <1>1 DEF addr_add

(* Where the next word or long word goes, unless the offset runs below     *)
(* zero in non-segmented mode.                                             *)
LEMMA BelowSlots ==
  ASSUME NEW g \in Machines, NEW m, NEW T \in Int, At(g, m, T), NEW k \in {1, 2},
         m.segd \/ m.sp.off >= 2 * k
  PROVE  Below(m, 2 * k) = Slot(g, T + k)
<1> DEFINE a == Slot(g, T)
           o == Place(g, T)
           B == Bottom(g)
           P == B * W
           S == Segs * W
<1>1. W \in Nat \ {0} /\ Segs \in Nat \ {0} /\ k \in Int /\ -k \in Int /\ T - (-k) = T + k
  BY StackAssumption
<1>2. addr_from_reg(m) = a /\ m.sp.off = o
  BY PointsAt DEF At
<1>3. /\ B \in 0..Segs - 1 /\ o \in 0..W - 1 /\ a \in Addr /\ SegOf(a) = B * W
      /\ B * W + ((a + 2 * (-k)) % W) = Slot(g, T + k)
      /\ (o + 2 * (-k)) % W = Place(g, T + k)
  <2>1. /\ B \in 0..Segs - 1 /\ o \in 0..W - 1 /\ a \in Addr /\ SegOf(a) = B * W
        /\ B * W + ((a + 2 * (-k)) % W) = Slot(g, T - (-k))
        /\ (o + 2 * (-k)) % W = Place(g, T - (-k))
    BY <1>1, Slots
  <2> QED
    BY <1>1, <2>1
<1>4. a = P + o
  BY DEF Slot
<1> HIDE DEF a, o, B
<1>5. a \in Int
  BY <1>1, <1>3 DEF Addr
<1>6. CASE m.segd
  <2>1. a - 2 * k = a + 2 * (-k)
    BY <1>1, <1>5
  <2>2. addr_sub(a, 2 * k) = B * W + ((a + 2 * (-k)) % W)
    BY <1>3, <2>1 DEF addr_sub
  <2> QED
    BY <1>2, <1>3, <1>6, <2>2 DEF Below
<1>7. CASE ~m.segd
  <2> DEFINE p == o - 2 * k
  <2>1. p \in 0..W - 1 /\ p = o + 2 * (-k)
    BY <1>1, <1>2, <1>3, <1>7
  <2>2. p % W = p
    <3> HIDE DEF p
    <3> QED
      BY <1>1, <2>1
  <2>3. B * W + p \in Addr
    <3> HIDE DEF p
    <3> QED
      BY <1>3, <2>1, SegmentOffset
  <2>4. a - 2 * k = B * W + p /\ P \in Int
    <3>1. P \in Int
      BY <1>1, <1>3
    <3> HIDE DEF P
    <3>2. a - 2 * k = P + p
      BY <1>1, <1>3, <1>4, <3>1
    <3> QED
      BY <3>1, <3>2 DEF P
  <2> HIDE DEF p
  <2>5. (B * W + p) % S = B * W + p
    <3> DEFINE x == B * W + p
    <3>1. x \in 0..S - 1 /\ S \in Nat
      BY <1>1, <2>3 DEF Addr
    <3> HIDE DEF x, S
    <3>2. S > 0
      BY <3>1
    <3>3. x % S = x
      BY <3>1, <3>2
    <3> QED
      BY <3>3 DEF x
  <2>6. Slot(g, T + k) = B * W + p
    BY <1>3, <2>1, <2>2 DEF Slot, B
  <2> QED
    BY <1>2, <1>7, <2>4, <2>5, <2>6 DEF Below
<1> QED
  BY <1>6, <1>7

(* The program counter moved, in non-segmented mode within its segment.    *)
LEMMA Jumped ==
  ASSUME NEW g \in Machines, NEW m, NEW T, At(g, m, T), NEW p \in Addr,
         ~g.segd => p \div W = Bottom(g)
  PROVE  LET k == [m EXCEPT !.pc = p]
         IN  At(g, k, T) /\ k.mem = m.mem /\ k.pc = p
<1> DEFINE k == [m EXCEPT !.pc = p]
<1>1. m \in Machines
  BY DEF At
<1>2. k \in Machines /\ k.segd = m.segd /\ k.pc = p /\ k.sp = m.sp /\ k.mem = m.mem
  BY <1>1 DEF Machines
<1> HIDE DEF k
<1> QED
  BY <1>2 DEF At, k

(* push_word.                                                              *)
LEMMA PushWordMoves ==
  ASSUME NEW g \in Machines, NEW m, NEW T \in Nat, At(g, m, T), NEW v \in Nat
  PROVE  LET k == push_word(m, v)
         IN  /\ At(g, k, T + 1) /\ k.pc = m.pc
             /\ k.mem = [m.mem EXCEPT ![Slot(g, T + 1)] = v]
<1> DEFINE a == Slot(g, T + 1)
           b == IF m.segd THEN addr_sub(addr_from_reg(m), 2)
                ELSE SegOf(m.pc) + ((m.sp.off - 2) % W)
           j == addr_to_reg(m, a)
<1>1. b = a
  <2>1. CASE m.segd
    <3>1. Below(m, 2 * 1) = Slot(g, T + 1)
      <4>1. 1 \in {1, 2} /\ T \in Int
        OBVIOUS
      <4> QED
        BY <2>1, <4>1, BelowSlots
    <3>2. Below(m, 2) = addr_sub(addr_from_reg(m), 2)
      BY <2>1 DEF Below
    <3> QED
      BY <2>1, <3>1, <3>2
  <2>2. CASE ~m.segd
    <3>1. SegOf(m.pc) = Bottom(g) * W /\ m.sp.off = Place(g, T)
      BY <2>2 DEF At, SegOf
    <3>2. (Place(g, T) + 2 * (-1)) % W = Place(g, T - (-1)) /\ Place(g, T) \in 0..W - 1
      <4>1. T \in Int /\ -1 \in Int
        OBVIOUS
      <4> QED
        BY <4>1, Slots
    <3>3. T - (-1) = T + 1 /\ Place(g, T) + 2 * (-1) = Place(g, T) - 2
      BY <3>2, StackAssumption
    <3> QED
      BY <2>2, <3>1, <3>2, <3>3 DEF Slot
  <2> QED
    BY <2>1, <2>2
<1>2. push_word(m, v) = mem_w16(addr_to_reg(m, b), b, v)
  BY DEF push_word
<1>3. push_word(m, v) = mem_w16(j, a, v)
  BY <1>1, <1>2
<1>4. At(g, j, T + 1) /\ j.mem = m.mem /\ j.pc = m.pc
  <2>1. T \in Int /\ T + 1 \in Int
    OBVIOUS
  <2> QED
    BY <2>1, PointTo
<1>5. a \in Addr
  <2>1. T + 1 \in Int /\ 0 \in Int
    OBVIOUS
  <2> QED
    BY <2>1, Slots
<1> HIDE DEF a, j
<1>6. LET k == mem_w16(j, a, v)
      IN  At(g, k, T + 1) /\ k.mem = [j.mem EXCEPT ![a] = v] /\ k.pc = j.pc
  BY <1>4, <1>5, Written
<1> QED
  BY <1>3, <1>4, <1>6 DEF a

(* PUSH and PUSHL.                                                         *)
LEMMA PushMoves ==
  ASSUME NEW g \in Machines, NEW m, NEW T \in Nat, At(g, m, T), NEW v \in Nat,
         m.segd \/ m.sp.off >= 2
  PROVE  LET k == Push(m, v)
         IN  At(g, k, T + 1) /\ k.mem = [m.mem EXCEPT ![Slot(g, T + 1)] = v]
<1> DEFINE a == Slot(g, T + 1)
           j == addr_to_reg(m, a)
<1>1. Below(m, 2) = a
  <2>1. 1 \in {1, 2} /\ T \in Int /\ 2 * 1 = 2
    OBVIOUS
  <2>2. Below(m, 2 * 1) = Slot(g, T + 1)
    BY <2>1, BelowSlots
  <2> QED
    BY <2>1, <2>2
<1>2. Push(m, v) = mem_w16(j, a, v)
  BY <1>1 DEF Push
<1>3. At(g, j, T + 1) /\ j.mem = m.mem /\ j.pc = m.pc
  <2>1. T \in Int /\ T + 1 \in Int
    OBVIOUS
  <2> QED
    BY <2>1, PointTo
<1>4. a \in Addr
  <2>1. T + 1 \in Int /\ 0 \in Int
    OBVIOUS
  <2> QED
    BY <2>1, Slots
<1> HIDE DEF a, j
<1>5. LET k == mem_w16(j, a, v)
      IN  At(g, k, T + 1) /\ k.mem = [j.mem EXCEPT ![a] = v] /\ k.pc = j.pc
  BY <1>3, <1>4, Written
<1> QED
  BY <1>2, <1>3, <1>5 DEF a

(* PUSHL stores two words and moves the pointer below both.                *)
LEMMA PushLMoves ==
  ASSUME NEW g \in Machines, NEW m, NEW T \in Nat, At(g, m, T), NEW v \in Nat, NEW u \in Nat,
         m.segd \/ m.sp.off >= 4
  PROVE  LET k == PushL(m, v, u)
         IN  /\ At(g, k, T + 2)
             /\ k.mem = [[m.mem EXCEPT ![Slot(g, T + 2)] = v] EXCEPT ![Slot(g, T + 1)] = u]
<1> DEFINE a == Slot(g, T + 2)
           b == Slot(g, T + 1)
           j == addr_to_reg(m, a)
           i == mem_w16(j, a, v)
<1>1. Below(m, 4) = a
  <2>1. 2 \in {1, 2} /\ T \in Int /\ 2 * 2 = 4
    OBVIOUS
  <2>2. Below(m, 2 * 2) = Slot(g, T + 2)
    BY <2>1, BelowSlots
  <2> QED
    BY <2>1, <2>2
<1>2. addr_add(a, 2) = b
  <2>1. T + 2 \in Int /\ 1 \in Int /\ 2 * 1 = 2 /\ (T + 2) - 1 = T + 1
    OBVIOUS
  <2>2. addr_add(Slot(g, T + 2), 2 * 1) = Slot(g, (T + 2) - 1)
    BY <2>1, AddSlots
  <2> QED
    BY <2>1, <2>2
<1>3. PushL(m, v, u) = mem_w16(i, b, u)
  BY <1>1, <1>2 DEF PushL
<1>4. At(g, j, T + 2) /\ j.mem = m.mem /\ j.pc = m.pc
  <2>1. T \in Int /\ T + 2 \in Int
    OBVIOUS
  <2> QED
    BY <2>1, PointTo
<1>5. a \in Addr /\ b \in Addr
  <2>1. T + 1 \in Int /\ T + 2 \in Int /\ 0 \in Int
    OBVIOUS
  <2> QED
    BY <2>1, Slots
<1> HIDE DEF a, b, j
<1>6. At(g, i, T + 2) /\ i.mem = [j.mem EXCEPT ![a] = v] /\ i.pc = j.pc
  BY <1>4, <1>5, Written
<1> HIDE DEF i
<1>7. LET k == mem_w16(i, b, u)
      IN  At(g, k, T + 2) /\ k.mem = [i.mem EXCEPT ![b] = u] /\ k.pc = i.pc
  BY <1>5, <1>6, Written
<1> QED
  BY <1>3, <1>4, <1>6, <1>7 DEF a, b

(* POP and POPL, and pop_word.                                             *)
LEMMA PopMoves ==
  ASSUME NEW g \in Machines, NEW m, NEW T \in Nat, At(g, m, T)
  PROVE  /\ At(g, Pop(m), T - 1) /\ Pop(m).mem = m.mem /\ Pop(m).pc = m.pc
         /\ At(g, PopL(m), T - 2) /\ PopL(m).mem = m.mem
         /\ Popped(m) = Pop(m)
         /\ Top(m) = m.mem[Slot(g, T)]
         /\ Long(m) = <<m.mem[Slot(g, T)], m.mem[Slot(g, T - 1)]>>
<1>1. T \in Int /\ T - 1 \in Int /\ T - 2 \in Int /\ 2 * 1 = 2 /\ 2 * 2 = 4
      /\ 1 \in Int /\ 2 \in Int
  OBVIOUS
<1>2. /\ addr_add(addr_from_reg(m), 2 * 1) = Slot(g, T - 1)
      /\ addr_add(addr_from_reg(m), 2 * 2) = Slot(g, T - 2)
      /\ Top(m) = m.mem[Slot(g, T)]
  <2>1. /\ \A k \in Int : addr_add(addr_from_reg(m), 2 * k) = Slot(g, T - k)
        /\ Top(m) = m.mem[Slot(g, T)]
    BY <1>1, PointsAt
  <2> QED
    BY <1>1, <2>1
<1>3. /\ addr_add(addr_from_reg(m), 2) = Slot(g, T - 1)
      /\ addr_add(addr_from_reg(m), 4) = Slot(g, T - 2)
  BY <1>1, <1>2
<1>4. /\ Pop(m) = addr_to_reg(m, Slot(g, T - 1)) /\ PopL(m) = addr_to_reg(m, Slot(g, T - 2))
      /\ Popped(m) = Pop(m)
      /\ Long(m) = <<m.mem[Slot(g, T)], m.mem[Slot(g, T - 1)]>>
  BY <1>2, <1>3 DEF Pop, PopL, Popped, Long, mem_r16
<1>5. LET k == addr_to_reg(m, Slot(g, T - 1))
      IN  At(g, k, T - 1) /\ k.mem = m.mem /\ k.pc = m.pc
  BY <1>1, PointTo
<1>6. LET k == addr_to_reg(m, Slot(g, T - 2))
      IN  At(g, k, T - 2) /\ k.mem = m.mem /\ k.pc = m.pc
  BY <1>1, PointTo
<1> QED
  BY <1>2, <1>4, <1>5, <1>6

(* The segment word and the offset of an address give it back, and so does *)
(* the offset in the address's own segment.                                *)
LEMMA AddressBack ==
  ASSUME NEW a \in Addr
  PROVE  /\ seg_addr(SegWord(a), Off(a)) = a /\ SegOf(a) + Off(a) = a
         /\ SegWord(a) \in Nat /\ Off(a) \in Nat
<1>1. W \in Nat \ {0} /\ Segs \in Nat \ {0}
  BY StackAssumption
<1> DEFINE q == a \div W
           o == Off(a)
<1>2. q \in 0..Segs - 1 /\ o \in 0..W - 1 /\ a = q * W + o /\ SegOf(a) = q * W
  BY AddressParts
<1> HIDE DEF q, o
<1>3. (Segs + q) % Segs = q
  <2> DEFINE x == Segs + q
  <2>1. x = Segs * 1 + q /\ x \in Int
    BY <1>1, <1>2
  <2> HIDE DEF x
  <2>2. x % Segs = q
    BY <1>1, <1>2, <2>1, DivUnique
  <2> QED
    BY <2>2 DEF x
<1>4. seg_addr(SegWord(a), o) = q * W + o
  BY <1>3 DEF seg_addr, SegWord, q
<1>5. SegWord(a) \in Nat /\ o \in Nat
  BY <1>1, <1>2 DEF SegWord, q
<1> QED
  BY <1>2, <1>4, <1>5 DEF o

(* A call: the pointer is below the return address, which lies there; the  *)
(* words above it are as they were.                                        *)
LEMMA CallMoves ==
  ASSUME NEW g \in Machines, NEW m, NEW T \in Nat, At(g, m, T), NEW a \in Addr,
         T + Words(g, Return(m.pc)) <= MaxStack
  PROVE  LET k == Call(m, a)
             e == Return(m.pc)
         IN  /\ At(g, k, T + Words(g, e)) /\ Lies(g, k.mem, e, T + Words(g, e))
             /\ \A t \in 1 .. T : k.mem[Slot(g, t)] = m.mem[Slot(g, t)]
<1> DEFINE e == Return(m.pc)
           j == PushPc(m)
           k == Call(m, a)
           p == IF m.segd THEN a ELSE SegOf(j.pc) + Off(a)
<1>1. m \in Machines /\ m.segd = g.segd /\ m.pc \in Addr /\ m.mem \in [Addr -> Nat]
      /\ (~g.segd => m.pc \div W = Bottom(g))
  BY DEF At, Machines
<1>2. SegWord(m.pc) \in Nat /\ Off(m.pc) \in Nat
  BY <1>1, AddressBack
<1>3. e.kind = "return" /\ e.v = m.pc
  BY DEF Return
<1>4. MaxStack \in Nat
  BY JobsAssumption
<1>5. \A t \in 1 .. MaxStack : Slot(g, t) \in Addr
  <2>1. \A t \in 1 .. MaxStack : t \in Int
    BY <1>4
  <2> QED
    BY <2>1, Slots, 0 \in Int
<1>6. CASE g.segd
  <2> DEFINE i == push_word(m, Off(m.pc))
  <2>1. j = push_word(i, SegWord(m.pc))
    BY <1>1, <1>6 DEF PushPc
  <2>2. At(g, i, T + 1) /\ i.pc = m.pc /\ i.mem = [m.mem EXCEPT ![Slot(g, T + 1)] = Off(m.pc)]
    BY <1>2, PushWordMoves
  <2> HIDE DEF i
  <2>3. /\ At(g, j, (T + 1) + 1) /\ j.pc = i.pc
        /\ j.mem = [i.mem EXCEPT ![Slot(g, (T + 1) + 1)] = SegWord(m.pc)]
    <3>1. T + 1 \in Nat
      OBVIOUS
    <3> QED
      BY <1>2, <2>1, <2>2, <3>1, PushWordMoves
  <2>4. Words(g, e) = 2 /\ T + Words(g, e) = (T + 1) + 1 /\ (T + Words(g, e)) - 1 = T + 1
    BY <1>3, <1>6 DEF Words
  <2>5. k = [j EXCEPT !.pc = a]
    BY <1>1, <1>6 DEF Call
  <2> HIDE DEF j, k, e
  <2>6. LET q == [j EXCEPT !.pc = a]
        IN  At(g, q, (T + 1) + 1) /\ q.mem = j.mem /\ q.pc = a
    BY <1>6, <2>3, Jumped
  <2>7. At(g, k, T + Words(g, e)) /\ k.mem = j.mem
    BY <2>4, <2>5, <2>6
  <2> DEFINE s == Slot(g, T + 1)
             r == Slot(g, (T + 1) + 1)
  <2>8. T + 1 \in 1 .. MaxStack /\ (T + 1) + 1 \in 1 .. MaxStack /\ T + 1 # (T + 1) + 1
    BY <1>4, <2>4 DEF e
  <2>9. s \in Addr /\ r \in Addr /\ s # r
    BY <1>5, <2>8, SlotsApart
  <2>10. ASSUME NEW t \in 1 .. T PROVE Slot(g, t) \in Addr \ {s, r}
    <3>1. t \in 1 .. MaxStack /\ t # T + 1 /\ t # (T + 1) + 1
      BY <1>4, <2>8
    <3> QED
      BY <1>5, <2>8, <3>1, SlotsApart
  <2> HIDE DEF s, r
  <2>11. i.mem = [m.mem EXCEPT ![s] = Off(m.pc)] /\ k.mem = [i.mem EXCEPT ![r] = SegWord(m.pc)]
    BY <2>2, <2>3, <2>7 DEF s, r
  <2>12. /\ k.mem[r] = SegWord(m.pc) /\ k.mem[s] = Off(m.pc)
         /\ \A b \in Addr \ {s, r} : k.mem[b] = m.mem[b]
    BY <1>1, <2>9, <2>11
  <2>13. Lies(g, k.mem, e, T + Words(g, e))
    <3>1. k.mem[Slot(g, T + Words(g, e))] = SegWord(e.v)
          /\ k.mem[Slot(g, (T + Words(g, e)) - 1)] = Off(e.v)
      BY <1>3, <2>4, <2>12 DEF s, r, e
    <3>2. e.kind # "word" /\ e.v \in Addr
      BY <1>1, <1>3 DEF e
    <3> QED
      BY <1>6, <3>1, <3>2 DEF Lies
  <2> QED
    BY <2>7, <2>10, <2>12, <2>13 DEF e, k
<1>7. CASE ~g.segd
  <2>1. j = push_word(m, Off(m.pc))
    BY <1>1, <1>7 DEF PushPc
  <2>2. At(g, j, T + 1) /\ j.pc = m.pc /\ j.mem = [m.mem EXCEPT ![Slot(g, T + 1)] = Off(m.pc)]
    BY <1>2, <2>1, PushWordMoves
  <2>3. Words(g, e) = 1 /\ T + Words(g, e) = T + 1
    BY <1>3, <1>7 DEF Words
  <2>4. k = [j EXCEPT !.pc = SegOf(j.pc) + Off(a)]
    BY <1>1, <1>7 DEF Call
  <2>5. SegOf(j.pc) + Off(a) \in Addr /\ (SegOf(j.pc) + Off(a)) \div W = Bottom(g)
    <3>1. SegOf(j.pc) = Bottom(g) * W
      BY <1>1, <1>7, <2>2 DEF SegOf
    <3>2. Off(a) \in 0..W - 1
      BY AddressParts
    <3>3. Bottom(g) \in 0..Segs - 1
      BY Slots, 0 \in Int
    <3> QED
      BY <3>1, <3>2, <3>3, SegmentOffset
  <2> DEFINE x == SegOf(j.pc) + Off(a)
  <2> HIDE DEF j, k, e, x
  <2>6. LET q == [j EXCEPT !.pc = x]
        IN  At(g, q, T + 1) /\ q.mem = j.mem /\ q.pc = x
    <3>1. x \in Addr /\ x \div W = Bottom(g)
      BY <2>5 DEF x
    <3> QED
      BY <2>2, <3>1, Jumped
  <2>7. At(g, k, T + Words(g, e)) /\ k.mem = j.mem
    BY <2>3, <2>4, <2>6 DEF x
  <2> DEFINE s == Slot(g, T + 1)
  <2>8. T + 1 \in 1 .. MaxStack
    BY <1>4, <2>3 DEF e
  <2>9. s \in Addr
    BY <1>5, <2>8
  <2>10. ASSUME NEW t \in 1 .. T PROVE Slot(g, t) \in Addr \ {s}
    <3>1. t \in 1 .. MaxStack /\ t # T + 1
      BY <1>4, <2>8
    <3> QED
      BY <1>5, <2>8, <3>1, SlotsApart
  <2> HIDE DEF s
  <2>11. k.mem = [m.mem EXCEPT ![s] = Off(m.pc)]
    BY <2>2, <2>7 DEF s
  <2>12. k.mem[s] = Off(m.pc) /\ \A b \in Addr \ {s} : k.mem[b] = m.mem[b]
    BY <1>1, <2>9, <2>11
  <2>13. Lies(g, k.mem, e, T + Words(g, e))
    <3>1. k.mem[Slot(g, T + Words(g, e))] = Off(e.v) /\ e.v \div W = Bottom(g)
      BY <1>1, <1>3, <1>7, <2>3, <2>12 DEF s, e
    <3>2. e.kind # "word" /\ e.v \in Addr
      BY <1>1, <1>3 DEF e
    <3> QED
      BY <1>7, <3>1, <3>2 DEF Lies
  <2> QED
    BY <2>7, <2>10, <2>12, <2>13 DEF e, k
<1> QED
  BY <1>6, <1>7

(* A return: the program counter is what the call had put there.           *)
LEMMA RetMoves ==
  ASSUME NEW g \in Machines, NEW m, NEW T \in Nat, At(g, m, T), NEW e \in Entry,
         e.kind = "return", Lies(g, m.mem, e, T), Words(g, e) <= T
  PROVE  /\ At(g, Ret(m), T - Words(g, e))
         /\ Ret(m).mem = m.mem /\ Ret(m).pc = e.v
<1> DEFINE j == Pop(m)
           k == Ret(m)
<1>1. m \in Machines /\ m.segd = g.segd /\ (~g.segd => m.pc \div W = Bottom(g))
  BY DEF At
<1>2. /\ e.v \in Addr
      /\ g.segd => m.mem[Slot(g, T)] = SegWord(e.v) /\ m.mem[Slot(g, T - 1)] = Off(e.v)
      /\ ~g.segd => m.mem[Slot(g, T)] = Off(e.v) /\ e.v \div W = Bottom(g)
  BY DEF Lies
<1>3. /\ At(g, j, T - 1) /\ j.mem = m.mem /\ j.pc = m.pc /\ Popped(m) = j
      /\ Top(m) = m.mem[Slot(g, T)]
  BY PopMoves
<1>4. seg_addr(SegWord(e.v), Off(e.v)) = e.v /\ SegOf(e.v) + Off(e.v) = e.v
  BY <1>2, AddressBack
<1>5. CASE g.segd
  <2>1. Words(g, e) = 2
    BY <1>5 DEF Words
  <2>2. T - 1 \in Nat /\ T - Words(g, e) = (T - 1) - 1
    BY <2>1
  <2> HIDE DEF j
  <2>3. At(g, Pop(j), (T - 1) - 1) /\ Pop(j).mem = j.mem /\ Popped(j) = Pop(j)
        /\ Top(j) = j.mem[Slot(g, T - 1)]
    BY <1>3, <2>2, PopMoves
  <2>4. k = [Pop(j) EXCEPT !.pc = seg_addr(Top(m), Top(j))]
    BY <1>1, <1>3, <1>5, <2>3 DEF Ret
  <2>5. Top(m) = SegWord(e.v) /\ Top(j) = Off(e.v)
    BY <1>2, <1>3, <1>5, <2>3
  <2>6. k = [Pop(j) EXCEPT !.pc = e.v]
    BY <1>4, <2>4, <2>5
  <2> HIDE DEF k
  <2>7. LET q == [Pop(j) EXCEPT !.pc = e.v]
        IN  At(g, q, (T - 1) - 1) /\ q.mem = Pop(j).mem /\ q.pc = e.v
    BY <1>2, <1>5, <2>3, Jumped
  <2> QED
    BY <1>3, <2>2, <2>3, <2>6, <2>7 DEF k
<1>6. CASE ~g.segd
  <2>1. Words(g, e) = 1
    BY <1>6 DEF Words
  <2>2. T - Words(g, e) = T - 1
    BY <2>1
  <2> HIDE DEF j
  <2>3. SegOf(m.pc) = SegOf(e.v)
    BY <1>1, <1>2, <1>6 DEF SegOf
  <2>4. k = [j EXCEPT !.pc = SegOf(m.pc) + Top(m)]
    BY <1>1, <1>3, <1>6 DEF Ret
  <2>5. k = [j EXCEPT !.pc = e.v]
    BY <1>2, <1>3, <1>4, <1>6, <2>3, <2>4
  <2> HIDE DEF k
  <2>6. LET q == [j EXCEPT !.pc = e.v]
        IN  At(g, q, T - 1) /\ q.mem = j.mem /\ q.pc = e.v
    BY <1>2, <1>3, <1>6, Jumped
  <2> QED
    BY <1>3, <2>2, <2>5, <2>6 DEF k
<1> QED
  BY <1>5, <1>6

(* The words of P; the stack of a machine m that began as g is P.          *)
Tall(g, P) == IF g.segd THEN DepthOf(P) ELSE Len(P)
Fits(g, m, P) ==
  /\ P \in Seq(Entry) /\ DepthOf(P) <= MaxStack
  /\ At(g, m, Tall(g, P)) /\ Stacked(g, m.mem, P, Tall(g, P))

(* An entry adds its words.                                                *)
LEMMA TallCons ==
  ASSUME NEW g, NEW e \in Entry, NEW P \in Seq(Entry)
  PROVE  Tall(g, <<e>> \o P) = Tall(g, P) + Words(g, e)
<1>1. /\ DepthOf(P) \in Nat
      /\ DepthOf(<<e>> \o P) = DepthOf(P) + (IF e.kind = "return" THEN 2 ELSE 1)
      /\ Len(<<e>> \o P) = Len(P) + 1
  BY DepthCons, ConsParts
<1> QED
  BY <1>1 DEF Tall, Words

(* The words of a stack, counted.                                          *)
LEMMA Fitted ==
  ASSUME NEW g, NEW m, NEW P, Fits(g, m, P)
  PROVE  \E T \in Nat : /\ T = Tall(g, P) /\ T <= DepthOf(P)
                        /\ At(g, m, T) /\ Stacked(g, m.mem, P, T)
<1>1. P \in Seq(Entry) /\ IsFiniteSet(Returns(P))
  <2>1. P \in Seq(Entry) /\ Returns(P) \subseteq 1 .. Len(P)
    BY DEF Fits, Returns
  <2>2. IsFiniteSet(1 .. Len(P))
    BY <2>1, FS_Interval, 1 \in Int, Len(P) \in Int
  <2> QED
    BY <2>1, <2>2, FS_Subset
<1>2. Cardinality(Returns(P)) \in Nat /\ Len(P) \in Nat
  BY <1>1, FS_CardinalityType
<1>3. Tall(g, P) \in Nat /\ Tall(g, P) <= DepthOf(P)
  BY <1>2 DEF Tall, DepthOf
<1> QED
  BY <1>3 DEF Fits

(* Two entries on or off are one and another.                              *)
LEMMA TwoOn ==
  ASSUME NEW S, NEW a \in S, NEW b \in S, NEW P \in Seq(S)
  PROVE  <<a, b>> \o P = <<a>> \o (<<b>> \o P)
<1>1. <<a>> \in Seq(S) /\ <<b>> \in Seq(S)
  OBVIOUS
<1>2. (<<a>> \o <<b>>) \o P = <<a>> \o (<<b>> \o P)
  BY <1>1, ConcatAssociative
<1>3. <<a>> \o <<b>> = <<a, b>>
  <2> DEFINE s == <<a>> \o <<b>>
             t == <<a, b>>
  <2>1. s \in Seq(S) /\ Len(s) = 2 /\ s[1] = a /\ s[2] = b
    <3>1. s \in Seq(S) /\ Len(s) = Len(<<b>>) + 1 /\ s[1] = a
          /\ \A i \in 1 .. Len(<<b>>) : s[i + 1] = <<b>>[i]
      BY <1>1, ConsParts
    <3>2. Len(<<b>>) = 1 /\ <<b>>[1] = b
      OBVIOUS
    <3> HIDE DEF s
    <3>3. 1 \in 1 .. Len(<<b>>) /\ s[1 + 1] = <<b>>[1]
      BY <3>1, <3>2
    <3> QED
      BY <3>1, <3>2, <3>3
  <2>2. t \in Seq(S) /\ Len(t) = 2 /\ t[1] = a /\ t[2] = b
    OBVIOUS
  <2> HIDE DEF s, t
  <2>3. s = t
    <3>1. \A i \in 1 .. Len(s) : s[i] = t[i]
      BY <2>1, <2>2
    <3> QED
      BY <2>1, <2>2, <3>1
  <2> QED
    BY <2>3 DEF s, t
<1> QED
  BY <1>2, <1>3

(* Two entries less.                                                       *)
LEMMA TwoOff ==
  ASSUME NEW S, NEW P \in Seq(S), Len(P) >= 2
  PROVE  LET Q == SubSeq(P, 2, Len(P))
         IN  /\ P # <<>> /\ Q # <<>> /\ Q[1] = P[2]
             /\ SubSeq(Q, 2, Len(Q)) = SubSeq(P, 3, Len(P))
<1> DEFINE Q == SubSeq(P, 2, Len(P))
           R == SubSeq(P, 3, Len(P))
           O == SubSeq(Q, 2, Len(Q))
           l == Len(P)
<1>1. l \in Nat /\ l >= 2 /\ P # <<>> /\ \A i \in 1 .. l : P[i] \in S
  OBVIOUS
<1>2. Q \in Seq(S) /\ Len(Q) = l - 1 /\ \A i \in 1 .. l - 1 : Q[i] = P[i + 1]
  <2>1. P # <<>> /\ Q \in Seq(S) /\ P = <<P[1]>> \o Q /\ l = Len(Q) + 1 /\ P[1] \in S
    BY <1>1, TailParts
  <2> HIDE DEF Q, l
  <2>2. Len(Q) \in Nat /\ \A i \in 1 .. Len(Q) : (<<P[1]>> \o Q)[i + 1] = Q[i]
    BY <2>1, ConsParts
  <2> DEFINE z == Len(Q)
  <2>3. z \in Nat /\ l = z + 1
    BY <2>1, <2>2
  <2>4. \A i \in 1 .. z : P[i + 1] = Q[i]
    BY <2>1, <2>2
  <2> HIDE DEF z
  <2>5. z = l - 1
    BY <1>1, <2>3
  <2> QED
    BY <2>1, <2>4, <2>5 DEF z
<1> HIDE DEF Q, l
<1>3. /\ R \in Seq(S) /\ Len(R) = l - 2
      /\ \A i \in 1 .. l - 2 : R[i] = P[i + 2]
  <2>1. \A i \in 3 .. l : P[i] \in S
    BY <1>1
  <2>2. /\ R \in Seq(S) /\ Len(R) = IF 3 <= l THEN l - 3 + 1 ELSE 0
        /\ \A i \in 1 .. l - 3 + 1 : R[i] = P[3 + i - 1]
    BY <1>1, <2>1, SubSeqProperties DEF l
  <2> HIDE DEF R
  <2> DEFINE z == Len(R)
  <2>3. z = l - 2
    <3>1. z = IF 3 <= l THEN l - 3 + 1 ELSE 0
      BY <2>2
    <3> HIDE DEF z
    <3> QED
      BY <1>1, <3>1
  <2>4. ASSUME NEW i \in 1 .. l - 2 PROVE R[i] = P[i + 2]
    <3>1. i \in 1 .. l - 3 + 1 /\ 3 + i - 1 = i + 2
      BY <1>1
    <3> QED
      BY <2>2, <3>1
  <2> QED
    BY <2>2, <2>3, <2>4
<1>4. /\ O \in Seq(S) /\ Len(O) = l - 2
      /\ \A i \in 1 .. l - 2 : O[i] = Q[i + 1]
  <2> DEFINE k == Len(Q)
  <2>1. k \in Nat /\ k = l - 1 /\ \A i \in 2 .. k : Q[i] \in S
    <3>1. k \in Nat /\ k = l - 1
      BY <1>1, <1>2
    <3>2. \A i \in 2 .. k : Q[i] \in S
      BY <1>2
    <3> QED
      BY <3>1, <3>2
  <2>2. /\ O \in Seq(S) /\ Len(O) = IF 2 <= k THEN k - 2 + 1 ELSE 0
        /\ \A i \in 1 .. k - 2 + 1 : O[i] = Q[2 + i - 1]
    BY <2>1, SubSeqProperties
  <2> HIDE DEF O, k
  <2> DEFINE z == Len(O)
  <2>3. z = l - 2
    <3>1. z = IF 2 <= k THEN k - 2 + 1 ELSE 0
      BY <2>2
    <3> HIDE DEF z
    <3> QED
      BY <1>1, <2>1, <3>1
  <2>4. ASSUME NEW i \in 1 .. l - 2 PROVE O[i] = Q[i + 1]
    <3>1. i \in 1 .. k - 2 + 1 /\ 2 + i - 1 = i + 1
      BY <1>1, <2>1
    <3> QED
      BY <2>2, <3>1
  <2> QED
    BY <2>2, <2>3, <2>4
<1> HIDE DEF O, R
<1>5. ASSUME NEW i \in 1 .. l - 2 PROVE O[i] = R[i]
  <2>1. i + 1 \in 1 .. l - 1 /\ (i + 1) + 1 = i + 2
    BY <1>1
  <2>2. Q[i + 1] = P[(i + 1) + 1]
    BY <1>2, <2>1
  <2> QED
    BY <1>3, <1>4, <2>1, <2>2
<1>6. O = R
  <2>1. Len(O) = Len(R)
    BY <1>3, <1>4
  <2>2. \A i \in 1 .. Len(O) : O[i] = R[i]
    BY <1>4, <1>5
  <2> QED
    BY <1>3, <1>4, <2>1, <2>2
<1>7. Q # <<>> /\ Q[1] = P[2]
  <2>1. 1 \in 1 .. l - 1 /\ 1 + 1 = 2
    BY <1>1
  <2>2. Q[1] = P[1 + 1]
    BY <1>2, <2>1
  <2>3. Q # <<>>
    <3> SUFFICES ASSUME Q = <<>> PROVE FALSE
      OBVIOUS
    <3>1. Len(Q) = 0
      OBVIOUS
    <3> DEFINE z == Len(Q)
    <3>2. z = 0 /\ z = l - 1
      BY <1>2, <3>1
    <3> HIDE DEF z
    <3> QED
      BY <1>1, <3>2
  <2> QED
    BY <2>1, <2>2, <2>3
<1> QED
  BY <1>1, <1>6, <1>7 DEF Q, R, O, l

(* A word written U deep, and the words up to T left as they were.         *)
Wrote(g, mem, T, U, v, new) ==
  /\ mem \in [Addr -> Nat] /\ U \in Nat /\ T < U /\ U <= MaxStack
  /\ new = [mem EXCEPT ![Slot(g, U)] = v]
KeptBelow(g, mem, T, U, v, new) ==
  (\A t \in 1 .. T : new[Slot(g, t)] = mem[Slot(g, t)]) /\ new[Slot(g, U)] = v

(* A word written above the stack leaves what lies on it.                  *)
LEMMA Above ==
  ASSUME NEW g \in Machines, NEW mem, NEW T \in Nat, NEW U, NEW v, NEW new,
         Wrote(g, mem, T, U, v, new)
  PROVE  KeptBelow(g, mem, T, U, v, new)
<1>0. /\ mem \in [Addr -> Nat] /\ U \in Nat /\ T < U /\ U <= MaxStack
      /\ new = [mem EXCEPT ![Slot(g, U)] = v]
  BY DEF Wrote
<1>1. MaxStack \in Nat /\ U \in 1 .. MaxStack
  BY <1>0, JobsAssumption
<1>2. Slot(g, U) \in Addr
  BY <1>1, Slots, 0 \in Int
<1>3. ASSUME NEW t \in 1 .. T PROVE Slot(g, t) \in Addr /\ Slot(g, t) # Slot(g, U)
  <2>1. t \in 1 .. MaxStack /\ t # U /\ t \in Int
    BY <1>0, <1>1
  <2> QED
    BY <1>1, <2>1, Slots, SlotsApart, 0 \in Int
<1> DEFINE s == Slot(g, U)
<1> HIDE DEF s
<1>4. [mem EXCEPT ![s] = v][s] = v /\ \A a \in Addr \ {s} : [mem EXCEPT ![s] = v][a] = mem[a]
  BY <1>0, <1>2 DEF s
<1> QED
  BY <1>0, <1>3, <1>4 DEF s, KeptBelow

(* PUSH leaves a stack of one more word.                                   *)
LEMMA PushFits ==
  ASSUME NEW g \in Machines, NEW m, NEW P, Fits(g, m, P), NEW v \in Nat,
         DepthOf(P) + 1 <= MaxStack, m.segd \/ m.sp.off >= 2
  PROVE  Fits(g, Push(m, v), <<Word(v)>> \o P)
<1> DEFINE k == Push(m, v)
           e == Word(v)
<1>1. PICK T \in Nat : /\ At(g, m, T) /\ Stacked(g, m.mem, P, T)
                       /\ T <= DepthOf(P) /\ T = Tall(g, P)
  BY Fitted
<1>2. P \in Seq(Entry) /\ e \in Entry /\ e.kind = "word" /\ e.v = v
  BY DEF Fits, Entry, Word
<1> HIDE DEF e
<1>3. At(g, k, T + 1) /\ k.mem = [m.mem EXCEPT ![Slot(g, T + 1)] = v]
  BY <1>1, PushMoves
<1> HIDE DEF k
<1>4. DepthOf(P) \in Nat /\ DepthOf(<<e>> \o P) = DepthOf(P) + 1 /\ <<e>> \o P \in Seq(Entry)
  BY <1>2, DepthCons, ConsParts
<1>5. m.mem \in [Addr -> Nat] /\ MaxStack \in Nat
  BY <1>1, JobsAssumption DEF At, Machines
<1>6. T + 1 \in Nat /\ T < T + 1 /\ T + 1 <= MaxStack
  BY <1>1, <1>4, <1>5
<1>7. /\ \A t \in 1 .. T : k.mem[Slot(g, t)] = m.mem[Slot(g, t)]
      /\ k.mem[Slot(g, T + 1)] = v
  <2> DEFINE U == T + 1
  <2>1. U \in Nat /\ T < U /\ U <= MaxStack /\ k.mem = [m.mem EXCEPT ![Slot(g, U)] = v]
    BY <1>3, <1>6
  <2>2. Wrote(g, m.mem, T, U, v, k.mem)
    BY <1>5, <2>1 DEF Wrote
  <2>3. KeptBelow(g, m.mem, T, U, v, k.mem)
    BY <2>2, Above
  <2> QED
    BY <2>3 DEF KeptBelow
<1>8. Words(g, e) = 1
  BY <1>2 DEF Words
<1>9. Lies(g, k.mem, e, T + Words(g, e))
  BY <1>2, <1>7, <1>8 DEF Lies
<1>10. Stacked(g, k.mem, <<e>> \o P, T + Words(g, e))
  BY <1>1, <1>2, <1>7, <1>9, PushedOn
<1>11. Stacked(g, k.mem, <<e>> \o P, T + 1)
  BY <1>8, <1>10
<1>12. T + 1 = Tall(g, <<e>> \o P) /\ DepthOf(<<e>> \o P) <= MaxStack
  BY <1>1, <1>2, <1>4, <1>8, TallCons
<1> QED
  BY <1>3, <1>4, <1>6, <1>11, <1>12 DEF Fits, e, k

(* PUSHL leaves a stack of two more words.                                 *)
LEMMA PushLFits ==
  ASSUME NEW g \in Machines, NEW m, NEW P, Fits(g, m, P), NEW v \in Nat, NEW u \in Nat,
         DepthOf(P) + 2 <= MaxStack, m.segd \/ m.sp.off >= 4
  PROVE  Fits(g, PushL(m, v, u), <<Word(v), Word(u)>> \o P)
<1> DEFINE k == PushL(m, v, u)
           e == Word(v)
           f == Word(u)
           Q == <<f>> \o P
<1>1. PICK T \in Nat : /\ At(g, m, T) /\ Stacked(g, m.mem, P, T)
                       /\ T <= DepthOf(P) /\ T = Tall(g, P)
  BY Fitted
<1>2. /\ P \in Seq(Entry) /\ e \in Entry /\ e.kind = "word" /\ e.v = v
      /\ f \in Entry /\ f.kind = "word" /\ f.v = u
  BY DEF Fits, Entry, Word
<1> HIDE DEF e, f
<1>3. /\ At(g, k, T + 2)
      /\ k.mem = [[m.mem EXCEPT ![Slot(g, T + 2)] = v] EXCEPT ![Slot(g, T + 1)] = u]
  BY <1>1, PushLMoves
<1> HIDE DEF k
<1>4. DepthOf(P) \in Nat /\ DepthOf(Q) = DepthOf(P) + 1 /\ Q \in Seq(Entry)
  BY <1>2, DepthCons, ConsParts
<1> HIDE DEF Q
<1>5. DepthOf(<<e>> \o Q) = DepthOf(P) + 1 + 1 /\ <<e>> \o Q \in Seq(Entry)
  BY <1>2, <1>4, DepthCons, ConsParts
<1>6. m.mem \in [Addr -> Nat] /\ MaxStack \in Nat
  BY <1>1, JobsAssumption DEF At, Machines
<1>7. /\ T + 1 \in Nat /\ T < T + 1 /\ T + 1 <= MaxStack
      /\ T + 2 \in Nat /\ T + 1 < T + 2 /\ T + 2 <= MaxStack /\ (T + 1) + 1 = T + 2
  BY <1>1, <1>4, <1>6
<1> DEFINE one == [m.mem EXCEPT ![Slot(g, T + 1)] = u]
<1>8. k.mem = [one EXCEPT ![Slot(g, T + 2)] = v] /\ one \in [Addr -> Nat]
  <2> DEFINE s == Slot(g, T + 1)
             r == Slot(g, T + 2)
  <2>1. s \in Addr /\ r \in Addr /\ s # r
    <3>1. T + 1 \in 1 .. MaxStack /\ T + 2 \in 1 .. MaxStack /\ T + 1 # T + 2
          /\ T + 1 \in Int /\ T + 2 \in Int
      BY <1>6, <1>7
    <3> QED
      BY <3>1, Slots, SlotsApart, 0 \in Int
  <2> HIDE DEF s, r
  <2>2. [[m.mem EXCEPT ![r] = v] EXCEPT ![s] = u] = [[m.mem EXCEPT ![s] = u] EXCEPT ![r] = v]
        /\ [m.mem EXCEPT ![s] = u] \in [Addr -> Nat]
    BY <1>6, <2>1
  <2> QED
    BY <1>3, <2>2 DEF s, r
<1>9. /\ \A t \in 1 .. T : one[Slot(g, t)] = m.mem[Slot(g, t)]
      /\ one[Slot(g, T + 1)] = u
  <2> DEFINE U == T + 1
  <2>1. U \in Nat /\ T < U /\ U <= MaxStack /\ one = [m.mem EXCEPT ![Slot(g, U)] = u]
    BY <1>7
  <2>2. Wrote(g, m.mem, T, U, u, one)
    BY <1>6, <2>1 DEF Wrote
  <2>3. KeptBelow(g, m.mem, T, U, u, one)
    BY <2>2, Above
  <2> QED
    BY <2>3 DEF KeptBelow
<1> HIDE DEF one
<1>10. /\ \A t \in 1 .. T + 1 : k.mem[Slot(g, t)] = one[Slot(g, t)]
       /\ k.mem[Slot(g, T + 2)] = v
  <2> DEFINE U == T + 1
             V == T + 2
  <2>1. U \in Nat /\ V \in Nat /\ U < V /\ V <= MaxStack
        /\ k.mem = [one EXCEPT ![Slot(g, V)] = v]
    BY <1>7, <1>8
  <2>2. Wrote(g, one, U, V, v, k.mem)
    BY <1>8, <2>1 DEF Wrote
  <2>3. KeptBelow(g, one, U, V, v, k.mem)
    BY <2>1, <2>2, Above
  <2> QED
    BY <2>3 DEF KeptBelow
<1>11. Words(g, e) = 1 /\ Words(g, f) = 1
  BY <1>2 DEF Words
<1>12. Stacked(g, one, Q, T + 1)
  <2>1. Lies(g, one, f, T + Words(g, f))
    BY <1>2, <1>9, <1>11 DEF Lies
  <2>2. Stacked(g, one, <<f>> \o P, T + Words(g, f))
    BY <1>1, <1>2, <1>9, <2>1, PushedOn
  <2> QED
    BY <1>11, <2>2 DEF Q
<1>13. Stacked(g, k.mem, <<e>> \o Q, T + 2)
  <2> DEFINE U == T + 1
  <2>1. U \in Nat /\ U + Words(g, e) = T + 2
    BY <1>7, <1>11
  <2>2. Lies(g, k.mem, e, U + Words(g, e))
    BY <1>2, <1>10, <2>1 DEF Lies
  <2>3. Stacked(g, one, Q, U) /\ \A t \in 1 .. U : k.mem[Slot(g, t)] = one[Slot(g, t)]
    BY <1>10, <1>12
  <2> HIDE DEF U
  <2>4. Stacked(g, k.mem, <<e>> \o Q, U + Words(g, e))
    BY <1>2, <1>4, <2>1, <2>2, <2>3, PushedOn
  <2> QED
    BY <2>1, <2>4
<1>14. <<e, f>> \o P = <<e>> \o Q
  BY <1>2, TwoOn, SMTT(30) DEF Q
<1>15. T + 2 = Tall(g, <<e>> \o Q) /\ DepthOf(<<e>> \o Q) <= MaxStack
  <2>1. Tall(g, Q) = T + 1 /\ Tall(g, <<e>> \o Q) = Tall(g, Q) + 1
    BY <1>1, <1>2, <1>4, <1>11, TallCons DEF Q
  <2> QED
    BY <1>1, <1>4, <1>5, <2>1
<1>16. Fits(g, k, <<e>> \o Q)
  BY <1>3, <1>5, <1>7, <1>13, <1>15 DEF Fits
<1> QED
  BY <1>14, <1>16 DEF e, f, k

(* CALL leaves a stack with the return address on it.                      *)
LEMMA CallFits ==
  ASSUME NEW g \in Machines, NEW m, NEW P, Fits(g, m, P), NEW a \in Addr,
         DepthOf(P) + 2 <= MaxStack
  PROVE  Fits(g, Call(m, a), <<Return(m.pc)>> \o P)
<1> DEFINE k == Call(m, a)
           e == Return(m.pc)
           w == Words(g, e)
           Q == <<e>> \o P
<1>1. PICK T \in Nat : /\ At(g, m, T) /\ Stacked(g, m.mem, P, T)
                       /\ T <= DepthOf(P) /\ T = Tall(g, P)
  BY Fitted
<1>2. P \in Seq(Entry) /\ e \in Entry /\ e.kind = "return"
  <2>1. m.pc \in Nat
    BY <1>1, StackAssumption DEF At, Machines, Addr
  <2> QED
    BY <2>1 DEF Fits, Entry, Return
<1> HIDE DEF e
<1>3. DepthOf(P) \in Nat /\ DepthOf(Q) = DepthOf(P) + 2 /\ Q \in Seq(Entry)
  BY <1>2, DepthCons, ConsParts
<1>4. w \in {1, 2}
  BY OneOrTwo
<1>5. MaxStack \in Nat /\ T + w \in Nat /\ T + w <= MaxStack /\ T + w = Tall(g, Q)
  BY <1>1, <1>2, <1>3, <1>4, TallCons, JobsAssumption
<1>6. /\ At(g, k, T + w) /\ Lies(g, k.mem, e, T + w)
      /\ \A t \in 1 .. T : k.mem[Slot(g, t)] = m.mem[Slot(g, t)]
  BY <1>1, <1>5, CallMoves DEF e
<1> HIDE DEF k
<1>7. Stacked(g, k.mem, Q, T + w)
  BY <1>1, <1>2, <1>6, PushedOn
<1>8. Fits(g, k, Q)
  BY <1>3, <1>5, <1>6, <1>7 DEF Fits
<1> QED
  BY <1>8 DEF e, k

(* The stack below its newest entry.                                       *)
Older(P) == SubSeq(P, 2, Len(P))

(* Over the newest entry, the pointer stands at the stack below.           *)
LEMMA OffFits ==
  ASSUME NEW g \in Machines, NEW m, NEW P, Fits(g, m, P), P # <<>>
  PROVE  /\ P[1] \in Entry /\ Older(P) \in Seq(Entry)
         /\ \E T \in Nat :
              /\ T = Tall(g, P) /\ T - Words(g, P[1]) = Tall(g, Older(P))
              /\ At(g, m, T) /\ Lies(g, m.mem, P[1], T) /\ Words(g, P[1]) <= T
              /\ \A k : At(g, k, T - Words(g, P[1])) /\ k.mem = m.mem
                         => Fits(g, k, Older(P))
<1> DEFINE Q == Older(P)
           e == P[1]
           w == Words(g, e)
<1>1. PICK T \in Nat : /\ At(g, m, T) /\ Stacked(g, m.mem, P, T)
                       /\ T <= DepthOf(P) /\ T = Tall(g, P)
  BY Fitted
<1>2. P \in Seq(Entry) /\ DepthOf(P) <= MaxStack
  BY DEF Fits
<1>3. e \in Entry /\ Q \in Seq(Entry) /\ P = <<e>> \o Q
  BY <1>2, TailParts DEF Older
<1>4. Lies(g, m.mem, e, T) /\ w <= T /\ Stacked(g, m.mem, Q, T - w)
  BY <1>1, <1>2, TakenOff DEF Older
<1> HIDE DEF Q, e
<1>5. DepthOf(P) = DepthOf(Q) + (IF e.kind = "return" THEN 2 ELSE 1) /\ DepthOf(Q) \in Nat
      /\ T = Tall(g, Q) + w /\ Tall(g, Q) \in Nat
  <2>1. DepthOf(P) = DepthOf(Q) + (IF e.kind = "return" THEN 2 ELSE 1) /\ DepthOf(Q) \in Nat
    BY <1>3, DepthCons
  <2>2. T = Tall(g, Q) + w
    BY <1>1, <1>3, TallCons
  <2>3. Len(Q) \in Nat
    BY <1>3
  <2> QED
    BY <2>1, <2>2, <2>3 DEF Tall
<1>6. T - w = Tall(g, Q) /\ DepthOf(Q) <= MaxStack
  <2>1. w \in {1, 2} /\ MaxStack \in Nat
    BY OneOrTwo, JobsAssumption
  <2> HIDE DEF w
  <2> QED
    BY <1>2, <1>5, <2>1
<1>7. ASSUME NEW k, At(g, k, T - w), k.mem = m.mem PROVE Fits(g, k, Q)
  BY <1>3, <1>4, <1>6, <1>7 DEF Fits
<1> QED
  BY <1>1, <1>3, <1>4, <1>6, <1>7 DEF Q, e

(* POP, POPL and RET take off what lay on top.                             *)
LEMMA PopFits ==
  ASSUME NEW g \in Machines, NEW m, NEW P, Fits(g, m, P), P # <<>>, P[1].kind = "word"
  PROVE  Fits(g, Pop(m), Older(P)) /\ Top(m) = P[1].v
<1>1. PICK T \in Nat :
        /\ At(g, m, T) /\ Lies(g, m.mem, P[1], T)
        /\ \A k : At(g, k, T - Words(g, P[1])) /\ k.mem = m.mem => Fits(g, k, Older(P))
  BY OffFits
<1>2. Words(g, P[1]) = 1
  BY DEF Words
<1>3. At(g, Pop(m), T - 1) /\ Pop(m).mem = m.mem /\ Top(m) = m.mem[Slot(g, T)]
  BY <1>1, PopMoves
<1> QED
  BY <1>1, <1>2, <1>3 DEF Lies

(* POPL takes off two words, the upper first.                              *)
LEMMA PopLFits ==
  ASSUME NEW g \in Machines, NEW m, NEW P, Fits(g, m, P), Len(P) >= 2,
         P[1].kind = "word", P[2].kind = "word"
  PROVE  /\ Fits(g, PopL(m), SubSeq(P, 3, Len(P)))
         /\ Long(m) = <<P[1].v, P[2].v>>
<1> DEFINE Q == Older(P)
           j == Pop(m)
<1>1. P \in Seq(Entry)
  BY DEF Fits
<1>2. P # <<>> /\ Q # <<>> /\ Q[1] = P[2] /\ Older(Q) = SubSeq(P, 3, Len(P))
  BY <1>1, TwoOff DEF Older
<1>3. PICK T \in Nat :
        /\ At(g, m, T) /\ Lies(g, m.mem, P[1], T) /\ T - Words(g, P[1]) = Tall(g, Q)
        /\ \A k : At(g, k, T - Words(g, P[1])) /\ k.mem = m.mem => Fits(g, k, Q)
  BY <1>2, OffFits
<1>4. Words(g, P[1]) = 1 /\ Words(g, P[2]) = 1
  BY DEF Words
<1>5. /\ At(g, j, T - 1) /\ j.mem = m.mem
      /\ At(g, PopL(m), T - 2) /\ PopL(m).mem = m.mem
      /\ Long(m) = <<m.mem[Slot(g, T)], m.mem[Slot(g, T - 1)]>>
  BY <1>3, PopMoves
<1> HIDE DEF Q, j
<1>6. Fits(g, j, Q)
  BY <1>3, <1>4, <1>5
<1>7. PICK U \in Nat :
        /\ U = Tall(g, Q) /\ Lies(g, j.mem, Q[1], U)
        /\ \A k : At(g, k, U - Words(g, Q[1])) /\ k.mem = j.mem => Fits(g, k, Older(Q))
  BY <1>2, <1>6, OffFits
<1>8. U = T - 1 /\ U - Words(g, Q[1]) = T - 2
  <2>1. U = T - 1
    BY <1>3, <1>4, <1>7
  <2> QED
    BY <1>2, <1>4, <2>1
<1>9. Fits(g, PopL(m), Older(Q))
  BY <1>5, <1>7, <1>8
<1>10. m.mem[Slot(g, T)] = P[1].v /\ m.mem[Slot(g, T - 1)] = P[2].v
  <2>1. m.mem[Slot(g, T)] = P[1].v
    BY <1>3 DEF Lies
  <2>2. m.mem[Slot(g, U)] = P[2].v
    BY <1>2, <1>5, <1>7 DEF Lies
  <2> QED
    BY <1>8, <2>1, <2>2
<1> QED
  BY <1>2, <1>5, <1>9, <1>10

(* RET takes off the return address.                                       *)
LEMMA RetFits ==
  ASSUME NEW g \in Machines, NEW m, NEW P, Fits(g, m, P), P # <<>>, P[1].kind = "return"
  PROVE  Fits(g, Ret(m), Older(P)) /\ Ret(m).pc = P[1].v
<1>1. PICK T \in Nat :
        /\ At(g, m, T) /\ Lies(g, m.mem, P[1], T) /\ P[1] \in Entry /\ Words(g, P[1]) <= T
        /\ \A k : At(g, k, T - Words(g, P[1])) /\ k.mem = m.mem => Fits(g, k, Older(P))
  BY OffFits
<1>2. At(g, Ret(m), T - Words(g, P[1])) /\ Ret(m).mem = m.mem /\ Ret(m).pc = P[1].v
  BY <1>1, RetMoves
<1> QED
  BY <1>1, <1>2

(* An empty stack, and what it says of the pointer.                        *)
LEMMA EmptyFits ==
  ASSUME NEW g \in Machines
  PROVE  Fits(g, g, <<>>) /\ \A m : Fits(g, m, <<>>) => m.sp = g.sp
<1>1. Tall(g, <<>>) = 0 /\ DepthOf(<<>>) = 0
  <2>1. Returns(<<>>) = {} /\ Len(<<>>) = 0
    BY DEF Returns
  <2>2. Cardinality({}) = 0
    BY FS_EmptySet
  <2>3. Cardinality(Returns(<<>>)) = 0
    BY <2>1, <2>2
  <2>4. DepthOf(<<>>) = 0 + 0
    BY <2>1, <2>3, Zenon DEF DepthOf
  <2> QED
    BY <2>1, <2>4 DEF Tall
<1>2. Place(g, 0) = g.sp.off
  <2> DEFINE o == g.sp.off
  <2>1. o \in 0..W - 1 /\ W \in Nat /\ W > 4
    BY StackAssumption DEF Machines
  <2> HIDE DEF o
  <2>2. (o - 2 * 0) % W = o
    BY <2>1
  <2> QED
    BY <2>2 DEF Place, o
<1>3. At(g, g, 0)
  BY <1>2 DEF At, Bottom
<1>4. Fits(g, g, <<>>)
  <2>1. <<>> \in Seq(Entry) /\ 0 <= MaxStack
    BY JobsAssumption
  <2> QED
    BY <1>1, <1>3, <2>1, NothingStacked DEF Fits
<1>5. ASSUME NEW m, Fits(g, m, <<>>) PROVE m.sp = g.sp
  <2>1. At(g, m, 0)
    BY <1>1, <1>5 DEF Fits
  <2>2. m \in Machines /\ m.sp.seg = g.sp.seg /\ m.sp.off = g.sp.off
    BY <1>2, <2>1 DEF At
  <2>3. /\ m.sp \in [seg : 0 .. Segs - 1, off : 0 .. W - 1]
        /\ g.sp \in [seg : 0 .. Segs - 1, off : 0 .. W - 1]
    BY <2>2 DEF Machines
  <2> QED
    BY <2>2, <2>3
<1> QED
  BY <1>4, <1>5

(* A stack job: what it began with, and, unless it borrowed, a stack.      *)
StackInv ==
  job.about = "stack" =>
    /\ {"m", "pushed", "borrows", "got", "want", "data", "targets"} \subseteq DOMAIN job
    /\ given.m \in Machines /\ job.data \subseteq Nat /\ job.targets \subseteq Addr
    /\ job.borrows \in BOOLEAN
    /\ ~job.borrows => job.got = job.want /\ Fits(given.m, job.m, job.pushed)

(* The fields of a job after a push.                                       *)
LEMMA WriteStack ==
  ASSUME {"m", "pushed", "borrows", "got", "want", "data", "targets"} \subseteq DOMAIN job,
         NEW m, NEW P, NEW b
  PROVE  /\ job' = [job EXCEPT !.m = m, !.pushed = P, !.borrows = b]
            => /\ DOMAIN job' = DOMAIN job /\ job'.m = m /\ job'.pushed = P
               /\ job'.borrows = b /\ job'.got = job.got /\ job'.want = job.want
               /\ job'.data = job.data /\ job'.targets = job.targets
         /\ job' = [job EXCEPT !.m = m, !.pushed = P]
            => /\ DOMAIN job' = DOMAIN job /\ job'.m = m /\ job'.pushed = P
               /\ job'.borrows = job.borrows /\ job'.got = job.got /\ job'.want = job.want
               /\ job'.data = job.data /\ job'.targets = job.targets
OBVIOUS

(* The fields of a job after a pop.                                        *)
LEMMA WriteTaken ==
  ASSUME {"m", "pushed", "borrows", "got", "want", "data", "targets"} \subseteq DOMAIN job,
         NEW m, NEW P, NEW x, NEW y,
         job' = [job EXCEPT !.m = m, !.pushed = P, !.got = x, !.want = y]
  PROVE  /\ DOMAIN job' = DOMAIN job /\ job'.m = m /\ job'.pushed = P
         /\ job'.borrows = job.borrows /\ job'.got = x /\ job'.want = y
         /\ job'.data = job.data /\ job'.targets = job.targets
OBVIOUS

(* Every step of the stack keeps it a stack.                               *)
LEMMA StackStepped ==
  ASSUME StackInv, job.about = "stack", StackStep, given' = given
  PROVE  StackInv'
<1> DEFINE g == given.m
           m == job.m
           P == job.pushed
<1>1. /\ {"m", "pushed", "borrows", "got", "want", "data", "targets"} \subseteq DOMAIN job
      /\ g \in Machines /\ job.data \subseteq Nat /\ job.targets \subseteq Addr
      /\ job.borrows \in BOOLEAN
      /\ ~job.borrows => job.got = job.want /\ Fits(g, m, P)
  BY DEF StackInv
<1>2. Depth = DepthOf(P)
  BY DEF Depth, DepthOf, Returns
<1>3. g' = g
  OBVIOUS
<1> HIDE DEF g
<1>4. ~job.borrows => m \in Machines /\ m.sp.off \in Nat /\ m.segd \in BOOLEAN
  <2> SUFFICES ASSUME ~job.borrows PROVE m \in Machines /\ m.sp.off \in Nat
    BY DEF Machines
  <2>1. m \in Machines
    BY <1>1 DEF Fits, At
  <2>2. m.sp.off \in 0..W - 1 /\ W \in Nat
    BY <2>1, StackAssumption DEF Machines
  <2> QED
    BY <2>1, <2>2
<1> HIDE DEF m, P
<1>5. ASSUME NEW k, NEW Q, NEW bytes \in Nat, Pushed(k, Q, bytes),
             ~job.borrows /\ (m.segd \/ m.sp.off >= bytes) => Fits(g, k, Q)
      PROVE  StackInv'
  <2> DEFINE b == job.borrows \/ (~m.segd /\ m.sp.off < bytes)
  <2>1. job' = [job EXCEPT !.m = k, !.pushed = Q, !.borrows = b]
    BY <1>5 DEF Pushed, m
  <2>2. b \in BOOLEAN
    OBVIOUS
  <2>3. ~b => Fits(g, k, Q) /\ job.got = job.want
    <3>1. ~job.borrows /\ ~(~m.segd /\ m.sp.off < bytes) => m.segd \/ m.sp.off >= bytes
      BY <1>4
    <3> QED
      BY <1>1, <1>5, <3>1
  <2> HIDE DEF b
  <2>4. /\ DOMAIN job' = DOMAIN job /\ job'.m = k /\ job'.pushed = Q
        /\ job'.borrows = b /\ job'.got = job.got /\ job'.want = job.want
        /\ job'.data = job.data /\ job'.targets = job.targets
    BY <1>1, <2>1, WriteStack
  <2> QED
    BY <1>1, <1>3, <2>2, <2>3, <2>4 DEF StackInv, g
<1>6. ASSUME NEW k, NEW z \in Nat, NEW x, NEW y, TakeOff(k, z, x, y),
             ~job.borrows => Fits(g, k, SubSeq(P, z + 1, Len(P))) /\ x = y
      PROVE  StackInv'
  <2> DEFINE Q == SubSeq(P, z + 1, Len(P))
  <2>1. job' = [job EXCEPT !.m = k, !.pushed = Q, !.got = x, !.want = y]
    BY <1>6 DEF TakeOff, P
  <2>2. ~job.borrows => Fits(g, k, Q) /\ x = y
    BY <1>6
  <2> HIDE DEF Q
  <2>3. /\ DOMAIN job' = DOMAIN job /\ job'.m = k /\ job'.pushed = Q
        /\ job'.borrows = job.borrows /\ job'.got = x /\ job'.want = y
        /\ job'.data = job.data /\ job'.targets = job.targets
    BY <1>1, <2>1, WriteTaken
  <2> QED
    BY <1>1, <1>3, <2>2, <2>3 DEF StackInv, g
<1>7. CASE PushWord
  <2>1. PICK v \in job.data : Pushed(Push(m, v), <<Word(v)>> \o P, 2)
    BY <1>7 DEF PushWord, m, P
  <2>2. v \in Nat /\ DepthOf(P) + 1 <= MaxStack
    BY <1>1, <1>2, <1>7 DEF PushWord, Room
  <2>3. ~job.borrows /\ (m.segd \/ m.sp.off >= 2) => Fits(g, Push(m, v), <<Word(v)>> \o P)
    BY <1>1, <2>2, PushFits
  <2> QED
    BY <1>5, <2>1, <2>3
<1>8. CASE PushLong
  <2>1. PICK v, u \in job.data : Pushed(PushL(m, v, u), <<Word(v), Word(u)>> \o P, 4)
    BY <1>8 DEF PushLong, m, P
  <2>2. v \in Nat /\ u \in Nat /\ DepthOf(P) + 2 <= MaxStack
    BY <1>1, <1>2, <1>8 DEF PushLong, Room
  <2>3. ~job.borrows /\ (m.segd \/ m.sp.off >= 4)
          => Fits(g, PushL(m, v, u), <<Word(v), Word(u)>> \o P)
    BY <1>1, <2>2, PushLFits
  <2> QED
    BY <1>5, <2>1, <2>3
<1>9. CASE CallOut
  <2>1. PICK a \in job.targets : job' = [job EXCEPT !.m = Call(job.m, a),
                                    !.pushed = <<Return(job.m.pc)>> \o job.pushed]
    BY <1>9 DEF CallOut
  <2> DEFINE k == Call(m, a)
             Q == <<Return(m.pc)>> \o P
  <2>2. job' = [job EXCEPT !.m = k, !.pushed = Q]
    BY <2>1 DEF m, P
  <2>3. a \in Addr /\ DepthOf(P) + 2 <= MaxStack
    BY <1>1, <1>2, <1>9 DEF CallOut, Room
  <2>4. ~job.borrows => Fits(g, k, Q)
    BY <1>1, <2>3, CallFits
  <2> HIDE DEF k, Q
  <2>5. /\ DOMAIN job' = DOMAIN job /\ job'.m = k /\ job'.pushed = Q
        /\ job'.borrows = job.borrows /\ job'.got = job.got /\ job'.want = job.want
        /\ job'.data = job.data /\ job'.targets = job.targets
    BY <1>1, <2>2, WriteStack
  <2> QED
    BY <1>1, <1>3, <2>4, <2>5 DEF StackInv, g
<1>10. CASE PopWord
  <2>1. TakeOff(Pop(m), 1, <<Top(m)>>, <<P[1].v>>) /\ 1 <= Len(P) /\ P[1].kind = "word"
    BY <1>10 DEF PopWord, IsWord, m, P
  <2>2. ~job.borrows => Fits(g, Pop(m), SubSeq(P, 1 + 1, Len(P))) /\ <<Top(m)>> = <<P[1].v>>
    <3> SUFFICES ASSUME ~job.borrows
                 PROVE  Fits(g, Pop(m), SubSeq(P, 1 + 1, Len(P))) /\ Top(m) = P[1].v
      OBVIOUS
    <3>1. Fits(g, m, P) /\ P # <<>>
      BY <1>1, <2>1
    <3>2. Fits(g, Pop(m), Older(P)) /\ Top(m) = P[1].v
      BY <1>1, <2>1, <3>1, PopFits
    <3>3. 1 + 1 = 2
      OBVIOUS
    <3> QED
      BY <3>2, <3>3 DEF Older
  <2> QED
    BY <1>6, <2>1, <2>2
<1>11. CASE PopLong
  <2>1. /\ TakeOff(PopL(m), 2, Long(m), <<P[1].v, P[2].v>>)
        /\ 2 <= Len(P) /\ P[1].kind = "word" /\ P[2].kind = "word"
    BY <1>11 DEF PopLong, IsWord, m, P
  <2>2. ~job.borrows => /\ Fits(g, PopL(m), SubSeq(P, 2 + 1, Len(P)))
                        /\ Long(m) = <<P[1].v, P[2].v>>
    <3> SUFFICES ASSUME ~job.borrows
                 PROVE  /\ Fits(g, PopL(m), SubSeq(P, 2 + 1, Len(P)))
                        /\ Long(m) = <<P[1].v, P[2].v>>
      OBVIOUS
    <3>1. Fits(g, m, P) /\ Len(P) >= 2
      <4>1. Fits(g, m, P) /\ Len(P) \in Nat
        BY <1>1 DEF Fits
      <4> QED
        BY <2>1, <4>1
    <3>2. /\ Fits(g, PopL(m), SubSeq(P, 3, Len(P)))
          /\ Long(m) = <<P[1].v, P[2].v>>
      BY <1>1, <2>1, <3>1, PopLFits
    <3>3. 2 + 1 = 3
      OBVIOUS
    <3> QED
      BY <3>2, <3>3
  <2> QED
    BY <1>6, <2>1, <2>2
<1>12. CASE Back
  <2>1. /\ TakeOff(Ret(m), 1, <<Ret(m).pc>>, <<P[1].v>>)
        /\ P # <<>> /\ P[1].kind = "return"
    BY <1>12 DEF Back, m, P
  <2>2. ~job.borrows => Fits(g, Ret(m), SubSeq(P, 1 + 1, Len(P)))
                        /\ <<Ret(m).pc>> = <<P[1].v>>
    <3> SUFFICES ASSUME ~job.borrows
                 PROVE  Fits(g, Ret(m), SubSeq(P, 1 + 1, Len(P))) /\ Ret(m).pc = P[1].v
      OBVIOUS
    <3>1. Fits(g, m, P)
      BY <1>1
    <3>2. Fits(g, Ret(m), Older(P)) /\ Ret(m).pc = P[1].v
      BY <1>1, <2>1, <3>1, RetFits
    <3>3. 1 + 1 = 2
      OBVIOUS
    <3> QED
      BY <3>2, <3>3 DEF Older
  <2> QED
    BY <1>6, <2>1, <2>2
<1> QED
  BY <1>7, <1>8, <1>9, <1>10, <1>11, <1>12 DEF StackStep

(* Last in, first out: every word, long word and return address comes off  *)
(* as it went on, in both modes and across the wrap of the offset, however *)
(* large the segments (exec_stack, CALL, RET).                             *)
THEOREM StackSound == JobSpec => []StackRight
<1> DEFINE Inv == "about" \in DOMAIN job /\ StackInv
<1>1. JobInit => Inv
  <2> SUFFICES ASSUME JobInit PROVE Inv
    OBVIOUS
  <2>1. given = job /\ "about" \in DOMAIN job /\ Proper(job)
    BY Begins
  <2> SUFFICES ASSUME job.about = "stack" PROVE StackInv
    BY <2>1 DEF StackInv
  <2>2. /\ job \in [about : {"stack"}, pushed : {<<>>}, borrows : {FALSE}, got : {<<>>},
                    want : {<<>>}, data : SUBSET Nat, targets : SUBSET Addr,
                    m : [segd : BOOLEAN, pc : Addr, mem : [Addr -> Nat],
                         sp : [seg : 0 .. Segs - 1, off : 0 .. W - 1]]]
    BY <2>1 DEF Proper
  <2>3. /\ {"m", "pushed", "borrows", "got", "want", "data", "targets"} \subseteq DOMAIN job
        /\ job.m \in Machines /\ job.data \subseteq Nat /\ job.targets \subseteq Addr
        /\ job.borrows = FALSE /\ job.got = <<>> /\ job.want = <<>> /\ job.pushed = <<>>
    BY <2>2 DEF Machines
  <2>4. Fits(job.m, job.m, <<>>)
    BY <2>3, EmptyFits
  <2> QED
    BY <2>1, <2>3, <2>4 DEF StackInv
<1>2. ASSUME Inv, [JobNext]_jvars PROVE Inv'
  <2>1. CASE UNCHANGED jvars
    BY <1>2, <2>1, Zenon DEF jvars, StackInv
  <2>2. CASE JobNext
    <3>1. /\ given' = given /\ "about" \in DOMAIN job' /\ job'.about = job.about
          /\ job.about = "stack" => StackStep
      BY <1>2, <2>2, StepOf
    <3>2. job.about = "stack" => StackInv'
      BY <1>2, <3>1, StackStepped
    <3>3. job.about # "stack" => StackInv'
      BY <3>1 DEF StackInv
    <3> QED
      BY <3>1, <3>2, <3>3
  <2> QED
    BY <1>2, <2>1, <2>2
<1>3. Inv => StackRight
  <2> SUFFICES ASSUME StackInv, job.about = "stack", ~job.borrows
               PROVE  job.got = job.want /\ (job.pushed = <<>> => job.m.sp = given.m.sp)
    BY DEF StackRight
  <2>1. job.got = job.want /\ given.m \in Machines /\ Fits(given.m, job.m, job.pushed)
    BY DEF StackInv
  <2> QED
    BY <2>1, EmptyFits
<1> QED
  BY <1>1, <1>2, <1>3, PTL DEF JobSpec

(***************************************************************************)
(* Part seven: the marks.                                                  *)
(*                                                                         *)
(* mark_advance keeps the longest match (Longest): the longest border of   *)
(* what was matched that the character printed makes longer is unique, and *)
(* the chain of fallbacks finds it (Advances).                             *)
(***************************************************************************)

(* The first k characters of a text are the last k of what was printed.    *)
Matches(t, k, s) ==
  k \in 0..Len(t) /\ k <= Len(s) /\ \A i \in 1..k : t[i] = s[Len(s) - k + i]

(* The first j characters of a text are the last j of its first p.         *)
Border(t, j, p) == j \in 0..p /\ \A i \in 1..j : t[i] = t[p - j + i]

(* The most of a text that is the end of what was printed.                 *)
Longest(t, q, s) ==
  Matches(t, q, s) /\ \A k \in 0..Len(t) : Matches(t, k, s) => k <= q

(* A bounded set of numbers has a greatest one.                            *)
LEMMA Greatest ==
  ASSUME NEW N \in Nat, NEW S, S \subseteq 0..N, S # {}
  PROVE  Max(S) \in S /\ \A y \in S : y <= Max(S)
<1> DEFINE T == {d \in 0..N : N - d \in S}
<1>1. T \in SUBSET Nat
  OBVIOUS
<1>2. PICK x \in S : TRUE
  OBVIOUS
<1>3. x \in 0..N /\ N - x \in 0..N /\ N - (N - x) = x
  BY <1>2
<1>4. N - x \in T
  BY <1>2, <1>3
<1>5. PICK d \in T : \A e \in T : d <= e
  <2> HIDE DEF T
  <2> QED
    BY <1>1, <1>4, FirstOf
<1>6. N - d \in S /\ d \in 0..N
  BY <1>5
<1>7. ASSUME NEW y \in S PROVE N - d >= y
  <2>1. y \in 0..N /\ N - y \in 0..N /\ N - (N - y) = y
    OBVIOUS
  <2>2. N - y \in T
    BY <2>1
  <2>3. d <= N - y
    BY <1>5, <2>2
  <2> QED
    BY <1>6, <2>1, <2>3
<1>8. \E m \in S : \A y \in S : m >= y
  BY <1>6, <1>7
<1> DEFINE g == Max(S)
<1>9. g \in S /\ \A y \in S : g >= y
  BY <1>8 DEF Max
<1>10. S \subseteq Int
  OBVIOUS
<1> HIDE DEF g
<1>11. \A y \in S : y <= g
  BY <1>9, <1>10
<1> QED
  BY <1>9, <1>11 DEF g

(* Equal pieces are equal character by character.                          *)
LEMMA PiecesEqual ==
  ASSUME NEW C, NEW t \in Seq(C), NEW p \in 1..Len(t), NEW k \in 0..p - 1
  PROVE  (k = 0 \/ SubSeq(t, 1, k) = SubSeq(t, p - k + 1, p)) <=> Border(t, k, p)
<1> DEFINE a == SubSeq(t, 1, k)
           b == SubSeq(t, p - k + 1, p)
<1>1. /\ 1 \in 1..Len(t) + 1 /\ k \in 1 - 1..Len(t)
      /\ p - k + 1 \in 1..Len(t) + 1 /\ p \in (p - k + 1) - 1..Len(t)
      /\ Len(t) \in Nat /\ k \in 0..p
  OBVIOUS
<1>2. /\ a \in Seq(C) /\ Len(a) = k - 1 + 1
      /\ \A i \in 1..k - 1 + 1 : a[i] = t[1 + i - 1]
  BY <1>1, SubSeqProperties
<1>3. /\ b \in Seq(C) /\ Len(b) = p - (p - k + 1) + 1
      /\ \A i \in 1..p - (p - k + 1) + 1 : b[i] = t[(p - k + 1) + i - 1]
  BY <1>1, SubSeqProperties
<1>4. k - 1 + 1 = k /\ p - (p - k + 1) + 1 = k
  BY <1>1
<1> HIDE DEF a, b
<1>5. /\ Len(a) = k /\ Len(b) = k
      /\ \A i \in 1..k : a[i] = t[i] /\ b[i] = t[p - k + i]
  <2>1. \A i \in 1..k : 1 + i - 1 = i /\ (p - k + 1) + i - 1 = p - k + i
    BY <1>1
  <2> QED
    BY <1>2, <1>3, <1>4, <2>1
<1>6. a = b <=> \A i \in 1..k : a[i] = b[i]
  BY <1>2, <1>3, <1>5, SeqEqual
<1>7. a = b <=> Border(t, k, p)
  BY <1>1, <1>5, <1>6 DEF Border
<1>8. k = 0 => Border(t, k, p)
  BY <1>1 DEF Border
<1> QED
  BY <1>7, <1>8 DEF a, b

(* The longest border that is not the whole.                               *)
LEMMA FallbackMeans ==
  ASSUME NEW C, NEW t \in Seq(C), NEW p \in 1..Len(t)
  PROVE  /\ Fallback(t, p) \in 0..p - 1 /\ Border(t, Fallback(t, p), p)
         /\ \A j \in 0..p - 1 : Border(t, j, p) => j <= Fallback(t, p)
<1> DEFINE S == {k \in 0..p - 1 : k = 0 \/ SubSeq(t, 1, k) = SubSeq(t, p - k + 1, p)}
<1>1. p - 1 \in Nat /\ S \subseteq 0..p - 1 /\ 0 \in S
  OBVIOUS
<1>2. \A k \in 0..p - 1 : k \in S <=> Border(t, k, p)
  BY PiecesEqual
<1>3. Fallback(t, p) = Max(S)
  BY DEF Fallback
<1> HIDE DEF S
<1>4. Max(S) \in S /\ \A y \in S : y <= Max(S)
  BY <1>1, Greatest
<1> QED
  BY <1>1, <1>2, <1>3, <1>4

(* The borders of a border are borders.                                    *)
LEMMA BorderOfBorder ==
  ASSUME NEW C, NEW t \in Seq(C), NEW p \in 0..Len(t), NEW q \in 0..p, Border(t, q, p),
         NEW j \in 0..q
  PROVE  Border(t, j, p) <=> Border(t, j, q)
<1>1. ASSUME NEW i \in 1..j PROVE t[q - j + i] = t[p - j + i]
  <2>1. q - j + i \in 1..q /\ p - q + (q - j + i) = p - j + i
    OBVIOUS
  <2> QED
    BY <2>1 DEF Border
<1>2. j \in 0..p
  OBVIOUS
<1> QED
  BY <1>1, <1>2 DEF Border

(* What the text matches of its own matched part, it matches.              *)
LEMMA MatchOfMatch ==
  ASSUME NEW C, NEW t \in Seq(C), NEW s \in Seq(C), NEW q, Matches(t, q, s), NEW j \in 0..q
  PROVE  Matches(t, j, s) <=> Border(t, j, q)
<1> DEFINE N == Len(s)
<1>1. q \in 0..Len(t) /\ q <= N /\ N \in Nat /\ Len(t) \in Nat /\ j \in 0..Len(t) /\ j <= N
  BY DEF Matches
<1>2. \A i \in 1..q : t[i] = s[N - q + i]
  BY DEF Matches
<1> HIDE DEF N
<1>3. ASSUME NEW i \in 1..j PROVE t[q - j + i] = s[N - j + i]
  <2>1. q - j + i \in 1..q /\ N - q + (q - j + i) = N - j + i
    BY <1>1
  <2> QED
    BY <1>2, <2>1
<1>4. Matches(t, j, s) <=> \A i \in 1..j : t[i] = s[N - j + i]
  BY <1>1 DEF Matches, N
<1>5. Border(t, j, q) <=> \A i \in 1..j : t[i] = t[q - j + i]
  BY <1>1 DEF Border
<1> QED
  BY <1>3, <1>4, <1>5

(* A character more.                                                       *)
LEMMA MatchMore ==
  ASSUME NEW C, NEW t \in Seq(C), NEW s \in Seq(C), NEW v \in C, NEW k \in Nat
  PROVE  Matches(t, k + 1, Append(s, v))
           <=> Matches(t, k, s) /\ k < Len(t) /\ t[k + 1] = v
<1> DEFINE N == Len(s)
           u == Append(s, v)
<1>1. N \in Nat /\ Len(t) \in Nat /\ Len(u) = N + 1 /\ u[N + 1] = v
        /\ \A i \in 1..N : u[i] = s[i]
  OBVIOUS
<1> HIDE DEF N, u
<1>2. Matches(t, k + 1, u) <=>
        /\ k + 1 <= Len(t) /\ k + 1 <= N + 1
        /\ \A i \in 1..k + 1 : t[i] = u[N + 1 - (k + 1) + i]
  BY <1>1 DEF Matches
<1>3. Matches(t, k, s) <=>
        k <= Len(t) /\ k <= N /\ \A i \in 1..k : t[i] = s[N - k + i]
  BY <1>1 DEF Matches, N
<1>4. ASSUME k <= N, NEW i \in 1..k PROVE u[N + 1 - (k + 1) + i] = s[N - k + i]
  <2>1. N + 1 - (k + 1) + i = N - k + i /\ N - k + i \in 1..N
    BY <1>1, <1>4
  <2> QED
    BY <1>1, <2>1
<1>5. k <= N => u[N + 1 - (k + 1) + (k + 1)] = v
  <2>1. N + 1 - (k + 1) + (k + 1) = N + 1
    BY <1>1
  <2> QED
    BY <1>1, <2>1
<1>6. 1..k + 1 = 1..k \cup {k + 1}
  OBVIOUS
<1>7. k + 1 <= Len(t) <=> k < Len(t)
  BY <1>1
<1>8. k + 1 <= N + 1 <=> k <= N
  BY <1>1
<1>9. k < Len(t) => k <= Len(t)
  BY <1>1
<1>10. (\A i \in 1..k + 1 : t[i] = u[N + 1 - (k + 1) + i])
         <=> /\ \A i \in 1..k : t[i] = u[N + 1 - (k + 1) + i]
             /\ t[k + 1] = u[N + 1 - (k + 1) + (k + 1)]
  BY <1>6, Zenon
<1>11. Matches(t, k + 1, u) => Matches(t, k, s) /\ k < Len(t) /\ t[k + 1] = v
  BY <1>2, <1>3, <1>4, <1>5, <1>7, <1>8, <1>9, <1>10
<1>12. Matches(t, k, s) /\ k < Len(t) /\ t[k + 1] = v => Matches(t, k + 1, u)
  BY <1>2, <1>3, <1>4, <1>5, <1>7, <1>8, <1>9, <1>10
<1> QED
  BY <1>11, <1>12 DEF u

(* A border that the character printed makes longer.                       *)
Grows(t, v, p, j) == Border(t, j, p) /\ j < Len(t) /\ t[j + 1] = v

(* r is what is matched after v, where p was matched before.               *)
Advances(t, v, p, r) ==
  /\ r \in 0..Len(t) /\ (r = 0 \/ (r - 1 \in 0..p /\ Grows(t, v, p, r - 1)))
  /\ \A j \in 0..p : Grows(t, v, p, j) => j + 1 <= r

(* The equation of mark_advance.                                           *)
Hits(t, v, p) == p < Len(t) /\ t[p + 1] = v
AdvanceFrom(f, t, v, p) ==
  IF Hits(t, v, p) THEN p + 1 ELSE IF p = 0 THEN 0 ELSE f[Fallback(t, p)]

(* The next character of the text is the one printed.                      *)
LEMMA AdvanceHit ==
  ASSUME NEW C, NEW t \in Seq(C), NEW v, NEW p \in 0..Len(t), Hits(t, v, p)
  PROVE  Advances(t, v, p, p + 1)
<1>1. Len(t) \in Nat /\ p + 1 \in 0..Len(t) /\ p + 1 - 1 = p /\ p \in 0..p
  BY DEF Hits
<1>2. Border(t, p, p)
  <2>1. \A i \in 1..p : p - p + i = i
    OBVIOUS
  <2> QED
    BY <1>1, <2>1 DEF Border
<1>3. Grows(t, v, p, p)
  BY <1>1, <1>2 DEF Grows, Hits
<1>4. \A j \in 0..p : j + 1 <= p + 1
  OBVIOUS
<1> QED
  BY <1>1, <1>3, <1>4 DEF Advances

(* Nothing was matched, and nothing is.                                    *)
LEMMA AdvanceNone ==
  ASSUME NEW C, NEW t \in Seq(C), NEW v, ~Hits(t, v, 0)
  PROVE  Advances(t, v, 0, 0)
<1>1. 0 \in 0..Len(t) /\ \A j \in 0..0 : j = 0
  OBVIOUS
<1>2. \A j \in 0..0 : ~Grows(t, v, 0, j)
  BY <1>1 DEF Grows, Hits
<1> QED
  BY <1>1, <1>2 DEF Advances

(* On a mismatch the fallback decides.                                     *)
LEMMA AdvanceBack ==
  ASSUME NEW C, NEW t \in Seq(C), NEW v, NEW p \in 1..Len(t), ~Hits(t, v, p),
         NEW r, Advances(t, v, Fallback(t, p), r)
  PROVE  Advances(t, v, p, r)
<1> DEFINE q == Fallback(t, p)
<1>1. q \in 0..p - 1 /\ Border(t, q, p) /\ \A j \in 0..p - 1 : Border(t, j, p) => j <= q
  BY FallbackMeans
<1>2. Advances(t, v, q, r)
  OBVIOUS
<1> HIDE DEF q
<1>3. p \in 0..Len(t) /\ q \in 0..p /\ Len(t) \in Nat
  BY <1>1
<1>4. \A j \in 0..q : Grows(t, v, p, j) <=> Grows(t, v, q, j)
  BY <1>1, <1>3, BorderOfBorder DEF Grows
<1>5. ASSUME NEW j \in 0..p, Grows(t, v, p, j) PROVE j \in 0..q
  <2>1. j # p
    BY <1>5 DEF Grows, Hits
  <2>2. j \in 0..p - 1
    BY <2>1
  <2>3. j <= q
    BY <1>1, <1>5, <2>2 DEF Grows
  <2> QED
    BY <1>1, <2>3
<1>6. r \in 0..Len(t)
  BY <1>2 DEF Advances
<1>7. ASSUME r # 0 PROVE r - 1 \in 0..p /\ Grows(t, v, p, r - 1)
  <2>1. r - 1 \in 0..q /\ Grows(t, v, q, r - 1)
    BY <1>2, <1>7 DEF Advances
  <2>2. r - 1 \in 0..p
    BY <1>1, <2>1
  <2> QED
    BY <1>4, <2>1, <2>2
<1>8. ASSUME NEW j \in 0..p, Grows(t, v, p, j) PROVE j + 1 <= r
  <2>1. j \in 0..q /\ Grows(t, v, q, j)
    BY <1>4, <1>5, <1>8
  <2> QED
    BY <1>2, <2>1 DEF Advances
<1> QED
  BY <1>6, <1>7, <1>8 DEF Advances

(* There is one answer at most.                                            *)
LEMMA AdvanceUnique ==
  ASSUME NEW C, NEW t \in Seq(C), NEW v, NEW p \in 0..Len(t),
         NEW r, NEW x, Advances(t, v, p, r), Advances(t, v, p, x)
  PROVE  r = x
<1>1. r \in Nat /\ x \in Nat
  BY DEF Advances
<1>2. r <= x
  <2>1. CASE r = 0
    BY <1>1, <2>1
  <2>2. CASE r # 0
    <3>1. r - 1 \in 0..p /\ Grows(t, v, p, r - 1)
      BY <2>2 DEF Advances
    <3>2. (r - 1) + 1 <= x
      BY <3>1 DEF Advances
    <3> QED
      BY <1>1, <3>2
  <2> QED
    BY <2>1, <2>2
<1>3. x <= r
  <2>1. CASE x = 0
    BY <1>1, <2>1
  <2>2. CASE x # 0
    <3>1. x - 1 \in 0..p /\ Grows(t, v, p, x - 1)
      BY <2>2 DEF Advances
    <3>2. (x - 1) + 1 <= r
      BY <3>1 DEF Advances
    <3> QED
      BY <1>1, <3>2
  <2> QED
    BY <2>1, <2>2
<1> QED
  BY <1>1, <1>2, <1>3

(* An answer for all matches below p, and one for p.                       *)
LEMMA AdvanceStep ==
  ASSUME NEW C, NEW t \in Seq(C), NEW v, NEW p \in 0..Len(t), NEW f,
         \A q \in 0..p - 1 : Advances(t, v, q, f[q])
  PROVE  Advances(t, v, p, AdvanceFrom(f, t, v, p))
<1>1. CASE Hits(t, v, p)
  BY <1>1, AdvanceHit DEF AdvanceFrom
<1>2. CASE ~Hits(t, v, p) /\ p = 0
  BY <1>2, AdvanceNone DEF AdvanceFrom
<1>3. CASE ~Hits(t, v, p) /\ p # 0
  <2>1. p \in 1..Len(t)
    BY <1>3
  <2>2. Fallback(t, p) \in 0..p - 1
    BY <2>1, FallbackMeans
  <2>3. Advances(t, v, Fallback(t, p), f[Fallback(t, p)])
    BY <2>2
  <2>4. Advances(t, v, p, f[Fallback(t, p)])
    BY <1>3, <2>1, <2>3, AdvanceBack
  <2> QED
    BY <1>3, <2>4 DEF AdvanceFrom
<1> QED
  BY <1>1, <1>2, <1>3

(* From the answers for smaller matches to the answers for all.            *)
LEMMA AllAdvance ==
  ASSUME NEW C, NEW t \in Seq(C), NEW v, NEW f,
         \A p \in 0..Len(t) :
           (\A q \in 0..p - 1 : Advances(t, v, q, f[q])) => Advances(t, v, p, f[p])
  PROVE  \A p \in 0..Len(t) : Advances(t, v, p, f[p])
<1> DEFINE N == Len(t)
           Good(p) == Advances(t, v, p, f[p])
           P == {p \in 0..N : \A q \in 0..p : Good(q)}
<1>1. N \in Nat /\ \A p \in 0..N : (\A q \in 0..p - 1 : Good(q)) => Good(p)
  OBVIOUS
<1> HIDE DEF N, Good
<1>2. 0 \in P
  <2>1. 0 \in 0..N /\ 0..0 = {0} /\ 0..0 - 1 = {}
    BY <1>1
  <2> QED
    BY <1>1, <2>1
<1>3. ASSUME NEW i \in 0..N - 1, i \in P PROVE i + 1 \in P
  <2>1. /\ i + 1 \in 0..N /\ \A q \in 0..i + 1 : q \in 0..i \/ q = i + 1
        /\ \A q \in 0..(i + 1) - 1 : q \in 0..i
    BY <1>1
  <2>2. \A q \in 0..i : Good(q)
    BY <1>3
  <2>3. Good(i + 1)
    BY <1>1, <2>1, <2>2
  <2> QED
    BY <2>1, <2>2, <2>3
<1> HIDE DEF P
<1>4. \A i \in 0..N : i \in P
  BY <1>1, <1>2, <1>3, Induct
<1>5. ASSUME NEW i \in 0..N PROVE Good(i)
  <2>1. i \in 0..i /\ i \in P
    BY <1>1, <1>4
  <2> QED
    BY <2>1 DEF P
<1> QED
  BY <1>5 DEF N, Good

(* Some function falls back as mark_advance does, and advances.            *)
Falls(t, v) ==
  \E f : /\ f = [p \in 0..Len(t) |-> AdvanceFrom(f, t, v, p)]
         /\ \A p \in 0..Len(t) : Advances(t, v, p, f[p])

(* There is an answer for every match.                                     *)
LEMMA AdvanceExists ==
  ASSUME NEW C, NEW t \in Seq(C), NEW v
  PROVE  Falls(t, v)
<1> DEFINE N == Len(t)
           f == [p \in 0..N |-> CHOOSE r : Advances(t, v, p, r)]
<1>1. \A p \in 0..N : f[p] = CHOOSE r : Advances(t, v, p, r)
  OBVIOUS
<1>2. DOMAIN f = 0..N /\ f = [p \in 0..N |-> f[p]]
  OBVIOUS
<1> HIDE DEF f
<1>3. ASSUME NEW p \in 0..N, \A q \in 0..p - 1 : Advances(t, v, q, f[q])
      PROVE  Advances(t, v, p, f[p])
  <2>1. Advances(t, v, p, AdvanceFrom(f, t, v, p))
    BY <1>3, AdvanceStep
  <2>2. \E r : Advances(t, v, p, r)
    BY <2>1
  <2>3. Advances(t, v, p, CHOOSE r : Advances(t, v, p, r))
    BY <2>2
  <2> QED
    BY <1>1, <2>3
<1>4. \A p \in 0..N : Advances(t, v, p, f[p])
  BY <1>3, AllAdvance
<1>5. ASSUME NEW p \in 0..N PROVE f[p] = AdvanceFrom(f, t, v, p)
  <2>1. \A q \in 0..p - 1 : Advances(t, v, q, f[q])
    <3>1. \A q \in 0..p - 1 : q \in 0..N
      OBVIOUS
    <3> QED
      BY <1>4, <3>1
  <2>2. Advances(t, v, p, AdvanceFrom(f, t, v, p))
    BY <2>1, AdvanceStep
  <2> QED
    BY <1>4, <2>2, AdvanceUnique
<1> QED
  BY <1>2, <1>4, <1>5 DEF Falls

(* mark_advance: the greatest border of what was matched that the          *)
(* character makes longer.                                                 *)
LEMMA MarkAdvances ==
  ASSUME NEW C, NEW t \in Seq(C), NEW v, NEW p \in 0..Len(t)
  PROVE  Advances(t, v, p, mark_advance(t, p, v))
<1> DEFINE from == CHOOSE f : f = [q \in 0..Len(t) |->
                      IF q < Len(t) /\ t[q + 1] = v THEN q + 1
                      ELSE IF q = 0 THEN 0 ELSE f[Fallback(t, q)]]
<1>1. mark_advance(t, p, v) = from[p]
  BY DEF mark_advance
<1>2. \E f : f = [q \in 0..Len(t) |->
                      IF q < Len(t) /\ t[q + 1] = v THEN q + 1
                      ELSE IF q = 0 THEN 0 ELSE f[Fallback(t, q)]]
  <2>1. PICK f : f = [q \in 0..Len(t) |-> AdvanceFrom(f, t, v, q)]
    <3>1. Falls(t, v)
      BY AdvanceExists
    <3> QED
      BY <3>1, Zenon DEF Falls
  <2> QED
    BY <2>1, Zenon DEF AdvanceFrom, Hits
<1>3. from = [q \in 0..Len(t) |->
                 IF q < Len(t) /\ t[q + 1] = v THEN q + 1
                 ELSE IF q = 0 THEN 0 ELSE from[Fallback(t, q)]]
  BY <1>2
<1> HIDE DEF from
<1>4. \A q \in 0..Len(t) : from[q] = AdvanceFrom(from, t, v, q)
  BY <1>3 DEF AdvanceFrom, Hits
<1>5. ASSUME NEW q \in 0..Len(t), \A x \in 0..q - 1 : Advances(t, v, x, from[x])
      PROVE  Advances(t, v, q, from[q])
  BY <1>4, <1>5, AdvanceStep
<1>6. \A q \in 0..Len(t) : Advances(t, v, q, from[q])
  BY <1>5, AllAdvance
<1> QED
  BY <1>1, <1>6

(* The longest match stays the longest.                                    *)
LEMMA LongestStep ==
  ASSUME NEW C, NEW t \in Seq(C), NEW s \in Seq(C), NEW v \in C, NEW q, Longest(t, q, s)
  PROVE  Longest(t, mark_advance(t, q, v), Append(s, v))
<1> DEFINE r == mark_advance(t, q, v)
           u == Append(s, v)
<1>1. Matches(t, q, s) /\ q \in 0..Len(t) /\ \A k \in 0..Len(t) : Matches(t, k, s) => k <= q
  BY DEF Longest, Matches
<1>2. Advances(t, v, q, r)
  BY <1>1, MarkAdvances
<1>3. u \in Seq(C) /\ Len(u) = Len(s) + 1 /\ Len(s) \in Nat /\ Len(t) \in Nat
  OBVIOUS
<1> HIDE DEF r
<1>4. r \in 0..Len(t)
  BY <1>2 DEF Advances
<1>5. Matches(t, r, u)
  <2>1. CASE r = 0
    <3>1. \A i \in 1..0 : FALSE
      OBVIOUS
    <3>2. 0 \in 0..Len(t) /\ 0 <= Len(u)
      BY <1>3
    <3> QED
      BY <2>1, <3>1, <3>2 DEF Matches
  <2>2. CASE r # 0
    <3> DEFINE j == r - 1
    <3>1. j \in 0..q /\ Border(t, j, q) /\ j < Len(t) /\ t[j + 1] = v
      BY <1>2, <2>2 DEF Advances, Grows
    <3>2. j \in Nat /\ j + 1 = r
      BY <1>4, <3>1
    <3> HIDE DEF j
    <3>3. Matches(t, j, s)
      BY <1>1, <3>1, MatchOfMatch
    <3>4. Matches(t, j + 1, u)
      BY <3>1, <3>2, <3>3, MatchMore, SMTT(30)
    <3> QED
      BY <3>2, <3>4
  <2> QED
    BY <2>1, <2>2
<1>6. ASSUME NEW k \in 0..Len(t), Matches(t, k, u) PROVE k <= r
  <2>1. CASE k = 0
    BY <1>4, <2>1
  <2>2. CASE k # 0
    <3> DEFINE j == k - 1
    <3>1. j \in Nat /\ j + 1 = k /\ j \in 0..Len(t)
      BY <2>2
    <3> HIDE DEF j
    <3>2. Matches(t, j, s) /\ j < Len(t) /\ t[j + 1] = v
      BY <1>6, <3>1, MatchMore
    <3>3. j <= q
      BY <1>1, <3>1, <3>2
    <3>4. j \in 0..q
      BY <1>1, <3>1, <3>3
    <3>5. Border(t, j, q)
      BY <1>1, <3>2, <3>4, MatchOfMatch
    <3>6. j + 1 <= r
      BY <1>2, <3>2, <3>4, <3>5 DEF Advances, Grows
    <3> QED
      BY <3>1, <3>6
  <2> QED
    BY <2>1, <2>2
<1> QED
  BY <1>5, <1>6 DEF Longest, r

(* Before anything is printed nothing is matched.                          *)
LEMMA LongestInit ==
  ASSUME NEW C, NEW t \in Seq(C)
  PROVE  Longest(t, 0, <<>>)
<1>1. 0 \in 0..Len(t) /\ Len(<<>>) = 0 /\ 1..0 = {}
  OBVIOUS
<1>2. \A k \in 0..Len(t) : k <= 0 <=> k = 0
  OBVIOUS
<1> QED
  BY <1>1, <1>2 DEF Longest, Matches

(* A text is printed when all of it is the end of what was printed.        *)
LEMMA PrintedNow ==
  ASSUME NEW C, NEW t \in Seq(C), NEW s \in Seq(C), NEW m \in Nat, m + Len(t) = Len(s)
  PROVE  SubSeq(s, m + 1, m + Len(t)) = t <=> Matches(t, Len(t), s)
<1> DEFINE L == Len(t)
           b == SubSeq(s, m + 1, m + L)
<1>1. /\ L \in Nat /\ Len(s) \in Nat /\ L <= Len(s) /\ Len(s) - L = m
      /\ m + 1 \in Int /\ m + L \in Int
      /\ \A i \in m + 1..m + L : s[i] \in C
  OBVIOUS
<1>2. /\ b \in Seq(C)
      /\ Len(b) = IF m + 1 <= m + L THEN (m + L) - (m + 1) + 1 ELSE 0
      /\ \A i \in 1..(m + L) - (m + 1) + 1 : b[i] = s[(m + 1) + i - 1]
  <2> HIDE DEF L
  <2> QED
    BY <1>1, SubSeqProperties
<1>3. Len(t) = L
  OBVIOUS
<1> HIDE DEF b, L
<1>4. Len(b) = L /\ (m + L) - (m + 1) + 1 = L
  BY <1>1, <1>2
<1>5. \A i \in 1..L : b[i] = s[m + i]
  <2>1. \A i \in 1..L : (m + 1) + i - 1 = m + i
    BY <1>1
  <2> QED
    BY <1>2, <1>4, <2>1
<1>6. b = t <=> \A i \in 1..L : b[i] = t[i]
  BY <1>2, <1>3, <1>4, SeqEqual
<1>7. Matches(t, L, s) <=> \A i \in 1..L : t[i] = s[m + i]
  <2>1. L \in 0..Len(t) /\ \A i \in 1..L : Len(s) - L + i = m + i
    BY <1>1, <1>3
  <2>2. Matches(t, L, s) <=> \A i \in 1..L : t[i] = s[Len(s) - L + i]
    BY <1>1, <2>1 DEF Matches
  <2> QED
    BY <2>1, <2>2
<1> QED
  BY <1>5, <1>6, <1>7 DEF b, L

(* What was printed stays printed, and the text is printed anew when the   *)
(* last character completes it.                                            *)
LEMMA PrintedMore ==
  ASSUME NEW C, NEW t \in Seq(C), t # <<>>, NEW s \in Seq(C), NEW v \in C
  PROVE  Printed(t, Append(s, v)) <=> Printed(t, s) \/ Matches(t, Len(t), Append(s, v))
<1> DEFINE L == Len(t)
           N == Len(s)
           u == Append(s, v)
<1>1. /\ L \in Nat /\ L >= 1 /\ N \in Nat /\ u \in Seq(C) /\ Len(u) = N + 1
      /\ \A i \in 1..N : u[i] = s[i]
  OBVIOUS
<1>2. ASSUME NEW i \in 0..N - L PROVE SubSeq(u, i + 1, i + L) = SubSeq(s, i + 1, i + L)
  <2>1. /\ i + 1 \in Int /\ i + L \in Int /\ \A k \in i + 1..i + L : k \in 1..N
    BY <1>1
  <2>2. \A k \in i + 1..i + L : s[k] \in C /\ u[k] = s[k]
    BY <1>1, <2>1
  <2> HIDE DEF u, L, N
  <2>3. /\ SubSeq(u, i + 1, i + L) \in Seq(C) /\ SubSeq(s, i + 1, i + L) \in Seq(C)
        /\ Len(SubSeq(u, i + 1, i + L)) = Len(SubSeq(s, i + 1, i + L))
        /\ Len(SubSeq(u, i + 1, i + L)) = L
        /\ \A k \in 1..(i + L) - (i + 1) + 1 :
             /\ SubSeq(u, i + 1, i + L)[k] = u[(i + 1) + k - 1]
             /\ SubSeq(s, i + 1, i + L)[k] = s[(i + 1) + k - 1]
    <3>1. /\ SubSeq(u, i + 1, i + L) \in Seq(C)
          /\ Len(SubSeq(u, i + 1, i + L))
               = IF i + 1 <= i + L THEN (i + L) - (i + 1) + 1 ELSE 0
          /\ \A k \in 1..(i + L) - (i + 1) + 1 :
               SubSeq(u, i + 1, i + L)[k] = u[(i + 1) + k - 1]
      BY <2>1, <2>2, SubSeqProperties
    <3>2. /\ SubSeq(s, i + 1, i + L) \in Seq(C)
          /\ Len(SubSeq(s, i + 1, i + L))
               = IF i + 1 <= i + L THEN (i + L) - (i + 1) + 1 ELSE 0
          /\ \A k \in 1..(i + L) - (i + 1) + 1 :
               SubSeq(s, i + 1, i + L)[k] = s[(i + 1) + k - 1]
      BY <2>1, <2>2, SubSeqProperties
    <3>3. (IF i + 1 <= i + L THEN (i + L) - (i + 1) + 1 ELSE 0) = L
      BY <1>1
    <3> QED
      BY <3>1, <3>2, <3>3
  <2>4. \A k \in 1..L : k \in 1..(i + L) - (i + 1) + 1 /\ (i + 1) + k - 1 \in i + 1..i + L
    BY <1>1
  <2>5. \A k \in 1..L : SubSeq(u, i + 1, i + L)[k] = SubSeq(s, i + 1, i + L)[k]
    BY <2>2, <2>3, <2>4
  <2> QED
    BY <2>3, <2>5, SeqEqual
<1>3. Printed(t, s) => Printed(t, u)
  <2>1. \A i \in 0..N - L : i \in 0..Len(u) - L
    BY <1>1
  <2> QED
    BY <1>2, <2>1 DEF Printed
<1>4. Matches(t, L, u) => Printed(t, u)
  <2> SUFFICES ASSUME Matches(t, L, u) PROVE Printed(t, u)
    OBVIOUS
  <2> DEFINE m == Len(u) - L
  <2>1. m \in Nat /\ m + L = Len(u) /\ m \in 0..Len(u) - L
    BY <1>1 DEF Matches
  <2> HIDE DEF m
  <2>2. SubSeq(u, m + 1, m + L) = t
    BY <1>1, <2>1, PrintedNow
  <2> QED
    BY <2>1, <2>2 DEF Printed
<1>5. Printed(t, u) => Printed(t, s) \/ Matches(t, L, u)
  <2> SUFFICES ASSUME NEW i \in 0..Len(u) - L, SubSeq(u, i + 1, i + L) = t
               PROVE  Printed(t, s) \/ Matches(t, L, u)
    BY DEF Printed
  <2>1. i \in Nat /\ (i \in 0..N - L \/ i + L = Len(u))
    BY <1>1
  <2>2. CASE i \in 0..N - L
    BY <1>2, <2>2 DEF Printed
  <2>3. CASE i + L = Len(u)
    BY <1>1, <2>1, <2>3, PrintedNow
  <2> QED
    BY <2>1, <2>2, <2>3
<1> QED
  BY <1>3, <1>4, <1>5

(* Nothing printed, no text in it.                                         *)
LEMMA PrintedNothing ==
  ASSUME NEW C, NEW t \in Seq(C), t # <<>>
  PROVE  ~Printed(t, <<>>)
<1>1. Len(t) \in Nat /\ Len(t) >= 1 /\ Len(<<>>) = 0
  OBVIOUS
<1>2. \A i \in 0..0 - Len(t) : FALSE
  BY <1>1
<1> QED
  BY <1>1, <1>2 DEF Printed

(* All of a text is matched exactly when the longest match is all of it.   *)
LEMMA WholeMatch ==
  ASSUME NEW C, NEW t \in Seq(C), NEW s \in Seq(C), NEW q, Longest(t, q, s)
  PROVE  q = Len(t) <=> Matches(t, Len(t), s)
<1>1. q \in 0..Len(t) /\ Len(t) \in Nat /\ Len(t) \in 0..Len(t)
  BY DEF Longest, Matches
<1>2. Matches(t, q, s)
  BY DEF Longest
<1>3. Matches(t, Len(t), s) => Len(t) <= q
  BY <1>1 DEF Longest
<1> QED
  BY <1>1, <1>2, <1>3

Watches == [mark : Seq(Chars) \ {<<>>}, stop_mark_pos : [Ports -> Nat], stop : BOOLEAN,
            inq_mark_pos : Nat, inq_mark_seen : BOOLEAN]

(* What a watch knows of what was printed.                                 *)
Watching(w, out) ==
  /\ w \in Watches /\ out \in [Ports -> Seq(Chars)]
  /\ \A p \in Ports : Longest(w.mark, w.stop_mark_pos[p], out[p])
  /\ w.stop = (\E p \in Ports : Printed(w.mark, out[p]))
  /\ w.inq_mark_seen = Printed(w.mark, out[Console])
  /\ ~w.inq_mark_seen => Longest(w.mark, w.inq_mark_pos, out[Console])

(* The fields of a watch after a character of the port p.                  *)
LEMMA StopFields ==
  ASSUME NEW w \in Watches, NEW p \in Ports, NEW v
  PROVE  LET z == stop_mark_watch(w, p, v)
             pos == mark_advance(w.mark, w.stop_mark_pos[p], v)
         IN  pos \in Nat => /\ z \in Watches /\ z.mark = w.mark
             /\ z.stop_mark_pos = [w.stop_mark_pos EXCEPT ![p] = pos]
             /\ z.stop = (w.stop \/ pos = Len(w.mark))
             /\ z.inq_mark_pos = w.inq_mark_pos /\ z.inq_mark_seen = w.inq_mark_seen
<1> DEFINE pos == mark_advance(w.mark, w.stop_mark_pos[p], v)
           b == w.stop \/ pos = Len(w.mark)
           smp == [w.stop_mark_pos EXCEPT ![p] = pos]
<1>1. stop_mark_watch(w, p, v) = [w EXCEPT !.stop_mark_pos = smp, !.stop = b]
  BY DEF stop_mark_watch, Watches
<1>2. b \in BOOLEAN
  BY DEF Watches
<1> HIDE DEF b
<1>3. pos \in Nat => smp \in [Ports -> Nat]
  BY DEF Watches
<1> HIDE DEF pos, smp
<1>4. pos \in Nat => LET z == stop_mark_watch(w, p, v)
                     IN  /\ z \in Watches /\ z.mark = w.mark
                         /\ z.stop_mark_pos = smp /\ z.stop = b
                         /\ z.inq_mark_pos = w.inq_mark_pos
                         /\ z.inq_mark_seen = w.inq_mark_seen
  BY <1>1, <1>2, <1>3 DEF Watches
<1> QED
  BY <1>4, Zenon DEF pos, smp, b

(* The fields of a watch after a character of the console.                 *)
LEMMA InputFields ==
  ASSUME NEW w \in Watches, NEW v
  PROVE  LET z == InputMark(w, v)
             pos == mark_advance(w.mark, w.inq_mark_pos, v)
         IN  IF w.inq_mark_seen THEN z = w
             ELSE pos \in Nat =>
                  /\ z \in Watches /\ z.mark = w.mark
                  /\ z.stop_mark_pos = w.stop_mark_pos /\ z.stop = w.stop
                  /\ z.inq_mark_pos = pos /\ z.inq_mark_seen = (pos = Len(w.mark))
<1> DEFINE pos == mark_advance(w.mark, w.inq_mark_pos, v)
<1>1. InputMark(w, v) = IF w.inq_mark_seen THEN w
        ELSE [w EXCEPT !.inq_mark_pos = pos, !.inq_mark_seen = (pos = Len(w.mark))]
  BY DEF InputMark
<1> HIDE DEF pos
<1> QED
  BY <1>1 DEF Watches, pos

(* A character more, and the watch knows of it.                            *)
LEMMA WatchingStep ==
  ASSUME NEW w, NEW out, Watching(w, out), NEW p \in Ports, NEW v \in Chars,
         Console \in Ports
  PROVE  Watching(Transmit(w, p, v, Console), [out EXCEPT ![p] = Append(out[p], v)])
<1> DEFINE mark == w.mark
           L    == Len(mark)
           o    == [out EXCEPT ![p] = Append(out[p], v)]
           s    == Append(out[p], v)
           pos  == mark_advance(mark, w.stop_mark_pos[p], v)
           ipos == mark_advance(mark, w.inq_mark_pos, v)
           u    == stop_mark_watch(w, p, v)
           z    == Transmit(w, p, v, Console)
<1>1. /\ w \in Watches /\ out \in [Ports -> Seq(Chars)]
      /\ mark \in Seq(Chars) /\ mark # <<>> /\ out[p] \in Seq(Chars)
  BY DEF Watching, Watches
<1>2. /\ o \in [Ports -> Seq(Chars)] /\ o[p] = s /\ s \in Seq(Chars)
      /\ \A r \in Ports : r # p => o[r] = out[r]
  BY <1>1
<1>3. Longest(mark, pos, s)
  BY <1>1, LongestStep DEF Watching
<1>4. pos \in Nat /\ (pos = L <=> Matches(mark, L, s))
  <2>1. pos \in 0..L
    BY <1>3 DEF Longest, Matches
  <2>2. pos \in Nat
    BY <2>1
  <2> QED
    BY <1>1, <1>2, <1>3, <2>2, WholeMatch
<1>5. Printed(mark, s) <=> Printed(mark, out[p]) \/ pos = L
  BY <1>1, <1>4, PrintedMore
<1>6. /\ u \in Watches /\ u.mark = mark
      /\ u.stop_mark_pos = [w.stop_mark_pos EXCEPT ![p] = pos]
      /\ u.stop = (w.stop \/ pos = L)
      /\ u.inq_mark_pos = w.inq_mark_pos /\ u.inq_mark_seen = w.inq_mark_seen
  BY <1>1, <1>4, StopFields
<1>7. z = IF p = Console THEN InputMark(u, v) ELSE u
  BY DEF Transmit
<1>8. ASSUME p = Console, ~w.inq_mark_seen
      PROVE  Longest(mark, ipos, s) /\ ipos \in Nat /\ (ipos = L <=> Matches(mark, L, s))
  <2>1. Longest(mark, w.inq_mark_pos, out[p])
    BY <1>8 DEF Watching
  <2>2. Longest(mark, ipos, s)
    BY <1>1, <2>1, LongestStep
  <2>3. ipos \in 0..L
    BY <2>2 DEF Longest, Matches
  <2>4. ipos \in Nat
    BY <2>3
  <2> QED
    BY <1>1, <1>2, <2>2, <2>4, WholeMatch
<1> HIDE DEF z, u, pos, ipos, s, o, L
<1>9. /\ z \in Watches /\ z.mark = mark
      /\ z.stop_mark_pos = [w.stop_mark_pos EXCEPT ![p] = pos]
      /\ z.stop = (w.stop \/ pos = L)
      /\ p # Console \/ w.inq_mark_seen
           => z.inq_mark_pos = w.inq_mark_pos /\ z.inq_mark_seen = w.inq_mark_seen
      /\ p = Console /\ ~w.inq_mark_seen
           => z.inq_mark_pos = ipos /\ z.inq_mark_seen = (ipos = L)
  <2>1. CASE p # Console
    BY <1>6, <1>7, <2>1
  <2>2. CASE p = Console /\ w.inq_mark_seen
    <3>1. z = u
      BY <1>6, <1>7, <2>2, InputFields
    <3> QED
      BY <1>6, <2>2, <3>1
  <2>3. CASE p = Console /\ ~w.inq_mark_seen
    <3>1. ipos \in Nat /\ ipos = mark_advance(u.mark, u.inq_mark_pos, v)
      BY <1>6, <1>8, <2>3 DEF ipos
    <3>2. z = InputMark(u, v) /\ ~u.inq_mark_seen /\ L = Len(u.mark)
      BY <1>6, <1>7, <2>3 DEF L
    <3>3. /\ z \in Watches /\ z.mark = u.mark
          /\ z.stop_mark_pos = u.stop_mark_pos /\ z.stop = u.stop
          /\ z.inq_mark_pos = ipos /\ z.inq_mark_seen = (ipos = L)
      BY <1>6, <3>1, <3>2, InputFields
    <3> QED
      BY <1>6, <2>3, <3>3
  <2> QED
    BY <2>1, <2>2, <2>3
<1>10. ASSUME NEW r \in Ports PROVE Longest(z.mark, z.stop_mark_pos[r], o[r])
  <2>1. w.stop_mark_pos \in [Ports -> Nat]
    BY <1>1 DEF Watches
  <2>2. CASE r = p
    BY <1>2, <1>3, <1>9, <2>1, <2>2
  <2>3. CASE r # p
    BY <1>2, <1>9, <2>1, <2>3 DEF Watching
  <2> QED
    BY <2>2, <2>3
<1>11. (\E r \in Ports : Printed(mark, o[r]))
         <=> (\E r \in Ports : Printed(mark, out[r])) \/ pos = L
  <2>1. Printed(mark, o[p]) <=> Printed(mark, out[p]) \/ pos = L
    BY <1>2, <1>5
  <2>2. \A r \in Ports : r # p => (Printed(mark, o[r]) <=> Printed(mark, out[r]))
    BY <1>2
  <2> QED
    BY <2>1, <2>2
<1>12. z.stop = (\E r \in Ports : Printed(mark, o[r]))
  <2>1. w.stop = (\E r \in Ports : Printed(mark, out[r]))
    BY DEF Watching
  <2> QED
    BY <1>9, <1>11, <2>1, Zenon
<1>13. /\ z.inq_mark_seen = Printed(mark, o[Console])
       /\ ~z.inq_mark_seen => Longest(mark, z.inq_mark_pos, o[Console])
  <2>1. /\ w.inq_mark_seen = Printed(mark, out[Console])
        /\ ~w.inq_mark_seen => Longest(mark, w.inq_mark_pos, out[Console])
    BY DEF Watching
  <2>2. CASE p # Console
    BY <1>2, <1>9, <2>1, <2>2, Zenon
  <2>3. CASE p = Console /\ w.inq_mark_seen
    <3>1. z.inq_mark_seen = w.inq_mark_seen
      BY <1>9, <2>3, Zenon
    <3>2. Printed(mark, out[p])
      BY <2>1, <2>3, Zenon
    <3>3. Printed(mark, o[Console])
      BY <1>2, <1>5, <2>3, <3>2, Zenon
    <3>4. Printed(mark, o[Console]) \in BOOLEAN /\ w.inq_mark_seen \in BOOLEAN
      BY <1>1 DEF Printed, Watches
    <3> QED
      BY <2>3, <3>1, <3>3, <3>4, Zenon
  <2>4. CASE p = Console /\ ~w.inq_mark_seen
    <3>1. z.inq_mark_seen = (ipos = L) /\ z.inq_mark_pos = ipos
      BY <1>9, <2>4, Zenon
    <3>2. Longest(mark, ipos, s) /\ (ipos = L <=> Matches(mark, L, s))
      BY <1>8, <2>4, Zenon
    <3>3. ~Printed(mark, out[p])
      BY <2>1, <2>4, Zenon
    <3>4. Printed(mark, s) <=> ipos = L
      BY <1>4, <1>5, <3>2, <3>3, Zenon
    <3>5. o[Console] = s
      BY <1>2, <2>4, Zenon
    <3>6. Printed(mark, s) \in BOOLEAN
      BY DEF Printed
    <3> QED
      BY <3>1, <3>2, <3>4, <3>5, <3>6, Zenon
  <2> QED
    BY <2>2, <2>3, <2>4
<1> HIDE DEF mark
<1>14. Watching(z, o)
  BY <1>2, <1>9, <1>10, <1>12, <1>13, Zenon DEF Watching
<1> QED
  BY <1>14 DEF z, o, s

(* The inductive invariant: the watch knows the longest match of the       *)
(* output of each port.                                                    *)
MarkInv ==
  /\ "about" \in DOMAIN job
  /\ job.about = "mark" =>
       {"watch", "out"} \subseteq DOMAIN job /\ Watching(job.watch, job.out)

(* Every mark any port prints is found, whatever precedes it, and no other *)
(* (mark_advance, stop_mark_watch, scc_write).                             *)
THEOREM MarksSound == JobSpec => []MarksFound
<1>1. ASSUME JobInit PROVE MarkInv
  <2> SUFFICES ASSUME job.about = "mark"
               PROVE  {"watch", "out"} \subseteq DOMAIN job /\ Watching(job.watch, job.out)
    BY <1>1, Begins DEF MarkInv
  <2> DEFINE mark == job.watch.mark
  <2>1. /\ mark \in Seq(Chars) /\ mark # <<>>
        /\ job = [about |-> "mark", watch |-> Watch(mark, Ports),
                  out |-> [p \in Ports |-> <<>>]]
    BY <1>1, Begins DEF Proper
  <2> HIDE DEF mark
  <2>2. /\ {"watch", "out"} \subseteq DOMAIN job
        /\ job.watch = Watch(mark, Ports) /\ job.out = [p \in Ports |-> <<>>]
    BY <2>1
  <2> DEFINE w == Watch(mark, Ports)
             out == [p \in Ports |-> <<>>]
  <2>3. /\ w \in Watches /\ w.mark = mark /\ w.stop = FALSE /\ w.inq_mark_pos = 0
        /\ w.inq_mark_seen = FALSE /\ \A p \in Ports : w.stop_mark_pos[p] = 0
    BY <2>1 DEF Watch, Watches
  <2>4. out \in [Ports -> Seq(Chars)] /\ \A p \in Ports : out[p] = <<>>
    OBVIOUS
  <2>5. Longest(mark, 0, <<>>) /\ ~Printed(mark, <<>>)
    BY <2>1, LongestInit, PrintedNothing
  <2>6. Printed(mark, <<>>) \in BOOLEAN
    BY DEF Printed
  <2>7. Console \in Ports
    BY JobsAssumption
  <2> HIDE DEF w, out
  <2>8. Watching(w, out)
    BY <2>3, <2>4, <2>5, <2>6, <2>7, Zenon DEF Watching
  <2> QED
    BY <2>2, <2>8 DEF w, out
<1>2. ASSUME MarkInv, [JobNext]_jvars PROVE MarkInv'
  <2>1. CASE UNCHANGED jvars
    BY <1>2, <2>1 DEF jvars, MarkInv
  <2>2. CASE JobNext
    <3>1. /\ "about" \in DOMAIN job' /\ job'.about = job.about
          /\ job.about = "mark" => PrintChar
      BY <1>2, <2>2, StepOf DEF MarkInv
    <3>2. ASSUME job.about = "mark"
          PROVE  {"watch", "out"} \subseteq DOMAIN job' /\ Watching(job'.watch, job'.out)
      <4>1. PICK p \in Ports, v \in Chars :
              job' = [job EXCEPT !.watch = Transmit(@, p, v, Console),
                                 !.out[p] = Append(@, v)]
        BY <3>1, <3>2 DEF PrintChar
      <4>2. {"watch", "out"} \subseteq DOMAIN job /\ Watching(job.watch, job.out)
        BY <1>2, <3>2 DEF MarkInv
      <4>3. /\ {"watch", "out"} \subseteq DOMAIN job'
            /\ job'.watch = Transmit(job.watch, p, v, Console)
            /\ job'.out = [job.out EXCEPT ![p] = Append(job.out[p], v)]
        BY <4>1, <4>2
      <4>4. Console \in Ports
        BY JobsAssumption
      <4> QED
        BY <4>2, <4>3, <4>4, WatchingStep
    <3> QED
      BY <3>1, <3>2 DEF MarkInv
  <2> QED
    BY <1>2, <2>1, <2>2
<1>3. MarkInv => MarksFound
  BY DEF MarkInv, MarksFound, Watching
<1> QED
  BY <1>1, <1>2, <1>3, PTL DEF JobSpec

(***************************************************************************)
(* Part eight: shifts and rotates.                                         *)
(*                                                                         *)
(* Place by place a shift doubles or halves the number (LeftMeans,         *)
(* RightMeans), and leaves the signed range for good as soon as the sign   *)
(* is not the operand's; each place of a rotate is undone by one of its    *)
(* opposite (OneBack), the last first (TurnsBack).                         *)
(***************************************************************************)

(* Doubling, for every count: the law of ^ the provers do not know.        *)
Doubling == 2 ^ 0 = 1 /\ \A i \in 0..62 : 2 ^ (i + 1) = 2 * 2 ^ i

(* Powers of two, and what they do to a number, once more.                 *)
LEMMA Powers ==
  ASSUME Doubling, NEW i \in 0..63
  PROVE  /\ 2 ^ i \in Nat \ {0}
         /\ i < 63 => \A x \in Int : x * 2 ^ (i + 1) = 2 * (x * 2 ^ i)
<1> DEFINE S == {k \in 0..63 : 2 ^ k \in Nat \ {0}}
<1>1. 0 \in S
  BY DEF Doubling
<1>2. ASSUME NEW k \in 0..i - 1, k \in S PROVE k + 1 \in S
  <2>1. 2 ^ (k + 1) = 2 * 2 ^ k /\ k + 1 \in 0..63
    BY DEF Doubling
  <2> QED
    BY <1>2, <2>1
<1>3. i \in S
  <2>1. i \in 0..i
    OBVIOUS
  <2> HIDE DEF S
  <2> QED
    BY <1>1, <1>2, <2>1, Induct
<1>4. 2 ^ i \in Nat \ {0}
  BY <1>3
<1> DEFINE p == 2 ^ i
<1>5. i < 63 => 2 ^ (i + 1) = 2 * p
  BY DEF Doubling
<1> HIDE DEF p
<1>6. \A x \in Int : x * (2 * p) = 2 * (x * p)
  <2>1. p \in Int
    BY <1>4 DEF p
  <2> QED
    BY <2>1
<1> QED
  BY <1>4, <1>5, <1>6 DEF p

(* Halving a quotient.                                                     *)
LEMMA HalfAgain ==
  ASSUME NEW x \in Int, NEW q \in Nat \ {0}
  PROVE  (x \div q) \div 2 = x \div (2 * q)
<1> DEFINE a == x \div q
           r == x % q
           b == a \div 2
           c == a % 2
<1>1. a \in Int /\ r \in 0..q - 1 /\ x = q * a + r
  BY DivFacts
<1> HIDE DEF a, r
<1>2. c \in 0..1 /\ b \in Int /\ a = 2 * b + c
  BY <1>1
<1> HIDE DEF b, c
<1>3. x = (2 * q) * b + (q * c + r)
  BY <1>1, <1>2
<1>4. q * c + r \in 0..2 * q - 1
  <2>1. c = 0 \/ c = 1
    BY <1>2
  <2> QED
    BY <1>1, <2>1
<1>5. x \div (2 * q) = b
  <2>1. 2 * q \in Nat \ {0}
    OBVIOUS
  <2> QED
    BY <1>2, <1>3, <1>4, <2>1, DivUnique
<1> QED
  BY <1>5 DEF b, a

(* A place to the left: the value doubles, and its sign changes when the   *)
(* signed range -h..h-1 is left.                                           *)
Doubled(h, m, v) ==
  LET z == (v * 2) % m
      x == IF v >= h THEN v - m ELSE v
      y == IF z >= h THEN z - m ELSE z
  IN  /\ z \in 0..m - 1
      /\ (z >= h <=> v >= h) => y = 2 * x
      /\ ~(z >= h <=> v >= h) => 2 * x < -h \/ 2 * x >= h

(* A place to the left doubles.                                            *)
LEMMA DoubleStep ==
  ASSUME NEW h \in Nat \ {0}, NEW m, m = 2 * h, NEW v \in 0..m - 1
  PROVE  Doubled(h, m, v)
<1> DEFINE z == (v * 2) % m
           x == IF v >= h THEN v - m ELSE v
           y == IF z >= h THEN z - m ELSE z
<1> DEFINE k == IF v >= h THEN 1 ELSE 0
           r == IF v >= h THEN v * 2 - m ELSE v * 2
           Claim == /\ z \in 0..m - 1
                    /\ (z >= h <=> v >= h) => y = 2 * x
                    /\ ~(z >= h <=> v >= h) => 2 * x < -h \/ 2 * x >= h
<1>1. z = r
  <2>1. r \in 0..m - 1 /\ v * 2 = m * k + r /\ k \in Int /\ v * 2 \in Int
          /\ m \in Nat \ {0}
    OBVIOUS
  <2> HIDE DEF r, k
  <2> QED
    BY <2>1, DivUnique
<1> HIDE DEF z
<1>2. Claim
  BY <1>1
<1> QED
  BY <1>2 DEF Doubled, z

(* A place to the right: half the number, signed when the sign enters.     *)
Halved(h, m, v, arith) ==
  LET z == (v \div 2) + (IF arith /\ v >= h THEN h ELSE 0)
      x == IF v >= h THEN v - m ELSE v
      y == IF z >= h THEN z - m ELSE z
  IN  /\ z \in 0..m - 1
      /\ arith => y = x \div 2
      /\ ~arith => z = v \div 2

(* A place to the right halves.                                            *)
LEMMA HalveStep ==
  ASSUME NEW h \in Nat \ {0}, NEW m, m = 2 * h, NEW v \in 0..m - 1, NEW arith \in BOOLEAN
  PROVE  Halved(h, m, v, arith)
<1> DEFINE z == (v \div 2) + (IF arith /\ v >= h THEN h ELSE 0)
           x == IF v >= h THEN v - m ELSE v
           y == IF z >= h THEN z - m ELSE z
           Claim == /\ z \in 0..m - 1
                    /\ arith => y = x \div 2
                    /\ ~arith => z = v \div 2
<1> DEFINE q == v \div 2
<1>1. q \in Nat /\ 2 * q <= v /\ v <= 2 * q + 1
  OBVIOUS
<1>2. ASSUME v >= h /\ arith PROVE Claim
  <2>1. (v - m) \div 2 = q - h
    BY <1>2
  <2> HIDE DEF q
  <2>2. q + h >= h /\ q + h <= m - 1
    BY <1>1, <1>2
  <2>3. z = q + h
    BY <1>2 DEF q
  <2>4. y = q - h
    BY <1>1, <2>2, <2>3
  <2> QED
    BY <1>2, <2>1, <2>2, <2>3, <2>4
<1>3. ASSUME ~(v >= h /\ arith) PROVE Claim
  <2>1. z = q /\ z = v \div 2
    BY <1>1, <1>3
  <2> HIDE DEF q
  <2>2. z \in 0..m - 1 /\ z < h /\ y = z
    BY <1>1, <2>1
  <2>3. arith => x = v
    BY <1>3
  <2> QED
    BY <2>1, <2>2, <2>3
<1>4. Claim
  BY <1>2, <1>3
<1> QED
  BY <1>4, Zenon DEF Halved

(* A step taken again and again.                                           *)
Repeats(f, N, start, step) == f[0] = start /\ \A i \in 1..N : f[i] = step[f[i - 1]]

(* Such places exist.                                                      *)
LEMMA PlaceByPlace ==
  ASSUME NEW N \in Nat, NEW S, NEW start \in S, NEW step \in [S -> S]
  PROVE  \E f \in [0..N -> S] : Repeats(f, N, start, step)
<1> DEFINE steps == [i \in 1..N |-> step]
<1>1. steps \in [1..N -> [S -> S]] /\ \A i \in 1..N : steps[i] = step
  OBVIOUS
<1> HIDE DEF steps
<1>2. PICK f \in [0..N -> S] : Iterates(f, N, start, steps)
  BY <1>1, Iterate
<1>3. Repeats(f, N, start, step)
  BY <1>1, <1>2, Zenon DEF Iterates, Repeats
<1> QED
  BY <1>3

(* One place to the left.                                                  *)
LeftPlace(r, a, w) ==
  LET v == (r.val * 2) % Mod(w)
  IN  [val |-> v, out |-> Bit(r.val, Bits[w] - 1), ovf |-> r.ovf \/ SignsDiffer(v, a, w)]

(* One place to the right.                                                 *)
RightPlace(r, arith, w) ==
  [val |-> (r.val \div 2) + Fill(r.val, arith, w), out |-> Bit(r.val, 0)]

(* The places of a shift to the left, and what do_shift_left makes of them.*)
ShiftsLeft(s, k, a, w) ==
  /\ s[0] = [val |-> a, out |-> FALSE, ovf |-> FALSE]
  /\ \A i \in 1..k : s[i] = LeftPlace(s[i - 1], a, w)

LeftResult(s, k, arith, w) ==
  Result(s[k].val,
         ZS(s[k].val, w) \cup When(s[k].out, "C") \cup When(arith /\ s[k].ovf, "PV"),
         {"Z", "S"} \cup When(k # 0, "C") \cup When(arith, "PV"))

(* The recursive function of do_shift_left exists.                         *)
LEMMA LeftPlaces ==
  ASSUME NEW w \in Widths, NEW a \in Nat, NEW cnt, Places(cnt) \in Nat, NEW arith
  PROVE  \E s : /\ ShiftsLeft(s, Places(cnt), a, w)
                /\ do_shift_left(a, cnt, arith, w) = LeftResult(s, Places(cnt), arith, w)
<1> DEFINE k == Places(cnt)
           S == [val : Nat, out : BOOLEAN, ovf : BOOLEAN]
           start == [val |-> a, out |-> FALSE, ovf |-> FALSE]
           step == [r \in S |-> LeftPlace(r, a, w)]
           Eq(f) == f = [i \in 0..k |->
                      IF i = 0 THEN [val |-> a, out |-> FALSE, ovf |-> FALSE]
                      ELSE LET v == (f[i - 1].val * 2) % Mod(w)
                           IN  [val |-> v, out |-> Bit(f[i - 1].val, Bits[w] - 1),
                                ovf |-> f[i - 1].ovf \/ SignsDiffer(v, a, w)]]
           s == CHOOSE f : Eq(f)
<1>0. k \in Nat
  OBVIOUS
<1>1. start \in S /\ step \in [S -> S]
  <2>1. \A r \in S : LeftPlace(r, a, w) \in S
    <3>1. \A r \in S : (r.val * 2) % Mod(w) \in Nat
      <4>1. Mod(w) \in Nat \ {0}
        BY Halves
      <4> DEFINE m == Mod(w)
      <4> HIDE DEF m
      <4>2. \A r \in S : (r.val * 2) % m \in Nat
        BY <4>1 DEF m
      <4> QED
        BY <4>2 DEF m
    <3> QED
      BY <3>1 DEF LeftPlace, Bit, SignsDiffer
  <2> QED
    BY <2>1
<1>2. \E f : Eq(f)
  <2> HIDE DEF step, S, start, k
  <2>1. PICK f \in [0..k -> S] : Repeats(f, k, start, step)
    BY <1>0, <1>1, PlaceByPlace
  <2>2. \A i \in 1..k : f[i] = LeftPlace(f[i - 1], a, w)
    <3> SUFFICES ASSUME NEW i \in 1..k PROVE f[i] = LeftPlace(f[i - 1], a, w)
      OBVIOUS
    <3>1. i - 1 \in 0..k
      BY <1>0
    <3>2. f[i - 1] \in S /\ f[i] = step[f[i - 1]]
      BY <2>1, <3>1 DEF Repeats
    <3> QED
      BY <3>2, Zenon DEF step
  <2>3. \A i \in 0..k : i = 0 \/ (i \in 1..k /\ i # 0)
    BY <1>0
  <2>4. DOMAIN f = 0..k /\ f = [i \in 0..k |-> f[i]]
    BY <2>1, Zenon
  <2>5. \A i \in 0..k : f[i] = IF i = 0 THEN start ELSE LeftPlace(f[i - 1], a, w)
    BY <2>1, <2>2, <2>3, Zenon DEF Repeats
  <2>6. f = [i \in 0..k |-> IF i = 0 THEN start ELSE LeftPlace(f[i - 1], a, w)]
    BY <2>4, <2>5, Zenon
  <2>7. Eq(f)
    BY <2>6, Zenon DEF LeftPlace, start
  <2> QED
    BY <2>7, Zenon
<1>3. Eq(s)
  <2> HIDE DEF Eq
  <2> QED
    BY <1>2, Zenon
<1>4. do_shift_left(a, cnt, arith, w) = LeftResult(s, k, arith, w)
  BY Zenon DEF do_shift_left, LeftResult
<1> HIDE DEF s, k
<1>5. \A i \in 0..k : s[i] = IF i = 0 THEN start ELSE LeftPlace(s[i - 1], a, w)
  BY <1>3, Zenon DEF LeftPlace
<1>6. 0 \in 0..k /\ \A i \in 1..k : i \in 0..k /\ i # 0
  BY <1>0
<1>7. s[0] = start /\ \A i \in 1..k : s[i] = LeftPlace(s[i - 1], a, w)
  BY <1>5, <1>6, Zenon
<1> QED
  BY <1>4, <1>7, Zenon DEF start, k, ShiftsLeft

(* The same to the right.                                                  *)
ShiftsDown(s, k, a, arith, w) ==
  /\ s[0] = [val |-> a, out |-> FALSE]
  /\ \A i \in 1..k : s[i] = RightPlace(s[i - 1], arith, w)

RightResult(s, k, arith, w) ==
  Result(s[k].val,
         ZS(s[k].val, w) \cup When(s[k].out, "C"),
         {"Z", "S"} \cup When(k # 0, "C") \cup When(arith, "PV"))

(* The recursive function of do_shift_right exists.                        *)
LEMMA RightPlaces ==
  ASSUME NEW w \in Widths, NEW a \in Nat, NEW cnt, Places(cnt) \in Nat, NEW arith
  PROVE  \E s : /\ ShiftsDown(s, Places(cnt), a, arith, w)
                /\ do_shift_right(a, cnt, arith, w) = RightResult(s, Places(cnt), arith, w)
<1> DEFINE k == Places(cnt)
           S == [val : Nat, out : BOOLEAN]
           start == [val |-> a, out |-> FALSE]
           step == [r \in S |-> RightPlace(r, arith, w)]
           Eq(f) == f = [i \in 0..k |->
                      IF i = 0 THEN [val |-> a, out |-> FALSE]
                      ELSE LET p == f[i - 1].val
                           IN  [val |-> (p \div 2) + Fill(p, arith, w), out |-> Bit(p, 0)]]
           s == CHOOSE f : Eq(f)
<1>0. k \in Nat
  OBVIOUS
<1>1. start \in S /\ step \in [S -> S]
  <2>1. \A r \in S : RightPlace(r, arith, w) \in S
    <3>1. \A p \in Nat : (p \div 2) + Fill(p, arith, w) \in Nat
      <4>1. Mod(w) \in Nat \ {0}
        BY Halves
      <4> DEFINE m == Mod(w)
      <4> HIDE DEF m
      <4>2. \A p \in Nat : (p \div 2) + 0 \in Nat /\ (p \div 2) + (m \div 2) \in Nat
        BY <4>1 DEF m
      <4> QED
        BY <4>2 DEF m, Fill
    <3> QED
      BY <3>1 DEF RightPlace, Bit
  <2> QED
    BY <2>1
<1>2. \E f : Eq(f)
  <2> HIDE DEF step, S, start, k
  <2>1. PICK f \in [0..k -> S] : Repeats(f, k, start, step)
    BY <1>0, <1>1, PlaceByPlace
  <2>2. \A i \in 1..k : f[i] = RightPlace(f[i - 1], arith, w)
    <3> SUFFICES ASSUME NEW i \in 1..k PROVE f[i] = RightPlace(f[i - 1], arith, w)
      OBVIOUS
    <3>1. i - 1 \in 0..k
      BY <1>0
    <3>2. f[i - 1] \in S /\ f[i] = step[f[i - 1]]
      BY <2>1, <3>1 DEF Repeats
    <3> QED
      BY <3>2, Zenon DEF step
  <2>3. \A i \in 0..k : i = 0 \/ (i \in 1..k /\ i # 0)
    BY <1>0
  <2>4. DOMAIN f = 0..k /\ f = [i \in 0..k |-> f[i]]
    BY <2>1, Zenon
  <2>5. \A i \in 0..k : f[i] = IF i = 0 THEN start ELSE RightPlace(f[i - 1], arith, w)
    BY <2>1, <2>2, <2>3, Zenon DEF Repeats
  <2>6. f = [i \in 0..k |-> IF i = 0 THEN start ELSE RightPlace(f[i - 1], arith, w)]
    BY <2>4, <2>5, Zenon
  <2>7. Eq(f)
    BY <2>6, Zenon DEF RightPlace, start
  <2> QED
    BY <2>7, Zenon
<1>3. Eq(s)
  <2> HIDE DEF Eq
  <2> QED
    BY <1>2, Zenon
<1>4. do_shift_right(a, cnt, arith, w) = RightResult(s, k, arith, w)
  BY Zenon DEF do_shift_right, RightResult
<1> HIDE DEF s, k
<1>5. \A i \in 0..k : s[i] = IF i = 0 THEN start ELSE RightPlace(s[i - 1], arith, w)
  BY <1>3, Zenon DEF RightPlace
<1>6. 0 \in 0..k /\ \A i \in 1..k : i \in 0..k /\ i # 0
  BY <1>0
<1>7. s[0] = start /\ \A i \in 1..k : s[i] = RightPlace(s[i - 1], arith, w)
  BY <1>5, <1>6, Zenon
<1> QED
  BY <1>4, <1>7, Zenon DEF start, k, ShiftsDown

(* Twice a remainder.                                                      *)
LEMMA ModDouble ==
  ASSUME NEW d \in Nat \ {0}, NEW x \in Int
  PROVE  ((x % d) * 2) % d = (2 * x) % d
<1> DEFINE q == x \div d
           r == x % d
<1>1. q \in Int /\ r \in Nat /\ x = d * q + r
  BY DivFacts
<1> HIDE DEF q, r
<1>2. 2 * x = (2 * q) * d + r * 2
  BY <1>1
<1>3. ((2 * q) * d + r * 2) % d = (r * 2) % d
  <2> DEFINE c == 2 * q
             y == r * 2
  <2>1. c \in Int /\ y \in Int
    BY <1>1
  <2> HIDE DEF c, y
  <2>2. (c * d + y) % d = y % d
    BY <2>1, ModShift
  <2> QED
    BY <2>2 DEF c, y
<1> QED
  BY <1>2, <1>3 DEF r

(* After k places to the left: the number times 2^k, and whether it fits.  *)
LEMMA LeftMeans ==
  ASSUME Doubling, NEW w \in Widths, NEW a \in Value(w), NEW k \in 0..63,
         NEW s, ShiftsLeft(s, k, a, w)
  PROVE  /\ s[k].val \in Value(w) /\ s[k].ovf \in BOOLEAN
         /\ s[k].val = (a * 2 ^ k) % Mod(w)
         /\ s[k].ovf <=> Signed(a, w) * 2 ^ k # Signed(s[k].val, w)
<1> DEFINE h == Half(w)
           m == Mod(w)
           Sg(v) == Signed(v, w)
           top(v) == Bit(v, Bits[w] - 1)
           X(i) == Signed(a, w) * 2 ^ i
           A(i) == a * 2 ^ i
           Ok(i) == /\ s[i].val \in 0..m - 1 /\ s[i].ovf \in BOOLEAN
                    /\ s[i].val = A(i) % m
                    /\ ~s[i].ovf => /\ s[i].val >= h <=> a >= h
                                    /\ X(i) = Sg(s[i].val)
                    /\ s[i].ovf => X(i) < -h \/ X(i) >= h
<1>1. h \in Nat \ {0} /\ m \in Nat \ {0} /\ m = 2 * h /\ a \in 0..m - 1
  BY Halves DEF Value
<1>2. \A v \in 0..m - 1 : Sg(v) = (IF v >= h THEN v - m ELSE v) /\ (top(v) <=> v >= h)
  BY <1>1, TopBit
<1>3. /\ X(0) = Sg(a) /\ A(0) = a
      /\ \A i \in 0..62 : X(i) \in Int /\ A(i) \in Int /\ X(i + 1) = 2 * X(i)
                            /\ A(i + 1) = 2 * A(i)
  <2>1. Sg(a) \in Int /\ a \in Int
    BY <1>1, <1>2
  <2> DEFINE x == Sg(a)
  <2>2. \A i \in 0..62 : /\ 2 ^ i \in Nat \ {0} /\ x * 2 ^ (i + 1) = 2 * (x * 2 ^ i)
                         /\ a * 2 ^ (i + 1) = 2 * (a * 2 ^ i)
    <3> HIDE DEF x
    <3> SUFFICES ASSUME NEW i \in 0..62
                 PROVE  /\ 2 ^ i \in Nat \ {0} /\ x * 2 ^ (i + 1) = 2 * (x * 2 ^ i)
                        /\ a * 2 ^ (i + 1) = 2 * (a * 2 ^ i)
      OBVIOUS
    <3>1. i \in 0..63 /\ i < 63
      OBVIOUS
    <3>2. \A y \in Int : y * 2 ^ (i + 1) = 2 * (y * 2 ^ i)
      BY <3>1, Powers
    <3>3. x \in Int
      BY <2>1 DEF x
    <3> QED
      BY <2>1, <3>1, <3>2, <3>3, Powers
  <2>3. 2 ^ 0 = 1
    BY DEF Doubling
  <2> HIDE DEF x
  <2>4. x \in Int
    BY <2>1 DEF x
  <2>5. x * 1 = x /\ a * 1 = a
    BY <2>1, <2>4
  <2>6. \A i \in 0..62 : x * 2 ^ i \in Int /\ a * 2 ^ i \in Int
    BY <2>1, <2>2, <2>4
  <2> QED
    BY <2>2, <2>3, <2>5, <2>6 DEF x
<1> HIDE DEF h, m, Sg, top, X, A
<1>4. Ok(0)
  <2>1. s[0].val = a /\ s[0].ovf = FALSE
    BY DEF ShiftsLeft
  <2>2. a % m = a
    BY <1>1
  <2> QED
    BY <1>1, <1>3, <2>1, <2>2
<1>5. ASSUME NEW i \in 0..k - 1, Ok(i) PROVE Ok(i + 1)
  <2>0. i \in 0..62 /\ i + 1 \in 1..k /\ (i + 1) - 1 = i
    OBVIOUS
  <2> DEFINE v == s[i].val
             z == (v * 2) % m
  <2>1. s[i + 1].val = z /\ s[i + 1].ovf = (s[i].ovf \/ top(z) # top(a))
    <3>1. s[i + 1] = LeftPlace(s[i], a, w)
      BY <2>0 DEF ShiftsLeft
    <3> QED
      <4>1. LeftPlace(s[i], a, w) =
              [val |-> z, out |-> top(v), ovf |-> s[i].ovf \/ top(z) # top(a)]
        BY Zenon DEF LeftPlace, SignsDiffer, top, m
      <4> HIDE DEF z, v
      <4> QED
        BY <3>1, <4>1
  <2>2. v \in 0..m - 1
    BY <1>5
  <2>3. /\ z \in 0..m - 1
        /\ (z >= h <=> v >= h) => Sg(z) = 2 * Sg(v)
        /\ ~(z >= h <=> v >= h) => 2 * Sg(v) < -h \/ 2 * Sg(v) >= h
    <3> HIDE DEF v
    <3> DEFINE x == IF v >= h THEN v - m ELSE v
               y == IF z >= h THEN z - m ELSE z
    <3>1. z = (v * 2) % m
      BY DEF z
    <3> HIDE DEF z
    <3>2. /\ z \in 0..m - 1
          /\ (z >= h <=> v >= h) => y = 2 * x
          /\ ~(z >= h <=> v >= h) => 2 * x < -h \/ 2 * x >= h
      <4>1. Doubled(h, m, v)
        BY <1>1, <2>2, DoubleStep
      <4> QED
        BY <3>1, <4>1, Zenon DEF Doubled
    <3>3. Sg(z) = y /\ Sg(v) = x
      BY <1>2, <2>2, <3>2
    <3> QED
      BY <3>2, <3>3
  <2>4. z = A(i + 1) % m
    <3>1. v = A(i) % m /\ A(i) \in Int /\ A(i + 1) = 2 * A(i)
      BY <1>3, <1>5, <2>0
    <3>2. ((A(i) % m) * 2) % m = (2 * A(i)) % m
      <4> DEFINE y == A(i)
      <4>1. y \in Int
        BY <3>1
      <4> HIDE DEF y
      <4>2. ((y % m) * 2) % m = (2 * y) % m
        BY <1>1, <4>1, ModDouble
      <4> QED
        BY <4>2 DEF y
    <3> QED
      BY <3>1, <3>2, Zenon
  <2>5. X(i) \in Int /\ X(i + 1) = 2 * X(i)
    BY <1>3, <2>0
  <2> HIDE DEF z, v
  <2>6. (top(z) <=> z >= h) /\ (top(a) <=> a >= h) /\ top(z) \in BOOLEAN /\ top(a) \in BOOLEAN
    BY <1>1, <1>2, <2>3 DEF top, Bit
  <2>7. CASE s[i].ovf
    <3>1. X(i) < -h \/ X(i) >= h
      BY <1>5, <2>7
    <3>2. X(i + 1) < -h \/ X(i + 1) >= h
      BY <1>1, <2>5, <3>1
    <3>3. s[i + 1].ovf = TRUE
      BY <2>1, <2>7
    <3> QED
      BY <2>1, <2>3, <2>4, <3>2, <3>3
  <2>8. CASE ~s[i].ovf
    <3>1. (v >= h <=> a >= h) /\ X(i) = Sg(v)
      BY <1>5, <2>8 DEF v
    <3>2. s[i + 1].ovf <=> ~(z >= h <=> v >= h)
      BY <2>1, <2>6, <2>8, <3>1
    <3>3. s[i + 1].ovf \in BOOLEAN
      BY <1>5, <2>1
    <3>4. CASE z >= h <=> v >= h
      BY <2>1, <2>3, <2>4, <2>5, <3>1, <3>2, <3>3, <3>4
    <3>5. CASE ~(z >= h <=> v >= h)
      BY <2>1, <2>3, <2>4, <2>5, <3>1, <3>2, <3>3, <3>5
    <3> QED
      BY <3>4, <3>5
  <2> QED
    BY <2>7, <2>8
<1>6. Ok(k)
  <2> DEFINE P == {i \in 0..k : Ok(i)}
  <2> HIDE DEF Ok
  <2>1. 0 \in P /\ \A i \in 0..k - 1 : i \in P => i + 1 \in P
    BY <1>4, <1>5
  <2> HIDE DEF P
  <2>2. k \in P
    BY <2>1, Induct
  <2> QED
    BY <2>2 DEF P
<1> USE DEF Ok
<1>7. Sg(s[k].val) \in -h..h - 1
  BY <1>1, <1>2, <1>6
<1>8. /\ s[k].val \in 0..m - 1 /\ s[k].ovf \in BOOLEAN /\ s[k].val = A(k) % m
      /\ s[k].ovf <=> X(k) # Sg(s[k].val)
  <2>1. s[k].ovf => X(k) # Sg(s[k].val)
    BY <1>1, <1>6, <1>7
  <2>2. ~s[k].ovf => X(k) = Sg(s[k].val)
    BY <1>6
  <2> QED
    BY <1>6, <2>1, <2>2
<1> QED
  BY <1>8 DEF A, X, Sg, m, Value

(* What RightMeans says of the k-th value of s.                            *)
RightDivided(s, k, a, arith, w) ==
  /\ s[k].val \in Value(w)
  /\ arith => Signed(s[k].val, w) = Signed(a, w) \div 2 ^ k
  /\ ~arith => s[k].val = a \div 2 ^ k

(* After k places to the right: the number divided by 2^k, rounded down.   *)
LEMMA RightMeans ==
  ASSUME Doubling, NEW w \in Widths, NEW a \in Value(w), NEW k \in 0..63,
         NEW arith \in BOOLEAN, NEW s, ShiftsDown(s, k, a, arith, w)
  PROVE  RightDivided(s, k, a, arith, w)
<1> DEFINE h == Half(w)
           m == Mod(w)
           Sg(v) == Signed(v, w)
           top(v) == Bit(v, Bits[w] - 1)
           x == Sg(a)
           Ok(i) == /\ s[i].val \in 0..m - 1
                    /\ arith => Sg(s[i].val) = x \div 2 ^ i
                    /\ ~arith => s[i].val = a \div 2 ^ i
<1>1. h \in Nat \ {0} /\ m \in Nat \ {0} /\ m = 2 * h /\ a \in 0..m - 1
  BY Halves DEF Value
<1>2. \A v \in 0..m - 1 : Sg(v) = (IF v >= h THEN v - m ELSE v) /\ (top(v) <=> v >= h)
  BY <1>1, TopBit
<1>3. x \in Int /\ a \in Int
  BY <1>1, <1>2
<1>4. \A i \in 0..62 : /\ (x \div 2 ^ i) \div 2 = x \div 2 ^ (i + 1)
                       /\ (a \div 2 ^ i) \div 2 = a \div 2 ^ (i + 1)
  <2> HIDE DEF x
  <2> SUFFICES ASSUME NEW i \in 0..62
               PROVE  /\ (x \div 2 ^ i) \div 2 = x \div 2 ^ (i + 1)
                      /\ (a \div 2 ^ i) \div 2 = a \div 2 ^ (i + 1)
    OBVIOUS
  <2> DEFINE p == 2 ^ i
  <2>1. p \in Nat \ {0} /\ 2 ^ (i + 1) = 2 * p
    <3>1. i \in 0..63
      OBVIOUS
    <3> QED
      BY <3>1, Powers DEF Doubling
  <2> HIDE DEF p
  <2>2. (x \div p) \div 2 = x \div (2 * p) /\ (a \div p) \div 2 = a \div (2 * p)
    BY <1>3, <2>1, HalfAgain
  <2> QED
    BY <2>1, <2>2 DEF p
<1>5. x \div 2 ^ 0 = x /\ a \div 2 ^ 0 = a
  <2>1. 2 ^ 0 = 1
    BY DEF Doubling
  <2> HIDE DEF x
  <2>2. x \div 1 = x /\ a \div 1 = a
    BY <1>3
  <2> QED
    BY <2>1, <2>2
<1> HIDE DEF h, m, Sg, top, x
<1>6. Ok(0)
  <2>1. s[0].val = a
    BY DEF ShiftsDown
  <2> QED
    BY <1>1, <1>5, <2>1 DEF x
<1>7. ASSUME NEW i \in 0..k - 1, Ok(i) PROVE Ok(i + 1)
  <2>0. i \in 0..62 /\ i + 1 \in 1..k /\ (i + 1) - 1 = i
    OBVIOUS
  <2> DEFINE v == s[i].val
             z == (v \div 2) + Fill(v, arith, w)
             b == IF v >= h THEN v - m ELSE v
             y == IF z >= h THEN z - m ELSE z
  <2>1. s[i + 1].val = z
    <3>1. s[i + 1] = RightPlace(s[i], arith, w)
      BY <2>0 DEF ShiftsDown
    <3>2. RightPlace(s[i], arith, w) = [val |-> z, out |-> Bit(v, 0)]
      BY Zenon DEF RightPlace
    <3> HIDE DEF z, v
    <3> QED
      BY <3>1, <3>2
  <2>2. v \in 0..m - 1
    BY <1>7
  <2> HIDE DEF v
  <2>3. z = (v \div 2) + (IF arith /\ v >= h THEN h ELSE 0)
    <3>1. Fill(v, arith, w) = IF arith /\ top(v) THEN m \div 2 ELSE 0
      BY Zenon DEF Fill, top, m
    <3>2. m \div 2 = h
      BY <1>1
    <3>3. top(v) <=> v >= h
      BY <1>2, <2>2
    <3> QED
      BY <3>1, <3>2, <3>3
  <2> HIDE DEF z
  <2>4. z \in 0..m - 1 /\ (arith => y = b \div 2) /\ (~arith => z = v \div 2)
    <3>1. Halved(h, m, v, arith)
      BY <1>1, <2>2, HalveStep
    <3> QED
      BY <2>3, <3>1, Zenon DEF Halved
  <2>5. Sg(z) = y /\ Sg(v) = b
    BY <1>2, <2>2, <2>4
  <2> HIDE DEF y, b
  <2>6. CASE arith
    <3>1. Sg(v) = x \div 2 ^ i
      BY <1>7, <2>6 DEF v
    <3>2. Sg(z) = (x \div 2 ^ i) \div 2
      BY <2>4, <2>5, <2>6, <3>1
    <3> QED
      BY <1>4, <2>0, <2>1, <2>4, <2>6, <3>2, Zenon
  <2>7. CASE ~arith
    <3>1. v = a \div 2 ^ i
      BY <1>7, <2>7 DEF v
    <3> QED
      BY <1>4, <2>0, <2>1, <2>4, <2>7, <3>1, Zenon
  <2> QED
    BY <2>6, <2>7
<1> HIDE DEF Ok
<1>8. Ok(k)
  <2> DEFINE P == {i \in 0..k : Ok(i)}
  <2>1. 0 \in P /\ \A i \in 0..k - 1 : i \in P => i + 1 \in P
    BY <1>6, <1>7
  <2> HIDE DEF P
  <2>2. k \in P
    BY <2>1, Induct
  <2> QED
    BY <2>2 DEF P
<1> QED
  BY <1>8 DEF Ok, x, Sg, m, Value, RightDivided

(* A place of a rotate forth, and a place back: the value is restored, and *)
(* the carry when it takes part.                                           *)
TurnedBack(v, c, d, right, thru, w) ==
  LET r == Rotated(v, c, right, thru, w)
      t == Rotated(r.val, IF thru THEN r.c ELSE d, ~right, thru, w)
  IN  /\ r.val \in Value(w) /\ r.c \in BOOLEAN
      /\ t.val = v /\ t.c \in BOOLEAN /\ (thru => t.c = c)

(* A place forth is undone by a place back.                                *)
LEMMA OneBack ==
  ASSUME NEW w \in Widths, NEW v \in Value(w), NEW c \in BOOLEAN,
         NEW right \in BOOLEAN, NEW thru \in BOOLEAN, NEW d \in BOOLEAN
  PROVE  TurnedBack(v, c, d, right, thru, w)
<1> DEFINE h == Half(w)
           m == Mod(w)
           top(u) == Bit(u, Bits[w] - 1)
           low(u) == Bit(u, 0)
           r == Rotated(v, c, right, thru, w)
           e == IF thru THEN r.c ELSE d
           t == Rotated(r.val, e, ~right, thru, w)
           Claim == /\ r.val \in Value(w) /\ r.c \in BOOLEAN
                    /\ t.val = v /\ t.c \in BOOLEAN /\ (thru => t.c = c)
<1>1. h \in Nat \ {0} /\ m \in Nat \ {0} /\ m = 2 * h /\ v \in 0..m - 1 /\ m \div 2 = h
  BY Halves DEF Value
<1>2. \A u \in 0..m - 1 : /\ top(u) <=> u >= h
                          /\ low(u) <=> u % 2 = 1
                          /\ top(u) \in BOOLEAN /\ low(u) \in BOOLEAN
  <2>1. \A u \in 0..m - 1 : top(u) <=> u >= h
    BY <1>1, TopBit
  <2>2. 2 ^ 0 = 1
    BY Widthed
  <2>3. \A u \in 0..m - 1 : u \div 1 = u
    BY <1>1
  <2> QED
    BY <2>1, <2>2, <2>3 DEF Bit
<1> DEFINE Left(u, f) == [val |-> ((u * 2) % m) + Num(IF thru THEN f ELSE top(u)), c |-> top(u)]
           Right(u, f) == [val |-> (u \div 2) + Num(IF thru THEN f ELSE low(u)) * (m \div 2),
                           c |-> low(u)]
<1>3. \A u, f : /\ Rotated(u, f, TRUE, thru, w) = Right(u, f)
                /\ Rotated(u, f, FALSE, thru, w) = Left(u, f)
  BY Zenon DEF Rotated
<1> HIDE DEF h, m, top, low
<1>4. \A u \in 0..m - 1 : (u * 2) % m = IF u >= h THEN u * 2 - m ELSE u * 2
  <2> SUFFICES ASSUME NEW u \in 0..m - 1
               PROVE  (u * 2) % m = IF u >= h THEN u * 2 - m ELSE u * 2
    OBVIOUS
  <2> DEFINE y == u * 2
  <2>1. y \in Int /\ y >= -m /\ y < 2 * m
    BY <1>1
  <2>2. ~(y < 0) /\ (u >= h <=> ~(y < m))
    BY <1>1
  <2> HIDE DEF y
  <2>3. y % m = IF y < 0 THEN y + m ELSE IF y < m THEN y ELSE y - m
    BY <1>1, <2>1, Around
  <2> QED
    BY <2>2, <2>3 DEF y
<1>5. \A u \in 0..m - 1, f \in BOOLEAN :
        /\ Left(u, f).val \in 0..m - 1 /\ Left(u, f).c = top(u)
        /\ low(Left(u, f).val) = (IF thru THEN f ELSE top(u))
        /\ Left(u, f).val = (IF u >= h THEN u * 2 - m ELSE u * 2)
                              + (IF (IF thru THEN f ELSE top(u)) THEN 1 ELSE 0)
  <2> SUFFICES ASSUME NEW u \in 0..m - 1, NEW f \in BOOLEAN
               PROVE  /\ Left(u, f).val \in 0..m - 1 /\ Left(u, f).c = top(u)
                      /\ low(Left(u, f).val) = (IF thru THEN f ELSE top(u))
                      /\ Left(u, f).val = (IF u >= h THEN u * 2 - m ELSE u * 2)
                              + (IF (IF thru THEN f ELSE top(u)) THEN 1 ELSE 0)
    OBVIOUS
  <2> DEFINE in == IF thru THEN f ELSE top(u)
             y == IF u >= h THEN u * 2 - m ELSE u * 2
             z == y + (IF in THEN 1 ELSE 0)
  <2>1. in \in BOOLEAN
    BY <1>2
  <2>2. Left(u, f).val = z /\ Left(u, f).c = top(u)
    BY <1>4 DEF Num
  <2> HIDE DEF in
  <2>3. y \in 0..m - 2 /\ y % 2 = 0
    BY <1>1
  <2> HIDE DEF y
  <2>4. z \in 0..m - 1 /\ (z % 2 = 1 <=> in)
    BY <1>1, <2>1, <2>3
  <2>5. low(z) = in
    BY <1>2, <2>1, <2>4
  <2> QED
    BY <2>2, <2>4, <2>5 DEF in, y
<1>6. \A u \in 0..m - 1, f \in BOOLEAN :
        /\ Right(u, f).val \in 0..m - 1 /\ Right(u, f).c = low(u)
        /\ top(Right(u, f).val) = (IF thru THEN f ELSE low(u))
        /\ Right(u, f).val = (u \div 2) + (IF (IF thru THEN f ELSE low(u)) THEN h ELSE 0)
  <2> SUFFICES ASSUME NEW u \in 0..m - 1, NEW f \in BOOLEAN
               PROVE  /\ Right(u, f).val \in 0..m - 1 /\ Right(u, f).c = low(u)
                      /\ top(Right(u, f).val) = (IF thru THEN f ELSE low(u))
                      /\ Right(u, f).val = (u \div 2)
                           + (IF (IF thru THEN f ELSE low(u)) THEN h ELSE 0)
    OBVIOUS
  <2> DEFINE in == IF thru THEN f ELSE low(u)
             y == u \div 2
             z == y + (IF in THEN h ELSE 0)
  <2>1. in \in BOOLEAN
    BY <1>2
  <2>2. Right(u, f).c = low(u) /\ Right(u, f).val = y + Num(in) * (m \div 2)
    BY Zenon
  <2>3. y \in Nat /\ y < h
    BY <1>1
  <2> HIDE DEF in, y
  <2>4. Num(in) * (m \div 2) = IF in THEN h ELSE 0
    <3>1. 1 * h = h /\ 0 * h = 0
      BY <1>1
    <3> QED
      BY <1>1, <2>1, <3>1 DEF Num
  <2>5. z \in 0..m - 1 /\ (z >= h <=> in)
    BY <1>1, <2>1, <2>3
  <2>6. top(z) = in
    BY <1>2, <2>1, <2>5
  <2> QED
    BY <2>2, <2>4, <2>5, <2>6 DEF in, y
<1>7. ASSUME right PROVE Claim
  <2>1. r = Right(v, c) /\ t = Left(r.val, e)
    BY <1>3, <1>7, Zenon
  <2> DEFINE in == IF thru THEN c ELSE low(v)
             p == Right(v, c)
             q == Left(p.val, e)
  <2>2. /\ p.val \in 0..m - 1 /\ p.c = low(v) /\ top(p.val) = in
        /\ p.val = (v \div 2) + (IF in THEN h ELSE 0)
    BY <1>1, <1>6, Zenon
  <2>3. e \in BOOLEAN /\ in \in BOOLEAN
    BY <1>1, <1>2, <2>1, <2>2
  <2>4. /\ q.c = top(p.val)
        /\ q.val = (IF p.val >= h THEN p.val * 2 - m ELSE p.val * 2)
                      + (IF (IF thru THEN e ELSE top(p.val)) THEN 1 ELSE 0)
    BY <1>5, <2>2, <2>3, Zenon
  <2>5. (IF thru THEN e ELSE top(p.val)) = low(v)
    BY <2>1, <2>2
  <2> DEFINE pv == p.val
             qv == q.val
             lv == low(v)
  <2>6. qv = (IF pv >= h THEN pv * 2 - m ELSE pv * 2) + (IF lv THEN 1 ELSE 0)
    BY <2>4, <2>5, Zenon
  <2>7. pv = (v \div 2) + (IF in THEN h ELSE 0) /\ (lv <=> v % 2 = 1)
    BY <1>1, <1>2, <2>2
  <2> HIDE DEF pv, qv, lv, in
  <2>8. qv = v
    <3> DEFINE y == v \div 2
               b == v % 2
    <3>1. y \in Nat /\ b \in 0..1 /\ v = 2 * y + b /\ y < h
      BY <1>1
    <3> HIDE DEF y, b
    <3>2. lv <=> b = 1
      BY <2>7 DEF b
    <3>3. pv = y + (IF in THEN h ELSE 0)
      BY <2>7 DEF y
    <3>4. CASE in
      BY <1>1, <2>6, <3>1, <3>2, <3>3, <3>4
    <3>5. CASE ~in
      BY <1>1, <2>6, <3>1, <3>2, <3>3, <3>5
    <3> QED
      BY <3>4, <3>5
  <2>9. thru => q.c = c
    BY <2>2, <2>4 DEF in
  <2>10. q.c \in BOOLEAN /\ p.c \in BOOLEAN
    BY <1>1, <1>2, <2>2, <2>4
  <2> QED
    BY <2>1, <2>2, <2>8, <2>9, <2>10 DEF qv, m, Value
<1>8. ASSUME ~right PROVE Claim
  <2>1. r = Left(v, c) /\ t = Right(r.val, e)
    BY <1>3, <1>8
  <2> DEFINE in == IF thru THEN c ELSE top(v)
             p == Left(v, c)
             q == Right(p.val, e)
  <2>2. /\ p.val \in 0..m - 1 /\ p.c = top(v) /\ low(p.val) = in
        /\ p.val = (IF v >= h THEN v * 2 - m ELSE v * 2) + (IF in THEN 1 ELSE 0)
    BY <1>1, <1>5, ZenonT(60)
  <2>3. e \in BOOLEAN /\ in \in BOOLEAN
    BY <1>1, <1>2, <2>1, <2>2
  <2>4. /\ q.c = low(p.val)
        /\ q.val = (p.val \div 2) + (IF (IF thru THEN e ELSE low(p.val)) THEN h ELSE 0)
    BY <1>6, <2>2, <2>3, Zenon
  <2>5. (IF thru THEN e ELSE low(p.val)) = top(v)
    BY <2>1, <2>2
  <2> DEFINE pv == p.val
             qv == q.val
             tv == top(v)
  <2>6. qv = (pv \div 2) + (IF tv THEN h ELSE 0)
    BY <2>4, <2>5, Zenon
  <2>7. pv = (IF v >= h THEN v * 2 - m ELSE v * 2) + (IF in THEN 1 ELSE 0) /\ (tv <=> v >= h)
    BY <1>1, <1>2, <2>2
  <2> HIDE DEF pv, qv, tv, in
  <2>8. qv = v
    <3> DEFINE y == IF v >= h THEN v - h ELSE v
    <3>1. y \in Nat /\ v = y + (IF tv THEN h ELSE 0)
      BY <1>1, <2>7
    <3>2. pv = 2 * y + (IF in THEN 1 ELSE 0)
      BY <1>1, <2>7
    <3> HIDE DEF y
    <3>3. pv \div 2 = y
      BY <3>1, <3>2
    <3> QED
      BY <2>6, <3>1, <3>3
  <2>9. thru => q.c = c
    BY <2>2, <2>4 DEF in
  <2>10. q.c \in BOOLEAN /\ p.c \in BOOLEAN
    BY <1>1, <1>2, <2>2, <2>4
  <2> QED
    BY <2>1, <2>2, <2>8, <2>9, <2>10 DEF qv, m, Value
<1>9. Claim
  BY <1>7, <1>8
<1> QED
  BY <1>9, Zenon DEF TurnedBack

(* The places of a rotate, one after the other.                            *)
Turns(s, k, a, cin, right, thru, w) ==
  /\ s[0] = [val |-> a, c |-> cin]
  /\ \A i \in 1..k : s[i] = Rotated(s[i - 1].val, s[i - 1].c, right, thru, w)

(* A count of 0 rotates by one place.                                      *)
Turning(cnt) == IF Places(cnt) = 0 THEN 1 ELSE Places(cnt)

(* What do_rotate makes of its last place.                                 *)
TurnedTo(s, k, a, w) ==
  Result(s[k].val,
         ZS(s[k].val, w) \cup When(s[k].c, "C") \cup When(SignsDiffer(s[k].val, a, w), "PV"),
         CZSV)

(* The recursive function of do_rotate exists.                             *)
LEMMA RotatePlaces ==
  ASSUME NEW w \in Widths, NEW a \in Value(w), NEW cnt, Turning(cnt) \in Nat,
         NEW right \in BOOLEAN, NEW thru \in BOOLEAN, NEW cin \in BOOLEAN
  PROVE  \E s : /\ Turns(s, Turning(cnt), a, cin, right, thru, w)
                /\ do_rotate(a, cnt, right, thru, cin, w) = TurnedTo(s, Turning(cnt), a, w)
<1> DEFINE k == Turning(cnt)
           S == [val : Value(w), c : BOOLEAN]
           start == [val |-> a, c |-> cin]
           Turn(r) == Rotated(r.val, r.c, right, thru, w)
           step == [r \in S |-> Turn(r)]
           Eq(f) == f = [i \in 0..k |-> IF i = 0 THEN [val |-> a, c |-> cin]
                                        ELSE Rotated(f[i - 1].val, f[i - 1].c, right, thru, w)]
           s == CHOOSE f : Eq(f)
<1>0. k \in Nat
  OBVIOUS
<1>1. start \in S /\ step \in [S -> S]
  <2>1. \A r \in S : Turn(r) \in S
    <3> SUFFICES ASSUME NEW r \in S PROVE Turn(r) \in S
      OBVIOUS
    <3>1. r.val \in Value(w) /\ r.c \in BOOLEAN
      OBVIOUS
    <3>2. Turn(r).val \in Value(w) /\ Turn(r).c \in BOOLEAN
      <4>1. TurnedBack(r.val, r.c, FALSE, right, thru, w)
        BY <3>1, OneBack
      <4> QED
        BY <4>1, Zenon DEF TurnedBack
    <3>3. Turn(r) = [val |-> Turn(r).val, c |-> Turn(r).c]
      BY DEF Rotated
    <3> HIDE DEF Turn
    <3> QED
      BY <3>2, <3>3
  <2> HIDE DEF Turn
  <2> QED
    BY <2>1
<1>2. \E f : Eq(f)
  <2> HIDE DEF step, S, start, k
  <2>1. PICK f \in [0..k -> S] : Repeats(f, k, start, step)
    BY <1>0, <1>1, PlaceByPlace
  <2>2. \A i \in 1..k : f[i] = Turn(f[i - 1])
    <3> SUFFICES ASSUME NEW i \in 1..k PROVE f[i] = Turn(f[i - 1])
      OBVIOUS
    <3>1. i - 1 \in 0..k
      BY <1>0
    <3>2. f[i - 1] \in S /\ f[i] = step[f[i - 1]]
      BY <2>1, <3>1 DEF Repeats
    <3> QED
      BY <3>2, Zenon DEF step
  <2>3. \A i \in 0..k : i = 0 \/ (i \in 1..k /\ i # 0)
    BY <1>0
  <2>4. DOMAIN f = 0..k /\ f = [i \in 0..k |-> f[i]]
    BY <2>1, Zenon
  <2>5. \A i \in 0..k : f[i] = IF i = 0 THEN start ELSE Turn(f[i - 1])
    BY <2>1, <2>2, <2>3, Zenon DEF Repeats
  <2>6. f = [i \in 0..k |-> IF i = 0 THEN start ELSE Turn(f[i - 1])]
    BY <2>4, <2>5, Zenon
  <2>7. Eq(f)
    BY <2>6, Zenon DEF start
  <2> QED
    BY <2>7, Zenon
<1>3. Eq(s)
  <2> HIDE DEF Eq
  <2> QED
    BY <1>2, Zenon
<1>4. do_rotate(a, cnt, right, thru, cin, w) = TurnedTo(s, k, a, w)
  BY Zenon DEF do_rotate, TurnedTo, Turning
<1> HIDE DEF s, k
<1>5. \A i \in 0..k : s[i] = IF i = 0 THEN start ELSE Turn(s[i - 1])
  BY <1>3, Zenon
<1>6. 0 \in 0..k /\ \A i \in 1..k : i \in 0..k /\ i # 0
  BY <1>0
<1>7. s[0] = start /\ \A i \in 1..k : s[i] = Turn(s[i - 1])
  BY <1>5, <1>6, Zenon
<1> QED
  BY <1>4, <1>7, Zenon DEF Turns, k

(* Every place of a rotate is a value and a carry.                         *)
LEMMA TurnsTyped ==
  ASSUME NEW w \in Widths, NEW a \in Value(w), NEW k \in Nat,
         NEW right \in BOOLEAN, NEW thru \in BOOLEAN, NEW cin \in BOOLEAN, NEW s,
         Turns(s, k, a, cin, right, thru, w)
  PROVE  \A i \in 0..k : s[i].val \in Value(w) /\ s[i].c \in BOOLEAN
<1> DEFINE P == {i \in 0..k : s[i].val \in Value(w) /\ s[i].c \in BOOLEAN}
<1>1. 0 \in P
  BY DEF Turns
<1>2. ASSUME NEW i \in 0..k - 1, i \in P PROVE i + 1 \in P
  <2>1. i + 1 \in 1..k /\ (i + 1) - 1 = i /\ i + 1 \in 0..k
    OBVIOUS
  <2>2. s[i + 1] = Rotated(s[i].val, s[i].c, right, thru, w)
    BY <2>1 DEF Turns
  <2>3. s[i].val \in Value(w) /\ s[i].c \in BOOLEAN
    BY <1>2
  <2>4. s[i + 1].val \in Value(w) /\ s[i + 1].c \in BOOLEAN
    <3>1. TurnedBack(s[i].val, s[i].c, FALSE, right, thru, w)
      BY <2>3, OneBack
    <3> QED
      BY <2>2, <3>1, Zenon DEF TurnedBack
  <2> QED
    BY <2>1, <2>4
<1> HIDE DEF P
<1>3. \A i \in 0..k : i \in P
  BY <1>1, <1>2, Induct
<1> QED
  BY <1>3 DEF P

(* As many places back as forth.                                           *)
LEMMA TurnsBack ==
  ASSUME NEW w \in Widths, NEW a \in Value(w), NEW k \in Nat,
         NEW right \in BOOLEAN, NEW thru \in BOOLEAN, NEW cin \in BOOLEAN,
         NEW s, Turns(s, k, a, cin, right, thru, w),
         NEW left \in BOOLEAN, left # right,
         NEW t, Turns(t, k, s[k].val, s[k].c, left, thru, w)
  PROVE  t[k].val = a /\ t[k].c \in BOOLEAN /\ (thru => t[k].c = cin)
<1> DEFINE Ok(i) == /\ t[i].val = s[k - i].val /\ t[i].c \in BOOLEAN
                    /\ thru => t[i].c = s[k - i].c
           P == {i \in 0..k : Ok(i)}
<1>1. \A i \in 0..k : s[i].val \in Value(w) /\ s[i].c \in BOOLEAN
  BY TurnsTyped
<1>2. 0 \in P
  <2>1. k - 0 = k /\ k \in 0..k /\ 0 \in 0..k
    OBVIOUS
  <2>2. t[0].val = s[k].val /\ t[0].c = s[k].c
    BY DEF Turns
  <2> QED
    BY <1>1, <2>1, <2>2
<1>3. ASSUME NEW i \in 0..k - 1, i \in P PROVE i + 1 \in P
  <2> DEFINE j == k - (i + 1)
  <2>1. /\ i + 1 \in 1..k /\ (i + 1) - 1 = i /\ i + 1 \in 0..k /\ j \in 0..k
        /\ k - i \in 1..k /\ (k - i) - 1 = j
    OBVIOUS
  <2> DEFINE v == s[j].val
             c == s[j].c
             d == t[i].c
             r == Rotated(v, c, right, thru, w)
             u == Rotated(r.val, IF thru THEN r.c ELSE d, ~right, thru, w)
  <2>2. v \in Value(w) /\ c \in BOOLEAN /\ d \in BOOLEAN
    BY <1>1, <1>3, <2>1
  <2>3. s[k - i] = r
    BY <2>1 DEF Turns
  <2>4. t[i + 1] = Rotated(t[i].val, t[i].c, ~right, thru, w)
    <3>1. t[i + 1] = Rotated(t[i].val, t[i].c, left, thru, w)
      BY <2>1 DEF Turns
    <3>2. left = ~right
      OBVIOUS
    <3> QED
      BY <3>1, <3>2, Zenon
  <2> HIDE DEF j
  <2>5. u.val = v /\ u.c \in BOOLEAN /\ (thru => u.c = c)
    <3>1. TurnedBack(v, c, d, right, thru, w)
      BY <2>2, OneBack
    <3> QED
      BY <3>1, Zenon DEF TurnedBack
  <2>6. t[i].val = r.val /\ t[i].c = IF thru THEN r.c ELSE d
    <3>1. t[i].val = s[k - i].val /\ (thru => t[i].c = s[k - i].c)
      BY <1>3
    <3> HIDE DEF r
    <3> QED
      BY <2>3, <3>1
  <2>7. t[i + 1] = u
    BY <2>4, <2>6, Zenon
  <2> HIDE DEF u
  <2> QED
    BY <2>1, <2>5, <2>7 DEF j, v, c
<1>4. k \in P
  <2> HIDE DEF P
  <2> QED
    BY <1>2, <1>3, Induct
<1>5. k - k = 0
  OBVIOUS
<1>6. s[0].val = a /\ s[0].c = cin
  BY DEF Turns
<1> QED
  BY <1>4, <1>5, <1>6

(* A rotate and its opposite: the value is back, and so is the carry.      *)
ForthAndBack(a, cnt, right, thru, fcw, w) ==
  LET r == do_rotate(a, cnt, right, thru, "C" \in fcw, w)
      f == apply_flags(fcw, r)
      t == do_rotate(r.value, cnt, ~right, thru, "C" \in f, w)
      g == apply_flags(f, t)
  IN  t.value = a /\ (thru => ("C" \in g) = ("C" \in fcw))

(* A rotate is undone by its opposite.                                     *)
LEMMA RotateBack ==
  ASSUME NEW w \in Widths, NEW a \in Value(w), NEW cnt \in 0..63, NEW fcw,
         NEW right \in BOOLEAN, NEW thru \in BOOLEAN
  PROVE  ForthAndBack(a, cnt, right, thru, fcw, w)
<1> DEFINE k == Turning(cnt)
           cin == "C" \in fcw
           r == do_rotate(a, cnt, right, thru, cin, w)
           f == apply_flags(fcw, r)
           t == do_rotate(r.value, cnt, ~right, thru, "C" \in f, w)
           g == apply_flags(f, t)
<1>1. k \in Nat /\ cin \in BOOLEAN
  BY DEF Places, Turning
<1>2. PICK s : Turns(s, k, a, cin, right, thru, w) /\ r = TurnedTo(s, k, a, w)
  <2> HIDE DEF cin
  <2> QED
    BY <1>1, RotatePlaces
<1> HIDE DEF cin, r, k
<1>3. s[k].val \in Value(w) /\ s[k].c \in BOOLEAN
  <2>1. k \in 0..k
    BY <1>1
  <2> QED
    BY <1>1, <1>2, <2>1, TurnsTyped
<1>4. r.value = s[k].val /\ (("C" \in f) = s[k].c)
  BY <1>2, <1>3 DEF TurnedTo, Result, ZS, When, CZSV, apply_flags
<1> DEFINE left == ~right
           x == r.value
           d == "C" \in f
<1>5. x \in Value(w) /\ d \in BOOLEAN /\ x = s[k].val /\ d = s[k].c
  BY <1>3, <1>4
<1>6. PICK u : Turns(u, k, x, d, left, thru, w) /\ t = TurnedTo(u, k, x, w)
  <2>1. left \in BOOLEAN
    OBVIOUS
  <2>2. t = do_rotate(x, cnt, left, thru, d, w)
    OBVIOUS
  <2> HIDE DEF x, d, t, left
  <2> QED
    BY <1>1, <1>5, <2>1, <2>2, RotatePlaces DEF k
<1> HIDE DEF t, f, x, d
<1>7. u[k].val = a /\ u[k].c \in BOOLEAN /\ (thru => u[k].c = cin)
  <2>0. left \in BOOLEAN /\ left # right
    OBVIOUS
  <2> HIDE DEF left
  <2>1. Turns(u, k, s[k].val, s[k].c, left, thru, w)
    BY <1>5, <1>6
  <2> QED
    BY <1>1, <1>2, <2>0, <2>1, TurnsBack
<1>8. t.value = u[k].val /\ (("C" \in g) = u[k].c)
  BY <1>6, <1>7 DEF TurnedTo, Result, ZS, When, CZSV, apply_flags
<1>9. t.value = a /\ (thru => ("C" \in g) = ("C" \in fcw))
  BY <1>7, <1>8 DEF cin
<1> QED
  BY <1>9, Zenon DEF ForthAndBack, r, t, f, cin

(* What a shift by a signed count is to give.                              *)
ShiftedTo(arith, a, c, fcw) ==
  LET r == exec_shift(arith, a, c, "word")
      f == apply_flags(fcw, r)
      x == IF arith THEN Signed(a, "word") ELSE a
      e == IF c < 0 THEN x \div 2 ^ (-c) ELSE x * 2 ^ c
  IN  /\ r.value = e % Mod("word")
      /\ arith => ("PV" \in f) = (e # Signed(r.value, "word"))

(* A value is its signed reading's remainder.                              *)
LEMMA SignedBack ==
  ASSUME NEW w \in Widths, NEW v \in Value(w)
  PROVE  Signed(v, w) % Mod(w) = v /\ v % Mod(w) = v /\ Signed(v, w) \in Int
<1> DEFINE m == Mod(w)
           z == Signed(v, w)
<1>1. m \in Nat \ {0} /\ v \in 0..m - 1 /\ Half(w) \in Nat /\ m = 2 * Half(w)
  BY Halves DEF Value
<1>2. z = v - m \/ z = v
  <2>1. v \in Nat /\ v < Mod(w)
    BY <1>1
  <2> QED
    BY <1>1, <2>1, TopBit
<1> HIDE DEF m, z
<1>3. z % m = v
  <2>1. z \in Int /\ z >= -m /\ z < 2 * m
    BY <1>1, <1>2
  <2>2. z % m = IF z < 0 THEN z + m ELSE IF z < m THEN z ELSE z - m
    BY <1>1, <2>1, Around
  <2> QED
    BY <1>1, <1>2, <2>2
<1>4. v % m = v
  BY <1>1
<1> QED
  BY <1>1, <1>2, <1>3, <1>4 DEF m, z

(* SRA and SRL divide.                                                     *)
LEMMA ShiftedRight ==
  ASSUME Doubling, NEW arith \in BOOLEAN, NEW a \in Value("word"), NEW c \in -63..-1, NEW fcw
  PROVE  ShiftedTo(arith, a, c, fcw)
<1> DEFINE w == "word"
           k == -c
           r == exec_shift(arith, a, c, "word")
           f == apply_flags(fcw, r)
           x == IF arith THEN Signed(a, "word") ELSE a
           e == IF c < 0 THEN x \div 2 ^ (-c) ELSE x * 2 ^ c
<1>1. c < 0 /\ k \in 1..63 /\ k \in 0..63 /\ k \in Nat /\ Places(k) = k
  BY DEF Places
<1>2. w \in Widths /\ a \in Nat
  BY DEF Widths, Value
<1>3. r = do_shift_right(a, k, arith, w)
  BY <1>1 DEF exec_shift, alu_exec
<1>4. e = x \div 2 ^ k
  BY <1>1
<1> HIDE DEF k, r
<1>5. PICK s : ShiftsDown(s, k, a, arith, w) /\ r = RightResult(s, k, arith, w)
  BY <1>1, <1>2, <1>3, RightPlaces
<1> DEFINE v == s[k].val
<1>6. /\ v \in Value(w) /\ (arith => Signed(v, w) = Signed(a, w) \div 2 ^ k)
      /\ (~arith => v = a \div 2 ^ k)
  <2>1. /\ Doubling /\ w \in Widths /\ a \in Value(w) /\ k \in 0..63 /\ arith \in BOOLEAN
        /\ ShiftsDown(s, k, a, arith, w)
    BY <1>1, <1>2, <1>5
  <2> HIDE DEF w, v
  <2>2. RightDivided(s, k, a, arith, w)
    BY <2>1, RightMeans
  <2> QED
    BY <2>2, Zenon DEF RightDivided, v
<1>7. r.value = v /\ (arith => "PV" \notin f)
  BY <1>5 DEF RightResult, Result, ZS, When, apply_flags
<1> HIDE DEF v, e, f
<1>8. Signed(v, w) % Mod(w) = v /\ v % Mod(w) = v
  BY <1>2, <1>6, SignedBack
<1>9. (arith => e = Signed(v, w)) /\ (~arith => e = v)
  BY <1>4, <1>6
<1>10. r.value = e % Mod("word") /\ (arith => ("PV" \in f) = (e # Signed(r.value, "word")))
  <2>1. r.value = e % Mod("word")
    BY <1>7, <1>8, <1>9
  <2>2. arith => e = Signed(r.value, "word")
    BY <1>7, <1>9
  <2>3. arith => (("PV" \in f) <=> (e # Signed(r.value, "word")))
    BY <1>7, <2>2
  <2> QED
    BY <2>1, <2>3
<1> QED
  BY <1>10, Zenon DEF ShiftedTo, e, f, r

(* SLA and SLL multiply; PV tells what does not fit.                       *)
LEMMA ShiftedLeft ==
  ASSUME Doubling, NEW arith \in BOOLEAN, NEW a \in Value("word"), NEW c \in 0..63, NEW fcw
  PROVE  ShiftedTo(arith, a, c, fcw)
<1> DEFINE w == "word"
           r == exec_shift(arith, a, c, "word")
           f == apply_flags(fcw, r)
           x == IF arith THEN Signed(a, "word") ELSE a
           e == IF c < 0 THEN x \div 2 ^ (-c) ELSE x * 2 ^ c
<1>1. ~(c < 0) /\ c \in Nat /\ Places(c) = c
  BY DEF Places
<1>2. w \in Widths /\ a \in Nat
  BY DEF Widths, Value
<1>3. r = do_shift_left(a, c, arith, w)
  BY <1>1 DEF exec_shift, alu_exec
<1>4. e = x * 2 ^ c
  BY <1>1
<1> HIDE DEF r
<1>5. PICK s : ShiftsLeft(s, c, a, w) /\ r = LeftResult(s, c, arith, w)
  BY <1>1, <1>2, <1>3, LeftPlaces
<1> DEFINE v == s[c].val
           o == s[c].ovf
<1>6. /\ v \in Value(w) /\ o \in BOOLEAN /\ v = (a * 2 ^ c) % Mod(w)
      /\ o <=> Signed(a, w) * 2 ^ c # Signed(v, w)
  BY <1>2, <1>5, LeftMeans
<1>7. r.value = v /\ (arith => ("PV" \in f) = o)
  BY <1>5, <1>6 DEF LeftResult, Result, ZS, When, apply_flags
<1> HIDE DEF v, o, e, f
<1>8. e % Mod(w) = (a * 2 ^ c) % Mod(w)
  <2> DEFINE p == 2 ^ c
             m == Mod(w)
  <2>1. p \in Nat \ {0}
    BY Powers
  <2>2. m \in Nat \ {0}
    BY <1>2, Halves
  <2>3. x = a \/ x = a - m
    BY <1>2 DEF Signed
  <2>4. e = x * p
    BY <1>4
  <2> HIDE DEF p, m, x
  <2>5. CASE x = a
    BY <2>4, <2>5 DEF p, m
  <2>6. CASE x = a - m
    <3> DEFINE q == -p
               y == a * p
    <3>1. e = q * m + y /\ q \in Int /\ y \in Int
      BY <1>2, <2>1, <2>2, <2>4, <2>6
    <3> HIDE DEF q, y
    <3>2. (q * m + y) % m = y % m
      BY <2>2, <3>1, ModShift
    <3> QED
      BY <3>1, <3>2 DEF y, p, m
  <2> QED
    BY <2>3, <2>5, <2>6
<1>9. r.value = e % Mod("word") /\ (arith => ("PV" \in f) = (e # Signed(r.value, "word")))
  <2>1. r.value = e % Mod("word")
    BY <1>6, <1>7, <1>8
  <2>2. arith => (o <=> e # Signed(r.value, "word"))
    BY <1>4, <1>6, <1>7
  <2>3. arith => (("PV" \in f) <=> (e # Signed(r.value, "word")))
    BY <1>7, <2>2
  <2> QED
    BY <2>1, <2>3
<1> QED
  BY <1>9, Zenon DEF ShiftedTo, e, f, r

(* The jobs of one shift, and of a rotate forth and back.                  *)
ShiftJob(j) == j \in [about : {"shift"}, arith : BOOLEAN, a : Value("word"),
                      count : -63 .. 63, fcw : SUBSET Flags]
RotateJob(j) == j \in [about : {"rotate"}, a : Value("word"), count : 0 .. 63,
                       fcw : SUBSET Flags,
                       ops : {<<"RL", "RR">>, <<"RR", "RL">>, <<"RLC", "RRC">>,
                              <<"RRC", "RLC">>}]

(* What ShiftsRight says of each.                                          *)
ShiftRight ==
  LET c == given.count
      x == IF job.arith THEN Signed(given.a, "word") ELSE given.a
      e == IF c < 0 THEN x \div 2 ^ (-c) ELSE x * 2 ^ c
  IN  /\ job.a = e % Mod("word")
      /\ job.arith => ("PV" \in job.fcw) = (e # Signed(job.a, "word"))
RotateRight ==
  /\ job.a = given.a
  /\ job.ops[1] \in {"RLC", "RRC"} => ("C" \in job.fcw) = ("C" \in given.fcw)

ShiftInv ==
  /\ ShiftJob(given) /\ n \in 0..1
  /\ n = 0 => job = given
  /\ n = 1 => ShiftRight

(* The job after one rotate.                                               *)
OneRotate(j) == alu_exec(j.ops[1], j.a, j.count, "C" \in j.fcw, "word")

RotateInv ==
  /\ RotateJob(given) /\ n \in 0..2
  /\ n = 0 => job = given
  /\ n = 1 => /\ {"a", "fcw", "ops", "count"} \subseteq DOMAIN job
              /\ job.a = OneRotate(given).value
              /\ job.fcw = apply_flags(given.fcw, OneRotate(given))
              /\ job.ops = given.ops /\ job.count = given.count
  /\ n = 2 => RotateRight

(* A shift multiplies or divides.                                          *)
LEMMA ShiftStep ==
  ASSUME Doubling, ShiftInv, Shift, n' = n + 1, given' = given
  PROVE  ShiftInv'
<1> DEFINE arith == given.arith
           a == given.a
           c == given.count
           fcw == given.fcw
           r == exec_shift(arith, a, c, "word")
           f == apply_flags(fcw, r)
<1>1. n = 0 /\ job = given /\ ShiftJob(given)
  BY DEF ShiftInv, Shift
<1>2. arith \in BOOLEAN /\ a \in Value("word") /\ c \in -63..63
  BY <1>1 DEF ShiftJob
<1>3. job' = [given EXCEPT !.a = r.value, !.fcw = f]
  BY <1>1 DEF Shift
<1>4. ShiftedTo(arith, a, c, fcw)
  <2> HIDE DEF arith, a, c, fcw
  <2>1. CASE c \in -63..-1
    BY <1>2, <2>1, ShiftedRight
  <2>2. CASE c \in 0..63
    BY <1>2, <2>2, ShiftedLeft
  <2> QED
    BY <1>2, <2>1, <2>2
<1> HIDE DEF r, f
<1>5. job'.a = r.value /\ job'.fcw = f /\ job'.arith = arith
  <2>1. {"a", "fcw", "arith"} \subseteq DOMAIN given
    BY <1>1 DEF ShiftJob
  <2> QED
    BY <1>3, <2>1, WriteValue
<1>6. ShiftRight'
  BY <1>4, <1>5, Zenon DEF ShiftRight, ShiftedTo, r, f
<1> QED
  BY <1>1, <1>6 DEF ShiftInv

(* The two rotates of a job undo each other.                               *)
LEMMA RotatesUndo ==
  ASSUME NEW j, RotateJob(j)
  PROVE  LET r == OneRotate(j)
             f == apply_flags(j.fcw, r)
             t == alu_exec(j.ops[2], r.value, j.count, "C" \in f, "word")
         IN  /\ t.value = j.a
             /\ j.ops[1] \in {"RLC", "RRC"} =>
                  ("C" \in apply_flags(f, t)) = ("C" \in j.fcw)
<1> DEFINE r == OneRotate(j)
           f == apply_flags(j.fcw, r)
           t == alu_exec(j.ops[2], r.value, j.count, "C" \in f, "word")
           g == apply_flags(f, t)
           right == j.ops[1] \in {"RR", "RRC"}
           thru == j.ops[1] \in {"RLC", "RRC"}
           w == "word"
<1>1. /\ w \in Widths /\ j.a \in Value(w) /\ j.count \in 0..63
      /\ right \in BOOLEAN /\ thru \in BOOLEAN
  BY DEF RotateJob, Widths
<1>2. j.ops \in {<<"RL", "RR">>, <<"RR", "RL">>, <<"RLC", "RRC">>, <<"RRC", "RLC">>}
  BY DEF RotateJob
<1>3. ForthAndBack(j.a, j.count, right, thru, j.fcw, w)
  <2> HIDE DEF right, thru
  <2> QED
    BY <1>1, RotateBack
<1>4. \A v, c : /\ alu_exec(j.ops[1], v, j.count, c, w) = do_rotate(v, j.count, right, thru, c, w)
                /\ alu_exec(j.ops[2], v, j.count, c, w) =
                     do_rotate(v, j.count, ~right, thru, c, w)
  <2>1. CASE j.ops = <<"RL", "RR">>
    <3>1. j.ops[1] = "RL" /\ j.ops[2] = "RR" /\ right = FALSE /\ thru = FALSE /\ (~right) = TRUE
      BY <2>1
    <3> HIDE DEF right, thru
    <3> QED
      BY <3>1, ZenonT(30) DEF alu_exec
  <2>2. CASE j.ops = <<"RR", "RL">>
    <3>1. j.ops[1] = "RR" /\ j.ops[2] = "RL" /\ right = TRUE /\ thru = FALSE /\ (~right) = FALSE
      BY <2>2
    <3> HIDE DEF right, thru
    <3> QED
      BY <3>1, ZenonT(30) DEF alu_exec
  <2>3. CASE j.ops = <<"RLC", "RRC">>
    <3>1. j.ops[1] = "RLC" /\ j.ops[2] = "RRC" /\ right = FALSE /\ thru = TRUE /\ (~right) = TRUE
      BY <2>3
    <3> HIDE DEF right, thru
    <3> QED
      BY <3>1, ZenonT(30) DEF alu_exec
  <2>4. CASE j.ops = <<"RRC", "RLC">>
    <3>1. j.ops[1] = "RRC" /\ j.ops[2] = "RLC" /\ right = TRUE /\ thru = TRUE /\ (~right) = FALSE
      BY <2>4
    <3> HIDE DEF right, thru
    <3> QED
      BY <3>1, ZenonT(30) DEF alu_exec
  <2> QED
    BY <1>2, <2>1, <2>2, <2>3, <2>4
<1>5. r = do_rotate(j.a, j.count, right, thru, "C" \in j.fcw, w)
  BY <1>4, Zenon DEF OneRotate
<1>6. t = do_rotate(r.value, j.count, ~right, thru, "C" \in f, w)
  <2> HIDE DEF f, r
  <2> QED
    BY <1>4, Zenon
<1> HIDE DEF r, right
<1>7. t.value = j.a /\ (thru => ("C" \in g) = ("C" \in j.fcw))
  <2> HIDE DEF t, thru
  <2> QED
    BY <1>3, <1>5, <1>6, Zenon DEF ForthAndBack
<1> QED
  BY <1>7, Zenon DEF r

(* A rotate, then the same rotate the other way.                           *)
LEMMA RotateStep ==
  ASSUME RotateInv, Rotate, n' = n + 1, given' = given
  PROVE  RotateInv'
<1>1. CASE n = 0
  <2> DEFINE r == OneRotate(given)
             f == apply_flags(given.fcw, r)
  <2>1. job = given /\ RotateJob(given) /\ n' = 1
    BY <1>1 DEF RotateInv
  <2>2. job' = [given EXCEPT !.a = r.value, !.fcw = f]
    BY <1>1, <2>1 DEF Rotate, OneRotate
  <2>3. {"a", "fcw", "ops", "count"} \subseteq DOMAIN given
    BY <2>1 DEF RotateJob
  <2> HIDE DEF r, f
  <2>4. /\ DOMAIN job' = DOMAIN given /\ job'.a = r.value /\ job'.fcw = f
        /\ job'.ops = given.ops /\ job'.count = given.count
    BY <2>2, <2>3, WriteValue
  <2> QED
    BY <2>1, <2>3, <2>4 DEF RotateInv, r, f
<1>2. CASE n = 1
  <2> DEFINE r == OneRotate(given)
             f == apply_flags(given.fcw, r)
             t == alu_exec(given.ops[2], r.value, given.count, "C" \in f, "word")
             g == apply_flags(f, t)
  <2>1. /\ RotateJob(given) /\ n' = 2 /\ {"a", "fcw", "ops", "count"} \subseteq DOMAIN job
        /\ job.a = r.value /\ job.fcw = f /\ job.ops = given.ops /\ job.count = given.count
    BY <1>2 DEF RotateInv
  <2>2. job' = [job EXCEPT !.a = t.value, !.fcw = g]
    BY <1>2, <2>1 DEF Rotate
  <2>3. /\ t.value = given.a
        /\ given.ops[1] \in {"RLC", "RRC"} => ("C" \in g) = ("C" \in given.fcw)
    BY <2>1, RotatesUndo, Zenon
  <2> HIDE DEF t, g, r, f
  <2>4. job'.a = t.value /\ job'.fcw = g /\ job'.ops = given.ops
    BY <2>1, <2>2, WriteValue
  <2>5. RotateRight'
    BY <2>3, <2>4, Zenon DEF RotateRight
  <2> QED
    BY <2>1, <2>5 DEF RotateInv
<1>3. n = 0 \/ n = 1
  BY DEF RotateInv, Rotate
<1> QED
  BY <1>1, <1>2, <1>3

ShiftsInv ==
  /\ "about" \in DOMAIN job /\ n \in Nat
  /\ job.about = "shift" => ShiftInv
  /\ job.about = "rotate" => RotateInv

(* Shifts multiply and divide, rotates undo each other, at every width of  *)
(* the word and by every count (do_shift_left, do_shift_right, do_rotate). *)
(* Doubling is the arithmetic of ^, which no prover knows, and TLC not     *)
(* beyond 32 bits.                                                         *)
THEOREM ShiftsSound == Doubling /\ JobSpec => []ShiftsRight
<1>1. JobInit => ShiftsInv
  <2> SUFFICES ASSUME JobInit PROVE ShiftsInv
    OBVIOUS
  <2>1. n = 0 /\ given = job /\ "about" \in DOMAIN job /\ Proper(job)
    BY Begins
  <2> QED
    BY <2>1 DEF Proper, ShiftsInv, ShiftInv, RotateInv, ShiftJob, RotateJob
<1>2. ASSUME Doubling, ShiftsInv, [JobNext]_jvars PROVE ShiftsInv'
  <2>1. CASE UNCHANGED jvars
    BY <1>2, <2>1, Zenon
    DEF jvars, ShiftsInv, ShiftInv, RotateInv, ShiftRight, RotateRight, OneRotate
  <2>2. CASE JobNext
    <3>1. /\ n \in Nat /\ n' = n + 1 /\ given' = given
          /\ "about" \in DOMAIN job' /\ job'.about = job.about
          /\ job.about = "shift" => Shift
          /\ job.about = "rotate" => Rotate
      BY <1>2, <2>2, StepOf DEF ShiftsInv
    <3>2. job.about = "shift" => ShiftInv'
      BY <1>2, <3>1, ShiftStep DEF ShiftsInv
    <3>3. job.about = "rotate" => RotateInv'
      BY <1>2, <3>1, RotateStep DEF ShiftsInv
    <3> QED
      BY <3>1, <3>2, <3>3 DEF ShiftsInv
  <2> QED
    BY <1>2, <2>1, <2>2
<1>3. ShiftsInv => ShiftsRight
  BY Zenon DEF ShiftsInv, ShiftsRight, Done, ShiftInv, RotateInv, ShiftRight, RotateRight
<1> DEFINE Inv == Doubling /\ ShiftsInv
<1>4. Doubling /\ JobInit => Inv
  BY <1>1
<1>5. Inv /\ [JobNext]_jvars => Inv'
  BY <1>2
<1>6. Inv => ShiftsRight
  BY <1>3
<1> QED
  BY <1>4, <1>5, <1>6, PTL DEF JobSpec

(***************************************************************************)
(* Part nine: every byte of an image has a place of its own.               *)
(*                                                                         *)
(* What the list of groups holds is followed from one group to the next    *)
(* (Laid, LaidOn), whether the next one has a segment or not.              *)
(***************************************************************************)

APiece == [foff : Nat, moff : Nat, len : Nat]
AGroup == [p : Seq(APiece), bss : Nat, span : Nat]

(* The file bytes of a piece; those of a group; the places its pieces fill. *)
Rng(x) == x.foff .. x.foff + x.len - 1
Holds(g, c) == \E k \in DOMAIN g.p : c \in Rng(g.p[k])
Fills(g, v) == \E k \in DOMAIN g.p : \E j \in 0..g.p[k].len - 1 : v = g.p[k].moff + j
Solid(g) == \A v : Fills(g, v) <=> v \in 0..g.span - 1

(* A sequence with one element more.                                       *)
LEMMA OneMore ==
  ASSUME NEW S, NEW s \in Seq(S), NEW z \in S
  PROVE  /\ s \o <<z>> \in Seq(S) /\ Len(s \o <<z>>) = Len(s) + 1
         /\ DOMAIN (s \o <<z>>) = 1..Len(s) + 1
         /\ \A i \in 1..Len(s) : (s \o <<z>>)[i] = s[i]
         /\ (s \o <<z>>)[Len(s) + 1] = z
<1> DEFINE t == s \o <<z>>
<1>1. t = Append(s, z)
  BY AppendIsConcat
<1> HIDE DEF t
<1>2. /\ t \in Seq(S) /\ Len(t) = Len(s) + 1
      /\ \A i \in 1..Len(s) : t[i] = s[i]
      /\ t[Len(s) + 1] = z
  BY <1>1, AppendProperties
<1>3. DOMAIN t = 1..Len(t)
  BY <1>2
<1> QED
  BY <1>2, <1>3 DEF t

(* The pieces listed of two are those with bytes.                          *)
LEMMA ListedPieces ==
  ASSUME NEW x \in APiece, NEW y \in APiece
  PROVE  /\ Listed(x) \o Listed(y) \in Seq(APiece)
         /\ {(Listed(x) \o Listed(y))[k] : k \in DOMAIN (Listed(x) \o Listed(y))}
              = {z \in {x, y} : z.len > 0}
<1> DEFINE s == Listed(x)
           q == Listed(x) \o Listed(y)
<1>1. s \in Seq(APiece) /\ {s[k] : k \in DOMAIN s} = {z \in {x} : z.len > 0}
  <2>1. CASE x.len > 0
    <3>1. s = <<x>>
      BY <2>1 DEF Listed
    <3> HIDE DEF s
    <3>2. DOMAIN s = {1} /\ s[1] = x
      BY <3>1
    <3> QED
      BY <2>1, <3>1, <3>2
  <2>2. CASE ~(x.len > 0)
    <3>1. s = <<>>
      BY <2>2 DEF Listed
    <3> HIDE DEF s
    <3> QED
      BY <2>2, <3>1
  <2> QED
    BY <2>1, <2>2
<1> HIDE DEF s
<1>2. CASE y.len > 0
  <2>1. q = s \o <<y>>
    BY <1>2 DEF Listed, s
  <2> HIDE DEF q
  <2>2. /\ q \in Seq(APiece) /\ DOMAIN q = 1..Len(s) + 1
        /\ \A i \in 1..Len(s) : q[i] = s[i]
        /\ q[Len(s) + 1] = y
    BY <1>1, <2>1, OneMore
  <2>3. DOMAIN s = 1..Len(s) /\ Len(s) \in Nat
    BY <1>1
  <2>4. {q[k] : k \in DOMAIN q} = {s[k] : k \in DOMAIN s} \cup {y}
    <3>1. \A k \in DOMAIN q : k \in DOMAIN s \/ k = Len(s) + 1
      BY <2>2, <2>3
    <3>2. DOMAIN s \subseteq DOMAIN q /\ Len(s) + 1 \in DOMAIN q
      BY <2>2, <2>3
    <3> QED
      BY <2>2, <2>3, <3>1, <3>2
  <2> QED
    BY <1>1, <1>2, <2>2, <2>4 DEF q
<1>3. CASE ~(y.len > 0)
  <2>1. q = s \o <<>>
    BY <1>3 DEF Listed, s
  <2> HIDE DEF q
  <2>2. q = s
    BY <1>1, <2>1, ConcatEmptySeq
  <2> QED
    BY <1>1, <1>3, <2>2 DEF q
<1> QED
  BY <1>2, <1>3

(* A second piece follows the first one's bytes in memory.                 *)
Adjoining(x, y) == x.moff = 0 /\ (y.moff = x.len \/ y = NoPiece)

(* A group's pieces fill it up to its span, and hold the file bytes they   *)
(* name.                                                                   *)
LEMMA GroupMeans ==
  ASSUME NEW x \in APiece, NEW y \in APiece, NEW b \in Nat, Adjoining(x, y)
  PROVE  /\ Group(x, y, b) \in AGroup
         /\ Group(x, y, b).span = x.len + y.len /\ Group(x, y, b).bss = b
         /\ Solid(Group(x, y, b))
         /\ \A c : Holds(Group(x, y, b), c) <=> c \in Rng(x) \cup Rng(y)
<1> DEFINE g == Group(x, y, b)
           q == Listed(x) \o Listed(y)
<1>1. /\ x.foff \in Nat /\ x.moff \in Nat /\ x.len \in Nat
      /\ y.foff \in Nat /\ y.moff \in Nat /\ y.len \in Nat
  BY DEF APiece
<1>2. y = NoPiece => y.moff = 0 /\ y.len = 0
  BY DEF NoPiece, Piece
<1>3. Max({x.moff + x.len, y.moff + y.len}) = x.len + y.len
  <2>1. Max({x.moff + x.len, y.moff + y.len})
          = IF x.moff + x.len >= y.moff + y.len THEN x.moff + x.len ELSE y.moff + y.len
    BY <1>1, MaxTwo
  <2> QED
    BY <1>1, <1>2, <2>1 DEF Adjoining
<1>4. g.p = q /\ g.bss = b /\ g.span = x.len + y.len
  BY <1>3 DEF Group
<1>5. q \in Seq(APiece) /\ {q[k] : k \in DOMAIN q} = {z \in {x, y} : z.len > 0}
  BY ListedPieces
<1>6. g \in AGroup
  <2>1. g = [p |-> q, bss |-> b, span |-> x.len + y.len]
    BY <1>3 DEF Group
  <2> HIDE DEF q, g
  <2> QED
    BY <1>1, <1>5, <2>1 DEF AGroup
<1> HIDE DEF g, q
<1>7. \A k \in DOMAIN q : q[k] \in {x, y} /\ q[k].len > 0
  BY <1>5
<1>8. /\ x.len > 0 => \E k \in DOMAIN q : q[k] = x
      /\ y.len > 0 => \E k \in DOMAIN q : q[k] = y
  BY <1>5
<1>9. Solid(g)
  <2>1. ASSUME NEW v, Fills(g, v) PROVE v \in 0..g.span - 1
    <3>1. PICK k \in DOMAIN q : \E j \in 0..q[k].len - 1 : v = q[k].moff + j
      BY <1>4, <2>1 DEF Fills
    <3>2. q[k] = x \/ q[k] = y
      BY <1>7
    <3>3. CASE q[k] = x
      BY <1>1, <1>4, <3>1, <3>3 DEF Adjoining
    <3>4. CASE q[k] = y
      BY <1>1, <1>2, <1>4, <3>1, <3>4 DEF Adjoining
    <3> QED
      BY <3>2, <3>3, <3>4
  <2>2. ASSUME NEW v, v \in 0..g.span - 1 PROVE Fills(g, v)
    <3>1. v \in Nat /\ v < x.len + y.len
      BY <1>1, <1>4, <2>2
    <3>2. CASE v < x.len
      <4>1. PICK k \in DOMAIN q : q[k] = x
        BY <1>1, <1>8, <3>1, <3>2
      <4>2. v \in 0..q[k].len - 1 /\ v = q[k].moff + v
        BY <1>1, <3>1, <3>2, <4>1 DEF Adjoining
      <4> QED
        BY <1>4, <4>2 DEF Fills
    <3>3. CASE ~(v < x.len)
      <4>1. y.len > 0 /\ y.moff = x.len
        BY <1>1, <1>2, <3>1, <3>3 DEF Adjoining
      <4>2. PICK k \in DOMAIN q : q[k] = y
        BY <1>8, <4>1
      <4>3. v - x.len \in 0..q[k].len - 1 /\ v = q[k].moff + (v - x.len)
        BY <1>1, <3>1, <3>3, <4>1, <4>2
      <4> QED
        BY <1>4, <4>3 DEF Fills
    <3> QED
      BY <3>2, <3>3
  <2> QED
    BY <2>1, <2>2, Zenon DEF Solid
<1>10. ASSUME NEW c PROVE Holds(g, c) <=> c \in Rng(x) \cup Rng(y)
  <2>1. \A z \in APiece : c \in Rng(z) => z.len > 0
    BY DEF Rng, APiece
  <2>2. Holds(g, c) <=> \E k \in DOMAIN q : c \in Rng(q[k])
    BY <1>4 DEF Holds
  <2> QED
    BY <1>7, <1>8, <2>1, <2>2
<1> QED
  BY <1>4, <1>6, <1>9, <1>10 DEF g

(* The bytes of the groups, the zeroed ones with them or not.              *)
Size(g, all) == g.span + (IF all THEN g.bss ELSE 0)
Cells(gs, all) == UNION {{i} \X (0..Size(gs[i], all) - 1) : i \in DOMAIN gs}
Counted(gs, all, N) == IsFiniteSet(Cells(gs, all)) /\ Cardinality(Cells(gs, all)) = N

(* The groups end to end, N bytes in all.                                  *)
EndToEnd(gs, P, N) ==
  /\ P \in [0..Len(gs) -> Nat] /\ P[0] = 0 /\ P[Len(gs)] = N
  /\ \A i \in 1..Len(gs) : P[i] = P[i - 1] + Size(gs[i], TRUE)
  /\ \A i \in 0..Len(gs) : P[i] <= N

(* At most m groups, none empty, each filled by its pieces; N bytes in     *)
(* all, F of them from the file, the file bytes being those in C.          *)
Laid(gs, m, N, F, C) ==
  /\ gs \in Seq(AGroup) /\ Len(gs) <= m /\ N \in Nat /\ F \in Nat
  /\ \A i \in DOMAIN gs : Solid(gs[i]) /\ Size(gs[i], TRUE) > 0
  /\ Counted(gs, TRUE, N) /\ Counted(gs, FALSE, F)
  /\ \E P : EndToEnd(gs, P, N)
  /\ \A c : (\E i \in DOMAIN gs : Holds(gs[i], c)) <=> c \in C

(* The next group, where it is not empty.                                  *)
LEMMA SizeFacts ==
  ASSUME NEW g \in AGroup
  PROVE  /\ g.span \in Nat /\ g.bss \in Nat
         /\ \A all \in BOOLEAN : Size(g, all) \in Nat /\ Size(g, all) <= Size(g, TRUE)
         /\ (NonEmpty(g) = <<g>> /\ Size(g, TRUE) > 0)
              \/ (NonEmpty(g) = <<>> /\ Size(g, TRUE) = 0)
BY DEF AGroup, Size, NonEmpty

(* The bytes of one group more.                                            *)
LEMMA CellsGrow ==
  ASSUME NEW gs \in Seq(AGroup), NEW g \in AGroup, NEW all \in BOOLEAN, NEW N \in Nat,
         Counted(gs, all, N)
  PROVE  Counted(gs \o <<g>>, all, N + Size(g, all))
<1> DEFINE t == gs \o <<g>>
           k == Len(gs)
           z == Size(g, all)
           old == Cells(gs, all)
           new == {k + 1} \X (0..z - 1)
<1>1. /\ t \in Seq(AGroup) /\ Len(t) = k + 1 /\ DOMAIN t = 1..k + 1
      /\ \A i \in 1..k : t[i] = gs[i]
      /\ t[k + 1] = g
  BY OneMore
<1>2. k \in Nat /\ DOMAIN gs = 1..k /\ z \in Nat
  <2>1. Size(g, all) \in Nat
    BY SizeFacts
  <2>2. k \in Nat /\ DOMAIN gs = 1..k
    OBVIOUS
  <2> QED
    BY <2>1, <2>2
<1> HIDE DEF t
<1>3. Cells(t, all) = old \cup new
  <2>1. \A i \in DOMAIN gs : Size(t[i], all) = Size(gs[i], all)
    BY <1>1, <1>2
  <2>2. Size(t[k + 1], all) = z
    BY <1>1
  <2>3. DOMAIN t = DOMAIN gs \cup {k + 1}
    BY <1>1, <1>2
  <2> HIDE DEF z, k
  <2> QED
    BY <2>1, <2>2, <2>3 DEF Cells
<1>4. IsFiniteSet(new) /\ Cardinality(new) = z
  <2>1. IsFiniteSet(0..z - 1) /\ Cardinality(0..z - 1) = z
    <3> HIDE DEF z
    <3>1. 0 \in Int /\ z - 1 \in Int
      BY <1>2
    <3>2. IsFiniteSet(0..z - 1) /\ Cardinality(0..z - 1) = IF 0 > z - 1 THEN 0 ELSE (z - 1) - 0 + 1
      BY <3>1, FS_Interval
    <3> QED
      BY <1>2, <3>2
  <2>2. IsFiniteSet({k + 1}) /\ Cardinality({k + 1}) = 1
    BY FS_Singleton
  <2> HIDE DEF z
  <2>3. IsFiniteSet(new) /\ Cardinality(new) = Cardinality({k + 1}) * Cardinality(0..z - 1)
    BY <2>1, <2>2, FS_Product
  <2> QED
    BY <1>2, <2>1, <2>2, <2>3
<1>5. old \cap new = {}
  <2>1. \A b \in old : b[1] \in 1..k
    BY <1>2 DEF Cells
  <2>2. \A b \in new : b[1] = k + 1
    OBVIOUS
  <2>3. k + 1 \notin 1..k
    BY <1>2
  <2> HIDE DEF old, new, k
  <2> QED
    BY <2>1, <2>2, <2>3
<1>6. IsFiniteSet(old) /\ Cardinality(old) = N
  BY DEF Counted
<1> HIDE DEF old, new, z
<1>7. /\ IsFiniteSet(old \cup new)
      /\ Cardinality(old \cup new) = Cardinality(old) + Cardinality(new) - Cardinality({})
  BY <1>4, <1>5, <1>6, FS_Union
<1>8. Cardinality({}) = 0
  BY FS_EmptySet
<1>9. Counted(t, all, N + z)
  BY <1>2, <1>3, <1>4, <1>6, <1>7, <1>8 DEF Counted
<1> QED
  BY <1>9 DEF t, z

(* One group more, of two pieces, with a segment or not.                   *)
LEMMA LaidOn ==
  ASSUME NEW gs, NEW m \in Nat, NEW N, NEW F, NEW C, Laid(gs, m, N, F, C),
         NEW x \in APiece, NEW y \in APiece, NEW b \in Nat, Adjoining(x, y)
  PROVE  Laid(gs \o NonEmpty(Group(x, y, b)), m + 1,
              N + x.len + y.len + b, F + x.len + y.len, C \cup Rng(x) \cup Rng(y))
<1> DEFINE g == Group(x, y, b)
           k == Len(gs)
           t == gs \o NonEmpty(g)
           N2 == N + x.len + y.len + b
           F2 == F + x.len + y.len
           C2 == C \cup Rng(x) \cup Rng(y)
<1>1. /\ g \in AGroup /\ g.span = x.len + y.len /\ g.bss = b /\ Solid(g)
      /\ \A c : Holds(g, c) <=> c \in Rng(x) \cup Rng(y)
  BY GroupMeans
<1>2. x.len \in Nat /\ y.len \in Nat
  BY DEF APiece
<1>3. /\ gs \in Seq(AGroup) /\ k \in Nat /\ k <= m /\ N \in Nat /\ F \in Nat
      /\ DOMAIN gs = 1..k
  BY DEF Laid
<1> HIDE DEF g
<1>4. Size(g, TRUE) = x.len + y.len + b /\ Size(g, FALSE) = x.len + y.len
  BY <1>1, <1>2 DEF Size
<1>5. N2 \in Nat /\ F2 \in Nat /\ N2 = N + Size(g, TRUE) /\ F2 = F + Size(g, FALSE)
  <2> DEFINE lx == x.len
             ly == y.len
             sT == Size(g, TRUE)
             sF == Size(g, FALSE)
  <2>1. lx \in Nat /\ ly \in Nat /\ sT = lx + ly + b /\ sF = lx + ly
    BY <1>2, <1>4
  <2>2. N2 = N + lx + ly + b /\ F2 = F + lx + ly
    OBVIOUS
  <2> HIDE DEF lx, ly, sT, sF, N2, F2
  <2>3. N2 \in Nat /\ F2 \in Nat /\ N2 = N + sT /\ F2 = F + sF
    BY <1>3, <2>1, <2>2
  <2> QED
    BY <2>3 DEF sT, sF
<1>6. /\ \A i \in DOMAIN gs : Solid(gs[i]) /\ Size(gs[i], TRUE) > 0
      /\ Counted(gs, TRUE, N) /\ Counted(gs, FALSE, F)
      /\ \A c : (\E i \in DOMAIN gs : Holds(gs[i], c)) <=> c \in C
  BY DEF Laid
<1>7. PICK P : EndToEnd(gs, P, N)
  BY Zenon DEF Laid
<1> HIDE DEF N2, F2, C2
<1>8. CASE NonEmpty(g) = <<>> /\ Size(g, TRUE) = 0
  <2>1. t = gs
    BY <1>3, <1>8, ConcatEmptySeq
  <2>2. x.len = 0 /\ y.len = 0 /\ N2 = N /\ F2 = F
    <3> DEFINE lx == x.len
               ly == y.len
               sT == Size(g, TRUE)
               sF == Size(g, FALSE)
    <3>1. /\ lx \in Nat /\ ly \in Nat /\ sT = lx + ly + b /\ sF = lx + ly /\ sT = 0
          /\ N2 = N + sT /\ F2 = F + sF
      BY <1>2, <1>4, <1>5, <1>8
    <3> HIDE DEF lx, ly, sT, sF
    <3>2. lx = 0 /\ ly = 0 /\ N2 = N /\ F2 = F
      BY <1>3, <3>1
    <3> QED
      BY <3>2 DEF lx, ly
  <2>3. \A c : c \in C2 <=> c \in C
    BY <2>2 DEF C2, Rng, APiece
  <2>4. Len(gs) <= m + 1
    BY <1>3
  <2>5. Laid(gs, m + 1, N2, F2, C2)
    BY <1>3, <1>6, <1>7, <2>2, <2>3, <2>4, Zenon DEF Laid
  <2> QED
    BY <2>1, <2>5, Zenon DEF g, N2, F2, C2
<1>9. CASE NonEmpty(g) = <<g>> /\ Size(g, TRUE) > 0
  <2>1. t = gs \o <<g>>
    BY <1>9
  <2>2. /\ t \in Seq(AGroup) /\ Len(t) = k + 1 /\ DOMAIN t = 1..k + 1
        /\ \A i \in 1..k : t[i] = gs[i]
        /\ t[k + 1] = g
    BY <1>1, <1>3, <2>1, OneMore
  <2>3. Counted(t, TRUE, N2) /\ Counted(t, FALSE, F2)
    BY <1>1, <1>3, <1>5, <1>6, <2>1, CellsGrow
  <2> HIDE DEF t
  <2>4. \A i \in DOMAIN t : Solid(t[i]) /\ Size(t[i], TRUE) > 0
    <3>1. \A i \in DOMAIN t : i \in DOMAIN gs \/ i = k + 1
      BY <1>3, <2>2
    <3> HIDE DEF k
    <3> QED
      BY <1>1, <1>3, <1>6, <1>9, <2>2, <3>1
  <2>5. \A c : (\E i \in DOMAIN t : Holds(t[i], c)) <=> c \in C2
    <3>1. DOMAIN t = DOMAIN gs \cup {k + 1}
      BY <1>3, <2>2
    <3> HIDE DEF k
    <3>2. \A c : (\E i \in DOMAIN t : Holds(t[i], c))
                   <=> (\E i \in DOMAIN gs : Holds(gs[i], c)) \/ Holds(g, c)
      BY <1>3, <2>2, <3>1
    <3> QED
      BY <1>1, <1>6, <3>2 DEF C2
  <2>6. \E Q : EndToEnd(t, Q, N2)
    <3> DEFINE Q == [i \in 0..k + 1 |-> IF i <= k THEN P[i] ELSE N2]
    <3>1. /\ P \in [0..k -> Nat] /\ P[0] = 0 /\ P[k] = N
          /\ \A i \in 1..k : P[i] = P[i - 1] + Size(gs[i], TRUE)
          /\ \A i \in 0..k : P[i] <= N
      BY <1>7 DEF EndToEnd
    <3>a. k \in Nat /\ N \in Nat /\ N2 \in Nat
      BY <1>3, <1>5
    <3> HIDE DEF k
    <3>2. Q \in [0..k + 1 -> Nat] /\ Q[0] = 0 /\ Q[k + 1] = N2
      BY <3>a, <3>1
    <3>q. \A i \in 0..k : Q[i] = P[i]
      BY <3>a
    <3> HIDE DEF Q
    <3>3. ASSUME NEW i \in 1..k + 1 PROVE Q[i] = Q[i - 1] + Size(t[i], TRUE)
      <4>0. i \in 1..k \/ i = k + 1
        BY <3>a
      <4>1. CASE i \in 1..k
        <5>1. i \in 0..k /\ i - 1 \in 0..k
          BY <3>a, <4>1
        <5>2. t[i] = gs[i] /\ P[i] = P[i - 1] + Size(gs[i], TRUE)
          BY <2>2, <3>1, <4>1, Zenon
        <5>3. Q[i] = P[i] /\ Q[i - 1] = P[i - 1]
          BY <3>q, <5>1, Zenon
        <5> QED
          BY <5>2, <5>3, Zenon
      <4>2. CASE i = k + 1
        <5>1. k \in 0..k /\ i - 1 = k
          BY <3>a, <4>2
        <5>2. Q[i] = N2 /\ Q[i - 1] = N
          BY <3>q, <3>1, <3>2, <4>2, <5>1, Zenon
        <5> QED
          BY <1>5, <2>2, <4>2, <5>2, Zenon
      <4> QED
        BY <4>0, <4>1, <4>2, Zenon
    <3>4. ASSUME NEW i \in 0..k + 1 PROVE Q[i] <= N2
      <4>1. Size(g, TRUE) \in Nat
        BY <1>1, SizeFacts
      <4> QED
        <5>1. i \in 0..k => Q[i] <= N
          BY <3>1, <3>q
        <5>2. i \in 0..k \/ i = k + 1
          BY <3>a
        <5>3. N <= N2 /\ (i \in 0..k => Q[i] \in Nat)
          <6>1. i \in 0..k => Q[i] \in Nat
            BY <3>1, <3>q
          <6> DEFINE sT == Size(g, TRUE)
          <6>2. sT \in Nat /\ N2 = N + sT
            BY <1>5, <4>1
          <6> HIDE DEF sT
          <6> QED
            BY <3>a, <6>1, <6>2
        <5> QED
          BY <3>a, <3>2, <5>1, <5>2, <5>3
    <3>5. EndToEnd(t, Q, N2)
      BY <2>2, <3>2, <3>3, <3>4 DEF EndToEnd
    <3> QED
      BY <3>5
  <2>7. Laid(t, m + 1, N2, F2, C2)
    <3>1. Len(t) <= m + 1
      BY <1>3, <2>2
    <3> QED
      BY <1>5, <2>2, <2>3, <2>4, <2>5, <2>6, <3>1, Zenon DEF Laid
  <2> QED
    BY <2>7, Zenon DEF t, g, N2, F2, C2
<1> QED
  BY <1>1, <1>8, <1>9, SizeFacts

Header == [flag : 0 .. 3, entry_seg : 0 .. LastSeg, entry_off : 0 .. SegSize - 1,
           si : Nat, pi : Nat, bi : Nat, sd : Nat, pd : Nat, bd : Nat]

(* No group at all.                                                        *)
LEMMA LaidNone == Laid(<<>>, 0, 0, 0, {})
<1> DEFINE P == [i \in 0..0 |-> 0]
<1>1. <<>> \in Seq(AGroup) /\ Len(<<>>) = 0 /\ DOMAIN <<>> = {}
  OBVIOUS
<1>2. \A all \in BOOLEAN : Counted(<<>>, all, 0)
  <2>1. \A all \in BOOLEAN : Cells(<<>>, all) = {}
    BY <1>1 DEF Cells
  <2> QED
    BY <2>1, FS_EmptySet DEF Counted
<1>3. EndToEnd(<<>>, P, 0)
  BY <1>1 DEF EndToEnd
<1> HIDE DEF P
<1> QED
  <2>1. 0 \in Nat /\ Len(<<>>) <= 0
    BY <1>1
  <2>2. Counted(<<>>, TRUE, 0) /\ Counted(<<>>, FALSE, 0)
    BY <1>2
  <2>3. \A c : (\E i \in DOMAIN <<>> : Holds(<<>>[i], c)) <=> c \in {}
    BY <1>1, Zenon
  <2>4. \A i \in DOMAIN <<>> : Solid(<<>>[i]) /\ Size(<<>>[i], TRUE) > 0
    BY <1>1, Zenon
  <2> QED
    BY <1>1, <1>3, <2>1, <2>2, <2>3, <2>4, Zenon DEF Laid

(* Fewer groups than there may be.                                         *)
LEMMA LaidMore ==
  ASSUME NEW gs, NEW m \in Nat, NEW N, NEW F, NEW C, Laid(gs, m, N, F, C), m <= 4
  PROVE  Laid(gs, 4, N, F, C)
<1>1. gs \in Seq(AGroup) /\ Len(gs) <= m
  BY Zenon DEF Laid
<1>2. Len(gs) <= 4
  BY <1>1
<1> QED
  BY <1>2, Zenon DEF Laid

(* A piece that starts its group, and the one after it.                    *)
LEMMA Pieces ==
  ASSUME NEW fx \in Nat, NEW lx \in Nat
  PROVE  /\ Piece(fx, 0, lx) \in APiece /\ NoPiece \in APiece
         /\ Piece(fx, 0, lx).len = lx /\ NoPiece.len = 0
         /\ Rng(Piece(fx, 0, lx)) = fx .. fx + lx - 1 /\ Rng(NoPiece) = {}
         /\ Adjoining(Piece(fx, 0, lx), NoPiece)
BY DEF Piece, NoPiece, APiece, Rng, Adjoining

(* A piece behind another one of its group.                                *)
LEMMA PieceBehind ==
  ASSUME NEW fx \in Nat, NEW lx \in Nat, NEW fy \in Nat, NEW ly \in Nat
  PROVE  /\ Piece(fy, lx, ly) \in APiece
         /\ Adjoining(Piece(fx, 0, lx), Piece(fy, lx, ly))
BY DEF Piece, APiece, Adjoining

(* One group of one piece more.                                            *)
LEMMA LaidOne ==
  ASSUME NEW gs, NEW m \in Nat, NEW N, NEW F, NEW C, Laid(gs, m, N, F, C),
         NEW f \in Nat, NEW l \in Nat, NEW b \in Nat
  PROVE  Laid(gs \o NonEmpty(Group(Piece(f, 0, l), NoPiece, b)), m + 1,
              N + l + b, F + l, C \cup (f .. f + l - 1))
<1> DEFINE x == Piece(f, 0, l)
<1>1. /\ x \in APiece /\ NoPiece \in APiece /\ x.len = l /\ NoPiece.len = 0
      /\ Rng(x) = f .. f + l - 1 /\ Rng(NoPiece) = {} /\ Adjoining(x, NoPiece)
  BY Pieces
<1> HIDE DEF x
<1>2. Laid(gs \o NonEmpty(Group(x, NoPiece, b)), m + 1,
           N + x.len + NoPiece.len + b, F + x.len + NoPiece.len, C \cup Rng(x) \cup Rng(NoPiece))
  BY <1>1, LaidOn
<1>3. N \in Nat /\ F \in Nat
  BY DEF Laid
<1>4. /\ N + x.len + NoPiece.len + b = N + l + b
      /\ F + x.len + NoPiece.len = F + l
      /\ C \cup Rng(x) \cup Rng(NoPiece) = C \cup (f .. f + l - 1)
  BY <1>1, <1>3
<1> QED
  BY <1>2, <1>4, Zenon DEF x

(* One group of two pieces more.                                           *)
LEMMA LaidTwo ==
  ASSUME NEW gs, NEW m \in Nat, NEW N, NEW F, NEW C, Laid(gs, m, N, F, C),
         NEW f \in Nat, NEW l \in Nat, NEW e \in Nat, NEW k \in Nat, NEW b \in Nat
  PROVE  Laid(gs \o NonEmpty(Group(Piece(f, 0, l), Piece(e, l, k), b)), m + 1,
              N + l + k + b, F + l + k, C \cup (f .. f + l - 1) \cup (e .. e + k - 1))
<1> DEFINE x == Piece(f, 0, l)
           y == Piece(e, l, k)
<1>1. /\ x \in APiece /\ y \in APiece /\ x.len = l /\ y.len = k
      /\ Rng(x) = f .. f + l - 1 /\ Rng(y) = e .. e + k - 1 /\ Adjoining(x, y)
  <2>1. x \in APiece /\ x.len = l /\ Rng(x) = f .. f + l - 1
    BY Pieces
  <2>2. y \in APiece /\ y.len = k /\ Rng(y) = e .. e + k - 1 /\ Adjoining(x, y)
    <3>1. Adjoining(Piece(f, 0, l), Piece(e, l, k))
      BY PieceBehind, Zenon
    <3>2. Piece(e, l, k) \in APiece
      BY PieceBehind, Zenon
    <3>3. Piece(e, l, k).len = k
      BY DEF Piece
    <3>4. Rng(Piece(e, l, k)) = e .. e + k - 1
      BY DEF Piece, Rng
    <3> QED
      BY <3>1, <3>2, <3>3, <3>4, Zenon
  <2> QED
    BY <2>1, <2>2
<1> HIDE DEF x, y
<1>2. Laid(gs \o NonEmpty(Group(x, y, b)), m + 1,
           N + x.len + y.len + b, F + x.len + y.len, C \cup Rng(x) \cup Rng(y))
  BY <1>1, LaidOn
<1> QED
  BY <1>1, <1>2, Zenon DEF x, y

(* lout_layout's groups hold the file's bytes and the zeroed ones.         *)
LEMMA LaidGroups ==
  ASSUME NEW h \in Header
  PROVE  Laid(Groups(h), 4, AllBytes(h), FileSize(h), 0 .. FileSize(h) - 1)
<1> DEFINE si == h.si
           pi == h.pi
           bi == h.bi
           sd == h.sd
           pd == h.pd
           bd == h.bd
           A == AllBytes(h)
           F == FileSize(h)
           G(l, f, b) == NonEmpty(Group(Piece(f, 0, l), NoPiece, b))
<1>1. /\ si \in Nat /\ pi \in Nat /\ bi \in Nat /\ sd \in Nat /\ pd \in Nat /\ bd \in Nat
      /\ h.flag \in 0..3
  BY DEF Header
<1>2. /\ F = si + pi + sd + pd /\ A = si + pi + sd + pd + bi + bd
      /\ FilePi(h) = si /\ FileSd(h) = si + pi /\ FilePd(h) = si + pi + sd
  BY DEF AllBytes, FileSize, FilePi, FileSd, FilePd
<1>3. \A s \in Seq(AGroup) : <<>> \o s = s
  BY ConcatEmptySeq
<1>4. ASSUME NEW f \in Nat, NEW l \in Nat, NEW b \in Nat
      PROVE  Laid(G(l, f, b), 1, l + b, l, f .. f + l - 1)
  <2>1. Laid(<<>> \o G(l, f, b), 0 + 1, 0 + l + b, 0 + l, {} \cup (f .. f + l - 1))
    BY LaidNone, LaidOne
  <2>2. <<>> \o G(l, f, b) = G(l, f, b)
    <3>1. G(l, f, b) \in Seq(AGroup)
      <4>1. Group(Piece(f, 0, l), NoPiece, b) \in AGroup
        BY GroupMeans, Pieces
      <4> QED
        BY <4>1 DEF NonEmpty
    <3> QED
      BY <1>3, <3>1, Zenon
  <2>3. 0 + 1 = 1 /\ 0 + l + b = l + b /\ 0 + l = l /\ {} \cup (f .. f + l - 1) = f .. f + l - 1
    OBVIOUS
  <2> QED
    BY <2>1, <2>2, <2>3, Zenon
<1> HIDE DEF si, pi, bi, sd, pd, bd, A, F
<1>t. /\ 0 \in Nat /\ 1 \in Nat /\ 2 \in Nat /\ 2 <= 4 /\ 1 + 1 \in Nat /\ (1 + 1) + 1 \in Nat
      /\ bi + bd \in Nat /\ si + pi \in Nat /\ si + pi + sd \in Nat
      /\ si + pi + sd + pd \in Nat /\ sd + pd \in Nat
  BY <1>1
<1>5. CASE h.flag = 0
  <2>1. Groups(h) = G(si + pi + sd + pd, 0, bi + bd)
    BY <1>5 DEF Groups, si, pi, bi, sd, pd, bd
  <2>2. Laid(G(si + pi + sd + pd, 0, bi + bd), 1, (si + pi + sd + pd) + (bi + bd),
             si + pi + sd + pd, 0 .. 0 + (si + pi + sd + pd) - 1)
    BY <1>t, <1>4, Zenon
  <2>3. /\ (si + pi + sd + pd) + (bi + bd) = A /\ si + pi + sd + pd = F
        /\ 0 .. 0 + (si + pi + sd + pd) - 1 = 0 .. F - 1
    BY <1>1, <1>2
  <2>4. Laid(Groups(h), 1, A, F, 0 .. F - 1)
    BY <2>1, <2>2, <2>3, Zenon
  <2>5. 1 \in Nat /\ 1 <= 4
    OBVIOUS
  <2> QED
    BY <2>4, <2>5, LaidMore, Zenon DEF A, F
<1>6. CASE h.flag = 1
  <2> DEFINE g1 == NonEmpty(Group(Piece(0, 0, si), Piece(si + pi, si, sd), 0))
             g2 == NonEmpty(Group(Piece(si, 0, pi), Piece(si + pi + sd, pi, pd), bi + bd))
  <2>1. Groups(h) = g1 \o g2
    BY <1>2, <1>6 DEF Groups, si, pi, bi, sd, pd, bd
  <2>2. Laid(<<>> \o g1, 0 + 1, 0 + si + sd + 0, 0 + si + sd,
             {} \cup (0 .. 0 + si - 1) \cup (si + pi .. si + pi + sd - 1))
    BY <1>1, <1>t, LaidNone, LaidTwo, ZenonT(30)
  <2>3. <<>> \o g1 = g1
    <3>1. Group(Piece(0, 0, si), Piece(si + pi, si, sd), 0) \in AGroup
      BY <1>1, <1>t, GroupMeans, Pieces, PieceBehind, Zenon
    <3>2. g1 \in Seq(AGroup)
      BY <3>1 DEF NonEmpty
    <3> QED
      BY <1>3, <3>2, Zenon
  <2>4. Laid(g1, 1, si + sd, si + sd, (0 .. si - 1) \cup (si + pi .. si + pi + sd - 1))
    <3>1. /\ 0 + 1 = 1 /\ 0 + si + sd + 0 = si + sd /\ 0 + si + sd = si + sd
          /\ {} \cup (0 .. 0 + si - 1) \cup (si + pi .. si + pi + sd - 1)
               = (0 .. si - 1) \cup (si + pi .. si + pi + sd - 1)
      BY <1>1
    <3> QED
      BY <2>2, <2>3, <3>1, Zenon
  <2> HIDE DEF g1
  <2>5. Laid(g1 \o g2, 1 + 1, (si + sd) + pi + pd + (bi + bd), (si + sd) + pi + pd,
             ((0 .. si - 1) \cup (si + pi .. si + pi + sd - 1))
               \cup (si .. si + pi - 1) \cup (si + pi + sd .. si + pi + sd + pd - 1))
    BY <1>1, <1>t, <2>4, LaidTwo, ZenonT(30)
  <2>6. /\ 1 + 1 = 2 /\ (si + sd) + pi + pd + (bi + bd) = A /\ (si + sd) + pi + pd = F
        /\ ((0 .. si - 1) \cup (si + pi .. si + pi + sd - 1))
               \cup (si .. si + pi - 1) \cup (si + pi + sd .. si + pi + sd + pd - 1)
             = 0 .. F - 1
    BY <1>1, <1>2
  <2>7. Laid(Groups(h), 2, A, F, 0 .. F - 1)
    BY <2>1, <2>5, <2>6, Zenon
  <2> QED
    BY <1>t, <2>7, LaidMore, Zenon DEF A, F
<1>7. CASE h.flag = 2
  <2> DEFINE g1 == G(si + pi, 0, bi)
             g2 == G(sd + pd, si + pi, bd)
  <2>1. Groups(h) = g1 \o g2
    BY <1>2, <1>7 DEF Groups, si, pi, bi, sd, pd, bd
  <2>2. Laid(g1, 1, (si + pi) + bi, si + pi, 0 .. 0 + (si + pi) - 1)
    BY <1>1, <1>t, <1>4, Zenon
  <2> HIDE DEF g1
  <2>3. Laid(g1 \o g2, 1 + 1, ((si + pi) + bi) + (sd + pd) + bd, (si + pi) + (sd + pd),
             (0 .. 0 + (si + pi) - 1) \cup (si + pi .. si + pi + (sd + pd) - 1))
    BY <1>1, <1>t, <2>2, LaidOne, Zenon
  <2>4. /\ 1 + 1 = 2 /\ ((si + pi) + bi) + (sd + pd) + bd = A /\ (si + pi) + (sd + pd) = F
        /\ (0 .. 0 + (si + pi) - 1) \cup (si + pi .. si + pi + (sd + pd) - 1) = 0 .. F - 1
    BY <1>1, <1>2
  <2>5. Laid(Groups(h), 2, A, F, 0 .. F - 1)
    BY <2>1, <2>3, <2>4, Zenon
  <2> QED
    BY <1>t, <2>5, LaidMore, Zenon DEF A, F
<1>8. CASE h.flag = 3
  <2> DEFINE g1 == G(si, 0, 0)
             g2 == G(pi, si, bi)
             g3 == G(sd, si + pi, 0)
             g4 == G(pd, si + pi + sd, bd)
  <2>1. Groups(h) = g1 \o g2 \o g3 \o g4
    BY <1>2, <1>8 DEF Groups, si, pi, bi, sd, pd, bd
  <2>2. Laid(g1, 1, si + 0, si, 0 .. 0 + si - 1)
    BY <1>1, <1>t, <1>4, Zenon
  <2> HIDE DEF g1
  <2>3. Laid(g1 \o g2, 1 + 1, (si + 0) + pi + bi, si + pi,
             (0 .. 0 + si - 1) \cup (si .. si + pi - 1))
    BY <1>1, <1>t, <2>2, LaidOne, Zenon
  <2> HIDE DEF g2
  <2>4. Laid(g1 \o g2 \o g3, (1 + 1) + 1, ((si + 0) + pi + bi) + sd + 0, (si + pi) + sd,
             ((0 .. 0 + si - 1) \cup (si .. si + pi - 1)) \cup (si + pi .. si + pi + sd - 1))
    BY <1>1, <1>t, <2>3, LaidOne, Zenon
  <2> HIDE DEF g3
  <2>5. Laid(g1 \o g2 \o g3 \o g4, ((1 + 1) + 1) + 1,
             (((si + 0) + pi + bi) + sd + 0) + pd + bd, ((si + pi) + sd) + pd,
             (((0 .. 0 + si - 1) \cup (si .. si + pi - 1)) \cup (si + pi .. si + pi + sd - 1))
               \cup (si + pi + sd .. si + pi + sd + pd - 1))
    BY <1>1, <1>t, <2>4, LaidOne, Zenon
  <2>6. /\ ((1 + 1) + 1) + 1 = 4 /\ (((si + 0) + pi + bi) + sd + 0) + pd + bd = A
        /\ ((si + pi) + sd) + pd = F
        /\ (((0 .. 0 + si - 1) \cup (si .. si + pi - 1)) \cup (si + pi .. si + pi + sd - 1))
               \cup (si + pi + sd .. si + pi + sd + pd - 1) = 0 .. F - 1
    BY <1>1, <1>2
  <2> QED
    BY <2>1, <2>5, <2>6, Zenon DEF A, F
<1> QED
  BY <1>1, <1>5, <1>6, <1>7, <1>8

(* The segments a group needs, just enough for its bytes.                  *)
LEMMA NeededMeans ==
  ASSUME NEW h \in Header, NEW gs \in Seq(AGroup), NEW i \in DOMAIN gs, Size(gs[i], TRUE) > 0
  PROVE  /\ Total(h, gs, i) = Base(h, i) + Size(gs[i], TRUE)
         /\ Base(h, i) \in Nat /\ Size(gs[i], TRUE) \in Nat
         /\ Needed(h, gs, i) \in Nat /\ Needed(h, gs, i) >= 1
         /\ Total(h, gs, i) <= SegSize * Needed(h, gs, i)
         /\ SegSize * Needed(h, gs, i) <= Total(h, gs, i) + SegSize - 1
<1> DEFINE S == SegSize
           T == Total(h, gs, i)
           z == Size(gs[i], TRUE)
           o == Base(h, i)
           c == (T + S - 1) \div S
<1>1. S \in Nat \ {0}
  BY LoutAssumption
<1>2. gs[i] \in AGroup
  OBVIOUS
<1>3. z \in Nat /\ z > 0 /\ gs[i].span \in Nat /\ gs[i].bss \in Nat
      /\ z = gs[i].span + gs[i].bss
  BY <1>2, SizeFacts DEF Size
<1>4. o \in Nat
  BY <1>1 DEF Base, Header
<1>5. T = o + z
  <2> DEFINE u == gs[i].span
             v == gs[i].bss
  <2>1. T = o + u + v
    BY DEF Total
  <2>2. u \in Nat /\ v \in Nat /\ z = u + v
    BY <1>3
  <2> HIDE DEF T, o, u, v, z
  <2> QED
    BY <1>4, <2>1, <2>2
<1> DEFINE a == T + S - 1
<1>6. T \in Nat /\ T > 0 /\ a \in Int /\ a = T + S - 1
  <2> HIDE DEF T, z, o, S
  <2> QED
    BY <1>1, <1>3, <1>4, <1>5, SMTT(30)
<1>7. c = a \div S /\ Needed(h, gs, i) = Max({1, c})
  BY DEF Needed
<1> HIDE DEF S, T, z, o, a, c
<1> DEFINE r == a % S
<1>8. c \in Int /\ r \in Nat /\ r < S /\ a = S * c + r
  BY <1>1, <1>6, <1>7, DivFacts
<1> HIDE DEF r
<1>9. c >= 1
  <2>1. SUFFICES ASSUME c < 1 PROVE FALSE
    BY <1>8
  <2>2. S * c + S <= S * 1
    BY <1>1, <1>8, <2>1, Monotone
  <2> DEFINE m == S * c
  <2>3. m \in Int /\ m + S <= S /\ a = m + r
    BY <1>1, <1>8, <2>2
  <2> HIDE DEF m
  <2> QED
    BY <1>1, <1>6, <1>8, <2>3
<1>10. Needed(h, gs, i) = c
  <2>1. Max({1, c}) = IF 1 >= c THEN 1 ELSE c
    BY <1>8, MaxTwo
  <2> QED
    BY <1>7, <1>8, <1>9, <2>1
<1>11. T <= S * c /\ S * c <= T + S - 1
  <2> DEFINE m == S * c
  <2>1. m \in Int /\ a = m + r
    BY <1>1, <1>8
  <2> HIDE DEF m
  <2>2. T <= m /\ m <= T + S - 1
    BY <1>1, <1>6, <1>8, <2>1
  <2> QED
    BY <2>2 DEF m
<1>12. c \in Nat
  BY <1>8, <1>9
<1> QED
  BY <1>3, <1>4, <1>5, <1>9, <1>10, <1>11, <1>12 DEF T, S, z, o

(* The segments, one group's behind the other's.                           *)
InTurn(h, gs, from) ==
  /\ from \in [1..Len(gs) + 1 -> Int] /\ from[1] = h.entry_seg
  /\ \A i \in 1..Len(gs) : from[i + 1] = from[i] + Needed(h, gs, i)

(* The segments lout_layout gives its groups are in turn.                  *)
LEMMA SegmentsAt ==
  ASSUME NEW h \in Header, NEW gs \in Seq(AGroup),
         \A i \in DOMAIN gs : Size(gs[i], TRUE) > 0
  PROVE  InTurn(h, gs, Segments(h, gs))
<1> DEFINE N == Len(gs)
           start == h.entry_seg
           step == [i \in 1..N |-> [a \in Int |-> a + Needed(h, gs, i)]]
           P(f) == f = [i \in 1..N + 1 |->
                          IF i = 1 THEN start ELSE f[i - 1] + Needed(h, gs, i - 1)]
           from == CHOOSE f : P(f)
<1>1. N \in Nat /\ DOMAIN gs = 1..N
  OBVIOUS
<1>n. \A i \in 1..N : Needed(h, gs, i) \in Nat
  BY <1>1, NeededMeans
<1>2. start \in Int
  BY LoutAssumption DEF Header
<1> HIDE DEF N, start
<1>3. step \in [1..N -> [Int -> Int]]
  BY <1>n
<1>4. PICK f \in [0..N -> Int] : Iterates(f, N, start, step)
  <2> HIDE DEF step
  <2> QED
    BY <1>1, <1>2, <1>3, Iterate
<1> DEFINE g == [i \in 1..N + 1 |-> f[i - 1]]
<1>5. P(g)
  <2>1. ASSUME NEW i \in 1..N + 1
        PROVE  f[i - 1] = IF i = 1 THEN start ELSE g[i - 1] + Needed(h, gs, i - 1)
    <3>1. CASE i = 1
      BY <1>4, <3>1 DEF Iterates
    <3>2. CASE i # 1
      <4>1. i - 1 \in 1..N /\ (i - 1) - 1 \in 0..N
        BY <1>1, <3>2
      <4>2. f[i - 1] = step[i - 1][f[(i - 1) - 1]]
        BY <1>4, <4>1 DEF Iterates
      <4>3. f[(i - 1) - 1] \in Int /\ g[i - 1] = f[(i - 1) - 1]
        BY <1>1, <1>4, <4>1
      <4> QED
        BY <3>2, <4>1, <4>2, <4>3
    <3> QED
      BY <3>1, <3>2
  <2> QED
    BY <2>1
<1>6. P(from)
  <2> HIDE DEF P, g
  <2> QED
    BY <1>5, Zenon
<1>7. Segments(h, gs) = from
  BY Zenon DEF Segments, N, start
<1> HIDE DEF from
<1>8. from[1] = start /\ \A i \in 1..N : from[i + 1] = from[i] + Needed(h, gs, i)
  BY <1>1, <1>6
<1>9. from \in [1..N + 1 -> Int]
  <2> DEFINE X == {k \in 0..N : from[k + 1] \in Int}
  <2>1. 0 \in X
    BY <1>1, <1>2, <1>8
  <2>2. ASSUME NEW k \in 0..N - 1, k \in X PROVE k + 1 \in X
    <3>1. from[(k + 1) + 1] = from[k + 1] + Needed(h, gs, k + 1) /\ k + 1 \in 1..N
      BY <1>1, <1>8
    <3> QED
      BY <1>1, <1>n, <2>2, <3>1
  <2>3. \A k \in 0..N : k \in X
    <3> HIDE DEF X
    <3> QED
      BY <1>1, <2>1, <2>2, Induct
  <2>4. ASSUME NEW i \in 1..N + 1 PROVE from[i] \in Int
    <3>1. i - 1 \in 0..N /\ (i - 1) + 1 = i
      BY <1>1
    <3> QED
      BY <2>3, <3>1
  <2> QED
    BY <1>6, <2>4
<1> QED
  BY <1>7, <1>8, <1>9, Zenon DEF InTurn, N, start

(* They rise.                                                              *)
LEMMA Rising ==
  ASSUME NEW h \in Header, NEW gs \in Seq(AGroup), NEW from, InTurn(h, gs, from),
         \A i \in DOMAIN gs : Size(gs[i], TRUE) > 0,
         NEW i \in 1..Len(gs) + 1, NEW j \in 1..Len(gs) + 1, i <= j
  PROVE  from[i] <= from[j]
<1> DEFINE N == Len(gs)
           M == j - i
           P == {d \in 0..M : from[i] <= from[i + d]}
<1>1. N \in Nat /\ DOMAIN gs = 1..N
  OBVIOUS
<1>2. \A x \in 1..N : Needed(h, gs, x) \in Nat
  BY <1>1, NeededMeans
<1>3. /\ from \in [1..N + 1 -> Int]
      /\ \A x \in 1..N : from[x + 1] = from[x] + Needed(h, gs, x)
  BY DEF InTurn
<1>4. M \in Nat /\ i + M = j
  BY <1>1
<1> HIDE DEF N, M
<1>5. 0 \in P
  BY <1>1, <1>3, <1>4 DEF N
<1>6. ASSUME NEW d \in 0..M - 1, d \in P PROVE d + 1 \in P
  <2>1. i + d \in 1..N /\ i + (d + 1) = (i + d) + 1 /\ d + 1 \in 0..M
    BY <1>1, <1>4 DEF N
  <2>2. from[(i + d) + 1] = from[i + d] + Needed(h, gs, i + d)
    BY <1>3, <2>1
  <2>3. from[i + d] \in Int /\ Needed(h, gs, i + d) \in Nat /\ from[i] \in Int
    <3>1. i + d \in 1..N + 1 /\ i \in 1..N + 1
      BY <1>1, <2>1 DEF N
    <3> QED
      BY <1>2, <1>3, <2>1, <3>1
  <2>4. from[i] <= from[i + d]
    BY <1>6
  <2> QED
    BY <2>1, <2>2, <2>3, <2>4, SMTT(30)
<1> HIDE DEF P
<1>7. \A d \in 0..M : d \in P
  BY <1>4, <1>5, <1>6, Induct
<1>8. M \in P
  BY <1>4, <1>7
<1> QED
  BY <1>4, <1>8 DEF P

(* The segments up to a group are not many more than its bytes need.       *)
LEMMA Tight ==
  ASSUME NEW h \in Header, NEW gs \in Seq(AGroup), NEW from, InTurn(h, gs, from),
         \A i \in DOMAIN gs : Size(gs[i], TRUE) > 0,
         NEW P, NEW N \in Nat, EndToEnd(gs, P, N), NEW i \in 0..Len(gs)
  PROVE  SegSize * (from[i + 1] - h.entry_seg)
           <= (IF i = 0 THEN 0 ELSE h.entry_off) + P[i] + SegSize * i
<1> DEFINE k == Len(gs)
           S == SegSize
           E == h.entry_seg
           o == h.entry_off
           X == {j \in 0..k : S * (from[j + 1] - E) <= (IF j = 0 THEN 0 ELSE o) + P[j] + S * j}
<1>1. k \in Nat /\ DOMAIN gs = 1..k
  OBVIOUS
<1>2. S \in Nat \ {0} /\ E \in Int /\ o \in Nat
  BY LoutAssumption DEF Header
<1>3. /\ from \in [1..k + 1 -> Int] /\ from[1] = E
      /\ \A x \in 1..k : from[x + 1] = from[x] + Needed(h, gs, x)
  BY DEF InTurn
<1>4. /\ P \in [0..k -> Nat] /\ P[0] = 0
      /\ \A x \in 1..k : P[x] = P[x - 1] + Size(gs[x], TRUE)
  BY DEF EndToEnd
<1>5. ASSUME NEW x \in 1..k
      PROVE  /\ Needed(h, gs, x) \in Nat /\ Size(gs[x], TRUE) \in Nat
             /\ S * Needed(h, gs, x) <= (IF x = 1 THEN o ELSE 0) + Size(gs[x], TRUE) + S - 1
  <2>1. x \in DOMAIN gs /\ Size(gs[x], TRUE) > 0
    BY <1>1
  <2>2. /\ Total(h, gs, x) = Base(h, x) + Size(gs[x], TRUE)
        /\ Needed(h, gs, x) \in Nat /\ Size(gs[x], TRUE) \in Nat
        /\ SegSize * Needed(h, gs, x) <= Total(h, gs, x) + SegSize - 1
    BY <2>1, NeededMeans
  <2>3. Base(h, x) = IF x = 1 THEN o ELSE 0
    BY DEF Base
  <2> QED
    BY <2>2, <2>3
<1> HIDE DEF k, S, E, o
<1>6. 0 \in X
  <2>1. from[0 + 1] - E = 0 /\ S * 0 = 0 /\ P[0] = 0 /\ 0 \in 0..k
    BY <1>1, <1>2, <1>3, <1>4
  <2> QED
    BY <2>1
<1>7. ASSUME NEW j \in 0..k - 1, j \in X PROVE j + 1 \in X
  <2> DEFINE d == Needed(h, gs, j + 1)
             z == Size(gs[j + 1], TRUE)
             f == from[j + 1]
             p == P[j]
             sd == S * d
             sj == S * j
             sf == S * (f - E)
  <2>1. j + 1 \in 1..k /\ j \in 0..k /\ (j + 1) - 1 = j /\ (j + 1) + 1 \in 1..k + 1
        /\ j + 1 \in 1..k + 1
    BY <1>1
  <2>2. from[(j + 1) + 1] = f + d /\ P[j + 1] = p + z
    BY <1>3, <1>4, <2>1
  <2>3. f \in Int /\ p \in Nat /\ d \in Nat /\ z \in Nat
    BY <1>3, <1>4, <1>5, <2>1
  <2>4. sd <= (IF j = 0 THEN o ELSE 0) + z + S - 1
    <3>1. j + 1 = 1 <=> j = 0
      OBVIOUS
    <3>2. sd <= (IF j + 1 = 1 THEN o ELSE 0) + z + S - 1
      BY <1>5, <2>1, Zenon
    <3> QED
      BY <3>1, <3>2, Zenon
  <2>5. sf <= (IF j = 0 THEN 0 ELSE o) + p + sj
    BY <1>7
  <2> HIDE DEF d, z, f, p
  <2>6. S * ((f + d) - E) = sf + sd /\ S * (j + 1) = sj + S
    BY <1>2, <2>1, <2>3
  <2>7. sf \in Int /\ sd \in Int /\ sj \in Int
    BY <1>2, <2>3
  <2> HIDE DEF sf, sd, sj
  <2>8. sf + sd <= o + (p + z) + (sj + S)
    <3>1. CASE j = 0
      BY <1>2, <2>3, <2>4, <2>5, <2>7, <3>1
    <3>2. CASE j # 0
      BY <1>2, <2>3, <2>4, <2>5, <2>7, <3>2
    <3> QED
      BY <3>1, <3>2
  <2>9. S * (from[(j + 1) + 1] - E) <= o + P[j + 1] + S * (j + 1)
    BY <2>2, <2>6, <2>8, Zenon
  <2>10. j + 1 # 0 /\ j + 1 \in 0..k
    BY <2>1
  <2> QED
    BY <2>9, <2>10
<1> HIDE DEF X
<1>8. \A j \in 0..k : j \in X
  BY <1>1, <1>6, <1>7, Induct
<1>9. i \in X
  BY <1>8 DEF k
<1> QED
  BY <1>9, Zenon DEF X, S, E, o

(* The images of the elements of X.                                        *)
Images(f, X) == {f[a] : a \in X}

(* Images under a function that keeps elements apart are as many.          *)
LEMMA AsMany ==
  ASSUME NEW X, IsFiniteSet(X), NEW f, DOMAIN f = X,
         \A a, b \in X : f[a] = f[b] => a = b
  PROVE  Cardinality(Images(f, X)) = Cardinality(X)
<1> DEFINE Y == Images(f, X)
           g == [a \in X |-> f[a]]
<1>1. g \in [X -> Y] /\ \A a \in X : g[a] = f[a]
  BY DEF Images
<1> HIDE DEF g
<1>2. g \in Injection(X, Y)
  BY <1>1 DEF Injection, IsInjective
<1>3. g \in Surjection(X, Y)
  BY <1>1 DEF Surjection, Images
<1>4. ExistsBijection(X, Y)
  BY <1>2, <1>3 DEF ExistsBijection, Bijection
<1> HIDE DEF Y
<1>5. Cardinality(Y) = Cardinality(X)
  BY <1>4, FS_Bijection
<1> QED
  BY <1>5 DEF Y

(* A byte's segment lies among its group's.                                *)
LEMMA PlaceOf ==
  ASSUME NEW h \in Header, NEW gs \in Seq(AGroup), NEW from, InTurn(h, gs, from),
         NEW i \in DOMAIN gs, Size(gs[i], TRUE) > 0, NEW v \in 0..Size(gs[i], TRUE) - 1
  PROVE  LET a == Base(h, i) + v
         IN  /\ a \in Nat /\ from[i] \in Int /\ from[i + 1] \in Int
             /\ a \div SegSize \in Nat /\ a % SegSize \in Nat
             /\ a = SegSize * (a \div SegSize) + (a % SegSize)
             /\ from[i] + a \div SegSize < from[i + 1]
<1> DEFINE S == SegSize
           a == Base(h, i) + v
           q == a \div S
           r == a % S
           d == Needed(h, gs, i)
           T == Total(h, gs, i)
           z == Size(gs[i], TRUE)
           o == Base(h, i)
<1>1. S \in Nat \ {0}
  BY LoutAssumption
<1>2. T = o + z /\ o \in Nat /\ z \in Nat /\ d \in Nat /\ T <= S * d
  BY NeededMeans
<1>3. i \in 1..Len(gs) /\ Len(gs) \in Nat
  OBVIOUS
<1>4. from[i] \in Int /\ from[i + 1] \in Int /\ from[i + 1] = from[i] + d
  <2>1. i \in 1..Len(gs) + 1 /\ i + 1 \in 1..Len(gs) + 1
    BY <1>3
  <2> QED
    BY <1>3, <2>1 DEF InTurn
<1>5. a \in Nat /\ a = o + v /\ v \in Nat /\ v < z
  <2>1. v \in 0..z - 1 /\ a = o + v
    OBVIOUS
  <2> HIDE DEF T, z, o, d, a
  <2> QED
    BY <1>2, <2>1
<1> HIDE DEF S, T, z, o, d, a
<1>6. q \in Int /\ r \in Nat /\ r < S /\ a = S * q + r
  <2>1. a \in Int
    BY <1>5
  <2> QED
    BY <1>1, <2>1, DivFacts
<1>7. a < S * d
  <2> DEFINE p == S * d
  <2>1. p \in Int /\ T <= p
    BY <1>1, <1>2
  <2> HIDE DEF p
  <2>2. a < p
    BY <1>2, <1>5, <2>1
  <2> QED
    BY <2>2 DEF p
<1> HIDE DEF q, r
<1>8. q < d
  <2>1. SUFFICES ASSUME ~(q < d) PROVE FALSE
    OBVIOUS
  <2>2. S * d <= S * q
    <3>1. CASE d = q
      BY <1>1, <1>2, <1>6, <3>1
    <3>2. CASE d < q
      BY <1>1, <1>2, <1>6, <3>2, Monotone
    <3> QED
      BY <1>2, <1>6, <2>1, <3>1, <3>2
  <2> DEFINE p == S * d
             t == S * q
  <2>3. p \in Int /\ t \in Int /\ p <= t /\ a = t + r /\ a < p
    BY <1>1, <1>2, <1>6, <1>7, <2>2
  <2> HIDE DEF p, t
  <2> QED
    BY <1>6, <2>3
<1>9. q \in Nat
  <2>1. SUFFICES ASSUME q < 0 PROVE FALSE
    BY <1>6
  <2>2. S * q + S <= S * 0
    BY <1>1, <1>6, <2>1, Monotone
  <2> DEFINE t == S * q
  <2>3. t \in Int /\ t + S <= 0 /\ a = t + r
    BY <1>1, <1>6, <2>2
  <2> HIDE DEF t
  <2> QED
    BY <1>1, <1>5, <1>6, <2>3
<1>10. from[i] + q < from[i + 1]
  BY <1>2, <1>4, <1>6, <1>8
<1> QED
  BY <1>4, <1>5, <1>6, <1>9, <1>10 DEF S, a, q, r, o

(* A byte of the groups: its group and its place there.                    *)
InCells(gs, all, b) ==
  \E i \in DOMAIN gs : \E v \in 0..Size(gs[i], all) - 1 : b = <<i, v>>

(* Cells are just those.                                                   *)
LEMMA CellsHave ==
  ASSUME NEW gs, NEW b
  PROVE  /\ b \in Cells(gs, TRUE) <=> InCells(gs, TRUE, b)
         /\ b \in Cells(gs, FALSE) <=> InCells(gs, FALSE, b)
<1> DEFINE X(i) == 0..Size(gs[i], TRUE) - 1
           Y(i) == 0..Size(gs[i], FALSE) - 1
<1>1. /\ Cells(gs, TRUE) = UNION {{i} \X X(i) : i \in DOMAIN gs}
      /\ Cells(gs, FALSE) = UNION {{i} \X Y(i) : i \in DOMAIN gs}
  BY Zenon DEF Cells
<1>2. /\ InCells(gs, TRUE, b) <=> \E i \in DOMAIN gs : \E v \in X(i) : b = <<i, v>>
      /\ InCells(gs, FALSE, b) <=> \E i \in DOMAIN gs : \E v \in Y(i) : b = <<i, v>>
  BY Zenon DEF InCells
<1> HIDE DEF X, Y
<1>3. b \in UNION {{i} \X X(i) : i \in DOMAIN gs}
        <=> \E i \in DOMAIN gs : \E v \in X(i) : b = <<i, v>>
  OBVIOUS
<1>4. b \in UNION {{i} \X Y(i) : i \in DOMAIN gs}
        <=> \E i \in DOMAIN gs : \E v \in Y(i) : b = <<i, v>>
  OBVIOUS
<1> QED
  BY <1>1, <1>2, <1>3, <1>4, Zenon

(* A byte of the file: its group, its piece and its place there.           *)
InPieces(L, b) ==
  \E i \in DOMAIN L.groups : \E k \in DOMAIN L.groups[i].p :
    \E j \in 0..L.groups[i].p[k].len - 1 : b = <<i, k, j>>

(* The bytes of the file are just those.                                   *)
LEMMA FileBytesHave ==
  ASSUME NEW L, NEW b
  PROVE  b \in FileBytes(L) <=> InPieces(L, b)
<1> DEFINE X(i, k) == 0..L.groups[i].p[k].len - 1
<1>1. b \in FileBytes(L) <=>
        \E i \in DOMAIN L.groups : \E k \in DOMAIN L.groups[i].p : b \in {i} \X {k} \X X(i, k)
  BY DEF FileBytes
<1> HIDE DEF X
<1>2. ASSUME NEW i, NEW k
      PROVE  b \in {i} \X {k} \X X(i, k) <=> \E j \in X(i, k) : b = <<i, k, j>>
  OBVIOUS
<1>3. \A i, k : b \in {i} \X {k} \X X(i, k) <=> \E j \in X(i, k) : b = <<i, k, j>>
  BY <1>2
<1> DEFINE In(i, k) == b \in {i} \X {k} \X X(i, k)
           Is(i, k) == \E j \in X(i, k) : b = <<i, k, j>>
<1> HIDE DEF In, Is
<1>4. \A i, k : In(i, k) <=> Is(i, k)
  BY <1>3, Zenon DEF In, Is
<1>5. b \in FileBytes(L) <=> \E i \in DOMAIN L.groups : \E k \in DOMAIN L.groups[i].p : In(i, k)
  BY <1>1, Zenon DEF In
<1>6. b \in FileBytes(L) <=> \E i \in DOMAIN L.groups : \E k \in DOMAIN L.groups[i].p : Is(i, k)
  BY <1>4, <1>5, Zenon
<1> QED
  BY <1>6, Zenon DEF InPieces, Is, X

(* What ImagePlaced says of a layout.                                      *)
ImageRight(L, h) ==
  LET Spot(b) == Placed(L, b[1], b[2])
  IN  IF L = Refused
      THEN AllBytes(h) = 0 \/ h.entry_off + AllBytes(h) + 4 * SegSize
                                > (LastSeg + 1 - h.entry_seg) * SegSize
      ELSE /\ Cardinality({Spot(b) : b \in Bytes(L)}) = AllBytes(h)
           /\ \A b \in Bytes(L) : Spot(b)[1] \in h.entry_seg .. L.last_seg
           /\ \A b, c \in Bytes(L) :
                b[1] # c[1] => Spot(b)[1] # Spot(c)[1]
           /\ L.last_seg <= LastSeg
           /\ {InFile(L, b) : b \in FileBytes(L)} = 0 .. FileSize(h) - 1
           /\ Cardinality({<<b[1], InGroup(L, b)>> : b \in FileBytes(L)}) = FileSize(h)

(* A layout is refused only when the segments run out.                     *)
LEMMA RefusedRightly ==
  ASSUME NEW h \in Header, NEW gs \in Seq(AGroup), NEW from, InTurn(h, gs, from),
         NEW N \in Nat, NEW F, NEW C, Laid(gs, 4, N, F, C),
         NEW i \in 1..Len(gs), from[i + 1] - 1 > LastSeg
  PROVE  h.entry_off + N + 4 * SegSize > (LastSeg + 1 - h.entry_seg) * SegSize
<1> DEFINE S == SegSize
           E == h.entry_seg
           o == h.entry_off
           f == from[i + 1]
<1>1. S \in Nat \ {0} /\ E \in Int /\ o \in Nat /\ LastSeg \in Nat
  BY LoutAssumption DEF Header
<1>2. PICK P : EndToEnd(gs, P, N)
  BY Zenon DEF Laid
<1>3. \A x \in DOMAIN gs : Size(gs[x], TRUE) > 0
  BY DEF Laid
<1>4. i \in 0..Len(gs) /\ i # 0 /\ i \in 1..4 /\ i + 1 \in 1..Len(gs) + 1
  <2>1. Len(gs) <= 4 /\ Len(gs) \in Nat
    BY DEF Laid
  <2> QED
    BY <2>1
<1>5. S * (f - E) <= o + P[i] + S * i
  <2>1. S * (f - E) <= (IF i = 0 THEN 0 ELSE o) + P[i] + S * i
    BY <1>2, <1>3, <1>4, Tight
  <2> QED
    BY <1>4, <2>1
<1>6. P[i] \in Nat /\ P[i] <= N /\ f \in Int
  BY <1>2, <1>4 DEF EndToEnd, InTurn
<1>7. f >= LastSeg + 2
  BY <1>1, <1>6
<1> HIDE DEF S, E, o, f
<1>8. S * i <= 4 * S
  <2>1. i = 1 \/ i = 2 \/ i = 3 \/ i = 4
    BY <1>4
  <2> QED
    BY <1>1, <2>1
<1>9. S * (LastSeg + 1 - E) + S <= S * (f - E)
  <2> DEFINE x == LastSeg + 1 - E
             y == f - E
  <2>1. x \in Int /\ y \in Int /\ x < y
    BY <1>1, <1>6, <1>7
  <2> HIDE DEF x, y
  <2>2. S * x + S <= S * y
    BY <1>1, <2>1, Monotone
  <2> QED
    BY <2>2 DEF x, y
<1>10. o + N + 4 * S > (LastSeg + 1 - E) * S
  <2> DEFINE u == S * (LastSeg + 1 - E)
             w == S * (f - E)
             t == S * i
  <2>1. u \in Int /\ w \in Int /\ t \in Int /\ (LastSeg + 1 - E) * S = u
    BY <1>1, <1>4, <1>6
  <2>2. u + S <= w /\ w <= o + P[i] + t /\ t <= 4 * S
    BY <1>5, <1>8, <1>9
  <2> HIDE DEF u, w, t
  <2>3. o + N + 4 * S > u
    BY <1>1, <1>6, <2>1, <2>2
  <2> QED
    BY <2>1, <2>3
<1> QED
  BY <1>10 DEF S, E, o

(* The places of the image's bytes.                                        *)
PlaceAt(h, gs, from, b) ==
  <<from[b[1]] + (Base(h, b[1]) + b[2]) \div SegSize, (Base(h, b[1]) + b[2]) % SegSize>>

(* Bytes of two groups lie in different segments; no two bytes share one   *)
(* place.                                                                  *)
LEMMA PlacesApart ==
  ASSUME NEW h \in Header, NEW gs \in Seq(AGroup), NEW from, InTurn(h, gs, from),
         \A i \in DOMAIN gs : Size(gs[i], TRUE) > 0,
         NEW b \in Cells(gs, TRUE), NEW c \in Cells(gs, TRUE)
  PROVE  /\ PlaceAt(h, gs, from, b)[1] \in h.entry_seg .. from[Len(gs) + 1] - 1
         /\ b[1] # c[1] => PlaceAt(h, gs, from, b)[1] # PlaceAt(h, gs, from, c)[1]
         /\ PlaceAt(h, gs, from, b) = PlaceAt(h, gs, from, c) => b = c
<1> DEFINE k == Len(gs)
           S == SegSize
           Spot(x) == PlaceAt(h, gs, from, x)
<1>1. k \in Nat /\ DOMAIN gs = 1..k /\ h.entry_seg \in Int /\ S \in Nat \ {0}
  BY LoutAssumption DEF Header
<1>2. ASSUME NEW x \in Cells(gs, TRUE)
      PROVE  LET i == x[1] v == x[2] a == Base(h, i) + v
             IN  /\ x = <<i, v>> /\ i \in 1..k /\ v \in Nat /\ Base(h, i) \in Nat
                 /\ a \in Nat /\ from[i] \in Int /\ from[i + 1] \in Int
                 /\ a \div S \in Nat /\ a % S \in Nat
                 /\ a = S * (a \div S) + (a % S)
                 /\ from[i] + a \div S < from[i + 1]
                 /\ Spot(x) = <<from[i] + a \div S, a % S>>
  <2>1. PICK i \in DOMAIN gs : \E v \in 0..Size(gs[i], TRUE) - 1 : x = <<i, v>>
    <3>1. InCells(gs, TRUE, x)
      BY CellsHave, Zenon
    <3> QED
      BY <3>1, Zenon DEF InCells
  <2>2. PICK v \in 0..Size(gs[i], TRUE) - 1 : x = <<i, v>>
    BY <2>1
  <2> DEFINE a == Base(h, i) + v
  <2>3. /\ a \in Nat /\ from[i] \in Int /\ from[i + 1] \in Int
        /\ a \div S \in Nat /\ a % S \in Nat
        /\ a = S * (a \div S) + (a % S)
        /\ from[i] + a \div S < from[i + 1]
    BY PlaceOf
  <2>4. x[1] = i /\ x[2] = v
    BY <2>2
  <2>5. v \in Nat
    OBVIOUS
  <2>6. Base(h, i) \in Nat
    BY NeededMeans
  <2>7. Spot(x) = <<from[i] + a \div S, a % S>>
    BY <2>4, Zenon DEF PlaceAt
  <2>8. i \in 1..k
    BY <1>1
  <2> QED
    BY <2>2, <2>3, <2>4, <2>5, <2>6, <2>7, <2>8, Zenon
<1> DEFINE i == b[1]
           j == c[1]
           u == Base(h, i) + b[2]
           w == Base(h, j) + c[2]
           qu == u \div S
           qw == w \div S
<1>3. /\ b = <<i, b[2]>> /\ i \in 1..k /\ from[i] \in Int /\ from[i + 1] \in Int
      /\ b[2] \in Nat /\ Base(h, i) \in Nat
      /\ qu \in Nat /\ u = S * qu + (u % S) /\ from[i] + qu < from[i + 1]
      /\ Spot(b) = <<from[i] + qu, u % S>>
  BY <1>2, Zenon
<1>4. /\ c = <<j, c[2]>> /\ j \in 1..k /\ from[j] \in Int /\ from[j + 1] \in Int
      /\ c[2] \in Nat /\ Base(h, j) \in Nat
      /\ qw \in Nat /\ w = S * qw + (w % S) /\ from[j] + qw < from[j + 1]
      /\ Spot(c) = <<from[j] + qw, w % S>>
  BY <1>2, Zenon
<1>5. u \in Nat /\ w \in Nat /\ u % S \in Nat /\ w % S \in Nat
  BY <1>2, Zenon
<1>6. /\ Spot(b)[1] = from[i] + qu /\ Spot(b)[2] = u % S
      /\ Spot(c)[1] = from[j] + qw /\ Spot(c)[2] = w % S
  BY <1>3, <1>4
<1>7. \A x, y \in 1..k + 1 : x <= y => from[x] <= from[y]
  BY Rising
<1>8. /\ 1 \in 1..k + 1 /\ i \in 1..k + 1 /\ i + 1 \in 1..k + 1 /\ k + 1 \in 1..k + 1
      /\ j \in 1..k + 1 /\ j + 1 \in 1..k + 1
      /\ 1 <= i /\ i + 1 <= k + 1
      /\ i \in Int /\ j \in Int /\ (i < j => i + 1 <= j) /\ (j < i => j + 1 <= i)
  <2>1. k \in Nat /\ i \in 1..k /\ j \in 1..k
    BY <1>1, <1>3, <1>4
  <2> HIDE DEF k, i, j
  <2> QED
    BY <2>1
<1>9. from[1] = h.entry_seg /\ from[k + 1] \in Int
  BY <1>1, <1>8 DEF InTurn
<1> HIDE DEF k, S, Spot, i, j, qu, qw, u, w
<1> DEFINE fi == from[i]
           fj == from[j]
           gi == from[i + 1]
           gj == from[j + 1]
           sb == Spot(b)[1]
           sc == Spot(c)[1]
<1>n. /\ fi \in Int /\ fj \in Int /\ gi \in Int /\ gj \in Int /\ qu \in Nat /\ qw \in Nat
      /\ fi + qu < gi /\ fj + qw < gj /\ sb = fi + qu /\ sc = fj + qw
  BY <1>3, <1>4, <1>6, Zenon
<1>10. sb \in h.entry_seg .. from[k + 1] - 1
  <2> DEFINE first == from[1]
             last == from[k + 1]
  <2>1. first <= fi /\ gi <= last
    BY <1>7, <1>8, Zenon
  <2>2. first \in Int /\ last \in Int /\ first = h.entry_seg
    BY <1>1, <1>9
  <2> HIDE DEF first, last, fi, gi, sb, qu
  <2>3. sb \in first .. last - 1
    BY <1>n, <2>1, <2>2
  <2> QED
    BY <2>2, <2>3, Zenon DEF last
<1>11. i # j => sb # sc
  <2>1. i < j => gi <= fj
    BY <1>7, <1>8, Zenon
  <2>2. j < i => gj <= fi
    BY <1>7, <1>8, Zenon
  <2>3. i # j => i < j \/ j < i
    BY <1>8
  <2> HIDE DEF fi, fj, gi, gj, sb, sc, i, j, qu, qw
  <2>4. CASE i < j
    BY <1>n, <2>1, <2>4
  <2>5. CASE j < i
    BY <1>n, <2>2, <2>5
  <2> QED
    BY <2>3, <2>4, <2>5, Zenon
<1>12. ASSUME Spot(b) = Spot(c) PROVE b = c
  <2>1. i = j
    BY <1>11, <1>12
  <2>2. fi + qu = fj + qw /\ u % S = w % S
    BY <1>6, <1>12, Zenon
  <2>3. qu = qw
    <3>1. fi = fj
      BY <2>1, Zenon
    <3> HIDE DEF fi, fj, gi, gj, sb, sc, qu, qw
    <3> QED
      BY <1>n, <2>2, <3>1
  <2>4. u = w
    BY <1>3, <1>4, <2>2, <2>3, Zenon
  <2>5. b[2] = c[2]
    <3> DEFINE p == b[2]
               q == c[2]
               o == Base(h, i)
    <3>1. u = o + p /\ w = o + q /\ o \in Nat /\ p \in Nat /\ q \in Nat
      <4>1. u = o + p
        BY Zenon DEF u
      <4>2. w = o + q
        BY <2>1, Zenon DEF w
      <4> QED
        BY <1>3, <1>4, <4>1, <4>2, Zenon
    <3> HIDE DEF o, p, q
    <3>a. p = u - o /\ q = w - o
      BY <3>1
    <3>2. p = q
      BY <2>4, <3>a, Zenon
    <3> QED
      BY <3>2 DEF p, q
  <2> QED
    BY <1>3, <1>4, <2>1, <2>5, Zenon
<1> QED
  BY <1>10, <1>11, <1>12, Zenon DEF k, Spot, i, j

(* The layout that is not refused.                                         *)
Accepted(h, gs, from) ==
  [groups |-> gs, seg |-> [i \in 1 .. Len(gs) |-> from[i]],
   base |-> [i \in 1 .. Len(gs) |-> Base(h, i)], last_seg |-> from[Len(gs) + 1] - 1]

(* The bytes a layout is about.                                            *)
LEMMA AllBytesOf ==
  ASSUME NEW L, L.groups \in Seq(AGroup)
  PROVE  Bytes(L) = Cells(L.groups, TRUE)
<1> DEFINE X(i) == 0..L.groups[i].span + L.groups[i].bss - 1
           Y(i) == 0..Size(L.groups[i], TRUE) - 1
<1>1. ASSUME NEW i \in DOMAIN L.groups PROVE X(i) = Y(i)
  <2> DEFINE a == L.groups[i].span
             z == L.groups[i].bss
             w == Size(L.groups[i], TRUE)
  <2>1. L.groups[i] \in AGroup
    OBVIOUS
  <2>2. a \in Nat /\ z \in Nat /\ w = a + z
    BY <2>1 DEF AGroup, Size
  <2>3. X(i) = 0..a + z - 1 /\ Y(i) = 0..w - 1
    BY Zenon
  <2> HIDE DEF a, z, w
  <2>4. 0..a + z - 1 = 0..w - 1
    BY <2>2
  <2> QED
    BY <2>3, <2>4, Zenon
<1>2. Bytes(L) = UNION {{i} \X X(i) : i \in DOMAIN L.groups}
  BY Zenon DEF Bytes
<1>3. Cells(L.groups, TRUE) = UNION {{i} \X Y(i) : i \in DOMAIN L.groups}
  BY Zenon DEF Cells
<1> HIDE DEF X, Y
<1>4. {{i} \X X(i) : i \in DOMAIN L.groups} = {{i} \X Y(i) : i \in DOMAIN L.groups}
  BY <1>1
<1> QED
  BY <1>2, <1>3, <1>4, Zenon

(* It is about its groups' bytes, each at its place.                       *)
LEMMA AcceptedIs ==
  ASSUME NEW h \in Header, NEW gs \in Seq(AGroup), NEW from, gs # <<>>
  PROVE  LET L == Accepted(h, gs, from)
         IN  /\ L # Refused /\ L.groups = gs /\ L.last_seg = from[Len(gs) + 1] - 1
             /\ Bytes(L) = Cells(gs, TRUE)
             /\ \A b \in Cells(gs, TRUE) : Placed(L, b[1], b[2]) = PlaceAt(h, gs, from, b)
<1> DEFINE L == Accepted(h, gs, from)
           k == Len(gs)
<1>1. /\ L.groups = gs /\ L.last_seg = from[k + 1] - 1
      /\ L.seg = [i \in 1..k |-> from[i]] /\ L.base = [i \in 1..k |-> Base(h, i)]
  BY DEF Accepted
<1>2. Refused.groups = <<>>
  BY DEF Refused
<1> HIDE DEF L
<1>3. L # Refused
  BY <1>1, <1>2, Zenon
<1>4. Bytes(L) = Cells(gs, TRUE)
  BY <1>1, AllBytesOf, Zenon
<1>5. ASSUME NEW b \in Cells(gs, TRUE) PROVE Placed(L, b[1], b[2]) = PlaceAt(h, gs, from, b)
  <2>1. b[1] \in 1..k
    <3>1. InCells(gs, TRUE, b)
      BY CellsHave, Zenon
    <3>2. PICK i \in DOMAIN gs : \E v \in 0..Size(gs[i], TRUE) - 1 : b = <<i, v>>
      BY <3>1, Zenon DEF InCells
    <3>3. b[1] = i /\ i \in 1..k
      BY <3>2
    <3> QED
      BY <3>3, Zenon
  <2>2. L.seg[b[1]] = from[b[1]] /\ L.base[b[1]] = Base(h, b[1])
    BY <1>1, <2>1, Zenon
  <2> QED
    BY <2>2, Zenon DEF Placed, PlaceAt
<1> QED
  BY <1>1, <1>3, <1>4, <1>5, Zenon DEF L

(* The file's bytes: where they come from, and where they go.              *)
LEMMA FileBytesOf ==
  ASSUME NEW L, L.groups \in Seq(AGroup), \A i \in DOMAIN L.groups : Solid(L.groups[i])
  PROVE  /\ \A c : c \in {InFile(L, b) : b \in FileBytes(L)}
                     <=> \E i \in DOMAIN L.groups : Holds(L.groups[i], c)
         /\ {<<b[1], InGroup(L, b)>> : b \in FileBytes(L)} = Cells(L.groups, FALSE)
<1> DEFINE gs == L.groups
           Files == {InFile(L, b) : b \in FileBytes(L)}
           Goes == {<<b[1], InGroup(L, b)>> : b \in FileBytes(L)}
           From(i, k, j) == gs[i].p[k].foff + j
           To(i, k, j) == gs[i].p[k].moff + j
           X(i, k) == 0..gs[i].p[k].len - 1
<1>t. gs \in Seq(AGroup) /\ \A i \in DOMAIN gs : Solid(gs[i])
  OBVIOUS
<1>1. ASSUME NEW i, NEW k, NEW j
      PROVE  /\ InFile(L, <<i, k, j>>) = From(i, k, j) /\ InGroup(L, <<i, k, j>>) = To(i, k, j)
             /\ <<i, k, j>>[1] = i
  BY DEF InFile, InGroup
<1>2. \A b : b \in FileBytes(L) <=>
               \E i \in DOMAIN gs : \E k \in DOMAIN gs[i].p : \E j \in X(i, k) : b = <<i, k, j>>
  <2>1. ASSUME NEW b
        PROVE  InPieces(L, b) <=>
                 \E i \in DOMAIN gs : \E k \in DOMAIN gs[i].p : \E j \in X(i, k) : b = <<i, k, j>>
    BY ZenonT(30) DEF InPieces
  <2> QED
    BY <2>1, FileBytesHave, ZenonT(30)
<1>3. ASSUME NEW i \in DOMAIN gs, NEW k \in DOMAIN gs[i].p
      PROVE  gs[i].p[k].foff \in Nat /\ gs[i].p[k].len \in Nat
  <2>1. gs[i] \in AGroup
    BY <1>t
  <2>2. gs[i].p \in Seq(APiece)
    BY <2>1 DEF AGroup
  <2>3. gs[i].p[k] \in APiece
    BY <2>2
  <2> QED
    BY <2>3 DEF APiece
<1>4. ASSUME NEW c, NEW i \in DOMAIN gs
      PROVE  Holds(gs[i], c) <=> \E k \in DOMAIN gs[i].p : \E j \in X(i, k) : c = From(i, k, j)
  <2>1. ASSUME NEW k \in DOMAIN gs[i].p
        PROVE  c \in Rng(gs[i].p[k]) <=> \E j \in X(i, k) : c = From(i, k, j)
    <3> DEFINE f == gs[i].p[k].foff
               l == gs[i].p[k].len
    <3>1. f \in Nat /\ l \in Nat
      BY <1>3
    <3>2. Rng(gs[i].p[k]) = f .. f + l - 1
      BY Zenon DEF Rng
    <3> HIDE DEF f, l
    <3>3. c \in f .. f + l - 1 <=> \E j \in 0..l - 1 : c = f + j
      <4>1. c \in f .. f + l - 1 => c - f \in 0..l - 1 /\ c = f + (c - f)
        BY <3>1
      <4>2. \A j \in 0..l - 1 : f + j \in f .. f + l - 1
        BY <3>1
      <4> QED
        BY <4>1, <4>2, Zenon
    <3> QED
      BY <3>2, <3>3, Zenon DEF f, l
  <2> HIDE DEF From, X
  <2> QED
    BY <2>1, Zenon DEF Holds
<1>5. ASSUME NEW i \in DOMAIN gs, NEW v
      PROVE  v \in 0..Size(gs[i], FALSE) - 1
               <=> \E k \in DOMAIN gs[i].p : \E j \in X(i, k) : v = To(i, k, j)
  <2>1. Solid(gs[i]) /\ gs[i] \in AGroup
    BY <1>t
  <2>2. Size(gs[i], FALSE) = gs[i].span
    BY <2>1, SizeFacts DEF Size
  <2> QED
    BY <2>1, <2>2, Zenon DEF Solid, Fills
<1> HIDE DEF gs, From, To, X
<1>6. ASSUME NEW c PROVE c \in Files <=> \E i \in DOMAIN gs : Holds(gs[i], c)
  <2>1. ASSUME c \in Files PROVE \E i \in DOMAIN gs : Holds(gs[i], c)
    <3>1. PICK b \in FileBytes(L) : c = InFile(L, b)
      BY <2>1
    <3>2. PICK i \in DOMAIN gs : \E k \in DOMAIN gs[i].p : \E j \in X(i, k) : b = <<i, k, j>>
      BY <1>2, Zenon
    <3>3. PICK k \in DOMAIN gs[i].p : \E j \in X(i, k) : b = <<i, k, j>>
      BY <3>2, Zenon
    <3>4. PICK j \in X(i, k) : b = <<i, k, j>>
      BY <3>3, Zenon
    <3>5. c = From(i, k, j)
      BY <1>1, <3>1, <3>4, Zenon
    <3> QED
      BY <1>4, <3>5, Zenon
  <2>2. ASSUME NEW i \in DOMAIN gs, Holds(gs[i], c) PROVE c \in Files
    <3>1. PICK k \in DOMAIN gs[i].p : \E j \in X(i, k) : c = From(i, k, j)
      BY <1>4, <2>2, Zenon
    <3>2. PICK j \in X(i, k) : c = From(i, k, j)
      BY <3>1, Zenon
    <3>3. <<i, k, j>> \in FileBytes(L)
      BY <1>2, Zenon
    <3>4. c = InFile(L, <<i, k, j>>)
      BY <1>1, <3>2, Zenon
    <3> QED
      BY <3>3, <3>4
  <2> QED
    BY <2>1, <2>2, Zenon
<1>7. Goes = Cells(gs, FALSE)
  <2>1. ASSUME NEW e \in Goes PROVE e \in Cells(gs, FALSE)
    <3>1. PICK b \in FileBytes(L) : e = <<b[1], InGroup(L, b)>>
      BY <2>1
    <3>2. PICK i \in DOMAIN gs : \E k \in DOMAIN gs[i].p : \E j \in X(i, k) : b = <<i, k, j>>
      BY <1>2, Zenon
    <3>3. PICK k \in DOMAIN gs[i].p : \E j \in X(i, k) : b = <<i, k, j>>
      BY <3>2, Zenon
    <3>4. PICK j \in X(i, k) : b = <<i, k, j>>
      BY <3>3, Zenon
    <3>5. e = <<i, To(i, k, j)>>
      BY <1>1, <3>1, <3>4, Zenon
    <3>6. To(i, k, j) \in 0..Size(gs[i], FALSE) - 1
      BY <1>5, Zenon
    <3>7. InCells(gs, FALSE, e)
      BY <3>5, <3>6, Zenon DEF InCells
    <3> QED
      BY <3>7, CellsHave, Zenon
  <2>2. ASSUME NEW e \in Cells(gs, FALSE) PROVE e \in Goes
    <3>1. InCells(gs, FALSE, e)
      BY CellsHave, Zenon
    <3>2. PICK i \in DOMAIN gs : \E v \in 0..Size(gs[i], FALSE) - 1 : e = <<i, v>>
      BY <3>1, Zenon DEF InCells
    <3>3. PICK v \in 0..Size(gs[i], FALSE) - 1 : e = <<i, v>>
      BY <3>2, Zenon
    <3>4. PICK k \in DOMAIN gs[i].p : \E j \in X(i, k) : v = To(i, k, j)
      BY <1>5, Zenon
    <3>5. PICK j \in X(i, k) : v = To(i, k, j)
      BY <3>4, Zenon
    <3>6. <<i, k, j>> \in FileBytes(L)
      BY <1>2, Zenon
    <3>7. e = <<<<i, k, j>>[1], InGroup(L, <<i, k, j>>)>>
      BY <1>1, <3>3, <3>5, Zenon
    <3> QED
      BY <3>6, <3>7
  <2> HIDE DEF Goes
  <2> QED
    BY <2>1, <2>2
<1> QED
  BY <1>6, <1>7, Zenon DEF gs, Files, Goes

(* An accepted layout is right.                                            *)
LEMMA AcceptedRight ==
  ASSUME NEW h \in Header, NEW gs, gs # <<>>, NEW from, InTurn(h, gs, from),
         Laid(gs, 4, AllBytes(h), FileSize(h), 0 .. FileSize(h) - 1),
         from[Len(gs) + 1] - 1 <= LastSeg
  PROVE  ImageRight(Accepted(h, gs, from), h)
<1> DEFINE L == Accepted(h, gs, from)
           N == AllBytes(h)
           F == FileSize(h)
           B == Cells(gs, TRUE)
           Spot(b) == Placed(L, b[1], b[2])
           f == [b \in B |-> PlaceAt(h, gs, from, b)]
<1>1. /\ gs \in Seq(AGroup)
      /\ \A i \in DOMAIN gs : Solid(gs[i]) /\ Size(gs[i], TRUE) > 0
      /\ Counted(gs, TRUE, N) /\ Counted(gs, FALSE, F)
      /\ \A c : (\E i \in DOMAIN gs : Holds(gs[i], c)) <=> c \in 0..F - 1
  BY Zenon DEF Laid
<1>2. /\ L # Refused /\ L.groups = gs /\ L.last_seg = from[Len(gs) + 1] - 1
      /\ Bytes(L) = B /\ \A b \in B : Spot(b) = PlaceAt(h, gs, from, b)
  BY <1>1, AcceptedIs, Zenon
<1> HIDE DEF L, N, F, B
<1>3. ASSUME NEW b \in B, NEW c \in B
      PROVE  /\ Spot(b)[1] \in h.entry_seg .. L.last_seg
             /\ b[1] # c[1] => Spot(b)[1] # Spot(c)[1]
             /\ f[b] = f[c] => b = c
  <2>1. b \in Cells(gs, TRUE) /\ c \in Cells(gs, TRUE)
    BY Zenon DEF B
  <2>2. \A i \in DOMAIN gs : Size(gs[i], TRUE) > 0
    BY <1>1, Zenon
  <2>3. /\ PlaceAt(h, gs, from, b)[1] \in h.entry_seg .. from[Len(gs) + 1] - 1
        /\ b[1] # c[1] => PlaceAt(h, gs, from, b)[1] # PlaceAt(h, gs, from, c)[1]
        /\ PlaceAt(h, gs, from, b) = PlaceAt(h, gs, from, c) => b = c
    BY <1>1, <2>1, <2>2, PlacesApart, Zenon
  <2>4. f[b] = PlaceAt(h, gs, from, b) /\ f[c] = PlaceAt(h, gs, from, c)
    BY Zenon
  <2> HIDE DEF f, Spot
  <2>5. Spot(b) = PlaceAt(h, gs, from, b) /\ Spot(c) = PlaceAt(h, gs, from, c)
    BY <1>2, Zenon DEF Spot
  <2> QED
    BY <1>2, <2>3, <2>4, <2>5, Zenon
<1>4. Cardinality({Spot(b) : b \in B}) = N
  <2>1. IsFiniteSet(B) /\ Cardinality(B) = N
    BY <1>1, Zenon DEF Counted, B
  <2>2. DOMAIN f = B /\ \A b \in B : f[b] = Spot(b)
    BY <1>2
  <2> HIDE DEF f, Spot
  <2>3. Cardinality(Images(f, B)) = Cardinality(B)
    <3>1. \A b, c \in B : f[b] = f[c] => b = c
      BY <1>3, Zenon
    <3> QED
      BY <2>1, <2>2, <3>1, AsMany, Zenon
  <2>4. Images(f, B) = {Spot(b) : b \in B}
    BY <2>2 DEF Images
  <2>5. Cardinality({Spot(b) : b \in B}) = N
    BY <2>1, <2>3, <2>4, Zenon
  <2> QED
    BY <2>5, Zenon DEF Spot
<1>5. /\ {InFile(L, b) : b \in FileBytes(L)} = 0..F - 1
      /\ Cardinality({<<b[1], InGroup(L, b)>> : b \in FileBytes(L)}) = F
  <2>1. L.groups \in Seq(AGroup) /\ \A i \in DOMAIN L.groups : Solid(L.groups[i])
    BY <1>1, <1>2, Zenon
  <2>2. /\ \A c : c \in {InFile(L, b) : b \in FileBytes(L)}
                    <=> \E i \in DOMAIN L.groups : Holds(L.groups[i], c)
        /\ {<<b[1], InGroup(L, b)>> : b \in FileBytes(L)} = Cells(L.groups, FALSE)
    BY <2>1, FileBytesOf, Zenon
  <2>3. \A c : c \in {InFile(L, b) : b \in FileBytes(L)} <=> c \in 0..F - 1
    BY <1>1, <1>2, <2>2, Zenon
  <2>4. Cardinality(Cells(gs, FALSE)) = F
    BY <1>1, Zenon DEF Counted
  <2>5. {InFile(L, b) : b \in FileBytes(L)} = 0..F - 1
    <3> DEFINE X == {InFile(L, b) : b \in FileBytes(L)}
               Y == 0..F - 1
    <3>1. \A c : c \in X <=> c \in Y
      BY <2>3, Zenon
    <3> HIDE DEF X, Y
    <3>2. X = Y
      BY <3>1
    <3> QED
      BY <3>2, Zenon DEF X, Y
  <2> QED
    BY <1>2, <2>2, <2>4, <2>5, Zenon
<1>6. /\ Cardinality({Spot(b) : b \in Bytes(L)}) = N
      /\ \A b \in Bytes(L) : Spot(b)[1] \in h.entry_seg .. L.last_seg
      /\ \A b, c \in Bytes(L) : b[1] # c[1] => Spot(b)[1] # Spot(c)[1]
      /\ L.last_seg <= LastSeg
  <2>1. \A b \in B : Spot(b)[1] \in h.entry_seg .. L.last_seg
    BY <1>3, Zenon
  <2>2. \A b, c \in B : b[1] # c[1] => Spot(b)[1] # Spot(c)[1]
    BY <1>3, Zenon
  <2> HIDE DEF Spot
  <2> QED
    BY <1>2, <1>4, <2>1, <2>2, Zenon
<1>7. ImageRight(L, h)
  BY <1>2, <1>5, <1>6, Zenon DEF ImageRight, N, F
<1> QED
  BY <1>7, Zenon DEF L

(* lout_layout places every image rightly or refuses it rightly.           *)
LEMMA ImageLaid ==
  ASSUME NEW h \in Header
  PROVE  ImageRight(lout_layout(h), h)
<1> DEFINE gs == Groups(h)
           from == Segments(h, gs)
           N == AllBytes(h)
           Over == \E i \in 1 .. Len(gs) : from[i + 1] - 1 > LastSeg
<1>1. Laid(gs, 4, N, FileSize(h), 0 .. FileSize(h) - 1)
  BY LaidGroups, Zenon
<1>2. lout_layout(h) = IF gs = <<>> \/ Over THEN Refused ELSE Accepted(h, gs, from)
  BY Zenon DEF lout_layout, Accepted
<1> HIDE DEF gs, N
<1>3. /\ gs \in Seq(AGroup) /\ N \in Nat /\ Len(gs) \in Nat
      /\ \A i \in DOMAIN gs : Size(gs[i], TRUE) > 0
  <2>1. gs \in Seq(AGroup) /\ N \in Nat /\ \A i \in DOMAIN gs : Size(gs[i], TRUE) > 0
    BY <1>1, Zenon DEF Laid
  <2>2. gs \in Seq(AGroup) => Len(gs) \in Nat
    OBVIOUS
  <2> QED
    BY <2>1, <2>2, Zenon
<1>4. InTurn(h, gs, from)
  BY <1>3, SegmentsAt, Zenon
<1> HIDE DEF from
<1>5. CASE gs = <<>>
  <2>1. PICK P : EndToEnd(gs, P, N)
    BY <1>1, Zenon DEF Laid
  <2>2. Len(gs) = 0
    BY <1>5
  <2>3. N = 0
    BY <2>1, <2>2 DEF EndToEnd
  <2>4. lout_layout(h) = Refused
    BY <1>2, <1>5, Zenon
  <2> QED
    BY <2>3, <2>4, Zenon DEF ImageRight, N
<1>6. CASE Over
  <2>1. PICK i \in 1..Len(gs) : from[i + 1] - 1 > LastSeg
    BY <1>6, Zenon
  <2>2. h.entry_off + N + 4 * SegSize > (LastSeg + 1 - h.entry_seg) * SegSize
    BY <1>1, <1>3, <1>4, <2>1, RefusedRightly, Zenon
  <2>3. lout_layout(h) = Refused
    BY <1>2, <1>6, Zenon
  <2> QED
    BY <2>2, <2>3, Zenon DEF ImageRight, N
<1>7. CASE gs # <<>> /\ ~Over
  <2>1. from[Len(gs) + 1] - 1 <= LastSeg
    <3>1. Len(gs) # 0
      BY <1>3, <1>7, EmptySeq
    <3>2. Len(gs) \in 1..Len(gs) /\ Len(gs) + 1 \in 1..Len(gs) + 1
      BY <1>3, <3>1
    <3>3. ~(from[Len(gs) + 1] - 1 > LastSeg)
      BY <1>7, <3>2, Zenon
    <3>4. from[Len(gs) + 1] \in Int
      BY <1>4, <3>2 DEF InTurn
    <3> DEFINE f == from[Len(gs) + 1]
    <3>5. f \in Int /\ ~(f - 1 > LastSeg) /\ LastSeg \in Nat
      BY <3>3, <3>4, LoutAssumption, Zenon
    <3> HIDE DEF f
    <3>6. f - 1 <= LastSeg
      BY <3>5
    <3> QED
      BY <3>6, Zenon DEF f
  <2>2. lout_layout(h) = Accepted(h, gs, from)
    BY <1>2, <1>7, Zenon
  <2>3. gs # <<>>
    BY <1>7, Zenon
  <2>4. ImageRight(Accepted(h, gs, from), h)
    BY <1>1, <1>4, <2>1, <2>3, AcceptedRight, Zenon DEF N
  <2> QED
    BY <2>2, <2>4, Zenon
<1> QED
  BY <1>5, <1>6, <1>7, Zenon

ImageInv ==
  /\ "about" \in DOMAIN job /\ n \in Nat
  /\ job.about = "image" =>
       /\ given \in [about : {"image"}, header : Header]
       /\ n = 0 => job = given
       /\ n = 1 => "layout" \in DOMAIN job /\ job.layout = lout_layout(given.header)

(* Every byte of an image, the zeroed ones too, gets a place of its own in *)
(* the segments from the entry's on, no segment holds bytes of two groups, *)
(* the file's bytes all come to one place each, and an image is refused    *)
(* only when it is empty or the segments run out (lout_layout).            *)
THEOREM ImageSound == JobSpec => []ImagePlaced
<1>1. JobInit => ImageInv
  BY Begins DEF Proper, ImageInv, Header
<1>2. ASSUME ImageInv, [JobNext]_jvars PROVE ImageInv'
  <2>1. CASE UNCHANGED jvars
    BY <1>2, <2>1 DEF jvars, ImageInv
  <2>2. CASE JobNext
    <3>1. /\ n \in Nat /\ n' = n + 1 /\ given' = given
          /\ "about" \in DOMAIN job' /\ job'.about = job.about
          /\ job.about = "image" => Load
      BY <1>2, <2>2, StepOf DEF ImageInv
    <3>2. ASSUME job.about = "image"
          PROVE  /\ n = 0 /\ job = given
                 /\ job' = [about |-> "image", layout |-> lout_layout(job.header)]
      BY <1>2, <3>1, <3>2, SMTT(30) DEF Load, ImageInv
    <3> QED
      BY <1>2, <3>1, <3>2 DEF ImageInv
  <2> QED
    BY <1>2, <2>1, <2>2
<1>3. ImageInv => ImagePlaced
  <2>1. SUFFICES ASSUME ImageInv, Done("image") PROVE ImageRight(job.layout, given.header)
    BY Zenon DEF ImagePlaced, ImageRight
  <2>2. given.header \in Header /\ job.layout = lout_layout(given.header)
    BY <2>1 DEF ImageInv, Done
  <2> QED
    BY <2>2, ImageLaid, Zenon
<1> QED
  BY <1>1, <1>2, <1>3, PTL DEF JobSpec
=============================================================================
