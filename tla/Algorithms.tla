----------------------------- MODULE Algorithms -----------------------------
(***************************************************************************)
(* The emulator's pure algorithms, each against a reference definition:    *)
(* the ALU and the multiply and divide of the CPU (Alu), its stack         *)
(* instructions (Stack), the clock's calendar (RtcCalendar), the match of  *)
(* a mark in the output (MarkMatch), and the layout of a loaded program    *)
(* (Lout).                                                                 *)
(*                                                                         *)
(* They share no state, so a behaviour is about one of them: it begins     *)
(* with a job, a record of the inputs, and each step carries it further.   *)
(* "given" keeps the job as it began; n counts the steps.                  *)
(***************************************************************************)
EXTENDS FiniteSets, Alu, Stack, RtcCalendar, MarkMatch, Lout

CONSTANTS Chars, Ports, Console, MaxOut, MaxStack, MaxTicks,  \* bounds
          Jobs                                   \* sets of inputs, one of each kind

(* The inputs a job may have: those the program can meet, of any size.     *)
Flags == {"C", "Z", "S", "PV", "DA", "H"}
Proper(j) ==
  /\ j.about = "limbs" =>
       j \in [about : {"limbs"}, op : {"ADD", "SUB"}, x : Value("word") \X Value("word"),
              y : Value("word") \X Value("word"), fcw : SUBSET Flags]
  /\ j.about = "single" =>
       /\ j \in [about : {"single"}, op : {"NEG", "INC", "DEC"}, width : Widths,
                 a : Nat, b : Nat, fcw : SUBSET Flags]
       /\ j.a < Mod(j.width) /\ j.b < Mod(j.width) \div 2
  /\ j.about = "shift" =>
       j \in [about : {"shift"}, arith : BOOLEAN, a : Value("word"), count : -63 .. 63,
              fcw : SUBSET Flags]
  /\ j.about = "rotate" =>
       j \in [about : {"rotate"}, a : Value("word"), count : 0 .. 63, fcw : SUBSET Flags,
              ops : {<<"RL", "RR">>, <<"RR", "RL">>, <<"RLC", "RRC">>, <<"RRC", "RLC">>}]
  /\ j.about = "decimal" =>
       /\ j \in [about : {"decimal"}, a : 0 .. 153, b : 0 .. 153, fcw : SUBSET Flags]
       /\ j.a % 16 < 10 /\ j.b % 16 < 10 /\ Bits["byte"] = 8
  /\ j.about = "product" =>
       j \in [about : {"product"}, pair : Value("word"), b : Value("word"),
              fcw : SUBSET Flags]
  /\ j.about = "quotient" =>
       j \in [about : {"quotient"}, pair : 0 .. Wide("word") - 1, b : Value("word"),
              fcw : SUBSET Flags]
  /\ j.about = "stack" =>
       /\ j \in [about : {"stack"}, pushed : {<<>>}, borrows : {FALSE}, got : {<<>>},
                 want : {<<>>}, data : SUBSET Nat, targets : SUBSET Addr,
                 m : [segd : BOOLEAN, pc : Addr, mem : [Addr -> Nat],
                      sp : [seg : 0 .. Segs - 1, off : 0 .. W - 1]]]
       /\ j.m.sp.off % 2 = 0
  /\ j.about = "clock" =>
       /\ j \in [about : {"clock"}, regs : [Reg -> 0 .. 15]] /\ Valid(j.regs)
       /\ j.regs[6] = rtc_wday(FullYear(j.regs), Month(j.regs), Day(j.regs))
       /\ LeapSel(j.regs) = (4 - (FullYear(j.regs) % 4)) % 4
  /\ j.about = "mark" =>
       /\ j.watch.mark \in Seq(Chars) \ {<<>>}
       /\ j = [about |-> "mark", watch |-> Watch(j.watch.mark, Ports),
               out |-> [p \in Ports |-> <<>>]]
  /\ j.about = "image" =>
       j \in [about : {"image"},
              header : [flag : 0 .. 3, entry_seg : 0 .. LastSeg, entry_off : 0 .. SegSize - 1,
                        si : Nat, pi : Nat, bi : Nat, sd : Nat, pd : Nat, bd : Nat]]
  /\ j.about = "arguments" =>
       j \in [about : {"arguments"}, nprog : Nat, nenv : Nat, lengths : Seq(Nat)]

(* A century of seconds, the stack within its segment.                     *)
ASSUME JobsAssumption ==
  /\ \A i \in DOMAIN Jobs : \A j \in Jobs[i] : "about" \in DOMAIN j /\ Proper(j)
  /\ MaxStack \in Nat /\ MaxStack * 2 <= W
  /\ MaxTicks \in Nat /\ MaxTicks \div 86400 < 99 * 365
  /\ Console \in Ports

VARIABLES job, given, n

jvars == <<job, given, n>>

D == INSTANCE Decode

Done(kind) == job.about = kind /\ n = 1
JobInit == /\ \E i \in DOMAIN Jobs : job \in Jobs[i]
           /\ given = job /\ n = 0

-----------------------------------------------------------------------------
(* ALU jobs.                                                               *)

(* Numbers of two limbs, low limb first: ADD then ADC, or SUB then SBC.    *)
Limb ==
  /\ job.about = "limbs" /\ n < 2
  /\ LET op == IF n = 0 THEN job.op ELSE IF job.op = "ADD" THEN "ADC" ELSE "SBC"
         r  == alu_exec(op, job.x[n + 1], job.y[n + 1], "C" \in job.fcw, "word")
     IN  job' = [job EXCEPT !.x[n + 1] = r.value, !.fcw = apply_flags(@, r)]

(* One instruction on one value.                                           *)
Single ==
  /\ job.about = "single" /\ n = 0
  /\ LET r == alu_exec(job.op, job.a, job.b, "C" \in job.fcw, job.width)
     IN  job' = [job EXCEPT !.a = r.value, !.fcw = apply_flags(@, r)]

(* A shift, by a signed count.                                             *)
Shift ==
  /\ job.about = "shift" /\ n = 0
  /\ LET r == exec_shift(job.arith, job.a, job.count, "word")
     IN  job' = [job EXCEPT !.a = r.value, !.fcw = apply_flags(@, r)]

(* A rotate one way, then the same rotate the other way.                   *)
Rotate ==
  /\ job.about = "rotate" /\ n < 2
  /\ LET r == alu_exec(job.ops[n + 1], job.a, job.count, "C" \in job.fcw, "word")
     IN  job' = [job EXCEPT !.a = r.value, !.fcw = apply_flags(@, r)]

(* ADDB or ADCB, then DAB.                                                 *)
Decimal ==
  /\ job.about = "decimal" /\ n < 2
  /\ LET r == IF n = 0 THEN alu_exec("ADC", job.a, job.b, "C" \in job.fcw, "byte")
              ELSE alu_exec("DAB", job.a, Num("H" \in job.fcw), "C" \in job.fcw, "byte")
     IN  job' = [job EXCEPT !.a = r.value, !.fcw = apply_flags(@, r)]

(* MULT of the low register of a pair, then DIV of the pair by the same    *)
(* number.                                                                 *)
Multiply ==
  /\ job.about = "product" /\ n = 0
  /\ LET r == exec_mul(job.pair % Mod("word"), job.b, "word")
     IN  job' = [job EXCEPT !.pair = r.value, !.fcw = apply_flags(@, r)]

Divide ==
  /\ job.about \in {"product", "quotient"} /\ n = IF job.about = "product" THEN 1 ELSE 0
  /\ LET r == exec_div(job.pair, job.b, "word")
     IN  /\ r # Undefined
         /\ job' = [job EXCEPT !.pair = r.value, !.fcw = apply_flags(@, r)]

-----------------------------------------------------------------------------
(* Stack jobs: what was pushed is kept beside the machine, newest first;   *)
(* a word, or the PC of a call.  got and want are the last value taken off *)
(* the stack and the one that had been pushed.                             *)

Word(v)   == [kind |-> "word", v |-> v]
Return(a) == [kind |-> "return", v |-> a]

(* The words on the stack, two for a return address.                       *)
Depth == Len(job.pushed)
         + Cardinality({i \in DOMAIN job.pushed : job.pushed[i].kind = "return"})

Room(words) == Depth + words <= MaxStack

(* A push of exec_stack; borrows says that the offset ran below zero in    *)
(* non-segmented mode.                                                     *)
Pushed(m, pushed, bytes) ==
  job' = [job EXCEPT !.m = m, !.pushed = pushed,
                     !.borrows = @ \/ (~job.m.segd /\ job.m.sp.off < bytes)]

PushWord == /\ Room(1)
            /\ \E v \in job.data :
                 Pushed(Push(job.m, v), <<Word(v)>> \o job.pushed, 2)
PushLong == /\ Room(2)
            /\ \E v, u \in job.data :
                 Pushed(PushL(job.m, v, u), <<Word(v), Word(u)>> \o job.pushed, 4)
CallOut  == /\ Room(2)
            /\ \E a \in job.targets :
                 job' = [job EXCEPT !.m = Call(@, a),
                                    !.pushed = <<Return(job.m.pc)>> \o @]

IsWord(i) == i <= Len(job.pushed) /\ job.pushed[i].kind = "word"

TakeOff(m, k, got, want) ==
  job' = [job EXCEPT !.m = m, !.pushed = SubSeq(@, k + 1, Len(@)),
                     !.got = got, !.want = want]

PopWord == IsWord(1) /\ TakeOff(Pop(job.m), 1, <<Top(job.m)>>, <<job.pushed[1].v>>)
PopLong == /\ IsWord(1) /\ IsWord(2)
           /\ TakeOff(PopL(job.m), 2, Long(job.m), <<job.pushed[1].v, job.pushed[2].v>>)
Back    == /\ job.pushed # <<>> /\ job.pushed[1].kind = "return"
           /\ TakeOff(Ret(job.m), 1, <<Ret(job.m).pc>>, <<job.pushed[1].v>>)

StackStep ==
  /\ job.about = "stack" /\ n < MaxStack + 2
  /\ PushWord \/ PushLong \/ CallOut \/ PopWord \/ PopLong \/ Back

-----------------------------------------------------------------------------
(* The other jobs.                                                         *)

Second ==
  /\ job.about = "clock" /\ n < MaxTicks
  /\ job' = [job EXCEPT !.regs = rtc_tick(@)]

PrintChar ==
  /\ job.about = "mark" /\ n < MaxOut
  /\ \E p \in Ports, v \in Chars :
       job' = [job EXCEPT !.watch = Transmit(@, p, v, Console),
                          !.out[p] = Append(@, v)]

Load ==
  /\ job.about = "image" /\ n = 0
  /\ job' = [about |-> "image", layout |-> lout_layout(job.header)]

Arguments ==
  /\ job.about = "arguments" /\ n = 0
  /\ job' = [about |-> "arguments", at |-> Strings(job.nprog, job.nenv, job.lengths)]

FetchDecode ==
  /\ job.about = "decode" /\ n = 0
  /\ job' = [about |-> "decode", fetched |-> D!Fetched(job.op, job.segmented, job.long)]

JobNext ==
  /\ \/ Limb \/ Single \/ Shift \/ Rotate \/ Decimal \/ Multiply \/ Divide
     \/ StackStep \/ Second \/ PrintChar \/ Load \/ Arguments
     \/ FetchDecode
  /\ n' = n + 1 /\ UNCHANGED given

JobSpec == JobInit /\ [][JobNext]_jvars

-----------------------------------------------------------------------------
(* Whole numbers of two limbs.                                             *)
Long2(x)    == x[1] + x[2] * Mod("word")
Square      == Mod("word") * Mod("word")
Signed2(v)  == IF v >= Square \div 2 THEN v - Square ELSE v
Exactly(op, x, y) == IF op = "ADD" THEN x + y ELSE x - y

LimbsRight ==
  LET x == Long2(given.x) y == Long2(given.y)
      e == Exactly(job.op, x, y)
      s == Exactly(job.op, Signed2(x), Signed2(y))
  IN  /\ Long2(job.x) = e % Square
      /\ ("C" \in job.fcw) = (e \notin 0 .. Square - 1)
      /\ ("PV" \in job.fcw) = (s # Signed2(Long2(job.x)))
      /\ job.op = "SUB" => /\ Taken("LT", FALSE, job.fcw) = (Signed2(x) < Signed2(y))
                           /\ Taken("ULT", TRUE, job.fcw) = (x >= y)

FirstCompared ==
  LET x == given.x[1] y == given.y[1]
  IN  job.op = "SUB" =>
        /\ Taken("LE", FALSE, job.fcw) = (Signed(x, "word") <= Signed(y, "word"))
        /\ Taken("ULE", FALSE, job.fcw) = (x <= y)
        /\ Taken("EQ", TRUE, job.fcw) = (x # y)

SingleRight ==
  LET x == Signed(given.a, job.width)
      e == CASE job.op = "NEG" -> -x [] job.op = "INC" -> x + given.b
             [] job.op = "DEC" -> x - given.b
  IN  /\ job.a = e % Mod(job.width)
      /\ ("PV" \in job.fcw) = (e # Signed(job.a, job.width))
      /\ ("Z" \in job.fcw) = (job.a = 0)

Tens(v) == (v \div 16) * 10 + (v % 16)
DecimalRight ==
  LET sum == Tens(given.a) + Tens(given.b) + Num("C" \in given.fcw)
  IN  /\ Tens(job.a) = sum % 100 /\ job.a % 16 < 10
      /\ ("C" \in job.fcw) = (sum > 99)

(* Many-word arithmetic comes out right: after ADD and ADC, or SUB and     *)
(* SBC, over two limbs, the limbs hold the sum or difference of the whole  *)
(* numbers, C tells an unsigned and PV a signed result that did not fit,   *)
(* and the conditions LT and ULT a program tests next (cond_true) order    *)
(* the whole numbers; after one SUB the other conditions hold of the       *)
(* limbs.  do_neg, do_inc and do_dec agree with the integers too, and a    *)
(* decimal addition comes out decimal: ADCB of two bytes of two decimal    *)
(* digits and then DAB, which is told of the carries by H and C alone,     *)
(* leave the two digits of the sum and its hundred in C (do_dab).          *)
ArithmeticRight ==
  /\ job.about = "limbs" /\ n = 2 => LimbsRight
  /\ job.about = "limbs" /\ n = 1 => FirstCompared
  /\ Done("single") => SingleRight
  /\ job.about = "decimal" /\ n = 2 => DecimalRight

(* Shifts multiply and divide: SLA and SRA by any signed count below a     *)
(* register's width of 64 give the signed number times or divided by the   *)
(* power of two, rounded down, SLL and SRL the same unsigned; SLA reports  *)
(* in PV exactly the results that did not fit.  A rotate undone by its     *)
(* opposite restores the value, and the carry when it goes through it.     *)
ShiftsRight ==
  /\ Done("shift") =>
       LET c == given.count
           x == IF job.arith THEN Signed(given.a, "word") ELSE given.a
           e == IF c < 0 THEN x \div 2 ^ (-c) ELSE x * 2 ^ c
       IN  /\ job.a = e % Mod("word")
           /\ job.arith => ("PV" \in job.fcw) = (e # Signed(job.a, "word"))
  /\ job.about = "rotate" /\ n = 2 =>
       /\ job.a = given.a
       /\ job.ops[1] \in {"RLC", "RRC"} => ("C" \in job.fcw) = ("C" \in given.fcw)

(* DIV undoes MULT, and whatever the dividend, a pair DIV changes holds    *)
(* quotient and remainder of it, the remainder smaller than the divisor    *)
(* and of the dividend's sign; a pair it leaves alone has PV set, and a    *)
(* quotient without C set is exact (exec_mul, exec_div).                   *)
QuotientRight ==
  LET x == SignedWide(given.pair, "word")
      y == Signed(given.b, "word")
      r == Signed(job.pair \div Mod("word"), "word")
      q == Signed(job.pair % Mod("word"), "word")
      Divides(k) == k * y + r = x /\ Abs(r) < Abs(y) /\ (r = 0 \/ (r < 0) = (x < 0))
  IN  IF "PV" \notin job.fcw THEN Divides(q)
      ELSE IF "C" \in job.fcw
           THEN \E k \in {q + Mod("word"), q - Mod("word")} : Divides(k)
      ELSE /\ job.pair = given.pair
           /\ y # 0 => Abs(x) >= Abs(y) * Mod("word")

DivisionRight ==
  /\ Done("quotient") => QuotientRight
  /\ job.about = "product" /\ n = 2 /\ job.b # 0 =>
       job.pair = given.pair % Mod("word")

(* Last in, first out, in both modes and across the wrap of the offset:    *)
(* every word, long word and return address comes off as it went on        *)
(* (exec_stack, CALL, RET), and an empty stack has the pointer it began    *)
(* with.  Non-segmented pushes that borrow from the segment are apart:     *)
(* PushStoresAtSp.                                                         *)
StackRight ==
  job.about = "stack" /\ ~job.borrows =>
    /\ job.got = job.want
    /\ job.pushed = <<>> => job.m.sp = given.m.sp

(* A PUSH stores its word where the pointer then points (the comment of    *)
(* StackPush, "SP-=2, [SP]=Rdata").                                        *)
PushStoresAtSp ==
  job.about = "stack" /\ job.pushed # <<>> /\ job.pushed[1].kind = "word" =>
    Top(job.m) = job.pushed[1].v

(* The carry chain is the calendar: from any valid time, in 12-hour or     *)
(* 24-hour mode, the registers n ticks later show the time n seconds       *)
(* later, through the ends of days, months, leap Februaries and years      *)
(* (rtc_tick).                                                             *)
ClockIsCalendar == job.about = "clock" => Later(job.regs, given.regs, n)

(* The run is stopped exactly when some port has printed the stop mark,    *)
(* whole and on its own, and type-ahead is open exactly when the console   *)
(* ever printed it (mark_advance, stop_mark_watch, scc_write).             *)
MarksFound ==
  job.about = "mark" =>
    /\ job.watch.stop = (\E p \in Ports : Printed(job.watch.mark, job.out[p]))
    /\ job.watch.inq_mark_seen = Printed(job.watch.mark, job.out[Console])

-----------------------------------------------------------------------------
(* Every byte of the image has a place of its own, and the zeroed memory   *)
(* behind a group too: no two bytes share one, none is past the last       *)
(* segment, and no group shares a segment with another (lout_layout and    *)
(* the loading loop of run_exec).  The bytes loaded are the file's, each   *)
(* once.  A layout is refused only when the groups do not fit.             *)
Bytes(L) == UNION {{i} \X (0 .. L.groups[i].span + L.groups[i].bss - 1) :
                     i \in DOMAIN L.groups}
FileBytes(L) ==
  UNION {UNION {{i} \X {k} \X (0 .. L.groups[i].p[k].len - 1) :
                  k \in DOMAIN L.groups[i].p} : i \in DOMAIN L.groups}
InFile(L, b) == L.groups[b[1]].p[b[2]].foff + b[3]
InGroup(L, b) == L.groups[b[1]].p[b[2]].moff + b[3]
FileSize(h) == h.si + h.pi + h.sd + h.pd
AllBytes(h) == FileSize(h) + h.bi + h.bd

ImagePlaced ==
  Done("image") =>
    LET L == job.layout h == given.header
        At(b) == Placed(L, b[1], b[2])
    IN  IF L = Refused
        THEN AllBytes(h) = 0 \/ h.entry_off + AllBytes(h) + 4 * SegSize
                                  > (LastSeg + 1 - h.entry_seg) * SegSize
        ELSE /\ Cardinality({At(b) : b \in Bytes(L)}) = AllBytes(h)
             /\ \A b \in Bytes(L) : At(b)[1] \in h.entry_seg .. L.last_seg
             /\ \A b, c \in Bytes(L) :
                  b[1] # c[1] => At(b)[1] # At(c)[1]
             /\ L.last_seg <= LastSeg
             /\ {InFile(L, b) : b \in FileBytes(L)} = 0 .. FileSize(h) - 1
             /\ Cardinality({<<b[1], InGroup(L, b)>> : b \in FileBytes(L)}) = FileSize(h)

(* The strings of the command line lie behind both pointer arrays, each    *)
(* behind the one before it with its end mark, and below the guard band of *)
(* errno, however many arguments there are (run_exec, put_str).            *)
ArgumentsPlaced ==
  Done("arguments") /\ job.at # <<>> =>
    LET at == job.at len == given.lengths
    IN  /\ at[1] >= argv_arr + (given.nprog + given.nenv + 2) * 4
        /\ \A i \in 1 .. Len(at) :
             at[i] + len[i] < (IF i = Len(at) THEN PoolLimit ELSE at[i + 1])

-----------------------------------------------------------------------------
(* The length table, the sub-decoders and the executor agree: of every     *)
(* encoding in both modes and with both forms of address, the executor     *)
(* reads only words fetched for this instruction, never one left over from *)
(* an earlier one, and PC stands right behind the last word it reads       *)
(* (decode_length_compute, the sub-decoders, cpu_step's short-form         *)
(* reduction, seg_addr_op, uread_src2).                                    *)
OperandsFetched ==
  Done("decode") /\ job.fetched.w # D!Illegal =>
    LET oplen == job.fetched.oplen
        reads == D!Reads(given.op, job.fetched.w, given.segmented, given.long)
    IN  reads \subseteq 1 .. oplen - 1 /\ (oplen > 1 => oplen - 1 \in reads)

(* No nibble of an instruction has two meanings: the nibble that selects   *)
(* an instruction names no register of it, and an operand's address is     *)
(* never taken from the register the result goes to (the register selects  *)
(* of the control words; the comment above the entries 0x18-0x1B tells of  *)
(* a select left at its default that did this).                            *)
NibblesApart ==
  Done("decode") =>
    \A r, s \in D!Roles(given.op, job.fetched.w) : r[1] = s[1] => r = s
=============================================================================
