---------------------------- MODULE MCAlgorithms ----------------------------
(* The jobs enumerated: every input of a small width, every two-digit      *)
(* decimal sum, the last seconds of the first and last days of every month *)
(* of a century, every mark of up to four characters over two letters,     *)
(* every image of small sections.                                          *)
EXTENDS Algorithms

MCBits == [byte |-> 8, word |-> 3, long |-> 3]

Words  == Value("word")
Pairs2 == Words \X Words
Carry01 == {{}, {"C"}}

LimbJobs == {[about |-> "limbs", op |-> op, x |-> x, y |-> y, fcw |-> {}] :
               op \in {"ADD", "SUB"}, x \in Pairs2, y \in Pairs2}

SingleJobs ==
  {[about |-> "single", op |-> op, width |-> "word", a |-> x, b |-> y, fcw |-> {}] :
     op \in {"NEG", "INC", "DEC"}, x \in Words, y \in 1 .. 3}

ShiftJobs == {[about |-> "shift", arith |-> arith, a |-> x, count |-> c, fcw |-> f] :
                arith \in BOOLEAN, x \in Words, c \in -5 .. 5, f \in Carry01}

RotateJobs ==
  {[about |-> "rotate", ops |-> o, a |-> x, count |-> c, fcw |-> f] :
     o \in {<<"RL", "RR">>, <<"RR", "RL">>, <<"RLC", "RRC">>, <<"RRC", "RLC">>},
     x \in Words, c \in 0 .. 5, f \in Carry01}

Bcd == {x * 16 + y : x, y \in 0 .. 9}
DecimalJobs == {[about |-> "decimal", a |-> x, b |-> y, fcw |-> f] :
                  x \in Bcd, y \in Bcd, f \in Carry01}

ProductJobs == {[about |-> "product", pair |-> x, b |-> y, fcw |-> {}] :
                  x \in Words, y \in Words}
QuotientJobs == {[about |-> "quotient", pair |-> x, b |-> y, fcw |-> {"C", "S"}] :
                   x \in 0 .. Wide("word") - 1, y \in Words}

StackJobs ==
  {[about |-> "stack",
    m |-> [segd |-> segd, pc |-> pc, sp |-> [seg |-> 1, off |-> off],
           mem |-> [a \in Addr |-> 0]],
    pushed |-> <<>>, borrows |-> FALSE, got |-> <<>>, want |-> <<>>,
    data |-> {1, 2}, targets |-> {3, 8}] :
     segd \in BOOLEAN, pc \in {2, 10}, off \in {0, 4, 6}}

-----------------------------------------------------------------------------
Dates == {<<y, m, d>> \in (1978 .. 2077) \X (1 .. 12) \X ({1} \cup 27 .. 31) :
            d <= MonthDays(y, m)}

Midnights == {rtc_set_time(t[1], t[2], t[3], 23, 59, 58) : t \in Dates}

HourEnds == {rtc_set_time(1988, 2, 28, h, 59, 57) : h \in 0 .. 23}

In12(r) == LET h == IF Hour(r) % 12 = 0 THEN 12 ELSE Hour(r) % 12
           IN  [r EXCEPT ![4] = h % 10,
                         ![5] = h \div 10 + IF Hour(r) >= 12 THEN 4 ELSE 0]

ClockJobs == {[about |-> "clock", regs |-> r] :
                r \in Midnights \cup HourEnds \cup {In12(q) : q \in HourEnds}}

MarkJobs == {[about |-> "mark", watch |-> Watch(m, Ports),
              out |-> [p \in Ports |-> <<>>]] :
               m \in UNION {[1 .. k -> Chars] : k \in 1 .. 4}}

Sizes == 0 .. 2
ImageJobs ==
  {[about |-> "image",
    header |-> [flag |-> f, entry_seg |-> s, entry_off |-> o, si |-> z[1],
                pi |-> z[2], bi |-> z[3], sd |-> z[4], pd |-> z[5], bd |-> z[6]]] :
     f \in 0 .. 3, s \in 0 .. 1, o \in 0 .. 1, z \in [1 .. 6 -> Sizes]}

ArgumentJobs ==
  UNION {{[about |-> "arguments", nprog |-> p, nenv |-> e, lengths |-> l] :
            l \in [1 .. p + e -> {0, 3}]} : p \in 1 .. 4, e \in 0 .. 2}

(* Every high byte and nibble 3, nibble 2 zero or not; the long form only  *)
(* where a word is an address (an index word's high bits are zero).        *)
DecodeJobs ==
  {j \in [about : {"decode"}, op : [hi : \h00 .. \hFF, n2 : {0, 5}, n3 : 0 .. 15],
          segmented : BOOLEAN, long : BOOLEAN] :
     j.long => /\ j.segmented
               /\ j.op.hi \in D!Addressed \ {\h70, \h71, \h72, \h73, \h74, \h75, \h77}}

MCJobs == <<LimbJobs, SingleJobs, ShiftJobs, RotateJobs, DecimalJobs, ProductJobs,
            QuotientJobs, StackJobs, ClockJobs, MarkJobs, ImageJobs, ArgumentJobs,
            DecodeJobs>>
=============================================================================
