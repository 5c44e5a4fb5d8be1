-------------------------------- MODULE Alu --------------------------------
(***************************************************************************)
(* The arithmetic of the CPU: alu.c, and the multiply, divide, dynamic     *)
(* shift and condition codes of cpu.c, as operators.                       *)
(*                                                                         *)
(* A width is named as in the code; Bits gives the number of its bits, 8,  *)
(* 16 and 32 there.  A value is a natural number below 2^Bits[w], an       *)
(* AluResult has the flags that are set and the mask of those that count.  *)
(***************************************************************************)
EXTENDS Integers

CONSTANT Bits      \* of each width

Widths == {"byte", "word", "long"}

ASSUME BitsAssumption == /\ Bits \in [Widths -> Nat]
                         /\ \A w \in Widths : Bits[w] > 1

(* Doubling, as far as the widths go: the proofs know no other fact of ^.  *)
ASSUME PowersOfTwo ==
  2 ^ 0 = 1 /\ \A w \in Widths : \A i \in 0 .. Bits[w] - 1 : 2 ^ (i + 1) = 2 * 2 ^ i

Mod(w)      == 2 ^ Bits[w]
Value(w)    == 0 .. Mod(w) - 1
Bit(v, i)   == (v \div 2 ^ i) % 2 = 1
Num(b)      == IF b THEN 1 ELSE 0
Signed(v, w) == IF Bit(v, Bits[w] - 1) THEN v - Mod(w) ELSE v

When(p, f) == IF p THEN {f} ELSE {}
Result(v, flags, mask) == [value |-> v, flags |-> flags, mask |-> mask]

ZS(v, w) == When(v = 0, "Z") \cup When(Bit(v, Bits[w] - 1), "S")

-----------------------------------------------------------------------------
(* Addition and subtraction.                                               *)

(* The bit-serial adder: carry i enters bit i.                             *)
carry_chain(a, b, cin, w) ==
  LET n == Bits[w]
      c[i \in 0 .. n] ==
        IF i = 0 THEN cin
        ELSE LET p == Bit(a, i - 1) q == Bit(b, i - 1) r == c[i - 1]
             IN  (p /\ q) \/ (q /\ r) \/ (p /\ r)
      sum[i \in 0 .. n] ==
        IF i = 0 THEN 0
        ELSE sum[i - 1] + 2 ^ (i - 1) *
               ((Num(Bit(a, i - 1)) + Num(Bit(b, i - 1)) + Num(c[i - 1])) % 2)
  IN  [sum |-> sum[n], cout |-> c[n], cmsb |-> c[n - 1],
       c4 |-> n > 3 /\ c[4]]

CZSV == {"C", "Z", "S", "PV"}
AddMask(w) == CZSV \cup IF w = "byte" THEN {"DA", "H"} ELSE {}

do_add(a, b, carry, w) ==
  LET k == carry_chain(a, b, carry, w)
  IN  Result(k.sum,
             ZS(k.sum, w) \cup When(k.cout, "C") \cup When(k.cout # k.cmsb, "PV")
               \cup When(k.c4, "H"),
             AddMask(w))

(* Mutant: the borrow added instead of taken away.                         *)
Complement_plus_borrow(a, b, borrow, w) == carry_chain(a, Mod(w) - 1 - b, borrow, w)

(* a + ~b + not borrow.                                                    *)
Complement(a, b, borrow, w) == carry_chain(a, Mod(w) - 1 - b, ~borrow, w)

do_sub(a, b, borrow, w) ==
  LET k == Complement(a, b, borrow, w)
  IN  Result(k.sum,
             ZS(k.sum, w) \cup When(~k.cout, "C") \cup When(k.cout # k.cmsb, "PV")
               \cup When(~k.c4, "H") \cup When(w = "byte", "DA"),
             AddMask(w))

do_neg(a, w) ==
  LET v == (Mod(w) - a) % Mod(w)
  IN  Result(v, ZS(v, w) \cup When(a # 0, "C") \cup When(a = Mod(w) \div 2, "PV"),
             CZSV)

SignsDiffer(a, b, w) == Bit(a, Bits[w] - 1) # Bit(b, Bits[w] - 1)

do_inc(a, n, w) ==
  LET v == (a + n) % Mod(w)
  IN  Result(v, ZS(v, w) \cup When(~SignsDiffer(a, n, w) /\ SignsDiffer(a, v, w),
                                   "PV"),
             {"Z", "S", "PV"})

do_dec(a, n, w) ==
  LET v == (a - n) % Mod(w)
  IN  Result(v, ZS(v, w) \cup When(SignsDiffer(a, n, w) /\ SignsDiffer(a, v, w),
                                   "PV"),
             {"Z", "S", "PV"})

-----------------------------------------------------------------------------
(* Shifts and rotates, one place at a time.  A count is taken modulo 64.   *)

Places(cnt) == cnt % 64

do_shift_left(a, cnt, arith, w) ==
  LET n == Places(cnt)
      s[i \in 0 .. n] ==
        IF i = 0 THEN [val |-> a, out |-> FALSE, ovf |-> FALSE]
        ELSE LET v == (s[i - 1].val * 2) % Mod(w)
             IN  [val |-> v, out |-> Bit(s[i - 1].val, Bits[w] - 1),
                  ovf |-> s[i - 1].ovf \/ SignsDiffer(v, a, w)]
  IN  Result(s[n].val,
             ZS(s[n].val, w) \cup When(s[n].out, "C")
               \cup When(arith /\ s[n].ovf, "PV"),
             {"Z", "S"} \cup When(n # 0, "C") \cup When(arith, "PV"))

(* Mutant: the arithmetic shift fills with zeros.                          *)
Fill_zero(v, arith, w) == 0

(* What enters at the top: the sign, or zero.                              *)
Fill(v, arith, w) == IF arith /\ Bit(v, Bits[w] - 1) THEN Mod(w) \div 2 ELSE 0

do_shift_right(a, cnt, arith, w) ==
  LET n == Places(cnt)
      s[i \in 0 .. n] ==
        IF i = 0 THEN [val |-> a, out |-> FALSE]
        ELSE LET p == s[i - 1].val
             IN  [val |-> (p \div 2) + Fill(p, arith, w), out |-> Bit(p, 0)]
  IN  Result(s[n].val, ZS(s[n].val, w) \cup When(s[n].out, "C"),
             {"Z", "S"} \cup When(n # 0, "C") \cup When(arith, "PV"))

(* One place of a rotate; carry c goes round with the value when thru.     *)
Rotated(v, c, right, thru, w) ==
  LET out == IF right THEN Bit(v, 0) ELSE Bit(v, Bits[w] - 1)
      in  == IF thru THEN c ELSE out
  IN  [val |-> IF right THEN (v \div 2) + Num(in) * (Mod(w) \div 2)
                        ELSE ((v * 2) % Mod(w)) + Num(in),
       c |-> out]

do_rotate(a, cnt, right, thru, cin, w) ==
  LET n == IF Places(cnt) = 0 THEN 1 ELSE Places(cnt)
      s[i \in 0 .. n] == IF i = 0 THEN [val |-> a, c |-> cin]
                         ELSE Rotated(s[i - 1].val, s[i - 1].c, right, thru, w)
  IN  Result(s[n].val,
             ZS(s[n].val, w) \cup When(s[n].c, "C")
               \cup When(SignsDiffer(s[n].val, a, w), "PV"),
             CZSV)

(* Does the high digit need its correction?                                *)
HighDigit(v, c) == v \div 16 > 9 \/ c

(* DAB, its addition path only, on eight bits.                             *)
do_dab(a, hflag, cin) ==
  LET low == a % 16 > 9 \/ hflag
      v   == IF low THEN (a + 6) % 256 ELSE a
      c   == cin \/ (low /\ v < 16)
      r   == IF HighDigit(v, c) THEN (v + 96) % 256 ELSE v
  IN  Result(r, ZS(r, "byte") \cup When(HighDigit(v, c), "C"), {"C", "Z", "S"})

-----------------------------------------------------------------------------
(* alu_exec.  The bitwise operations, the loads and the bit tests, one C   *)
(* operator each, are left out.                                            *)
alu_exec(op, a, b, carry, w) ==
  CASE op = "ADD" -> do_add(a, b, FALSE, w)
    [] op = "ADC" -> do_add(a, b, carry, w)
    [] op \in {"SUB", "CP"} -> do_sub(a, b, FALSE, w)
    [] op = "SBC" -> do_sub(a, b, carry, w)
    [] op = "NEG" -> do_neg(a, w)
    [] op = "INC" -> do_inc(a, b, w)
    [] op = "DEC" -> do_dec(a, b, w)
    [] op = "SLA" -> do_shift_left(a, b, TRUE, w)
    [] op = "SLL" -> do_shift_left(a, b, FALSE, w)
    [] op = "SRA" -> do_shift_right(a, b, TRUE, w)
    [] op = "SRL" -> do_shift_right(a, b, FALSE, w)
    [] op = "RL"  -> do_rotate(a, b, FALSE, FALSE, carry, w)
    [] op = "RR"  -> do_rotate(a, b, TRUE, FALSE, carry, w)
    [] op = "RLC" -> do_rotate(a, b, FALSE, TRUE, carry, w)
    [] op = "RRC" -> do_rotate(a, b, TRUE, TRUE, carry, w)
    [] op = "DAB" -> do_dab(a, Bit(b, 0), carry)

-----------------------------------------------------------------------------
(* What cpu.c does with the result.                                        *)

(* apply_flags: the flags in the mask are replaced, the others stay.       *)
apply_flags(old, r) == (old \ r.mask) \cup (r.flags \cap r.mask)

(* The signed order, overflow taken into account.                          *)
Less(f) == ("S" \in f) # ("PV" \in f)

(* cond_true.                                                              *)
Condition == {"F", "LT", "LE", "ULE", "OV", "MI", "EQ", "ULT"}
cond_true(cc, f) ==
  CASE cc = "F"   -> FALSE
    [] cc = "LT"  -> Less(f)
    [] cc = "LE"  -> Less(f) \/ "Z" \in f
    [] cc = "ULE" -> f \cap {"C", "Z"} # {}
    [] cc = "OV"  -> "PV" \in f
    [] cc = "MI"  -> "S" \in f
    [] cc = "EQ"  -> "Z" \in f
    [] cc = "ULT" -> "C" \in f

(* The eight codes with bit 3 set are the negations.                       *)
Taken(cc, negated, f) == cond_true(cc, f) # negated

(* exec_shift: a negative count shifts the other way.                      *)
exec_shift(arith, v, count, w) ==
  IF count < 0 THEN alu_exec(IF arith THEN "SRA" ELSE "SRL", v, -count, FALSE, w)
               ELSE alu_exec(IF arith THEN "SLA" ELSE "SLL", v, count, FALSE, w)

-----------------------------------------------------------------------------
(* Multiplication and division of w into a register pair of twice as many  *)
(* bits.                                                                   *)

Wide(w) == Mod(w) * Mod(w)
SignedWide(v, w) == IF v >= Wide(w) \div 2 THEN v - Wide(w) ELSE v
InRange(q, w) == q \in -(Mod(w) \div 2) .. (Mod(w) \div 2) - 1

exec_mul(a, b, w) ==
  LET p == Signed(a, w) * Signed(b, w)
  IN  Result(p % Wide(w),
             When(p = 0, "Z") \cup When(p < 0, "S") \cup When(~InRange(p, w), "C"),
             CZSV)

(* C's division rounds towards zero.                                       *)
Abs(x)     == IF x < 0 THEN -x ELSE x
Quot(x, y) == (Abs(x) \div Abs(y)) * IF (x < 0) = (y < 0) THEN 1 ELSE -1
Rem(x, y)  == x - y * Quot(x, y)

(* The three cases of exec_div, and the quotient no int32_t holds: C gives *)
(* the division no result, and the host's instruction traps.               *)
Undefined == Result(-1, {}, {})
Nowhere(q, w)     == q >= Wide(w) \div 2
FarOutside(q, w)  == q < -Mod(w) \/ q > Mod(w) - 1
JustOutside(q, w) == ~InRange(q, w) /\ ~FarOutside(q, w)

(* Mutant: a quotient just out of range is flagged and not stored.         *)
Kept_in_range(q, w) == InRange(q, w)

(* Is the pair replaced by remainder and quotient?                         *)
Kept(q, w) == ~FarOutside(q, w)

exec_div(pair, b, w) ==
  LET x == SignedWide(pair, w) y == Signed(b, w)
      q == Quot(x, y)
      flags == IF FarOutside(q, w) THEN {"PV"}
               ELSE When(JustOutside(q, w), "C") \cup When(JustOutside(q, w), "PV")
                      \cup When(q < 0, "S") \cup When(q % Mod(w) = 0, "Z")
  IN  IF y = 0 THEN Result(pair, {"Z", "PV"}, CZSV)
      ELSE IF Nowhere(q, w) THEN Undefined
      ELSE Result(IF Kept(q, w) THEN (Rem(x, y) % Mod(w)) * Mod(w) + (q % Mod(w))
                                ELSE pair,
                  flags, CZSV)

============================================================================
