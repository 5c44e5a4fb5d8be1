------------------------------- MODULE Stack -------------------------------
(***************************************************************************)
(* The CPU's stack instructions (cpu.c): the address helpers, push_word    *)
(* and pop_word with the calls and returns that use them, and exec_stack.  *)
(*                                                                         *)
(* An address is one number, segment * W + offset, as in the code.  A      *)
(* machine is a record: segd (is the CPU in segmented mode), pc, the stack *)
(* pointer (the register pair, or its offset half alone), and the words of *)
(* memory.                                                                 *)
(***************************************************************************)
EXTENDS Integers

CONSTANTS
  W,        \* offsets of a segment: 2^16
  Segs      \* segments: 128

ASSUME StackAssumption ==
  /\ W \in Nat /\ W > 4 /\ W % 2 = 0
  /\ Segs \in Nat \ {0}

Addr == 0 .. Segs * W - 1

SegOf(a) == (a \div W) * W      \* the segment, its offset zero
Off(a)   == a % W

-----------------------------------------------------------------------------
(* Inside a segment only the offset moves, and wraps.                      *)
addr_add(a, n) == SegOf(a) + ((a + n) % W)
addr_sub(a, n) == SegOf(a) + ((a - n) % W)

(* The segment word of a packed address carries a tag that seg_addr drops. *)
SegWord(a)       == Segs + a \div W
seg_addr(hi, lo) == (hi % Segs) * W + lo

(* In non-segmented mode the register is an offset in the PC's segment.    *)
addr_from_reg(m) == IF m.segd THEN m.sp.seg * W + m.sp.off
                    ELSE SegOf(m.pc) + m.sp.off

addr_to_reg(m, a) ==
  [m EXCEPT !.sp = [seg |-> IF m.segd THEN a \div W ELSE @.seg, off |-> Off(a)]]

mem_w16(m, a, v) == [m EXCEPT !.mem[a] = v]
mem_r16(m, a)    == m.mem[a]

-----------------------------------------------------------------------------
(* push_word and pop_word wrap the offset in both modes.                   *)
push_word(m, v) ==
  LET a == IF m.segd THEN addr_sub(addr_from_reg(m), 2)
           ELSE SegOf(m.pc) + ((m.sp.off - 2) % W)
  IN  mem_w16(addr_to_reg(m, a), a, v)

Top(m) == mem_r16(m, addr_from_reg(m))

(* The machine after pop_word; the word itself is Top.                     *)
Popped(m) == addr_to_reg(m, addr_add(addr_from_reg(m), 2))

(* Mutant: the segment word pushed first.                                  *)
PushPc_segment_first(m) ==
  IF m.segd THEN push_word(push_word(m, SegWord(m.pc)), Off(m.pc))
            ELSE push_word(m, Off(m.pc))

(* The return address: the offset, then in segmented mode the segment.     *)
PushPc(m) ==
  IF m.segd THEN push_word(push_word(m, Off(m.pc)), SegWord(m.pc))
            ELSE push_word(m, Off(m.pc))

(* CALL and CALR: the target is found first; in non-segmented mode it is   *)
(* in the PC's segment.                                                    *)
Call(m, target) ==
  [PushPc(m) EXCEPT !.pc = IF m.segd THEN target ELSE SegOf(@) + Off(target)]

Ret(m) ==
  IF m.segd THEN [Popped(Popped(m)) EXCEPT !.pc = seg_addr(Top(m), Top(Popped(m)))]
            ELSE [Popped(m) EXCEPT !.pc = SegOf(m.pc) + Top(m)]

-----------------------------------------------------------------------------
(* exec_stack.  In non-segmented mode the whole address is decremented,    *)
(* and only its offset goes back to the register.                          *)
Below(m, n) == IF m.segd THEN addr_sub(addr_from_reg(m), n)
               ELSE (addr_from_reg(m) - n) % (Segs * W)

Push(m, v) == mem_w16(addr_to_reg(m, Below(m, 2)), Below(m, 2), v)

PushL(m, hi, lo) ==
  LET a == Below(m, 4)
  IN  mem_w16(mem_w16(addr_to_reg(m, a), a, hi), addr_add(a, 2), lo)

(* POP and POPL: the pointer moves before the read.                        *)
Pop(m)  == addr_to_reg(m, addr_add(addr_from_reg(m), 2))
PopL(m) == addr_to_reg(m, addr_add(addr_from_reg(m), 4))
Long(m) == <<Top(m), mem_r16(m, addr_add(addr_from_reg(m), 2))>>
============================================================================
