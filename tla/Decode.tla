------------------------------- MODULE Decode -------------------------------
(***************************************************************************)
(* The instruction decoder (decode.c) and what the executor makes of the   *)
(* words of an instruction (cpu.c).                                        *)
(*                                                                         *)
(* The first word is given by its high byte hi and its nibbles n2 and n3.  *)
(* A control word keeps the selects that say where operands are: the       *)
(* execute class, the width, the source src2, the destination dst, the     *)
(* source of a count or of an immediate second operand, and which nibble   *)
(* names which register.  The ALU's operation is kept only as far as it    *)
(* uses the accumulator.  "long" says that bit 15 of the address word is   *)
(* set, the mark of a segmented address of two words; sw that the low      *)
(* nibble of word 1 is 8.  Operand values are left out.                    *)
(***************************************************************************)
LOCAL INSTANCE Integers

cw == [exec |-> "Unified", width |-> "word", src2 |-> "None", dst |-> "Reg",
       count |-> "None", src1_nib |-> "nib3", src2_nib |-> "nib3",
       dst_nib |-> "nib3", acc |-> FALSE, how |-> "none"]
Illegal == [cw EXCEPT !.exec = "Illegal"]
Class(exec) == [cw EXCEPT !.exec = exec]

Fork(nib, zero, nonzero) == IF nib = 0 THEN zero ELSE nonzero

(* Long operands; otherwise an odd high byte is the word form.             *)
LongOps == {\h10, \h12, \h14, \h16, \h18, \h1A, \h1D, \h35, \h37, \h50, \h52, \h54,
            \h56, \h58, \h5A, \h5D, \h75, \h77, \h90, \h92, \h94, \h96, \h98, \h9A}
WidthOf(hi) == IF hi \in LongOps THEN "long"
               ELSE IF hi % 2 = 0 \/ hi \in \hC0 .. \hCF THEN "byte" ELSE "word"

-----------------------------------------------------------------------------
(* Two operands: a register and a source (mk_reg, sub_immir, sub_dax,      *)
(* sub_nib2fork).                                                          *)
ImmIR   == (\h00 .. \h0B) \cup {\h10, \h12, \h14, \h16, \h20, \h21} \cup \h18 .. \h1B
DirectX == (\h40 .. \h4B) \cup {\h50, \h52, \h54, \h56, \h60, \h61} \cup \h58 .. \h5B
PcBased == {\h30, \h31, \h35}
BaseX   == {\h70, \h71, \h75}
RegReg  == (\h80 .. \h8B) \cup {\h90, \h92, \h94, \h96, \hA0, \hA1}
           \cup (\hB4 .. \hB7) \cup \h98 .. \h9B
TwoOperand == ImmIR \cup DirectX \cup PcBased \cup BaseX \cup RegReg

MulDiv   == (\h18 .. \h1B) \cup (\h58 .. \h5B) \cup \h98 .. \h9B
Compares == {\h0A, \h0B, \h4A, \h4B, \h8A, \h8B, \h10, \h50, \h90}
LoadOps  == {\h14, \h20, \h21, \h54, \h60, \h61, \h94, \hA0, \hA1} \cup PcBased \cup BaseX

Mode(op) == CASE op.hi \in ImmIR   -> Fork(op.n2, "Imm", "IR")
              [] op.hi \in DirectX -> Fork(op.n2, "DA", "X")
              [] op.hi \in PcBased -> Fork(op.n2, "PCRel", "Based")
              [] op.hi \in BaseX   -> "BX"
              [] op.hi \in RegReg  -> "Reg"

(* Mutant: the @Rs forms of multiply and divide leave the select at its    *)
(* default.                                                                *)
SourceNib_default(op) ==
  IF Mode(op) \in {"Imm", "DA", "PCRel"} \/ op.hi \in \h18 .. \h1B THEN "nib3" ELSE "nib2"

(* The nibble that names the source's register; multiply and divide read   *)
(* nib2 for a register source without looking at the select.               *)
SourceNib(op) == IF Mode(op) \in {"Imm", "DA", "PCRel"} THEN "nib3" ELSE "nib2"

Operate(op) ==
  [cw EXCEPT !.exec = IF op.hi \in MulDiv THEN "MulDiv" ELSE "Unified",
             !.width = WidthOf(op.hi), !.src2 = Mode(op), !.src2_nib = SourceNib(op),
             !.dst = IF op.hi \in Compares THEN "None" ELSE "Reg",
             !.acc = op.hi \notin LoadOps]

(* Stores of a register.                                                   *)
Stores == {\h1D, \h2E, \h2F, \h32, \h33, \h37, \h5D, \h6E, \h6F, \h72, \h73, \h77}
StoreTo(op) == CASE op.hi \in {\h1D, \h2E, \h2F} -> "IR"
                 [] op.hi \in {\h32, \h33, \h37} -> Fork(op.n2, "PCRel", "Based")
                 [] op.hi \in {\h5D, \h6E, \h6F} -> Fork(op.n2, "DA", "X")
                 [] op.hi \in {\h72, \h73, \h77} -> "BX"
Store(op) == [cw EXCEPT !.width = WidthOf(op.hi), !.src2 = "Reg", !.dst = StoreTo(op),
                        !.dst_nib = "nib2"]

(* RES, SET, BIT, INC, DEC of memory, of a register, and the forms of the  *)
(* first three whose bit number is in a register.                          *)
BitIR   == \h22 .. \h27
MemoryModify == BitIR \cup (\h28 .. \h2B) \cup \h62 .. \h6B
Tests   == {\h26, \h27, \h66, \h67}
ModifyAt(op) == IF op.hi < \h40 THEN "IR" ELSE Fork(op.n2, "DA", "X")
Modify(op) ==
  IF op.hi \in BitIR /\ op.n2 = 0 THEN Class("BitDynamic")
  ELSE [cw EXCEPT !.width = WidthOf(op.hi), !.src2 = ModifyAt(op), !.src2_nib = "nib2",
                  !.count = "Nib3", !.dst_nib = "nib2",
                  !.dst = IF op.hi \in Tests THEN "FlagsOnly" ELSE ModifyAt(op)]

RegisterModify(op) ==
  [cw EXCEPT !.width = WidthOf(op.hi), !.src1_nib = "nib2", !.src2 = "Nib3",
             !.dst = IF op.hi \in {\hA6, \hA7} THEN "None" ELSE "Reg",
             !.dst_nib = "nib2", !.acc = TRUE]

-----------------------------------------------------------------------------
(* The one-operand blocks, chosen by n3: COM, CP #, NEG, TEST, LD #, TSET, *)
(* CLR at the place "at"; word 1 or the word behind the address holds the  *)
(* immediate (tbl0C, tbl0D, tbl4C, tbl4D).                                 *)
UnaryAt(op, at, imm) ==
  LET c == [cw EXCEPT !.width = WidthOf(op.hi), !.dst_nib = "nib2", !.src2_nib = "nib2"]
  IN  CASE op.n3 \in {0, 2, 6} -> [c EXCEPT !.src2 = at, !.dst = at]
        [] op.n3 = 1 -> [c EXCEPT !.src2 = at, !.dst = "FlagsOnly", !.count = imm]
        [] op.n3 = 4 -> [c EXCEPT !.src2 = at, !.dst = "FlagsOnly"]
        [] op.n3 = 5 -> [c EXCEPT !.src2 = imm, !.dst = at]
        [] op.n3 = 8 -> [c EXCEPT !.dst = at]
        [] op.n3 = 9 /\ op.hi = \h0D -> [cw EXCEPT !.exec = "Stack", !.how = "PushImm"]
        [] OTHER -> Illegal

(* The same of a register, with the flag operations (tbl8C, tbl8D).        *)
UnaryReg(op) ==
  LET c == [cw EXCEPT !.width = WidthOf(op.hi), !.src1_nib = "nib2", !.dst_nib = "nib2"]
  IN  CASE op.n3 \in {0, 2, 6} -> [c EXCEPT !.acc = TRUE]
        [] op.n3 = 4 -> [c EXCEPT !.dst = "None", !.acc = TRUE]
        [] op.n3 = 8 -> c
        [] op.n3 = 7 /\ op.hi = \h8D -> [c EXCEPT !.dst = "None"]
        [] op.n3 \in {1, 3, 5} /\ op.hi = \h8D -> [cw EXCEPT !.exec = "FcwOp", !.how = "mask"]
        [] op.n3 \in {1, 9} /\ op.hi = \h8C -> [cw EXCEPT !.exec = "FcwOp", !.how = "register"]
        [] OTHER -> Illegal

(* Rotates by one or two, and shifts of two words (tblB2, tblB3).          *)
Rotates(op) ==
  CASE op.n3 % 2 = 0 -> [cw EXCEPT !.width = WidthOf(op.hi), !.src1_nib = "nib2",
                                   !.dst_nib = "nib2", !.acc = TRUE]
    [] op.n3 \in {1, 3, 9, 11} \/ op.hi = \hB3 -> Class("Shift")
    [] OTHER -> Illegal

(* Block I/O and block memory operations (tbl3A, tbl3B, tblBA, tblBB,      *)
(* tblB8); sw chooses among siblings that read the same words.             *)
BlockIO(op) == IF op.n3 \in 4 .. 7 THEN Class("IO")
               ELSE IF op.n3 < 12 THEN Class("Block") ELSE Illegal
Blocks(op)  == IF op.n3 % 2 = 0 \/ op.n3 \in {1, 9} THEN Class("Block") ELSE Illegal

(* LDM and TESTL (sub_1C, sub_5C, sub_9C).                                 *)
TestLong(at) == [cw EXCEPT !.width = "long", !.src2 = at, !.src2_nib = "nib2",
                           !.dst = "FlagsOnly"]
Multiple(op) ==
  LET at == IF op.hi = \h1C THEN "IR" ELSE Fork(op.n2, "DA", "X")
  IN  CASE op.n3 \in {1, 9} -> [cw EXCEPT !.exec = "LDM", !.src2 = at, !.src2_nib = "nib2"]
        [] op.n3 = 8 -> TestLong(at)
        [] OTHER -> Illegal
TestRegister(op) == IF op.n3 # 8 THEN Illegal
                    ELSE [cw EXCEPT !.width = "long", !.src1_nib = "nib2", !.dst = "None",
                                    !.acc = TRUE]

System(op) == IF (op.n3 = 13 /\ op.n2 # 0) \/ (op.n2 = 0 /\ op.n3 \in {0, 8, 9, 10})
              THEN Class("System") ELSE Illegal

-----------------------------------------------------------------------------
(* PUSH and POP, of a register and of memory (sub_nib3fork): src2 stands   *)
(* for the operand that is not the stack, the destination of a POP too.    *)
(* Branches.                                                               *)
StackBlocks == {\h11, \h13, \h15, \h17, \h51, \h53, \h55, \h57, \h91, \h93, \h95, \h97}
StackOp(op) ==
  [cw EXCEPT !.exec = "Stack",
             !.src2 = IF op.hi > \h90 THEN "Reg"
                      ELSE IF op.hi < \h20 THEN "IR" ELSE Fork(op.n3, "DA", "X")]

Branch(op) ==
  LET b(at) == [cw EXCEPT !.exec = "Branch", !.src2 = at, !.src2_nib = "nib2",
                          !.how = IF op.hi \in {\h1E, \h5E, \h9E} THEN "cc" ELSE "none"]
  IN  CASE op.hi \in {\h1E, \h1F} -> b("IR")
        [] op.hi \in {\h5E, \h5F} -> b(Fork(op.n2, "DA", "X"))
        [] op.hi = \h9E -> b("None")
        [] op.hi >= \hD0 -> [b("None") EXCEPT !.how = "inline"]

LoadAddress(op) ==
  [cw EXCEPT !.exec = "LEA", !.src2_nib = "nib2",
             !.src2 = CASE op.hi = \h34 -> Fork(op.n2, "PCRel", "Based")
                        [] op.hi = \h74 -> "BX"
                        [] op.hi = \h76 -> Fork(op.n2, "DA", "X")]

Exchange(op) ==
  [cw EXCEPT !.exec = "Exchange", !.src2_nib = "nib2",
             !.src2 = CASE op.hi < \h30 -> "IR"
                        [] op.hi \in \h6C .. \h6D -> Fork(op.n2, "DA", "X")
                        [] OTHER -> "Reg"]

(* Instructions of one word whose operands are registers or inline.        *)
Inline(op) ==
  CASE op.hi = \hBD -> [cw EXCEPT !.src2 = "Nib3", !.dst_nib = "nib2"]
    [] op.hi \in \hC0 .. \hCF -> [cw EXCEPT !.width = "byte", !.src2 = "OpLoByte",
                                            !.dst_nib = "nib1"]
    [] op.hi \in {\hAE, \hAF} -> Class("TCC")
    [] op.hi \in {\hBC, \hBE} -> Class("BCDRotate")
    [] op.hi = \hB0 -> Class("DAB")
    [] op.hi = \hB1 -> IF op.n3 \in {0, 7, 10} THEN Class("Exts") ELSE Illegal
    [] op.hi = \h7D -> Class("LDCTL")
    [] op.hi \in {\h7A, \h7C, \h7F} -> Class("System")

InlineOps == {\hBD, \hAE, \hAF, \hBC, \hBE, \hB0, \hB1, \h7D, \h7A, \h7C, \h7F} \cup \hC0 .. \hCF

-----------------------------------------------------------------------------
(* The table by the high byte (decode_init, decode_lookup).                *)
decode_lookup(op) ==
  CASE op.hi \in TwoOperand -> Operate(op)
    [] op.hi \in Stores -> Store(op)
    [] op.hi \in MemoryModify -> Modify(op)
    [] op.hi \in \hA2 .. \hAB -> RegisterModify(op)
    [] op.hi \in {\h0C, \h0D} -> UnaryAt(op, "IR", "Imm")
    [] op.hi \in {\h4C, \h4D} -> UnaryAt(op, Fork(op.n2, "DA", "X"), "Imm2")
    [] op.hi \in {\h8C, \h8D} -> UnaryReg(op)
    [] op.hi \in {\hB2, \hB3} -> Rotates(op)
    [] op.hi \in {\h3A, \h3B} -> BlockIO(op)
    [] op.hi \in {\h3C, \h3D, \h3E, \h3F} -> [Class("IO") EXCEPT !.src2 = "IR"]
    [] op.hi \in {\hBA, \hBB} -> Blocks(op)
    [] op.hi = \hB8 -> IF op.n3 % 2 = 0 THEN Class("Block") ELSE Illegal
    [] op.hi \in {\h1C, \h5C} -> Multiple(op)
    [] op.hi = \h9C -> TestRegister(op)
    [] op.hi = \h7B -> System(op)
    [] op.hi \in {\h39, \h79} ->
         [Class("LDPS") EXCEPT !.src2 = IF op.hi = \h39 THEN "IR" ELSE "DA"]
    [] op.hi \in StackBlocks -> StackOp(op)
    [] op.hi \in {\h1E, \h1F, \h5E, \h5F, \h9E} \cup \hD0 .. \hFF -> Branch(op)
    [] op.hi \in {\h34, \h74, \h76} -> LoadAddress(op)
    [] op.hi \in {\h2C, \h2D, \h6C, \h6D, \hAC, \hAD} -> Exchange(op)
    [] op.hi \in InlineOps -> Inline(op)
    [] OTHER -> Illegal

(* The words an instruction may take, known from its first word; an        *)
(* address is one word, or two in segmented mode (decode_length_compute).  *)
Addressed == (\h40 .. \h6F) \cup (\h70 .. \h77) \cup {\h79}
Extra(op) ==
  CASE op.hi \in (\h00 .. \h0B) \cup {\h19, \h1B, \h20, \h21} \cup BitIR -> Fork(op.n2, 1, 0)
    [] op.hi \in {\h0C, \h0D} -> IF op.n3 \in {1, 5, 9} THEN 1 ELSE 0
    [] op.hi \in {\h10, \h12, \h14, \h16, \h18, \h1A} -> Fork(op.n2, 2, 0)
    [] op.hi \in {\h1C, \h5C} -> IF op.n3 \in {1, 9} THEN 1 ELSE 0
    [] op.hi \in {\h4C, \h4D} -> IF op.n3 \in {1, 5, 9} THEN 1 ELSE 0
    [] op.hi \in (\h30 .. \h37) \cup {\h3A, \h3B, \h8E, \h8F, \hB8, \hBA, \hBB} -> 1
    [] op.hi \in {\hB2, \hB3} -> op.n3 % 2
    [] OTHER -> 0
decode_length(op, segmented) ==
  1 + Extra(op) + (IF op.hi \notin Addressed THEN 0 ELSE IF segmented THEN 2 ELSE 1)

(* Which word holds a segmented address.                                   *)
LdmDirect(op) == op.hi = \h5C /\ op.n3 \in {1, 9}
seg_addr_w1(op, segmented) == segmented /\ op.hi \in Addressed /\ ~LdmDirect(op)
seg_addr_w2(op, segmented) == segmented /\ LdmDirect(op)

(* The words cpu_step takes the instruction to have: one less when the     *)
(* segmented address turns out to be the short form.                       *)
Short(op, segmented, long) ==
  LET need == decode_length(op, segmented)
  IN  ~long /\ \/ need >= 3 /\ seg_addr_w1(op, segmented)
               \/ need >= 4 /\ seg_addr_w2(op, segmented)
OpLen(op, segmented, long) ==
  decode_length(op, segmented) - (IF Short(op, segmented, long) THEN 1 ELSE 0)

-----------------------------------------------------------------------------
(* What the executor reads: the words behind the first, by their index.    *)
Memory == {"IR", "DA", "X", "PCRel", "Based", "BX"}

seg_addr_op(i, segmented, long) == IF segmented /\ long THEN {i, i + 1} ELSE {i}

(* Mutant: the immediate behind an address is always in word 2.            *)
Imm2_fixed(op, segmented, long) == 2

(* Operand words of a select (uread_src2, usrc_addr, udst_addr).           *)
Imm2(op, segmented, long) == IF seg_addr_w1(op, segmented) /\ long THEN 3 ELSE 2
WordsOf(sel, op, w, segmented, long) ==
  CASE sel = "Imm"  -> IF w.width = "long" THEN {1, 2} ELSE {1}
    [] sel = "Imm2" -> {Imm2(op, segmented, long)}
    [] sel \in {"DA", "X"} -> seg_addr_op(1, segmented, long)
    [] sel \in {"PCRel", "Based", "BX"} -> {1}
    [] OTHER -> {}

Unified(op, w, segmented, long) ==
  LET of(sel) == WordsOf(sel, op, w, segmented, long)
  IN  CASE w.src2 \in Memory /\ w.dst \in Memory \cup {"FlagsOnly"} -> of(w.src2) \cup of(w.count)
        [] w.src2 \notin Memory /\ w.dst \in Memory -> of(w.src2) \cup of(w.dst)
        [] OTHER -> of(w.src2)

Reads(op, w, segmented, long) ==
  CASE w.exec = "Unified" -> Unified(op, w, segmented, long)
    [] w.exec \in {"MulDiv", "LEA", "Exchange", "Branch", "LDPS"} ->
         WordsOf(w.src2, op, w, segmented, long)
    [] w.exec = "Stack" -> IF w.how = "PushImm" THEN {1}
                           ELSE WordsOf(w.src2, op, w, segmented, long)
    [] w.exec = "LDM" -> {1} \cup (IF w.src2 = "IR" THEN {} ELSE seg_addr_op(2, segmented, long))
    [] w.exec = "IO" -> IF w.src2 = "IR" THEN {} ELSE {1}
    [] w.exec \in {"Shift", "Block", "BitDynamic"} -> {1}
    [] OTHER -> {}

-----------------------------------------------------------------------------
(* What the executor takes each nibble of the first word for.              *)
UsesAddressNib == {"IR", "X", "Based", "BX"}
UnifiedRoles(w) ==
  LET store == w.src2 \notin Memory /\ w.dst \in Memory
  IN  {<<w.src2_nib, "address">> : a \in {w.src2} \cap UsesAddressNib}
      \cup {<<w.src2_nib, "source">> : a \in {w.src2} \cap {"Reg"}}
      \cup {<<w.dst_nib, "address">> : a \in {w.dst} \cap (IF store THEN UsesAddressNib ELSE {})}
      \cup {<<w.dst_nib, "result">> : a \in {w.dst} \cap {"Reg"}}
      \cup {<<w.src1_nib, "result">> : a \in {w.acc} \cap {TRUE}}
      \cup {<<"nib3", "count">> : a \in {w.src2, w.count} \cap {"Nib3"}}
      \cup {<<n, "immediate">> : n \in IF w.src2 = "OpLoByte" THEN {"nib2", "nib3"} ELSE {}}

(* The blocks whose sub-decoder looks at n3.                               *)
ByNib3 == {\h0C, \h0D, \h1C, \h3A, \h3B, \h4C, \h4D, \h5C, \h8C, \h8D, \h9C, \hB1, \hB2, \hB3,
           \hB8, \hBA, \hBB}

Roles(op, w) ==
  {<<"nib3", "selector">> : a \in {op.hi} \cap ByNib3}
  \cup (CASE w.exec = "Unified" -> UnifiedRoles(w)
         [] w.exec = "MulDiv" ->
              {<<"nib3", "result">>}
              \cup {<<"nib2", "source">> : a \in {w.src2} \cap {"Reg"}}
              \cup {<<w.src2_nib, "address">> : a \in {w.src2} \cap UsesAddressNib}
         [] w.exec = "LEA" ->
              {<<"nib3", "result">>}
              \cup {<<w.src2_nib, "address">> : a \in {w.src2} \cap UsesAddressNib}
         [] w.exec = "Stack" ->
              {<<"nib2", "pointer">>}
              \cup {<<w.src2_nib, "address">> : a \in {w.src2} \cap UsesAddressNib}
              \cup {<<w.src2_nib, "data">> : a \in {w.src2} \cap {"Reg"}}
         [] w.exec = "Branch" /\ w.how # "inline" ->
              {<<"nib2", "address">> : a \in {w.src2} \cap {"IR", "X"}}
              \cup {<<"nib3", "condition">> : a \in {w.how} \cap {"cc"}}
         [] w.exec = "Exchange" -> {<<"nib2", "first">>, <<"nib3", "second">>}
         [] w.exec = "IO" -> IF w.src2 = "IR" THEN {<<"nib2", "port">>, <<"nib3", "data">>}
                             ELSE {<<"nib2", "data">>}
         [] w.exec \in {"LDM", "LDPS", "Block"} -> {<<"nib2", "address">>}
         [] w.exec \in {"Shift", "DAB", "Exts", "LDCTL"} -> {<<"nib2", "result">>}
         [] w.exec = "TCC" -> {<<"nib2", "result">>, <<"nib3", "condition">>}
         [] w.exec = "BCDRotate" -> {<<"nib2", "source">>, <<"nib3", "result">>}
         [] w.exec = "BitDynamic" -> {<<"nib3", "count">>}
         [] w.exec = "FcwOp" -> {<<"nib2", w.how>>}
         [] OTHER -> {})

(* Decoded, with the words the instruction is taken to have: what the      *)
(* executor starts from (the middle of cpu_step).                          *)
Fetched(op, segmented, long) ==
  [w |-> decode_lookup(op), oplen |-> OpLen(op, segmented, long)]
=============================================================================
