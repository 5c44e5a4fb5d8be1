-------------------------------- MODULE Cpu --------------------------------
(***************************************************************************)
(* Traps, interrupts and the two stack-pointer banks of the Z8001 (cpu.c). *)
(*                                                                         *)
(* cpu_step either takes one pending trap or executes one instruction.     *)
(* Only one bank of stack pointers is live in R14/R15; the other waits in  *)
(* nspseg/nspoff, and change_fcw exchanges them.  A register is modelled   *)
(* by the mode its value belongs to, "S"ystem or "N"ormal, and for R15 by  *)
(* the number of trap frames on that mode's stack (a handler pops what it  *)
(* pushed before it returns, so only trap frames are counted).  Memory is  *)
(* the stack each pair of segment and offset owners addresses.             *)
(*                                                                         *)
(* Nothing in the emulator drives the NMI, NVI or segment-trap lines of    *)
(* the CPU, so only the vectored interrupt line appears.                   *)
(***************************************************************************)
EXTENDS Integers, Sequences

CONSTANTS
  NPc,         \* instruction addresses, 0 .. NPc - 1
  Psa,         \* what the guest put in the program status area, per source
  GuestFcws,   \* FCW values in the guest's memory, for LDCTL, LDPS and IRET
  Vectors,     \* bytes devices supply on a vectored interrupt
  MaxFrames,   \* bound: trap frames nested on the system stack
  NonSegNsp    \* does system software load NSPSEG in non-segmented mode?

Bits     == {"SN", "SEG", "VIE"}
Internal == {"EPU", "TRAP", "SYSCALL"}
Sources  == Internal \cup {"SEGTRAP", "VI"}
Ops      == {"illegal", "privileged", "syscall", "other"}
Pc       == 0 .. NPc - 1
Owner    == {"S", "N"}
Sp       == [own : Owner, d : 0 .. MaxFrames]
Bank     == [r14 : Owner, r15 : Sp, nspseg : Owner, nspoff : Sp]
Tag      == Ops \cup Vectors \cup {"none"}
Frame    == [pc : Pc, fcw : SUBSET Bits, tag : Tag]

ASSUME CpuAssumption ==
  /\ NPc \in Nat \ {0}
  /\ MaxFrames \in Nat \ {0}
  /\ Psa \in [Sources -> [fcw : SUBSET Bits, pc : Pc]]
  /\ GuestFcws \subseteq SUBSET Bits
  /\ NonSegNsp \in BOOLEAN

VARIABLES
  fcw, pc, bank, halted,   \* registers
  cur_op,                  \* opcode of the executing instruction, the trap tag
  irq_req,                 \* latched requests
  serviced,                \* source taken by the last step, "none" if none
  vi_line, vi_vector,      \* driven by the machine loop
  mem,                     \* stack words, by the owners of the address halves
  ctx                      \* history: the contexts that were interrupted

cpu  == <<fcw, pc, bank, halted, cur_op, irq_req, serviced>>
vars == <<cpu, vi_line, vi_vector, mem, ctx>>

-----------------------------------------------------------------------------
(* change_fcw: the bank exchange.                                          *)

SwapOff(b) == [b EXCEPT !.r15 = b.nspoff, !.nspoff = b.r15]
SwapSeg(b) == [b EXCEPT !.r14 = b.nspseg, !.nspseg = b.r14]

Toggles(bit, of, nf) == (bit \in of) # (bit \in nf)

(* Mutant: the segment half is exchanged on every mode change.             *)
SegSwaps_on_mode_change(of, nf) == Toggles("SN", of, nf)

(* R14 moves on entry to system mode, on a change of SEG inside system     *)
(* mode, and on leaving segmented system mode.                             *)
SegSwaps(of, nf) ==
  \/ "SN" \in nf /\ ("SN" \notin of \/ Toggles("SEG", of, nf))
  \/ "SN" \notin nf /\ "SN" \in of /\ "SEG" \in of

ChangeFcw(b, of, nf) ==
  LET c == IF Toggles("SN", of, nf) THEN SwapOff(b) ELSE b
  IN  IF SegSwaps(of, nf) THEN SwapSeg(c) ELSE c

(* The system stack pointer, wherever it is.                               *)
SysDepth(b) == IF b.r15.own = "S" THEN b.r15.d ELSE b.nspoff.d

-----------------------------------------------------------------------------
(* handle_interrupts.                                                      *)

Sampled == irq_req \cup (IF vi_line /\ "VIE" \in fcw THEN {"VI"} ELSE {})

(* EPU > TRAP > SYSCALL > SEGTRAP > VI, and VI only while enabled.         *)
Selected ==
  IF "EPU" \in Sampled      THEN "EPU"     ELSE
  IF "TRAP" \in Sampled     THEN "TRAP"    ELSE
  IF "SYSCALL" \in Sampled  THEN "SYSCALL" ELSE
  IF "SEGTRAP" \in Sampled  THEN "SEGTRAP" ELSE
  IF "VI" \in Sampled /\ "VIE" \in fcw THEN "VI" ELSE "none"

TagOf(src) == IF src \in Internal THEN cur_op ELSE
              IF src = "VI" THEN vi_vector ELSE "none"

Addr(b) == <<b.r14, b.r15.own>>

(* Store a frame below the stack pointer in b.                             *)
Pushed(b, frame) ==
  [mem EXCEPT ![Addr(b)] = Append(SubSeq(@, 1, b.r15.d), frame)]

(* The trap is entered in segmented system mode, so that the frame lands   *)
(* on the system stack.                                                    *)
EntryFcw == fcw \cup {"SN", "SEG"}

(* Mutant: the frame goes out before the system bank is switched in.       *)
EntryBank_unswitched == bank

EntryBank == ChangeFcw(bank, fcw, EntryFcw)

(* Mutant: the FCW pushed is the one already changed for the entry.        *)
SavedFcw_of_entry == EntryFcw

SavedFcw == fcw

(* Mutant: taking one request forgets the others.                          *)
StillRequested_none(src) == {}

StillRequested(src) == Sampled \ {src}

TakeInterrupt ==
  LET src   == Selected
      frame == [pc |-> pc, fcw |-> SavedFcw, tag |-> TagOf(src)]
      below == [EntryBank EXCEPT !.r15.d = @ + 1]
  IN  /\ src # "none" /\ SysDepth(bank) < MaxFrames
      /\ mem' = Pushed(EntryBank, frame)
      /\ bank' = ChangeFcw(below, EntryFcw, Psa[src].fcw)
      /\ fcw' = Psa[src].fcw /\ pc' = Psa[src].pc
      /\ irq_req' = StillRequested(src) /\ serviced' = src /\ halted' = FALSE
      /\ ctx' = Append(ctx, [pc |-> pc, fcw |-> fcw, bank |-> bank])
      /\ UNCHANGED <<cur_op, vi_line, vi_vector>>

-----------------------------------------------------------------------------
(* cpu_step: one instruction.  Every request an instruction raises waits   *)
(* for the next boundary.                                                  *)

PcNext == (pc + 1) % NPc

(* Mutant: an instruction starts although a trap is pending.               *)
Boundary_ignores_requests == ~halted

(* No trap was taken and the CPU is running.                               *)
Boundary == Selected = "none" /\ ~halted

(* Room on the bounded system stack for what is pending and one more.      *)
Room == SysDepth(bank) < MaxFrames - 1

Executes(op) == Boundary /\ cur_op' = op /\ serviced' = "none"
                /\ UNCHANGED <<vi_line, vi_vector>>

(* The requests left by an instruction whose memory cycles did mmu, one of *)
(* "ok", "warn" (the write proceeds) and "fault" (it does not).            *)
Raise(reqs, mmu) ==
  irq_req' = Sampled \cup reqs \cup (IF mmu = "ok" THEN {} ELSE {"SEGTRAP"})

(* A faulting instruction continues after itself even if it branched.      *)
Continue(target, mmu) == pc' = IF mmu = "fault" THEN PcNext ELSE target

(* The MMU's part in an instruction that raises no trap of its own: in its *)
(* fetches, its operands, and in the warning a trap frame left pending.    *)
Cycles(target, mmu) ==
  Continue(target, mmu) /\ Raise({}, mmu) /\ (mmu # "ok" => Room)

(* An unrecognised encoding.  Its fetches may have faulted; cpu_step       *)
(* returns before it looks.                                                *)
Illegal ==
  /\ Executes("illegal") /\ Room
  /\ pc' = PcNext /\ Raise({"EPU"}, "ok")
  /\ UNCHANGED <<fcw, bank, halted, mem, ctx>>

(* check_priv refuses a privileged instruction in normal mode.             *)
Refused(mmu) ==
  /\ Executes("privileged") /\ Room /\ "SN" \notin fcw
  /\ pc' = PcNext /\ Raise({"TRAP"}, mmu)
  /\ UNCHANGED <<fcw, bank, halted, mem, ctx>>

SystemCall(mmu) ==
  /\ Executes("syscall") /\ Room
  /\ pc' = PcNext /\ Raise({"SYSCALL"}, mmu)
  /\ UNCHANGED <<fcw, bank, halted, mem, ctx>>

(* Any instruction that leaves FCW's mode bits and the banks alone.        *)
Ordinary(target, mmu) ==
  /\ Executes("other") /\ Cycles(target, mmu)
  /\ UNCHANGED <<fcw, bank, halted, mem, ctx>>

Privileged == Executes("other") /\ "SN" \in fcw

Halt(mmu) ==
  /\ Privileged
  /\ halted' = TRUE /\ Cycles(PcNext, mmu)
  /\ UNCHANGED <<fcw, bank, mem, ctx>>

(* EI and DI.                                                              *)
FcwOp(on, mmu) ==
  /\ Privileged
  /\ fcw' = IF on THEN fcw \cup {"VIE"} ELSE fcw \ {"VIE"}
  /\ Cycles(PcNext, mmu)
  /\ UNCHANGED <<bank, halted, mem, ctx>>

(* LDCTL FCW and LDPS install a new FCW; LDPS also a PC read from memory.  *)
LoadFcw(nf, target, mmu) ==
  /\ Privileged /\ Cycles(target, mmu)
  /\ bank' = ChangeFcw(bank, fcw, nf) /\ fcw' = nf
  /\ UNCHANGED <<halted, mem, ctx>>

(* The history follows a normal stack pointer the kernel replaces.         *)
Retarget(b, sp) ==
  [b EXCEPT !.r15 = IF @.own = "N" THEN sp ELSE @,
            !.nspoff = IF @.own = "N" THEN sp ELSE @]

(* LDCTL NSPOFF: a new stack for the normal-mode program.                  *)
LdctlNspOff(d, mmu) ==
  LET sp == [own |-> "N", d |-> d]
  IN  /\ Privileged
      /\ bank' = [bank EXCEPT !.nspoff = sp]
      /\ ctx' = [i \in 1 .. Len(ctx) |->
                   [ctx[i] EXCEPT !.bank = Retarget(@, sp)]]
      /\ Cycles(PcNext, mmu)
      /\ UNCHANGED <<fcw, halted, mem>>

(* LDCTL NSPSEG: the value written is a normal-mode segment.               *)
LdctlNspSeg(mmu) ==
  /\ Privileged /\ ("SEG" \in fcw \/ NonSegNsp)
  /\ bank' = [bank EXCEPT !.nspseg = "N"]
  /\ Cycles(PcNext, mmu)
  /\ UNCHANGED <<fcw, halted, mem, ctx>>

(* IRET in segmented mode pops tag, FCW and PC; change_fcw comes last.     *)
(* The words above the stack pointer are dead and dropped.  A pop the MMU  *)
(* denies is made all the same: the stack pointer moves, and what is read  *)
(* is a word the guest keeps at the untranslated address, if the FCW's pop *)
(* is denied.  The FCW read is installed with its banks, and the fault     *)
(* then overrides the PC.                                                  *)
Iret(mmu) ==
  LET frame == mem[Addr(bank)][bank.r15.d]
  IN  /\ Privileged /\ "SEG" \in fcw
      /\ bank.r15.d \in 1 .. Len(mem[Addr(bank)]) /\ ctx # <<>>
      /\ Continue(frame.pc, mmu) /\ Raise({}, mmu)
      /\ mmu # "ok" => SysDepth(bank) < MaxFrames
      /\ fcw' \in {frame.fcw} \cup IF mmu = "fault" THEN GuestFcws ELSE {}
      /\ bank' = ChangeFcw([bank EXCEPT !.r15.d = @ - 1], fcw, fcw')
      /\ mem' = [mem EXCEPT ![Addr(bank)] = SubSeq(@, 1, bank.r15.d - 1)]
      /\ ctx' = SubSeq(ctx, 1, Len(ctx) - 1)
      /\ UNCHANGED halted

(* IRET in non-segmented mode reads the segment the PC is in, where the    *)
(* guest keeps three words of its own.                                     *)
IretNonSeg(nf, target, mmu) ==
  /\ Privileged /\ "SEG" \notin fcw /\ Cycles(target, mmu)
  /\ fcw' = nf /\ bank' = ChangeFcw(bank, fcw, nf)
  /\ UNCHANGED <<halted, mem, ctx>>

(* A halted CPU idles until an interrupt is selected.                      *)
Idle ==
  /\ Selected = "none" /\ halted
  /\ serviced' = "none" /\ irq_req' = Sampled
  /\ UNCHANGED <<fcw, pc, bank, halted, cur_op, vi_line, vi_vector, mem, ctx>>

(* Between steps the machine loop sets the interrupt line and vector.      *)
DriveLine(on, v) ==
  /\ on => SysDepth(bank) < MaxFrames
  /\ vi_line' = on /\ vi_vector' = IF on THEN v ELSE vi_vector
  /\ UNCHANGED <<cpu, mem, ctx>>

-----------------------------------------------------------------------------
SystemBank == [r14 |-> "S", r15 |-> [own |-> "S", d |-> 0],
               nspseg |-> "N", nspoff |-> [own |-> "N", d |-> 0]]

(* cpu_reset: the ROM's reset vector enters segmented system mode.         *)
Init ==
  /\ fcw = {"SN", "SEG"} /\ pc = 0 /\ bank = SystemBank /\ halted = FALSE
  /\ cur_op = "other" /\ irq_req = {} /\ serviced = "none"
  /\ vi_line = FALSE /\ vi_vector = "none"
  /\ mem = [a \in Owner \X Owner |-> <<>>] /\ ctx = <<>>

Outcomes == {"ok", "warn", "fault"}

Execute ==
  \/ Illegal
  \/ \E mmu \in Outcomes :
       \/ Refused(mmu) \/ SystemCall(mmu) \/ Halt(mmu)
       \/ LdctlNspSeg(mmu) \/ Iret(mmu)
       \/ \E t \in Pc : Ordinary(t, mmu)
       \/ \E on \in BOOLEAN : FcwOp(on, mmu)
       \/ \E nf \in GuestFcws, t \in Pc : LoadFcw(nf, t, mmu) \/ IretNonSeg(nf, t, mmu)
       \/ \E d \in 0 .. 1 : LdctlNspOff(d, mmu)   \* the old stack or another one

Next ==
  \/ TakeInterrupt
  \/ Execute
  \/ Idle
  \/ \E on \in BOOLEAN, v \in Vectors : DriveLine(on, v)

Spec == Init /\ [][Next]_vars

(* The machine loop calls cpu_step again and again, so a step that takes a *)
(* pending trap is not put off for ever.                                   *)
FairSpec == Spec /\ WF_vars(TakeInterrupt)

-----------------------------------------------------------------------------
(* Every register holds a value of its kind.                               *)
TypeOK ==
  /\ fcw \in SUBSET Bits /\ pc \in Pc /\ bank \in Bank /\ halted \in BOOLEAN
  /\ cur_op \in Ops /\ irq_req \in SUBSET Sources
  /\ serviced \in Sources \cup {"none"}
  /\ vi_line \in BOOLEAN /\ vi_vector \in Vectors \cup {"none"}
  /\ mem \in [Owner \X Owner -> Seq(Frame)]
  /\ ctx \in Seq([pc : Pc, fcw : SUBSET Bits, bank : Bank])

WellBanked(b, f) ==
  /\ b.r15.own = IF "SN" \in f THEN "S" ELSE "N"
  /\ b.r14 = IF "SN" \in f /\ "SEG" \in f THEN "S" ELSE "N"
  /\ b.nspoff.own # b.r15.own
  /\ b.nspseg # b.r14

(* change_fcw keeps each mode's stack pointer with its mode: R15 is the    *)
(* system's exactly in system mode, R14 exactly in segmented system mode,  *)
(* and the saved registers hold the other one.  Leaving normal mode for    *)
(* anything but segmented system mode would break this, and only           *)
(* handle_interrupts, which sets both bits first, leaves normal mode.      *)
BankOwner == WellBanked(bank, fcw)

(* Trap frames live on the system stack and nowhere else, and the frame at *)
(* every depth is the context that was interrupted there.                  *)
FramesIntact ==
  /\ Len(ctx) = SysDepth(bank)
  /\ Len(ctx) = Len(mem[<<"S", "S">>])
  /\ \A i \in 1 .. Len(ctx) : /\ mem[<<"S", "S">>][i].pc = ctx[i].pc
                              /\ mem[<<"S", "S">>][i].fcw = ctx[i].fcw

(* The normal stack pointer, wherever it is.                               *)
NormalSp(b) == IF b.r15.own = "N" THEN b.r15 ELSE b.nspoff

(* Every interrupted context, also those deeper in the nesting, could be   *)
(* resumed from the present registers: its banks are those of its mode,    *)
(* its system stack ends where its frame begins and its normal stack       *)
(* pointer is the one now kept.                                            *)
ContextsResumable ==
  \A i \in 1 .. Len(ctx) :
    /\ WellBanked(ctx[i].bank, ctx[i].fcw)
    /\ SysDepth(ctx[i].bank) = i - 1
    /\ NormalSp(ctx[i].bank) = NormalSp(bank)

(* IRET resumes the innermost interrupted context: its PC, its FCW and     *)
(* both of its stack pointers, through any nesting of traps and any mode   *)
(* the handlers switched to meanwhile.  When the MMU denies a pop, the     *)
(* stack pointers are those of that context all the same, but the popped   *)
(* PC is lost: cpu_step goes on after the IRET, in the mode of whatever    *)
(* FCW was read, with a segment trap requested.                            *)
IretRestores ==
  [][\A mmu \in Outcomes :
       Iret(mmu) =>
         LET c == ctx[Len(ctx)]
         IN  /\ SysDepth(bank') = SysDepth(c.bank)
             /\ NormalSp(bank') = NormalSp(c.bank)
             /\ mmu # "fault" => pc' = c.pc /\ fcw' = c.fcw /\ bank' = c.bank
             /\ mmu = "fault" => pc' = PcNext /\ "SEGTRAP" \in irq_req']_vars

(* The tag pushed for an internal trap is the opcode that raised it: no    *)
(* instruction runs between the request and the trap, so cur_op is not     *)
(* overwritten.                                                            *)
TagFaithful ==
  /\ "EPU" \in irq_req => cur_op = "illegal"
  /\ "TRAP" \in irq_req => cur_op = "privileged"
  /\ "SYSCALL" \in irq_req => cur_op = "syscall"

(* A requested trap is taken: requests do not starve behind one another.   *)
TrapsTaken ==
  \A s \in Internal \cup {"SEGTRAP"} : s \in irq_req ~> serviced = s

============================================================================
