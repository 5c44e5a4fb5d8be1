----------------------------- MODULE CpuProofs -----------------------------
(***************************************************************************)
(* Proofs about Cpu for any program status area, any FCW values loaded by  *)
(* system software and any nesting bound, provided system software loads   *)
(* NSPSEG only in segmented mode.  The inductive invariant joins the bank  *)
(* discipline with the frames on the system stack and the interrupted      *)
(* contexts they came from.  The second part is about BlockOp.             *)
(***************************************************************************)
EXTENDS Cpu, BlockOp, SequenceTheorems, TLAPS

IInv == /\ TypeOK /\ BankOwner /\ FramesIntact /\ ContextsResumable
        /\ TagFaithful

Context == [pc : Pc, fcw : SUBSET Bits, bank : Bank]

(* change_fcw moves each stack pointer to where the new mode looks for it  *)
(* and changes neither, except on the way from normal to non-segmented     *)
(* system mode.                                                            *)
LEMMA ChangeFcwSound ==
  ASSUME NEW b \in Bank, NEW of \in SUBSET Bits, NEW nf \in SUBSET Bits,
         WellBanked(b, of),
         "SN" \in of \/ "SN" \notin nf \/ "SEG" \in nf
  PROVE  /\ ChangeFcw(b, of, nf) \in Bank
         /\ WellBanked(ChangeFcw(b, of, nf), nf)
         /\ SysDepth(ChangeFcw(b, of, nf)) = SysDepth(b)
         /\ NormalSp(ChangeFcw(b, of, nf)) = NormalSp(b)
<1>1. /\ b.r14 \in {"S", "N"} /\ b.nspseg \in {"S", "N"}
      /\ b.r15 \in Sp /\ b.nspoff \in Sp
      /\ b.r15.own \in {"S", "N"} /\ b.nspoff.own \in {"S", "N"}
  BY DEF Bank, Sp, Owner
<1> DEFINE c == IF Toggles("SN", of, nf) THEN SwapOff(b) ELSE b
           e == ChangeFcw(b, of, nf)
<1>2. /\ c \in Bank /\ c.r14 = b.r14 /\ c.nspseg = b.nspseg
      /\ c.r15 = IF Toggles("SN", of, nf) THEN b.nspoff ELSE b.r15
      /\ c.nspoff = IF Toggles("SN", of, nf) THEN b.r15 ELSE b.nspoff
  BY <1>1 DEF SwapOff, Bank
<1> HIDE DEF c
<1>3. e = IF SegSwaps(of, nf) THEN SwapSeg(c) ELSE c
  BY DEF ChangeFcw, c
<1>4. /\ e \in Bank /\ e.r15 = c.r15 /\ e.nspoff = c.nspoff
      /\ e.r14 = IF SegSwaps(of, nf) THEN b.nspseg ELSE b.r14
      /\ e.nspseg = IF SegSwaps(of, nf) THEN b.r14 ELSE b.nspseg
  BY <1>2, <1>3 DEF SwapSeg, Bank
<1> HIDE DEF e
<1>5. e.r15.own = (IF "SN" \in nf THEN "S" ELSE "N") /\ e.nspoff.own # e.r15.own
  BY <1>1, <1>2, <1>4 DEF WellBanked, Toggles
<1>6. e.r14 = (IF "SN" \in nf /\ "SEG" \in nf THEN "S" ELSE "N")
        /\ e.nspseg # e.r14
  BY <1>1, <1>4 DEF WellBanked, Toggles, SegSwaps
<1>7. SysDepth(e) = SysDepth(b) /\ NormalSp(e) = NormalSp(b)
  BY <1>1, <1>2, <1>4 DEF WellBanked, SysDepth, NormalSp
<1> QED
  BY <1>4, <1>5, <1>6, <1>7 DEF WellBanked, e

(* The mode, the depth of the system stack and the normal stack pointer    *)
(* determine all four registers.                                           *)
LEMMA BankDetermined ==
  ASSUME NEW a \in Bank, NEW b \in Bank, NEW f,
         WellBanked(a, f), WellBanked(b, f),
         SysDepth(a) = SysDepth(b), NormalSp(a) = NormalSp(b)
  PROVE  a = b
<1>1. /\ a.r14 \in {"S", "N"} /\ a.nspseg \in {"S", "N"}
      /\ a.r15.own \in {"S", "N"} /\ a.nspoff.own \in {"S", "N"}
      /\ b.r14 \in {"S", "N"} /\ b.nspseg \in {"S", "N"}
      /\ b.r15.own \in {"S", "N"} /\ b.nspoff.own \in {"S", "N"}
      /\ a.r15 \in Sp /\ a.nspoff \in Sp /\ b.r15 \in Sp /\ b.nspoff \in Sp
  BY DEF Bank, Sp, Owner
<1>2. a.r14 = b.r14 /\ a.nspseg = b.nspseg
  BY <1>1 DEF WellBanked
<1>3. a.r15.own = b.r15.own /\ a.nspoff.own = b.nspoff.own
  BY <1>1 DEF WellBanked
<1>4. a.r15.d = b.r15.d /\ a.nspoff.d = b.nspoff.d
  BY <1>1, <1>3 DEF WellBanked, SysDepth, NormalSp
<1>5. a.r15 = b.r15 /\ a.nspoff = b.nspoff
  BY <1>1, <1>3, <1>4 DEF Sp
<1> QED
  BY <1>2, <1>5 DEF Bank

(* An instruction starts only when no internal trap and no segment trap is *)
(* pending.                                                                *)
LEMMA BoundaryClean ==
  ASSUME TypeOK, Boundary
  PROVE  Sampled \subseteq {"VI"} /\ Sampled \in SUBSET Sources
BY DEF Boundary, Selected, Sampled, TypeOK, Sources, Internal

LEMMA PcNextType ==
  ASSUME pc \in Pc
  PROVE  PcNext \in Pc
BY CpuAssumption DEF PcNext, Pc

LEMMA InitIInv == Init => IInv
<1> SUFFICES ASSUME Init PROVE IInv
  OBVIOUS
<1>1. SystemBank \in Bank /\ SysDepth(SystemBank) = 0
  BY CpuAssumption DEF SystemBank, Bank, Sp, Owner, SysDepth
<1>2. TypeOK
  <2>1. fcw \in SUBSET Bits /\ pc \in Pc /\ bank \in Bank
    BY <1>1, CpuAssumption DEF Init, Bits, Pc
  <2>2. /\ halted \in BOOLEAN /\ cur_op \in Ops /\ irq_req \in SUBSET Sources
        /\ serviced \in Sources \cup {"none"} /\ vi_line \in BOOLEAN
        /\ vi_vector \in Vectors \cup {"none"}
    BY DEF Init, Ops
  <2>3. mem \in [Owner \X Owner -> Seq(Frame)]
    BY DEF Init
  <2>4. ctx \in Seq([pc : Pc, fcw : SUBSET Bits, bank : Bank])
    BY DEF Init
  <2> QED
    BY <2>1, <2>2, <2>3, <2>4 DEF TypeOK
<1>3. BankOwner
  BY DEF Init, BankOwner, WellBanked, SystemBank
<1>4. Len(ctx) = 0 /\ Len(mem[<<"S", "S">>]) = 0
  BY DEF Init, Owner
<1>5. FramesIntact /\ ContextsResumable
  BY <1>1, <1>4 DEF Init, FramesIntact, ContextsResumable
<1>6. TagFaithful
  BY DEF Init, TagFaithful
<1> QED
  BY <1>2, <1>3, <1>5, <1>6 DEF IInv

(* A trap pushes the interrupted context on the system stack.              *)
LEMMA TakeInterruptIInv ==
  ASSUME IInv, TakeInterrupt
  PROVE  IInv'
<1> DEFINE src   == Selected
           frame == [pc |-> pc, fcw |-> SavedFcw, tag |-> TagOf(src)]
           c     == [pc |-> pc, fcw |-> fcw, bank |-> bank]
           e     == EntryBank
           below == [e EXCEPT !.r15.d = @ + 1]
<1>1. TypeOK /\ WellBanked(bank, fcw) /\ FramesIntact /\ ContextsResumable
        /\ TagFaithful
  BY DEF IInv, BankOwner
<1>2. src \in Sources /\ Psa[src].fcw \in SUBSET Bits /\ Psa[src].pc \in Pc
  BY CpuAssumption DEF Selected, Sources, Internal, TakeInterrupt
<1>3. EntryFcw \in SUBSET Bits /\ "SN" \in EntryFcw /\ "SEG" \in EntryFcw
  BY <1>1 DEF EntryFcw, TypeOK, Bits
<1>4. /\ e \in Bank /\ WellBanked(e, EntryFcw)
      /\ SysDepth(e) = SysDepth(bank) /\ NormalSp(e) = NormalSp(bank)
  BY <1>1, <1>3, ChangeFcwSound DEF EntryBank, TypeOK
<1>5. e.r14 = "S" /\ e.r15.own = "S" /\ e.nspoff.own = "N" /\ e.nspseg = "N"
  BY <1>3, <1>4 DEF WellBanked, Bank, Sp, Owner
<1>6. e.r15.d = Len(ctx) /\ Len(ctx) < MaxFrames /\ Len(ctx) \in Nat
  BY <1>1, <1>4, <1>5 DEF SysDepth, FramesIntact, TakeInterrupt, TypeOK
<1>7. /\ below \in Bank /\ WellBanked(below, EntryFcw)
      /\ SysDepth(below) = Len(ctx) + 1 /\ NormalSp(below) = NormalSp(bank)
  <2>1. below = [e EXCEPT !.r15 = [own |-> "S", d |-> Len(ctx) + 1]]
    BY <1>4, <1>5, <1>6 DEF Bank, Sp
  <2>2. [own |-> "S", d |-> Len(ctx) + 1] \in Sp
    BY <1>6, CpuAssumption DEF Sp, Owner
  <2> HIDE DEF below, e
  <2>3. /\ below \in Bank /\ below.r15.own = "S" /\ below.r15.d = Len(ctx) + 1
        /\ below.nspoff = e.nspoff /\ below.r14 = e.r14 /\ below.nspseg = e.nspseg
    BY <1>4, <2>1, <2>2 DEF Bank
  <2> QED
    BY <1>3, <1>4, <1>5, <2>3 DEF WellBanked, SysDepth, NormalSp
<1>8. bank' = ChangeFcw(below, EntryFcw, Psa[src].fcw) /\ fcw' = Psa[src].fcw
        /\ pc' = Psa[src].pc
  BY DEF TakeInterrupt
<1> HIDE DEF below, e
<1>9. /\ bank' \in Bank /\ WellBanked(bank', fcw')
      /\ SysDepth(bank') = Len(ctx) + 1 /\ NormalSp(bank') = NormalSp(bank)
  BY <1>2, <1>3, <1>7, <1>8, ChangeFcwSound
<1>10. frame \in Frame
  BY <1>1, <1>2 DEF Frame, SavedFcw, TagOf, Tag, TypeOK, Sources, Internal, Ops
<1>11. c \in Context
  BY <1>1 DEF Context, TypeOK
<1> DEFINE s == mem[<<"S", "S">>]
<1>12. s \in Seq(Frame) /\ Len(s) = Len(ctx)
  BY <1>1 DEF TypeOK, Owner, FramesIntact
<1>13. SubSeq(s, 1, Len(ctx)) = s
  BY <1>12
<1>14. mem' = [mem EXCEPT ![<<"S", "S">>] = Append(s, frame)]
  <2>1. mem' = [mem EXCEPT ![Addr(e)] = Append(SubSeq(mem[Addr(e)], 1, e.r15.d), frame)]
    BY DEF TakeInterrupt, Pushed, e
  <2> QED
    BY <1>5, <1>6, <1>13, <2>1 DEF Addr
<1> HIDE DEF frame, c, src
<1>15. mem' \in [Owner \X Owner -> Seq(Frame)] /\ mem'[<<"S", "S">>] = Append(s, frame)
  BY <1>1, <1>10, <1>12, <1>14 DEF TypeOK, Owner
<1>16. ctx' = Append(ctx, c) /\ ctx \in Seq(Context)
  BY <1>1 DEF TakeInterrupt, c, TypeOK, Context
<1>17. ctx' \in Seq(Context) /\ Len(ctx') = Len(ctx) + 1
  BY <1>11, <1>16
<1>18. /\ halted' = FALSE /\ cur_op' = cur_op /\ serviced' = src
       /\ irq_req' = Sampled \ {src}
       /\ vi_line' = vi_line /\ vi_vector' = vi_vector
  BY DEF TakeInterrupt, StillRequested, src
<1>19. irq_req' \in SUBSET Sources /\ irq_req' \subseteq irq_req \cup {"VI"}
  BY <1>1, <1>18 DEF Sampled, TypeOK, Sources
<1>20. TypeOK'
  BY <1>1, <1>2, <1>8, <1>9, <1>15, <1>17, <1>18, <1>19 DEF TypeOK, Context
<1>21. FramesIntact'
  <2>1. Len(mem'[<<"S", "S">>]) = Len(ctx')
    BY <1>10, <1>12, <1>15, <1>17
  <2>2. ASSUME NEW i \in 1 .. Len(ctx')
        PROVE  /\ mem'[<<"S", "S">>][i].pc = ctx'[i].pc
               /\ mem'[<<"S", "S">>][i].fcw = ctx'[i].fcw
    <3>1. CASE i \in 1 .. Len(ctx)
      <4>1. mem'[<<"S", "S">>][i] = s[i] /\ ctx'[i] = ctx[i]
        BY <1>10, <1>11, <1>12, <1>15, <1>16, <3>1
      <4> QED
        BY <1>1, <3>1, <4>1 DEF FramesIntact
    <3>2. CASE i = Len(ctx) + 1
      <4>1. mem'[<<"S", "S">>][i] = frame /\ ctx'[i] = c
        BY <1>10, <1>11, <1>12, <1>15, <1>16, <3>2
      <4> QED
        BY <4>1 DEF frame, c, SavedFcw
    <3> QED
      BY <1>6, <1>17, <3>1, <3>2
  <2> QED
    BY <1>9, <1>17, <2>1, <2>2 DEF FramesIntact
<1>22. ContextsResumable'
  <2>1. ASSUME NEW i \in 1 .. Len(ctx')
        PROVE  /\ WellBanked(ctx'[i].bank, ctx'[i].fcw)
               /\ SysDepth(ctx'[i].bank) = i - 1
               /\ NormalSp(ctx'[i].bank) = NormalSp(bank')
    <3>1. CASE i \in 1 .. Len(ctx)
      <4>1. ctx'[i] = ctx[i]
        BY <1>11, <1>16, <3>1
      <4> QED
        BY <1>1, <1>9, <3>1, <4>1 DEF ContextsResumable
    <3>2. CASE i = Len(ctx) + 1
      <4>1. ctx'[i] = c
        BY <1>11, <1>16, <3>2
      <4>2. c.bank = bank /\ c.fcw = fcw
        BY DEF c
      <4>3. SysDepth(bank) = i - 1
        BY <1>1, <1>6, <3>2 DEF FramesIntact
      <4>4. ctx'[i].bank = bank /\ ctx'[i].fcw = fcw
        BY <4>1, <4>2
      <4> QED
        BY <1>1, <1>9, <4>3, <4>4
    <3> QED
      BY <1>6, <1>17, <3>1, <3>2
  <2> QED
    BY <2>1 DEF ContextsResumable
<1>23. TagFaithful'
  BY <1>1, <1>18, <1>19 DEF TagFaithful
<1> QED
  BY <1>9, <1>20, <1>21, <1>22, <1>23 DEF IInv, BankOwner

(* What every instruction does to the requests and to the trap tag.        *)
LEMMA RequestsSound ==
  ASSUME IInv, NEW op \in Ops, Executes(op),
         NEW reqs \in SUBSET Internal, NEW mmu \in Outcomes, Raise(reqs, mmu),
         "EPU" \in reqs => op = "illegal",
         "TRAP" \in reqs => op = "privileged",
         "SYSCALL" \in reqs => op = "syscall"
  PROVE  /\ irq_req' \in SUBSET Sources /\ cur_op' \in Ops
         /\ serviced' \in Sources \cup {"none"}
         /\ vi_line' = vi_line /\ vi_vector' = vi_vector
         /\ TagFaithful'
<1>1. Sampled \subseteq {"VI"}
  BY BoundaryClean DEF IInv, Executes
<1>2. irq_req' \subseteq reqs \cup {"VI", "SEGTRAP"}
  BY <1>1 DEF Raise
<1>3. TagFaithful'
  BY <1>2 DEF TagFaithful, Executes
<1> QED
  BY <1>2, <1>3 DEF Executes, Sources, Internal

(* An instruction that leaves the stacks alone and keeps each stack        *)
(* pointer with its mode preserves the invariant.                          *)
LEMMA StepIInv ==
  ASSUME IInv, NEW op \in Ops, Executes(op),
         NEW reqs \in SUBSET Internal, NEW mmu \in Outcomes, Raise(reqs, mmu),
         "EPU" \in reqs => op = "illegal",
         "TRAP" \in reqs => op = "privileged",
         "SYSCALL" \in reqs => op = "syscall",
         pc' \in Pc, fcw' \in SUBSET Bits, halted' \in BOOLEAN,
         UNCHANGED <<mem, ctx>>,
         bank' \in Bank, WellBanked(bank', fcw'),
         SysDepth(bank') = SysDepth(bank), NormalSp(bank') = NormalSp(bank)
  PROVE  IInv'
<1>1. /\ irq_req' \in SUBSET Sources /\ cur_op' \in Ops
      /\ serviced' \in Sources \cup {"none"}
      /\ vi_line' = vi_line /\ vi_vector' = vi_vector
      /\ TagFaithful'
  BY RequestsSound
<1>2. mem' = mem /\ ctx' = ctx
  OBVIOUS
<1>3. TypeOK'
  BY <1>1, <1>2 DEF IInv, TypeOK
<1>4. BankOwner'
  BY DEF BankOwner
<1>5. FramesIntact'
  BY <1>2 DEF IInv, FramesIntact
<1>6. ContextsResumable'
  BY <1>2 DEF IInv, ContextsResumable
<1> QED
  BY <1>1, <1>3, <1>4, <1>5, <1>6 DEF IInv

(* The banks after an unchanged FCW mode and after a change made in system *)
(* mode.                                                                   *)
LEMMA BankKept ==
  ASSUME IInv, bank' = bank,
         fcw' = fcw \/ fcw' = fcw \cup {"VIE"} \/ fcw' = fcw \ {"VIE"}
  PROVE  /\ bank' \in Bank /\ WellBanked(bank', fcw') /\ fcw' \in SUBSET Bits
         /\ SysDepth(bank') = SysDepth(bank) /\ NormalSp(bank') = NormalSp(bank)
BY DEF IInv, BankOwner, WellBanked, TypeOK, Bits

LEMMA BankSwitched ==
  ASSUME IInv, NEW nf \in SUBSET Bits, "SN" \in fcw,
         bank' = ChangeFcw(bank, fcw, nf), fcw' = nf
  PROVE  /\ bank' \in Bank /\ WellBanked(bank', fcw') /\ fcw' \in SUBSET Bits
         /\ SysDepth(bank') = SysDepth(bank) /\ NormalSp(bank') = NormalSp(bank)
BY ChangeFcwSound DEF IInv, BankOwner, TypeOK

LEMMA IllegalIInv ==
  ASSUME IInv, Illegal
  PROVE  IInv'
<1>1. /\ pc' \in Pc /\ halted' \in BOOLEAN /\ UNCHANGED <<mem, ctx>>
      /\ Executes("illegal") /\ Raise({"EPU"}, "ok") /\ bank' = bank /\ fcw' = fcw
  BY PcNextType DEF Illegal, IInv, TypeOK
<1>2. "illegal" \in Ops /\ {"EPU"} \in SUBSET Internal /\ "ok" \in Outcomes
  BY DEF Ops, Internal, Outcomes
<1> QED
  BY <1>1, <1>2, BankKept, StepIInv

LEMMA RefusedIInv ==
  ASSUME IInv, NEW mmu \in Outcomes, Refused(mmu)
  PROVE  IInv'
<1>1. /\ pc' \in Pc /\ halted' \in BOOLEAN /\ UNCHANGED <<mem, ctx>>
      /\ Executes("privileged") /\ Raise({"TRAP"}, mmu) /\ bank' = bank /\ fcw' = fcw
  BY PcNextType DEF Refused, IInv, TypeOK
<1>2. "privileged" \in Ops /\ {"TRAP"} \in SUBSET Internal
  BY DEF Ops, Internal
<1> QED
  BY <1>1, <1>2, BankKept, StepIInv

LEMMA SystemCallIInv ==
  ASSUME IInv, NEW mmu \in Outcomes, SystemCall(mmu)
  PROVE  IInv'
<1>1. /\ pc' \in Pc /\ halted' \in BOOLEAN /\ UNCHANGED <<mem, ctx>>
      /\ Executes("syscall") /\ Raise({"SYSCALL"}, mmu) /\ bank' = bank /\ fcw' = fcw
  BY PcNextType DEF SystemCall, IInv, TypeOK
<1>2. "syscall" \in Ops /\ {"SYSCALL"} \in SUBSET Internal
  BY DEF Ops, Internal
<1> QED
  BY <1>1, <1>2, BankKept, StepIInv

(* The instructions that raise no trap of their own: any that keeps the    *)
(* banks in order and leaves the stacks alone.                             *)
LEMMA QuietIInv ==
  ASSUME IInv, NEW mmu \in Outcomes, Executes("other"), Raise({}, mmu),
         pc' \in Pc, fcw' \in SUBSET Bits, halted' \in BOOLEAN,
         UNCHANGED <<mem, ctx>>,
         bank' \in Bank, WellBanked(bank', fcw'),
         SysDepth(bank') = SysDepth(bank), NormalSp(bank') = NormalSp(bank)
  PROVE  IInv'
<1>1. "other" \in Ops /\ {} \in SUBSET Internal
  BY DEF Ops
<1> QED
  BY <1>1, StepIInv

LEMMA OrdinaryIInv ==
  ASSUME IInv, NEW t \in Pc, NEW mmu \in Outcomes, Ordinary(t, mmu)
  PROVE  IInv'
<1>1. /\ pc' \in Pc /\ halted' \in BOOLEAN /\ UNCHANGED <<mem, ctx>>
      /\ Executes("other") /\ Raise({}, mmu) /\ bank' = bank /\ fcw' = fcw
  BY PcNextType DEF Ordinary, Cycles, Continue, IInv, TypeOK
<1> QED
  BY <1>1, BankKept, QuietIInv

LEMMA HaltIInv ==
  ASSUME IInv, NEW mmu \in Outcomes, Halt(mmu)
  PROVE  IInv'
<1>1. /\ pc' \in Pc /\ halted' \in BOOLEAN /\ UNCHANGED <<mem, ctx>>
      /\ Executes("other") /\ Raise({}, mmu) /\ bank' = bank /\ fcw' = fcw
  BY PcNextType DEF Halt, Privileged, Cycles, Continue, IInv, TypeOK
<1> QED
  BY <1>1, BankKept, QuietIInv

LEMMA FcwOpIInv ==
  ASSUME IInv, NEW on \in BOOLEAN, NEW mmu \in Outcomes, FcwOp(on, mmu)
  PROVE  IInv'
<1>1. /\ pc' \in Pc /\ halted' \in BOOLEAN /\ UNCHANGED <<mem, ctx>>
      /\ Executes("other") /\ Raise({}, mmu) /\ bank' = bank
      /\ fcw' = fcw \cup {"VIE"} \/ fcw' = fcw \ {"VIE"}
  BY PcNextType DEF FcwOp, Privileged, Cycles, Continue, IInv, TypeOK
<1> QED
  BY <1>1, BankKept, QuietIInv

LEMMA LoadFcwIInv ==
  ASSUME IInv, NEW nf \in GuestFcws, NEW t \in Pc, NEW mmu \in Outcomes,
         LoadFcw(nf, t, mmu)
  PROVE  IInv'
<1>1. /\ pc' \in Pc /\ halted' \in BOOLEAN /\ UNCHANGED <<mem, ctx>>
      /\ Executes("other") /\ Raise({}, mmu) /\ "SN" \in fcw
      /\ bank' = ChangeFcw(bank, fcw, nf) /\ fcw' = nf
  BY PcNextType DEF LoadFcw, Privileged, Cycles, Continue, IInv, TypeOK
<1>2. nf \in SUBSET Bits
  BY CpuAssumption
<1> QED
  BY <1>1, <1>2, BankSwitched, QuietIInv

LEMMA IretNonSegIInv ==
  ASSUME IInv, NEW nf \in GuestFcws, NEW t \in Pc, NEW mmu \in Outcomes,
         IretNonSeg(nf, t, mmu)
  PROVE  IInv'
<1>1. /\ pc' \in Pc /\ halted' \in BOOLEAN /\ UNCHANGED <<mem, ctx>>
      /\ Executes("other") /\ Raise({}, mmu) /\ "SN" \in fcw
      /\ bank' = ChangeFcw(bank, fcw, nf) /\ fcw' = nf
  BY PcNextType DEF IretNonSeg, Privileged, Cycles, Continue, IInv, TypeOK
<1>2. nf \in SUBSET Bits
  BY CpuAssumption
<1> QED
  BY <1>1, <1>2, BankSwitched, QuietIInv

(* NSPSEG holds the normal segment in segmented system mode already.       *)
LEMMA LdctlNspSegIInv ==
  ASSUME IInv, NEW mmu \in Outcomes, LdctlNspSeg(mmu), ~NonSegNsp
  PROVE  IInv'
<1>1. /\ pc' \in Pc /\ halted' \in BOOLEAN /\ UNCHANGED <<mem, ctx>> /\ fcw' = fcw
      /\ Executes("other") /\ Raise({}, mmu) /\ "SN" \in fcw /\ "SEG" \in fcw
      /\ bank' = [bank EXCEPT !.nspseg = "N"]
  BY PcNextType DEF LdctlNspSeg, Privileged, Cycles, Continue, IInv, TypeOK
<1>2. bank' = bank
  BY <1>1 DEF IInv, TypeOK, BankOwner, WellBanked, Bank, Owner
<1> QED
  BY <1>1, <1>2, BankKept, QuietIInv

LEMMA IdleIInv ==
  ASSUME IInv, Idle
  PROVE  IInv'
<1>1. /\ mem' = mem /\ ctx' = ctx /\ bank' = bank /\ fcw' = fcw /\ pc' = pc
      /\ halted' = halted /\ cur_op' = cur_op /\ vi_line' = vi_line
      /\ vi_vector' = vi_vector /\ serviced' = "none" /\ irq_req' = Sampled
  BY DEF Idle
<1>2. irq_req' \in SUBSET Sources /\ irq_req' \subseteq irq_req \cup {"VI"}
  BY <1>1 DEF IInv, TypeOK, Sampled, Sources
<1>3. TypeOK' /\ TagFaithful'
  BY <1>1, <1>2 DEF IInv, TypeOK, TagFaithful
<1>4. BankOwner' /\ FramesIntact' /\ ContextsResumable'
  BY <1>1 DEF IInv, BankOwner, FramesIntact, ContextsResumable
<1> QED
  BY <1>3, <1>4 DEF IInv

LEMMA DriveLineIInv ==
  ASSUME IInv, NEW on \in BOOLEAN, NEW v \in Vectors, DriveLine(on, v)
  PROVE  IInv'
<1>1. /\ mem' = mem /\ ctx' = ctx /\ bank' = bank /\ fcw' = fcw /\ pc' = pc
      /\ halted' = halted /\ cur_op' = cur_op /\ irq_req' = irq_req
      /\ serviced' = serviced /\ vi_line' = on
      /\ vi_vector' \in Vectors \cup {"none"}
  BY DEF DriveLine, cpu, IInv, TypeOK
<1>2. TypeOK' /\ TagFaithful'
  BY <1>1 DEF IInv, TypeOK, TagFaithful
<1>3. BankOwner' /\ FramesIntact' /\ ContextsResumable'
  BY <1>1 DEF IInv, BankOwner, FramesIntact, ContextsResumable
<1> QED
  BY <1>2, <1>3 DEF IInv

(* A new normal stack pointer, in the saved bank and in the history.       *)
LEMMA RetargetSound ==
  ASSUME NEW b \in Bank, NEW f, WellBanked(b, f),
         NEW sp \in Sp, sp.own = "N"
  PROVE  /\ Retarget(b, sp) \in Bank /\ WellBanked(Retarget(b, sp), f)
         /\ SysDepth(Retarget(b, sp)) = SysDepth(b)
         /\ NormalSp(Retarget(b, sp)) = sp
<1> DEFINE r == Retarget(b, sp)
<1>1. /\ b.r15 \in Sp /\ b.nspoff \in Sp
      /\ b.r15.own \in {"S", "N"} /\ b.nspoff.own \in {"S", "N"}
  BY DEF Bank, Sp, Owner
<1>2. /\ r \in Bank /\ r.r14 = b.r14 /\ r.nspseg = b.nspseg
      /\ r.r15 = (IF b.r15.own = "N" THEN sp ELSE b.r15)
      /\ r.nspoff = (IF b.nspoff.own = "N" THEN sp ELSE b.nspoff)
  BY <1>1 DEF Retarget, Bank
<1> HIDE DEF r
<1>3. WellBanked(r, f) /\ SysDepth(r) = SysDepth(b) /\ NormalSp(r) = sp
  BY <1>1, <1>2 DEF WellBanked, SysDepth, NormalSp
<1> QED
  BY <1>2, <1>3 DEF r

LEMMA LdctlNspOffIInv ==
  ASSUME IInv, NEW d \in 0 .. 1, NEW mmu \in Outcomes, LdctlNspOff(d, mmu)
  PROVE  IInv'
<1> DEFINE sp == [own |-> "N", d |-> d]
<1>1. /\ pc' \in Pc /\ halted' = halted /\ fcw' = fcw /\ mem' = mem
      /\ Executes("other") /\ Raise({}, mmu) /\ "SN" \in fcw
      /\ bank' = [bank EXCEPT !.nspoff = sp]
      /\ ctx' = [i \in 1 .. Len(ctx) |-> [ctx[i] EXCEPT !.bank = Retarget(@, sp)]]
  BY PcNextType DEF LdctlNspOff, Privileged, Cycles, Continue, IInv, TypeOK
<1>2. sp \in Sp /\ sp.own = "N"
  BY CpuAssumption DEF Sp, Owner
<1> HIDE DEF sp
<1>3. TypeOK /\ WellBanked(bank, fcw) /\ FramesIntact /\ ContextsResumable
  BY DEF IInv, BankOwner
<1>4. bank.r15 \in Sp /\ bank.nspoff \in Sp /\ bank.nspoff.own = "N" /\ bank.r15.own = "S"
  BY <1>1, <1>3 DEF WellBanked, TypeOK, Bank, Sp, Owner
<1>5. /\ bank' \in Bank /\ bank'.r14 = bank.r14 /\ bank'.nspseg = bank.nspseg
      /\ bank'.r15 = bank.r15 /\ bank'.nspoff = sp
  BY <1>1, <1>2, <1>3 DEF TypeOK, Bank
<1>6. /\ WellBanked(bank', fcw') /\ SysDepth(bank') = SysDepth(bank)
      /\ NormalSp(bank') = sp
  BY <1>1, <1>2, <1>3, <1>4, <1>5 DEF WellBanked, SysDepth, NormalSp
<1>7. "other" \in Ops /\ {} \in SUBSET Internal
  BY DEF Ops
<1>8. /\ irq_req' \in SUBSET Sources /\ cur_op' \in Ops
      /\ serviced' \in Sources \cup {"none"}
      /\ vi_line' = vi_line /\ vi_vector' = vi_vector
      /\ TagFaithful'
  BY <1>1, <1>7, RequestsSound
<1>9. ctx \in Seq(Context) /\ Len(ctx) \in Nat
  BY <1>3 DEF TypeOK, Context
<1>10. ASSUME NEW i \in 1 .. Len(ctx)
       PROVE  /\ ctx'[i] \in Context
              /\ ctx'[i].pc = ctx[i].pc /\ ctx'[i].fcw = ctx[i].fcw
              /\ WellBanked(ctx'[i].bank, ctx'[i].fcw)
              /\ SysDepth(ctx'[i].bank) = i - 1
              /\ NormalSp(ctx'[i].bank) = sp
  <2> DEFINE c == ctx[i]
             r == Retarget(c.bank, sp)
  <2>1. c \in Context /\ WellBanked(c.bank, c.fcw) /\ SysDepth(c.bank) = i - 1
    BY <1>3, <1>9 DEF ContextsResumable
  <2>2. ctx'[i] = [c EXCEPT !.bank = r]
    BY <1>1
  <2> HIDE DEF c
  <2>3. c.bank \in Bank
    BY <2>1 DEF Context
  <2>4. /\ r \in Bank /\ WellBanked(r, c.fcw) /\ SysDepth(r) = i - 1
        /\ NormalSp(r) = sp
    BY <1>2, <2>1, <2>3, RetargetSound
  <2> HIDE DEF r
  <2>5. ctx'[i] \in Context /\ ctx'[i].pc = c.pc /\ ctx'[i].fcw = c.fcw
          /\ ctx'[i].bank = r
    BY <2>1, <2>2, <2>4 DEF Context
  <2> QED
    BY <2>4, <2>5 DEF c
<1>11. ctx' \in Seq(Context) /\ Len(ctx') = Len(ctx)
  <2>1. ctx' \in [1 .. Len(ctx) -> Context]
    BY <1>1, <1>10
  <2> QED
    BY <1>9, <2>1
<1>12. TypeOK'
  BY <1>1, <1>3, <1>5, <1>8, <1>11 DEF TypeOK, Context
<1>13. FramesIntact'
  BY <1>1, <1>3, <1>6, <1>10, <1>11 DEF FramesIntact
<1>14. ContextsResumable'
  BY <1>6, <1>10, <1>11 DEF ContextsResumable
<1> QED
  BY <1>6, <1>8, <1>12, <1>13, <1>14 DEF IInv, BankOwner

(* A sequence without its last element.                                    *)
LEMMA WithoutLast ==
  ASSUME NEW S, NEW q \in Seq(S), Len(q) \in Nat \ {0}
  PROVE  /\ SubSeq(q, 1, Len(q) - 1) \in Seq(S)
         /\ Len(SubSeq(q, 1, Len(q) - 1)) = Len(q) - 1
         /\ \A i \in 1 .. Len(q) - 1 : SubSeq(q, 1, Len(q) - 1)[i] = q[i]
<1> DEFINE n == Len(q) - 1
<1>1. n \in Nat /\ 1 \in Int
  OBVIOUS
<1>2. \A i \in 1 .. n : q[i] \in S
  BY ElementOfSeq
<1> HIDE DEF n
<1>3. /\ SubSeq(q, 1, n) \in Seq(S)
      /\ Len(SubSeq(q, 1, n)) = IF 1 <= n THEN n - 1 + 1 ELSE 0
      /\ \A i \in 1 .. n - 1 + 1 : SubSeq(q, 1, n)[i] = q[1 + i - 1]
  BY <1>1, <1>2, SubSeqProperties
<1>4. /\ SubSeq(q, 1, n) \in Seq(S) /\ Len(SubSeq(q, 1, n)) = n
      /\ \A i \in 1 .. n : SubSeq(q, 1, n)[i] = q[i]
  BY <1>1, <1>3
<1> QED
  BY <1>4 DEF n

(* The banks IRET leaves: one trap frame fewer on the system stack.        *)
LEMMA IretBank ==
  ASSUME IInv, NEW mmu \in Outcomes, Iret(mmu)
  PROVE  /\ Len(ctx) \in Nat \ {0} /\ Addr(bank) = <<"S", "S">>
         /\ bank.r15.d = Len(ctx)
         /\ mem[<<"S", "S">>][Len(ctx)].pc = ctx[Len(ctx)].pc
         /\ fcw' \in SUBSET Bits
         /\ mmu # "fault" => fcw' = ctx[Len(ctx)].fcw
         /\ bank' \in Bank /\ WellBanked(bank', fcw')
         /\ SysDepth(bank') = Len(ctx) - 1 /\ NormalSp(bank') = NormalSp(bank)
<1> DEFINE n     == Len(ctx)
           frame == mem[Addr(bank)][bank.r15.d]
           above == [bank EXCEPT !.r15.d = @ - 1]
<1>1. TypeOK /\ WellBanked(bank, fcw) /\ FramesIntact
  BY DEF IInv, BankOwner
<1>2. /\ "SN" \in fcw /\ "SEG" \in fcw /\ ctx # <<>>
      /\ fcw' \in GuestFcws \cup {frame.fcw}
      /\ mmu # "fault" => fcw' = frame.fcw
      /\ bank' = ChangeFcw(above, fcw, fcw')
  BY DEF Iret, Privileged
<1>3. bank.r14 = "S" /\ bank.r15.own = "S" /\ bank.nspoff.own = "N" /\ bank.nspseg = "N"
        /\ bank.r15 \in Sp /\ bank \in Bank
  BY <1>1, <1>2 DEF WellBanked, TypeOK, Bank, Sp, Owner
<1>4. n \in Nat \ {0} /\ bank.r15.d = n /\ Addr(bank) = <<"S", "S">>
        /\ n \in 0 .. MaxFrames
  <2>1. n \in Nat \ {0}
    BY <1>1, <1>2 DEF TypeOK
  <2>2. n = bank.r15.d
    BY <1>1, <1>3 DEF FramesIntact, SysDepth
  <2> QED
    BY <1>3, <2>1, <2>2 DEF Addr, Sp
<1>5. frame.pc = ctx[n].pc /\ frame.fcw = ctx[n].fcw
  BY <1>1, <1>4 DEF FramesIntact
<1>6. fcw' \in SUBSET Bits
  <2>1. ctx \in Seq(Context)
    BY <1>1 DEF TypeOK, Context
  <2>2. ctx[n] \in Context
    BY <1>4, <2>1, ElementOfSeq
  <2>3. ctx[n].fcw \in SUBSET Bits
    BY <2>2 DEF Context
  <2> QED
    BY <1>2, <1>5, <2>3, CpuAssumption
<1>7. above = [bank EXCEPT !.r15 = [own |-> "S", d |-> n - 1]]
  <2>1. [bank.r15 EXCEPT !.d = @ - 1] = [own |-> "S", d |-> n - 1]
    BY <1>3, <1>4 DEF Sp
  <2> QED
    BY <2>1, Zenon
<1>8. [own |-> "S", d |-> n - 1] \in Sp
  <2>1. n - 1 \in 0 .. MaxFrames
    BY <1>4, CpuAssumption
  <2> QED
    BY <2>1 DEF Sp, Owner
<1> HIDE DEF frame, above
<1>9. /\ above \in Bank /\ above.r15.own = "S" /\ above.r15.d = n - 1
      /\ above.nspoff = bank.nspoff /\ above.r14 = bank.r14
      /\ above.nspseg = bank.nspseg
  BY <1>3, <1>7, <1>8 DEF Bank
<1>10. WellBanked(above, fcw) /\ SysDepth(above) = n - 1
         /\ NormalSp(above) = NormalSp(bank)
  BY <1>1, <1>3, <1>9 DEF WellBanked, SysDepth, NormalSp
<1>11. /\ bank' \in Bank /\ WellBanked(bank', fcw')
       /\ SysDepth(bank') = n - 1 /\ NormalSp(bank') = NormalSp(bank)
  BY <1>1, <1>2, <1>6, <1>9, <1>10, ChangeFcwSound DEF TypeOK
<1> QED
  BY <1>2, <1>4, <1>5, <1>6, <1>11 DEF frame

LEMMA IretIInv ==
  ASSUME IInv, NEW mmu \in Outcomes, Iret(mmu)
  PROVE  IInv'
<1> DEFINE n == Len(ctx)
           s == mem[<<"S", "S">>]
<1>1. TypeOK /\ FramesIntact /\ ContextsResumable
  BY DEF IInv
<1>2. /\ n \in Nat \ {0} /\ Addr(bank) = <<"S", "S">> /\ bank.r15.d = n
      /\ s[n].pc = ctx[n].pc /\ fcw' \in SUBSET Bits
      /\ bank' \in Bank /\ WellBanked(bank', fcw')
      /\ SysDepth(bank') = n - 1 /\ NormalSp(bank') = NormalSp(bank)
  BY IretBank
<1>3. /\ pc' \in {s[n].pc, PcNext} /\ halted' = halted
      /\ mem' = [mem EXCEPT ![<<"S", "S">>] = SubSeq(s, 1, n - 1)]
      /\ ctx' = SubSeq(ctx, 1, n - 1)
      /\ Executes("other") /\ Raise({}, mmu)
  BY <1>2 DEF Iret, Privileged, Continue
<1>4. "other" \in Ops /\ {} \in SUBSET Internal
  BY DEF Ops
<1>5. /\ irq_req' \in SUBSET Sources /\ cur_op' \in Ops
      /\ serviced' \in Sources \cup {"none"}
      /\ vi_line' = vi_line /\ vi_vector' = vi_vector
      /\ TagFaithful'
  BY <1>3, <1>4, RequestsSound
<1>6. s \in Seq(Frame) /\ Len(s) = n /\ ctx \in Seq(Context)
  BY <1>1 DEF TypeOK, Owner, FramesIntact, Context
<1>7. SubSeq(s, 1, n - 1) \in Seq(Frame) /\ Len(SubSeq(s, 1, n - 1)) = n - 1
        /\ \A i \in 1 .. n - 1 : SubSeq(s, 1, n - 1)[i] = s[i]
  BY <1>2, <1>6, WithoutLast
<1>8. ctx' \in Seq(Context) /\ Len(ctx') = n - 1
        /\ \A i \in 1 .. n - 1 : ctx'[i] = ctx[i]
  BY <1>2, <1>3, <1>6, WithoutLast
<1>9. mem' \in [Owner \X Owner -> Seq(Frame)]
        /\ mem'[<<"S", "S">>] = SubSeq(s, 1, n - 1)
  BY <1>1, <1>3, <1>7 DEF TypeOK, Owner
<1>10. ctx[n] \in Context
  BY <1>2, <1>6, ElementOfSeq
<1>11. pc' \in Pc
  BY <1>1, <1>2, <1>3, <1>10, PcNextType DEF Context, TypeOK
<1>12. TypeOK'
  BY <1>1, <1>2, <1>3, <1>5, <1>8, <1>9, <1>11 DEF TypeOK, Context
<1>13. FramesIntact'
  <2>1. ASSUME NEW i \in 1 .. Len(ctx')
        PROVE  /\ mem'[<<"S", "S">>][i].pc = ctx'[i].pc
               /\ mem'[<<"S", "S">>][i].fcw = ctx'[i].fcw
    <3>1. mem'[<<"S", "S">>][i] = s[i] /\ ctx'[i] = ctx[i] /\ i \in 1 .. n
      BY <1>2, <1>7, <1>8, <1>9
    <3> QED
      BY <1>1, <3>1 DEF FramesIntact
  <2>2. Len(ctx') = SysDepth(bank') /\ Len(ctx') = Len(mem'[<<"S", "S">>])
    BY <1>2, <1>7, <1>8, <1>9
  <2> QED
    BY <2>1, <2>2 DEF FramesIntact
<1>14. ContextsResumable'
  BY <1>1, <1>2, <1>8 DEF ContextsResumable
<1> QED
  BY <1>2, <1>5, <1>12, <1>13, <1>14 DEF IInv, BankOwner

LEMMA NextIInv ==
  ASSUME IInv, [Next]_vars, ~NonSegNsp
  PROVE  IInv'
<1>1. CASE UNCHANGED vars
  BY <1>1 DEF vars, cpu, IInv, TypeOK, BankOwner, FramesIntact,
              ContextsResumable, TagFaithful
<1>2. CASE TakeInterrupt
  BY <1>2, TakeInterruptIInv
<1>3. CASE Execute
  <2>1. CASE Illegal
    BY <2>1, IllegalIInv
  <2>2. CASE \E mmu \in Outcomes : Refused(mmu) \/ SystemCall(mmu)
    BY <2>2, RefusedIInv, SystemCallIInv
  <2>3. CASE \E mmu \in Outcomes : Halt(mmu) \/ LdctlNspSeg(mmu) \/ Iret(mmu)
    BY <2>3, HaltIInv, LdctlNspSegIInv, IretIInv
  <2>4. CASE \E mmu \in Outcomes : \E t \in Pc : Ordinary(t, mmu)
    BY <2>4, OrdinaryIInv
  <2>5. CASE \E mmu \in Outcomes : \E on \in BOOLEAN : FcwOp(on, mmu)
    BY <2>5, FcwOpIInv
  <2>6. CASE \E mmu \in Outcomes : \E nf \in GuestFcws, t \in Pc :
               LoadFcw(nf, t, mmu) \/ IretNonSeg(nf, t, mmu)
    BY <2>6, LoadFcwIInv, IretNonSegIInv
  <2>7. CASE \E mmu \in Outcomes : \E d \in 0 .. 1 : LdctlNspOff(d, mmu)
    BY <2>7, LdctlNspOffIInv
  <2> QED
    BY <1>3, <2>1, <2>2, <2>3, <2>4, <2>5, <2>6, <2>7 DEF Execute
<1>4. CASE Idle
  BY <1>4, IdleIInv
<1>5. CASE \E on \in BOOLEAN, v \in Vectors : DriveLine(on, v)
  BY <1>5, DriveLineIInv
<1> QED
  BY <1>1, <1>2, <1>3, <1>4, <1>5 DEF Next

(* Every reachable state satisfies the inductive invariant.                *)
LEMMA Invariant == ASSUME ~NonSegNsp PROVE Spec => []IInv
<1>1. Init => IInv
  BY InitIInv
<1>2. IInv /\ [Next]_vars => IInv'
  BY NextIInv
<1> QED
  BY <1>1, <1>2, PTL DEF Spec

(* Registers, stacks and contexts keep their types.                        *)
THEOREM TypeCorrect == ASSUME ~NonSegNsp PROVE Spec => []TypeOK
<1>1. IInv => TypeOK
  BY DEF IInv
<1> QED
  BY <1>1, Invariant, PTL

(* change_fcw keeps each stack pointer with its mode, through any nesting  *)
(* of traps and any FCW a handler loads.                                   *)
THEOREM BankSound == ASSUME ~NonSegNsp PROVE Spec => []BankOwner
<1>1. IInv => BankOwner
  BY DEF IInv
<1> QED
  BY <1>1, Invariant, PTL

(* The system stack holds exactly the frames of the interrupted contexts.  *)
THEOREM FramesSound == ASSUME ~NonSegNsp PROVE Spec => []FramesIntact
<1>1. IInv => FramesIntact
  BY DEF IInv
<1> QED
  BY <1>1, Invariant, PTL

(* Every interrupted context can be resumed from the present registers.    *)
THEOREM ContextsSound == ASSUME ~NonSegNsp PROVE Spec => []ContextsResumable
<1>1. IInv => ContextsResumable
  BY DEF IInv
<1> QED
  BY <1>1, Invariant, PTL

(* An internal trap is tagged with the opcode that raised it.              *)
THEOREM TagSound == ASSUME ~NonSegNsp PROVE Spec => []TagFaithful
<1>1. IInv => TagFaithful
  BY DEF IInv
<1> QED
  BY <1>1, Invariant, PTL

(* IRET resumes the innermost interrupted context, unless the MMU denies   *)
(* one of its pops: then it still gives back both stack pointers, and a    *)
(* segment trap is requested.                                              *)
LEMMA IretEffect ==
  ASSUME IInv, NEW mmu \in Outcomes, Iret(mmu), NEW c, c = ctx[Len(ctx)]
  PROVE  /\ SysDepth(bank') = SysDepth(c.bank)
         /\ NormalSp(bank') = NormalSp(c.bank)
         /\ mmu # "fault" => pc' = c.pc /\ fcw' = c.fcw /\ bank' = c.bank
         /\ mmu = "fault" => pc' = PcNext /\ "SEGTRAP" \in irq_req'
<1>1. /\ Len(ctx) \in Nat \ {0} /\ Addr(bank) = <<"S", "S">>
      /\ bank.r15.d = Len(ctx)
      /\ mem[<<"S", "S">>][Len(ctx)].pc = c.pc
      /\ mmu # "fault" => fcw' = c.fcw
      /\ bank' \in Bank /\ WellBanked(bank', fcw')
      /\ SysDepth(bank') = Len(ctx) - 1 /\ NormalSp(bank') = NormalSp(bank)
  BY IretBank
<1>2. /\ pc' = IF mmu = "fault" THEN PcNext ELSE c.pc
      /\ mmu = "fault" => "SEGTRAP" \in irq_req'
  BY <1>1 DEF Iret, Continue, Raise
<1>3. /\ c.bank \in Bank /\ WellBanked(c.bank, c.fcw)
      /\ SysDepth(c.bank) = Len(ctx) - 1 /\ NormalSp(c.bank) = NormalSp(bank)
  <2>1. ctx \in Seq(Context)
    BY DEF IInv, TypeOK, Context
  <2>2. c \in Context
    BY <1>1, <2>1, ElementOfSeq
  <2>3. c.bank \in Bank
    BY <2>2 DEF Context
  <2> QED
    BY <1>1, <2>3 DEF IInv, ContextsResumable
<1>4. mmu # "fault" => bank' = c.bank
  BY <1>1, <1>3, BankDetermined
<1> QED
  BY <1>1, <1>2, <1>3, <1>4

(* IRET resumes the innermost interrupted context, and a denied one gives  *)
(* back its stack pointers and leaves a segment trap requested.            *)
THEOREM IretSound == ASSUME ~NonSegNsp PROVE Spec => IretRestores
<1> DEFINE A == \A mmu \in Outcomes :
                  Iret(mmu) =>
                    LET c == ctx[Len(ctx)]
                    IN  /\ SysDepth(bank') = SysDepth(c.bank)
                        /\ NormalSp(bank') = NormalSp(c.bank)
                        /\ mmu # "fault" => pc' = c.pc /\ fcw' = c.fcw /\ bank' = c.bank
                        /\ mmu = "fault" => pc' = PcNext /\ "SEGTRAP" \in irq_req'
<1>1. IInv => A
  BY IretEffect
<1>2. IInv /\ [Next]_vars => [A]_vars
  BY <1>1
<1> QED
  BY <1>2, Invariant, PTL DEF Spec, IretRestores

-----------------------------------------------------------------------------
(***************************************************************************)
(* Part two: a repeating block instruction moves every element it was      *)
(* asked for exactly once, for every register width, condition and pattern *)
(* of traps and interrupts, where no access faults: an element a fault     *)
(* skips is not made up for (see the README).                              *)
(***************************************************************************)
BlockTypes ==
  /\ where \in {"at", "past", "handler"} /\ saved \in {"at", "past"}
  /\ looping \in BOOLEAN /\ pv \in BOOLEAN /\ z \in BOOLEAN
  /\ ptr \in Elem /\ cnt \in Elem /\ start \in [ptr : Elem, cnt : Elem]
  /\ page \in [Elem -> {"ok", "warn"}] /\ moved \in [Elem -> {0, 1}]

(* The instruction is to be executed for a further element, at once or     *)
(* when the handler returns.                                               *)
Resumes == looping \/ where = "at" \/ (where = "handler" /\ saved = "at")

Unmet(n) == \A i \in 0 .. n - 1 : Nth(i) \notin match

(* The registers and memory after k elements.                              *)
Registers(k) ==
  /\ ptr = Nth(k)
  /\ cnt = IF k = 0 THEN start.cnt ELSE Length - k
  /\ moved = [e \in Elem |-> IF \E i \in 0 .. k - 1 : e = Nth(i) THEN 1 ELSE 0]

Goes(k) == k < Length /\ Unmet(k) /\ ~pv

Ended(k) ==
  /\ k > 0 /\ Unmet(k - 1)
  /\ z <=> Nth(k - 1) \in match
  /\ pv <=> k = Length
  /\ z \/ pv

(* k elements have been processed, and whether there is a further one is   *)
(* what PC says.                                                           *)
Progress(k) ==
  /\ k <= Length /\ Registers(k)
  /\ Resumes => Goes(k)
  /\ ~Resumes => Ended(k)

BlockInv == BlockTypes /\ \E k \in 0 .. W : Progress(k)

-----------------------------------------------------------------------------
(* Arithmetic modulo the register width, one turn away at most.            *)
LEMMA Turn ==
  ASSUME NEW x \in Int, -W <= x, x < W + W
  PROVE  x % W = IF x < 0 THEN x + W ELSE IF x < W THEN x ELSE x - W
<1>1. W \in Nat /\ W > 1
  BY BlockAssumption
<1> DEFINE q == x \div W
           r == x % W
<1>2. q \in Int /\ r \in 0 .. W - 1 /\ x = W * q + r
  BY <1>1
<1> HIDE DEF q, r
<1>3. CASE q <= -2
  <2>1. W * q <= W * (-2)
    BY <1>1, <1>2, <1>3
  <2> QED
    BY <1>1, <1>2, <2>1
<1>4. CASE q >= 2
  <2>1. W * q >= W * 2
    BY <1>1, <1>2, <1>4
  <2> QED
    BY <1>1, <1>2, <2>1
<1>5. CASE q = -1
  <2>1. W * q = -W
    BY <1>1, <1>5
  <2>2. r = x + W /\ x < 0
    BY <1>1, <1>2, <2>1
  <2> QED
    BY <2>2 DEF r
<1>6. CASE q = 0
  <2>1. r = x /\ ~(x < 0) /\ x < W
    BY <1>1, <1>2, <1>6
  <2> QED
    BY <2>1 DEF r
<1>7. CASE q = 1
  <2>1. r = x - W /\ ~(x < 0) /\ ~(x < W)
    BY <1>1, <1>2, <1>7
  <2> QED
    BY <2>1 DEF r
<1> QED
  BY <1>2, <1>3, <1>4, <1>5, <1>6, <1>7

(* The ring the pointer walks.                                             *)
LEMMA Ring ==
  ASSUME start \in [ptr : Elem, cnt : Elem]
  PROVE  /\ Length \in 1 .. W
         /\ \A i \in 0 .. W : Nth(i) \in Elem
         /\ \A i \in 0 .. W - 1 : (Nth(i) + 1) % W = Nth(i + 1)
         /\ \A i, j \in 0 .. W - 1 : Nth(i) = Nth(j) => i = j
<1>1. W \in Nat /\ W > 1
  BY BlockAssumption
<1> DEFINE s == start.ptr
<1>2. s \in 0 .. W - 1 /\ start.cnt \in 0 .. W - 1
  BY DEF Elem
<1>3. Length \in 1 .. W
  BY <1>1, <1>2 DEF Length
<1>4. \A i \in 0 .. W : Nth(i) = IF s + i < W THEN s + i ELSE s + i - W
  <2> SUFFICES ASSUME NEW i \in 0 .. W
               PROVE  Nth(i) = IF s + i < W THEN s + i ELSE s + i - W
    OBVIOUS
  <2> DEFINE x == s + i
  <2>1. x \in Int /\ -W <= x /\ x < W + W /\ ~(x < 0)
    BY <1>1, <1>2
  <2> HIDE DEF x
  <2>2. x % W = IF x < W THEN x ELSE x - W
    BY <1>1, <2>1, Turn
  <2> QED
    BY <1>1, <1>2, <2>2 DEF Nth, x, s
<1> HIDE DEF s
<1>5. \A i \in 0 .. W : Nth(i) \in Elem
  BY <1>1, <1>2, <1>4 DEF Elem
<1>6. \A i \in 0 .. W - 1 : (Nth(i) + 1) % W = Nth(i + 1)
  <2> SUFFICES ASSUME NEW i \in 0 .. W - 1
               PROVE  (Nth(i) + 1) % W = Nth(i + 1)
    OBVIOUS
  <2> DEFINE n == Nth(i)
  <2>1. n \in 0 .. W - 1
    BY <1>1, <1>5 DEF Elem
  <2>2. n = IF s + i < W THEN s + i ELSE s + i - W
    BY <1>1, <1>4
  <2>3. Nth(i + 1) = IF s + i + 1 < W THEN s + i + 1 ELSE s + i + 1 - W
    BY <1>1, <1>2, <1>4
  <2> HIDE DEF n
  <2>4. (n + 1) % W = IF n + 1 < W THEN n + 1 ELSE n + 1 - W
    BY <1>1, <2>1, Turn
  <2>5. (n + 1) % W = Nth(i + 1)
    BY <1>1, <1>2, <2>1, <2>2, <2>3, <2>4
  <2> QED
    BY <2>5 DEF n
<1>7. \A i, j \in 0 .. W - 1 : Nth(i) = Nth(j) => i = j
  BY <1>1, <1>2, <1>4
<1> QED
  BY <1>3, <1>5, <1>6, <1>7

(* The count, like the pointer, has no wrap but the one at its end.        *)
LEMMA Countdown ==
  ASSUME cnt \in Elem
  PROVE  Count = IF cnt = 0 THEN W - 1 ELSE cnt - 1
<1>1. W \in Nat /\ W > 1
  BY BlockAssumption
<1>2. cnt \in 0 .. W - 1
  BY DEF Elem
<1>3. cnt - 1 \in Int /\ -W <= cnt - 1 /\ cnt - 1 < W + W
  BY <1>1, <1>2
<1>4. (cnt - 1) % W = IF cnt - 1 < 0 THEN cnt - 1 + W ELSE cnt - 1
  BY <1>1, <1>2, <1>3, Turn
<1> QED
  BY <1>1, <1>2, <1>4 DEF Count

-----------------------------------------------------------------------------
(* One element takes the registers from k to k + 1; the repeat condition   *)
(* says whether there is another.                                          *)
LEMMA ElementProgress ==
  ASSUME BlockTypes, NEW k \in 0 .. W, Progress(k), Resumes, Element
  PROVE  /\ k + 1 \in 0 .. W /\ k + 1 <= Length'
         /\ Registers(k + 1)'
         /\ Repeats => Goes(k + 1)'
         /\ ~Repeats => Ended(k + 1)'
<1>1. W \in Nat /\ W > 1
  BY BlockAssumption
<1>2. /\ start \in [ptr : Elem, cnt : Elem] /\ ptr \in Elem /\ cnt \in Elem
      /\ page \in [Elem -> {"ok", "warn"}] /\ moved \in [Elem -> {0, 1}]
  BY DEF BlockTypes
<1>3. /\ Length \in 1 .. W
      /\ \A i \in 0 .. W : Nth(i) \in Elem
      /\ \A i \in 0 .. W - 1 : (Nth(i) + 1) % W = Nth(i + 1)
      /\ \A i, j \in 0 .. W - 1 : Nth(i) = Nth(j) => i = j
  BY <1>2, Ring
<1>4. /\ k < Length /\ Unmet(k) /\ Registers(k)
  BY DEF Progress, Goes
<1>5. start' = start /\ match' = match
  BY DEF Element
<1>6. Length' = Length /\ \A i \in 0 .. W : Nth(i)' = Nth(i)
  BY <1>5 DEF Length, Nth
<1>7. k + 1 \in 0 .. W /\ k + 1 <= Length /\ k \in 0 .. W - 1
  BY <1>1, <1>3, <1>4
<1>8. Count = Length - (k + 1)
  <2>1. cnt = IF k = 0 THEN start.cnt ELSE Length - k
    BY <1>4 DEF Registers
  <2>2. Count = IF cnt = 0 THEN W - 1 ELSE cnt - 1
    BY <1>2, Countdown
  <2>3. cnt \in 0 .. W - 1 /\ start.cnt \in 0 .. W - 1
    BY <1>2 DEF Elem
  <2>4. Length = IF start.cnt = 0 THEN W ELSE start.cnt
    BY DEF Length
  <2> QED
    BY <1>1, <1>3, <1>4, <1>7, <2>1, <2>2, <2>3, <2>4
<1>9. ptr = Nth(k)
  BY <1>4 DEF Registers
<1>10. Registers(k + 1)'
  <2>1. ptr' = Nth(k + 1)
    BY <1>3, <1>7, <1>9 DEF Element
  <2>2. ptr' = Nth(k + 1)'
    BY <1>6, <1>7, <2>1
  <2>3. cnt' = Length - (k + 1)
    BY <1>8 DEF Element
  <2>4. moved' = [e \in Elem |->
                    IF \E i \in 0 .. k : e = Nth(i) THEN 1 ELSE 0]
    <3>1. page[ptr] # "fault"
      BY <1>2
    <3>2. moved = [e \in Elem |->
                     IF \E i \in 0 .. k - 1 : e = Nth(i) THEN 1 ELSE 0]
      BY <1>4 DEF Registers
    <3>3. ~\E i \in 0 .. k - 1 : Nth(k) = Nth(i)
      BY <1>1, <1>3, <1>7
    <3>4. moved[ptr] = 0
      BY <1>2, <1>9, <3>2, <3>3
    <3>5. moved' = [moved EXCEPT ![ptr] = 1]
      BY <3>1, <3>4 DEF Element, Transfers, Faulted
    <3>6. ASSUME NEW e \in Elem
          PROVE  moved'[e] = IF \E i \in 0 .. k : e = Nth(i) THEN 1 ELSE 0
      <4>1. CASE e = Nth(k)
        BY <1>2, <1>7, <1>9, <3>5, <4>1
      <4>2. CASE e # Nth(k)
        <5>1. moved'[e] = moved[e]
          BY <1>2, <1>9, <3>5, <4>2
        <5>2. (\E i \in 0 .. k : e = Nth(i)) <=> \E i \in 0 .. k - 1 : e = Nth(i)
          BY <1>7, <4>2
        <5>3. moved[e] = IF \E i \in 0 .. k - 1 : e = Nth(i) THEN 1 ELSE 0
          BY <3>2
        <5> QED
          BY <5>1, <5>2, <5>3
      <4> QED
        BY <4>1, <4>2
    <3> QED
      BY <1>2, <3>5, <3>6
  <2>5. \A e \in Elem : (\E i \in 0 .. (k + 1) - 1 : e = Nth(i)') <=>
                          \E i \in 0 .. k : e = Nth(i)
    <3>1. (k + 1) - 1 = k /\ \A i \in 0 .. k : i \in 0 .. W
      BY <1>1, <1>7
    <3> QED
      BY <1>6, <3>1
  <2>6. moved' = [e \in Elem |->
                    IF \E i \in 0 .. (k + 1) - 1 : e = Nth(i)' THEN 1 ELSE 0]
    BY <2>4, <2>5
  <2>7. cnt' = IF k + 1 = 0 THEN start'.cnt ELSE Length' - (k + 1)
    BY <1>6, <1>7, <2>3
  <2> QED
    BY <2>2, <2>6, <2>7 DEF Registers
<1>11. /\ pv' <=> k + 1 = Length
       /\ z' <=> Nth(k) \in match
       /\ Repeats <=> (k + 1 # Length /\ Nth(k) \notin match)
  <2>1. Count = 0 <=> k + 1 = Length
    BY <1>1, <1>3, <1>7, <1>8
  <2> QED
    BY <1>9, <2>1 DEF Element, Repeats
<1>12. Unmet(k)'
  BY <1>1, <1>4, <1>5, <1>6, <1>7 DEF Unmet
<1>13. ASSUME Repeats PROVE Goes(k + 1)'
  <2>1. k + 1 < Length' /\ ~pv'
    BY <1>3, <1>6, <1>7, <1>11, <1>13
  <2>2. Nth(k)' \notin match'
    BY <1>5, <1>6, <1>7, <1>11, <1>13
  <2>3. Unmet(k + 1)'
    BY <1>7, <1>12, <2>2 DEF Unmet
  <2> QED
    BY <2>1, <2>3 DEF Goes
<1>14. ASSUME ~Repeats PROVE Ended(k + 1)'
  <2>1. (k + 1) - 1 = k /\ k + 1 > 0
    BY <1>7
  <2>2. z' <=> Nth(k)' \in match'
    BY <1>5, <1>6, <1>7, <1>11
  <2>3. z' \/ pv'
    BY <1>11, <1>14
  <2>4. pv' <=> k + 1 = Length'
    BY <1>6, <1>11
  <2> QED
    BY <1>12, <2>1, <2>2, <2>3, <2>4 DEF Ended
<1> QED
  BY <1>6, <1>7, <1>10, <1>13, <1>14

(* What is established once is not disturbed by a step that leaves the     *)
(* registers and the memory alone, if it also leaves the direction alone.  *)
LEMMA ProgressKept ==
  ASSUME NEW k \in 0 .. W, Progress(k),
         UNCHANGED <<regs, match, start, moved>>, Resumes' <=> Resumes
  PROVE  Progress(k)'
<1>1. \A i : Nth(i)' = Nth(i)
  BY DEF Nth
<1>2. Length' = Length /\ Registers(k)' = Registers(k)
  BY <1>1 DEF Registers, Length, regs
<1>3. Unmet(k)' = Unmet(k) /\ Unmet(k - 1)' = Unmet(k - 1)
  BY <1>1 DEF Unmet
<1>4. Goes(k)' = Goes(k) /\ Ended(k)' = Ended(k)
  BY <1>1, <1>2, <1>3 DEF Goes, Ended, regs
<1> QED
  BY <1>2, <1>4 DEF Progress

(* The instruction starts with nothing done and its whole count to go.     *)
LEMMA BlockInitInv ==
  ASSUME "fault" \notin Pages, BlockInit
  PROVE  BlockInv
<1>1. W \in Nat /\ W > 1 /\ Pages \subseteq {"ok", "warn"}
  BY BlockAssumption
<1>2. BlockTypes
  <2>1. page \in [Elem -> {"ok", "warn"}]
    BY <1>1 DEF BlockInit
  <2>2. moved \in [Elem -> {0, 1}]
    BY DEF BlockInit
  <2> QED
    BY <2>1, <2>2 DEF BlockInit, BlockTypes
<1>3. start = [ptr |-> ptr, cnt |-> cnt] /\ ptr \in 0 .. W - 1
  BY DEF BlockInit, Elem
<1>4. Length \in 1 .. W
  BY <1>2, Ring DEF BlockTypes
<1>5. ptr = Nth(0)
  <2>1. ptr % W = ptr
    BY <1>1, <1>3, Turn
  <2> QED
    BY <1>1, <1>3, <2>1 DEF Nth
<1>6. moved = [e \in Elem |-> IF \E i \in 0 .. 0 - 1 : e = Nth(i) THEN 1 ELSE 0]
  BY DEF BlockInit
<1>7. Registers(0)
  BY <1>3, <1>5, <1>6 DEF Registers
<1>8. Goes(0) /\ Resumes
  BY <1>4 DEF Goes, Unmet, BlockInit, Resumes
<1> QED
  BY <1>1, <1>2, <1>4, <1>7, <1>8 DEF BlockInv, Progress

(* The types, given what one element leaves in the registers.              *)
LEMMA ElementTypes ==
  ASSUME BlockTypes, Element, NEW k \in 0 .. W, Registers(k)'
  PROVE  /\ pv' \in BOOLEAN /\ z' \in BOOLEAN
         /\ ptr' \in Elem /\ cnt' \in Elem /\ start' \in [ptr : Elem, cnt : Elem]
         /\ page' \in [Elem -> {"ok", "warn"}] /\ moved' \in [Elem -> {0, 1}]
<1>1. W \in Nat /\ W > 1
  BY BlockAssumption
<1>2. (ptr + 1) % W \in Elem /\ (cnt - 1) % W \in Elem
  BY <1>1 DEF BlockTypes, Elem
<1>3. moved' \in [Elem -> {0, 1}]
  BY DEF Registers
<1> QED
  BY <1>2, <1>3 DEF BlockTypes, Element, Count

LEMMA BlockNextInv ==
  ASSUME BlockInv, [BlockNext]_bvars
  PROVE  BlockInv'
<1> USE DEF BlockInv
<1>1. PICK k \in 0 .. W : Progress(k)
  OBVIOUS
<1>2. CASE UNCHANGED bvars
  <2>1. Progress(k)'
    BY <1>1, <1>2, ProgressKept DEF bvars, Resumes
  <2> QED
    BY <1>2, <2>1 DEF BlockTypes, bvars, regs
<1>3. CASE First \/ Again
  <2>1. Element /\ Resumes /\ page \in [Elem -> {"ok", "warn"}] /\ ptr \in Elem
    BY <1>3 DEF First, Again, Resumes, BlockTypes
  <2>2. ~Faulted
    BY <2>1 DEF Faulted
  <2>3. where' = "past" /\ (looping' <=> Repeats)
    BY <1>3, <2>2 DEF First, Again
  <2>4. /\ k + 1 \in 0 .. W /\ k + 1 <= Length'
        /\ Registers(k + 1)'
        /\ Repeats => Goes(k + 1)'
        /\ ~Repeats => Ended(k + 1)'
    BY <1>1, <2>1, ElementProgress
  <2>5. Resumes' <=> Repeats
    BY <2>3 DEF Resumes
  <2>6. Progress(k + 1)'
    BY <2>4, <2>5 DEF Progress
  <2>7. BlockTypes'
    <3>1. saved' \in {"at", "past"} /\ where' \in {"at", "past", "handler"}
      BY <2>1, <2>3 DEF BlockTypes, Element
    <3>2. looping' \in BOOLEAN
      BY <1>3 DEF First, Again
    <3> QED
      BY <2>1, <2>4, <3>1, <3>2, ElementTypes DEF BlockTypes
  <2> QED
    BY <2>4, <2>6, <2>7
<1>4. CASE Preempt
  <2>1. Resumes' <=> Resumes
    BY <1>4 DEF Preempt, Rewound, Resumes
  <2>2. Progress(k)'
    BY <1>1, <1>4, <2>1, ProgressKept DEF Preempt
  <2> QED
    BY <1>4, <2>2 DEF BlockTypes, Preempt, Rewound, regs
<1>5. CASE Trap
  <2>1. Resumes' <=> Resumes
    BY <1>5 DEF Trap, Resumes, BlockTypes
  <2>2. Progress(k)'
    BY <1>1, <1>5, <2>1, ProgressKept DEF Trap
  <2> QED
    BY <1>5, <2>2 DEF BlockTypes, Trap, regs
<1>6. CASE Request
  <2>1. Resumes' <=> Resumes
    BY <1>6 DEF Request, Resumes
  <2>2. Progress(k)'
    BY <1>1, <1>6, <2>1, ProgressKept DEF Request
  <2> QED
    BY <1>6, <2>2 DEF BlockTypes, Request, regs
<1>7. ASSUME NEW grown \in BOOLEAN, Return(grown)
      PROVE  BlockInv'
  <2>1. Resumes' <=> Resumes
    BY <1>7 DEF Return, Resumes, BlockTypes
  <2>2. Progress(k)'
    BY <1>1, <1>7, <2>1, ProgressKept DEF Return
  <2>3. page' \in [Elem -> {"ok", "warn"}]
    BY <1>7 DEF Return, BlockTypes
  <2> QED
    BY <1>7, <2>2, <2>3 DEF BlockTypes, Return, regs
<1> QED
  BY <1>2, <1>3, <1>4, <1>5, <1>6, <1>7 DEF BlockNext

-----------------------------------------------------------------------------
(* The elements processed are those asked for, or their beginning.         *)
LEMMA ProgressMeans ==
  ASSUME BlockInv
  PROVE  EveryElementOnce
<1> USE DEF BlockInv
<1>1. PICK k \in 0 .. W : Progress(k)
  OBVIOUS
<1>2. W \in Nat /\ W > 1 /\ Length \in 1 .. W
  BY BlockAssumption, Ring DEF BlockTypes
<1>3. k <= Length /\ Registers(k)
  BY <1>1 DEF Progress
<1> DEFINE Processed == {Nth(i) : i \in 0 .. k - 1}
<1>4. \A e \in Elem : moved[e] = IF e \in Processed THEN 1 ELSE 0
  BY <1>3 DEF Registers
<1>5. Unmet(k - 1)
  BY <1>1, <1>2 DEF Progress, Goes, Ended, Unmet
<1>6. Processed \subseteq Asked
  <2> SUFFICES ASSUME NEW i \in 0 .. k - 1
               PROVE  Nth(i) \in Asked
    OBVIOUS
  <2>1. i \in 0 .. Length - 1
    BY <1>2, <1>3
  <2>2. \A j \in 0 .. i - 1 : Nth(j) \notin match
    BY <1>2, <1>5 DEF Unmet
  <2> QED
    BY <2>1, <2>2 DEF Asked
<1>7. \A e \in Elem : moved[e] <= IF e \in Asked THEN 1 ELSE 0
  BY <1>4, <1>6
<1>8. cnt = IF k = 0 THEN start.cnt ELSE Length - k
  BY <1>3 DEF Registers
<1>9. pv => cnt = 0
  BY <1>1, <1>2, <1>8 DEF Progress, Goes, Ended
<1>10. ASSUME where = "past", ~looping
       PROVE  /\ \A e \in Elem : moved[e] = IF e \in Asked THEN 1 ELSE 0
              /\ z <=> Asked \cap match # {}
              /\ pv <=> cnt = 0
              /\ z \/ pv
  <2>1. Ended(k)
    BY <1>1, <1>10 DEF Progress, Resumes
  <2>2. k \in 1 .. W /\ k - 1 \in 0 .. k - 1
    BY <1>2, <2>1 DEF Ended
  <2>3. Asked \subseteq Processed
    <3> SUFFICES ASSUME NEW i \in 0 .. Length - 1,
                        \A j \in 0 .. i - 1 : Nth(j) \notin match
                 PROVE  i \in 0 .. k - 1
      BY DEF Asked
    <3>1. CASE i >= k
      <4>1. ~pv
        BY <1>2, <2>1, <3>1 DEF Ended
      <4>2. Nth(k - 1) \in match
        BY <2>1, <4>1 DEF Ended
      <4>3. k - 1 \in 0 .. i - 1
        BY <1>2, <2>2, <3>1
      <4> QED
        BY <4>2, <4>3
    <3> QED
      BY <1>2, <2>2, <3>1
  <2>4. \A e \in Elem : moved[e] = IF e \in Asked THEN 1 ELSE 0
    BY <1>4, <1>6, <2>3
  <2>5. z <=> Nth(k - 1) \in match
    BY <2>1 DEF Ended
  <2>6. \A i \in 0 .. k - 2 : Nth(i) \notin match
    BY <1>2, <2>2, <1>5 DEF Unmet
  <2>7. Asked = Processed
    BY <1>6, <2>3
  <2>8. z <=> Asked \cap match # {}
    <3>1. ASSUME z PROVE Asked \cap match # {}
      BY <2>2, <2>5, <2>7, <3>1
    <3>2. ASSUME NEW i \in 0 .. k - 1, Nth(i) \in match PROVE z
      <4>1. i = k - 1
        BY <2>2, <2>6, <3>2
      <4> QED
        BY <2>5, <3>2, <4>1
    <3> QED
      BY <2>7, <3>1, <3>2
  <2>9. pv <=> cnt = 0
    BY <1>2, <1>8, <2>1, <2>2 DEF Ended
  <2> QED
    BY <2>1, <2>4, <2>8, <2>9 DEF Ended
<1> QED
  BY <1>7, <1>9, <1>10 DEF EveryElementOnce

(* cpu_step and the block instructions of execute: wherever traps and      *)
(* interrupts make the loop give way, each element asked for is moved      *)
(* once, and PV and Z tell how the instruction ended.                      *)
THEOREM ElementsSound ==
  ASSUME "fault" \notin Pages
  PROVE  BlockSpec => []EveryElementOnce
<1>1. BlockInit => BlockInv
  BY BlockInitInv
<1>2. BlockInv /\ [BlockNext]_bvars => BlockInv'
  BY BlockNextInv
<1>3. BlockInv => EveryElementOnce
  BY ProgressMeans
<1> QED
  BY <1>1, <1>2, <1>3, PTL DEF BlockSpec
=============================================================================
