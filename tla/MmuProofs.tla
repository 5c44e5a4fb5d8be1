----------------------------- MODULE MmuProofs -----------------------------
(***************************************************************************)
(* Proofs about Mmu for every byte width, table size and input set.        *)
(* The inductive invariant is TypeOK, CacheCoherent and VtrConsistent      *)
(* together; protection and the action properties follow from it.          *)
(* The second part is about SegTrap: the MMU inside the CPU behaves as the *)
(* MMU alone, so that the theorems of the first part hold of it, and no    *)
(* violation of a decoded instruction is lost on its way to the trap.      *)
(***************************************************************************)
EXTENDS SegTrap, TLAPS

IInv == TypeOK /\ CacheCoherent /\ VtrConsistent

(* A base field keeps its width when one of its bytes is replaced.         *)
LEMMA BaseBytes ==
  ASSUME NEW x \in 0 .. B * B - 1, NEW n \in Byte
  PROVE  /\ (x % B) + n * B \in 0 .. B * B - 1
         /\ (x - (x % B)) + n \in 0 .. B * B - 1
<1>1. B \in Nat /\ B > 1
  BY WidthAssumption
<1>2. x \in Nat /\ n \in Nat /\ n <= B - 1 /\ x < B * B
  BY <1>1 DEF Byte
<1>3. x % B \in 0 .. B - 1
  BY <1>1, <1>2
<1>4. n * B <= (B - 1) * B /\ n * B \in Nat
  BY <1>1, <1>2
<1>5. (B - 1) * B = B * B - B
  BY <1>1
<1>6. (x % B) + n * B \in 0 .. B * B - 1
  BY <1>1, <1>2, <1>3, <1>4, <1>5
<1> DEFINE q == x \div B
<1>7. q \in Nat /\ x = B * q + (x % B)
  BY <1>1, <1>2
<1>8. q <= B - 1
  <2>1. SUFFICES ASSUME q >= B PROVE FALSE
    BY <1>1, <1>7
  <2>2. B * q >= B * B
    BY <1>1, <1>7, <2>1
  <2> QED
    BY <1>1, <1>2, <1>3, <1>7, <2>2
<1>9. B * q <= B * (B - 1) /\ B * q \in Nat
  BY <1>1, <1>7, <1>8
<1> HIDE DEF q
<1>10. (x - (x % B)) + n \in 0 .. B * B - 1
  BY <1>1, <1>2, <1>3, <1>5, <1>7, <1>9
<1> QED
  BY <1>6, <1>10

LEMMA WithByteType ==
  ASSUME NEW d \in Desc, NEW which \in 0 .. 3, NEW b \in DataByte
  PROVE  WithByte(d, which, b) \in Desc
<1>1. b.num \in Byte /\ b.bits \in SUBSET Attrs
  BY DEF DataByte
<1>2. d.base \in 0 .. B * B - 1
  BY DEF Desc
<1>3. /\ (d.base % B) + b.num * B \in 0 .. B * B - 1
      /\ (d.base - (d.base % B)) + b.num \in 0 .. B * B - 1
  BY <1>1, <1>2, BaseBytes
<1> QED
  BY <1>1, <1>3 DEF WithByte, Desc

(* A descriptor write keeps the table well-typed and its cache coherent.   *)
LEMMA PutByteSound ==
  ASSUME TypeOK, CacheCoherent, NEW which \in 0 .. 3, NEW b \in DataBytes,
         PutByte(which, b)
  PROVE  /\ desc' \in [Seg -> Desc]
         /\ fast_ok' \in [Seg -> BOOLEAN]
         /\ fast_base' \in [Seg -> Nat]
         /\ CacheCoherent'
<1>1. b \in DataByte
  BY InputAssumption
<1>2. sar \in Seg /\ desc \in [Seg -> Desc]
  BY DEF TypeOK
<1>3. WithByte(desc[sar], which, b) \in Desc
  BY <1>1, <1>2, WithByteType
<1>4. desc' = [desc EXCEPT ![sar] = WithByte(desc[sar], which, b)]
  BY DEF PutByte
<1>5. desc' \in [Seg -> Desc]
  BY <1>2, <1>3, <1>4
<1>6. \A s \in Seg : s # sar => desc'[s] = desc[s]
  BY <1>2, <1>4
<1>7. /\ fast_ok' = [fast_ok EXCEPT ![sar] = Simple(desc'[sar])]
      /\ fast_base' = [fast_base EXCEPT ![sar] = FastBase(desc'[sar])]
  BY DEF PutByte, RefreshFast
<1>8. Simple(desc'[sar]) \in BOOLEAN /\ FastBase(desc'[sar]) \in Nat
  <2>1. desc'[sar].base \in Nat
    BY <1>2, <1>5 DEF Desc
  <2> QED
    BY <2>1, WidthAssumption DEF Simple, FastBase
<1>9. fast_ok' \in [Seg -> BOOLEAN] /\ fast_base' \in [Seg -> Nat]
  BY <1>7, <1>8 DEF TypeOK
<1>10. \A s \in Seg : /\ fast_ok'[s] = Simple(desc'[s])
                      /\ fast_base'[s] = FastBase(desc'[s])
  <2> SUFFICES ASSUME NEW s \in Seg
               PROVE  /\ fast_ok'[s] = Simple(desc'[s])
                      /\ fast_base'[s] = FastBase(desc'[s])
    OBVIOUS
  <2>1. CASE s = sar
    BY <1>2, <1>7, <2>1 DEF TypeOK
  <2>2. CASE s # sar
    BY <1>2, <1>6, <1>7, <2>2 DEF TypeOK, CacheCoherent
  <2> QED
    BY <2>1, <2>2
<1> QED
  BY <1>5, <1>9, <1>10 DEF CacheCoherent

(* Setting REF and CHG keeps the table well-typed and its cache coherent:  *)
(* neither bit is restrictive.                                             *)
LEMMA AccountSound ==
  ASSUME TypeOK, CacheCoherent, NEW a \in Accesses, Account(a),
         UNCHANGED <<fast_ok, fast_base>>
  PROVE  desc' \in [Seg -> Desc] /\ CacheCoherent'
<1>1. a.sn \in Nat
  BY InputAssumption, WidthAssumption DEF Access, SegNum
<1>2. Idx(a) \in Seg
  BY <1>1, WidthAssumption DEF Idx, Seg
<1>3. desc \in [Seg -> Desc]
  BY DEF TypeOK
<1>4. Touched(a) \in SUBSET Attrs /\ Touched(a) \cap ARestrict = {}
  BY DEF Touched, Attrs, ARestrict
<1> DEFINE d == desc[Idx(a)]
           e == [d EXCEPT !.attr = @ \cup Touched(a)]
<1>5. d \in Desc
  BY <1>2, <1>3
<1>6. e \in Desc /\ e.base = d.base /\ e.limit = d.limit
        /\ e.attr = d.attr \cup Touched(a)
  BY <1>4, <1>5 DEF Desc
<1>7. desc' = [desc EXCEPT ![Idx(a)] = e]
  BY DEF Account
<1> HIDE DEF e
<1>8. desc' \in [Seg -> Desc]
  BY <1>2, <1>3, <1>6, <1>7
<1>9. Simple(e) = Simple(d) /\ FastBase(e) = FastBase(d)
  BY <1>4, <1>6 DEF Simple, FastBase
<1>10. \A s \in Seg : Simple(desc'[s]) = Simple(desc[s])
                        /\ FastBase(desc'[s]) = FastBase(desc[s])
  BY <1>2, <1>3, <1>7, <1>9
<1> QED
  BY <1>8, <1>10 DEF CacheCoherent

(* A violation keeps the violation registers well-typed and consistent.    *)
LEMMA LatchSound ==
  ASSUME TypeOK, VtrConsistent, NEW kind \in Kinds, NEW a \in Accesses,
         NEW suppress \in BOOLEAN, suppress <=> kind # "PWW",
         latch_viol(kind, a, suppress)
  PROVE  /\ viol_type' \in SUBSET VtBits
         /\ viol_sn' \in SegNum /\ viol_off' \in Offset /\ bcsr' \in Bcsr
         /\ viol_captured' \in BOOLEAN /\ segt' \in BOOLEAN
         /\ warn_pending' \in BOOLEAN
         /\ VtrConsistent'
<1>1. a \in Access
  BY InputAssumption
<1>2. BcsrOf(a) \in Bcsr
  BY <1>1 DEF BcsrOf, Bcsr, Status, Access
<1>3. /\ viol_sn' \in SegNum /\ viol_off' \in Offset /\ bcsr' \in Bcsr
  BY <1>1, <1>2 DEF latch_viol, LatchContext, TypeOK, Access
<1> DEFINE vt == NewType(kind, a, suppress)
<1>4. viol_type' = vt /\ viol_captured' = TRUE
  BY DEF latch_viol
<1>5. vt \in SUBSET VtBits /\ kind \in vt
  BY DEF NewType, TypeOK, VtBits
<1>6. segt' \in BOOLEAN /\ warn_pending' \in BOOLEAN
  BY DEF latch_viol, TypeOK
<1>7. vt \cap Kinds # {}
  BY <1>5
<1>8. segt' = TRUE
  <2>1. CASE viol_captured
    BY <2>1 DEF VtrConsistent, latch_viol, TypeOK
  <2>2. CASE ~viol_captured
    <3>1. ~Fatal(a, suppress) /\ ~SecondWarning(a, suppress)
      BY <2>2 DEF Fatal, SecondWarning, VtrConsistent
    <3>2. vt = {kind}
      BY <2>2, <3>1 DEF NewType
    <3>3. ~Inhibited(vt)
      BY <3>2 DEF Inhibited, Kinds
    <3> QED
      BY <3>3 DEF latch_viol
  <2> QED
    BY <2>1, <2>2 DEF TypeOK
<1>9. "SWW" \in vt => "PWW" \in vt
  BY DEF NewType, SecondWarning, VtrConsistent, Kinds
<1> QED
  BY <1>3, <1>4, <1>5, <1>6, <1>7, <1>8, <1>9 DEF VtrConsistent

LEMMA LadderKinds ==
  ASSUME NEW d, NEW a, Ladder(d, a) # "none"
  PROVE  Ladder(d, a) \in Kinds /\ Ladder(d, a) # "PWW"
BY DEF Ladder, Kinds

LEMMA InitIInv == Init => IInv
<1> SUFFICES ASSUME Init PROVE IInv
  OBVIOUS
<1>1. ZeroDesc \in Desc /\ ZeroBcsr \in Bcsr
  BY WidthAssumption DEF ZeroDesc, Desc, ZeroBcsr, Bcsr, Byte, Attrs
<1>2. FastBase(ZeroDesc) \in Nat /\ Simple(ZeroDesc) \in BOOLEAN
  BY WidthAssumption DEF FastBase, ZeroDesc, Simple
<1>3. 0 \in Seg /\ 0 \in SegNum /\ 0 \in Offset
  BY WidthAssumption DEF Seg, SegNum, Offset
<1>4. TypeOK
  <2>1. desc \in [Seg -> Desc]
    BY <1>1 DEF Init
  <2>2. fast_ok \in [Seg -> BOOLEAN] /\ fast_base \in [Seg -> Nat]
    BY <1>2, Zenon DEF Init
  <2>3. mode \in SUBSET Flags /\ sar \in Seg /\ dsc \in 0 .. 3
    BY <1>3 DEF Init, Flags
  <2>4. /\ viol_type \in SUBSET VtBits /\ viol_sn \in SegNum
        /\ viol_off \in Offset /\ bcsr \in Bcsr
    BY <1>1, <1>3 DEF Init
  <2>5. viol_captured \in BOOLEAN /\ segt \in BOOLEAN /\ warn_pending \in BOOLEAN
    BY DEF Init
  <2> QED
    BY <2>1, <2>2, <2>3, <2>4, <2>5 DEF TypeOK
<1>5. CacheCoherent
  BY DEF Init, CacheCoherent
<1>6. VtrConsistent
  BY DEF Init, VtrConsistent, Kinds
<1> QED
  BY <1>4, <1>5, <1>6 DEF IInv

(* One bus cycle, by the path it takes.                                    *)
LEMMA TranslateIInv ==
  ASSUME IInv, NEW a \in Accesses, mmu_translate(a)
  PROVE  IInv'
<1> USE DEF IInv
<1>0. UNCHANGED <<fast_ok, fast_base, mode, sar, dsc>>
  BY DEF mmu_translate, ctl
<1>1. Outcome(a) \in {"pass", "fast", "deny", "warn", "grant"}
  BY DEF Outcome
<1>2. CASE Outcome(a) = "pass"
  <2>1. UNCHANGED <<desc, viol>>
    BY <1>2 DEF mmu_translate
  <2> QED
    BY <1>0, <2>1 DEF TypeOK, CacheCoherent, VtrConsistent, viol
<1>3. CASE Outcome(a) \in {"fast", "grant"}
  <2>1. Account(a) /\ UNCHANGED viol
    BY <1>3 DEF mmu_translate
  <2>2. desc' \in [Seg -> Desc] /\ CacheCoherent'
    BY <1>0, <2>1, AccountSound
  <2> QED
    BY <1>0, <2>1, <2>2 DEF TypeOK, VtrConsistent, viol
<1>4. CASE Outcome(a) = "deny"
  <2>1. latch_viol(Ladder(desc[Idx(a)], a), a, TRUE) /\ UNCHANGED desc
    BY <1>4 DEF mmu_translate
  <2>2. Ladder(desc[Idx(a)], a) # "none"
    BY <1>4 DEF Outcome
  <2>3. Ladder(desc[Idx(a)], a) \in Kinds /\ Ladder(desc[Idx(a)], a) # "PWW"
    BY <2>2, LadderKinds
  <2> HIDE DEF IInv
  <2>4. TypeOK /\ VtrConsistent
    BY DEF IInv
  <2>5. /\ viol_type' \in SUBSET VtBits
        /\ viol_sn' \in SegNum /\ viol_off' \in Offset /\ bcsr' \in Bcsr
        /\ viol_captured' \in BOOLEAN /\ segt' \in BOOLEAN
        /\ warn_pending' \in BOOLEAN
        /\ VtrConsistent'
    BY <2>1, <2>3, <2>4, LatchSound
  <2> QED
    BY <1>0, <2>1, <2>5 DEF IInv, TypeOK, CacheCoherent
<1>5. CASE Outcome(a) = "warn"
  <2>1. Account(a) /\ latch_viol("PWW", a, FALSE)
    BY <1>5 DEF mmu_translate
  <2>2. desc' \in [Seg -> Desc] /\ CacheCoherent'
    BY <1>0, <2>1, AccountSound
  <2>3. /\ viol_type' \in SUBSET VtBits
        /\ viol_sn' \in SegNum /\ viol_off' \in Offset /\ bcsr' \in Bcsr
        /\ viol_captured' \in BOOLEAN /\ segt' \in BOOLEAN
        /\ warn_pending' \in BOOLEAN
        /\ VtrConsistent'
    <3>1. "PWW" \in Kinds
      BY DEF Kinds
    <3> QED
      BY <2>1, <3>1, LatchSound
  <2> QED
    BY <1>0, <2>2, <2>3 DEF TypeOK
<1> QED
  BY <1>1, <1>2, <1>3, <1>4, <1>5

LEMMA SarStepType ==
  ASSUME sar \in Seg, NEW inc, SarStep(inc)
  PROVE  sar' \in Seg
BY WidthAssumption DEF SarStep, Seg

(* A command that writes a descriptor byte.                                *)
LEMMA DescWriteIInv ==
  ASSUME IInv, NEW which \in 0 .. 3, NEW b \in DataBytes, PutByte(which, b),
         sar' \in Seg, dsc' \in 0 .. 3, UNCHANGED <<mode, viol>>
  PROVE  IInv'
<1>1. TypeOK /\ CacheCoherent
  BY DEF IInv
<1>2. /\ desc' \in [Seg -> Desc] /\ fast_ok' \in [Seg -> BOOLEAN]
      /\ fast_base' \in [Seg -> Nat] /\ CacheCoherent'
  BY <1>1, PutByteSound
<1> QED
  BY <1>2 DEF IInv, TypeOK, VtrConsistent, viol

(* A command that only moves the control registers.                        *)
LEMMA ControlIInv ==
  ASSUME IInv, sar' \in Seg, dsc' \in 0 .. 3, mode' \in SUBSET Flags,
         UNCHANGED <<table, viol>>
  PROVE  IInv'
BY DEF IInv, TypeOK, CacheCoherent, VtrConsistent, table, viol

LEMMA ProgramIInv ==
  ASSUME IInv, Program
  PROVE  IInv'
<1>0. sar \in Seg /\ dsc \in 0 .. 3 /\ mode \in SUBSET Flags
  BY DEF IInv, TypeOK
<1>1. ASSUME NEW m \in Modes, WriteMode(m) PROVE IInv'
  BY <1>0, <1>1, ControlIInv, InputAssumption DEF WriteMode
<1>2. ASSUME NEW s \in Seg, WriteSar(s) PROVE IInv'
  BY <1>0, <1>2, ControlIInv DEF WriteSar
<1>3. ASSUME NEW k \in 0 .. 3, WriteDsc(k) PROVE IInv'
  BY <1>0, <1>3, ControlIInv DEF WriteDsc
<1>4. ASSUME NEW inc \in BOOLEAN, StepBase(inc)
      PROVE  sar' \in Seg /\ dsc' \in 0 .. 3
  <2>1. sar' \in Seg
    BY <1>0, <1>4, SarStepType DEF StepBase
  <2>2. dsc' \in 0 .. 3
    BY <1>0, <1>4 DEF StepBase
  <2> QED
    BY <2>1, <2>2
<1>5. ASSUME NEW inc \in BOOLEAN, StepFull(inc)
      PROVE  sar' \in Seg /\ dsc' \in 0 .. 3
  <2>1. sar' \in Seg
    BY <1>0, <1>5, SarStepType DEF StepFull
  <2>2. dsc' \in 0 .. 3
    BY <1>0, <1>5 DEF StepFull
  <2> QED
    BY <2>1, <2>2
<1>6. ASSUME NEW inc \in BOOLEAN, NEW b \in DataBytes, WriteBase(inc, b)
      PROVE  IInv'
  <2>1. dsc % 2 \in 0 .. 3
    BY <1>0
  <2> QED
    BY <1>4, <1>6, <2>1, DescWriteIInv DEF WriteBase
<1>7. ASSUME NEW inc \in BOOLEAN, NEW b \in DataBytes, WriteLimit(inc, b)
      PROVE  IInv'
  BY <1>0, <1>7, SarStepType, DescWriteIInv DEF WriteLimit
<1>8. ASSUME NEW inc \in BOOLEAN, NEW b \in DataBytes, WriteAttr(inc, b)
      PROVE  IInv'
  BY <1>0, <1>8, SarStepType, DescWriteIInv DEF WriteAttr
<1>9. ASSUME NEW inc \in BOOLEAN, NEW b \in DataBytes, WriteFull(inc, b)
      PROVE  IInv'
  BY <1>0, <1>5, <1>9, DescWriteIInv DEF WriteFull
<1>10. ASSUME NEW inc \in BOOLEAN,
              ReadBase(inc) \/ ReadField(inc) \/ ReadFull(inc)
       PROVE  IInv'
  <2>1. CASE ReadBase(inc)
    BY <1>0, <1>4, <2>1, ControlIInv DEF ReadBase
  <2>2. CASE ReadField(inc)
    BY <1>0, <2>2, SarStepType, ControlIInv DEF ReadField
  <2>3. CASE ReadFull(inc)
    BY <1>0, <1>5, <2>3, ControlIInv DEF ReadFull
  <2> QED
    BY <1>10, <2>1, <2>2, <2>3
<1>11. ASSUME NEW bit \in {"CPU", "DMAI"}, SetAll(bit) PROVE IInv'
  <2>1. desc' \in [Seg -> Desc]
    <3>1. ASSUME NEW s \in Seg
          PROVE  [desc[s] EXCEPT !.attr = @ \cup {bit}] \in Desc
      <4>1. desc[s] \in Desc
        BY DEF IInv, TypeOK
      <4>2. bit \in Attrs
        BY DEF Attrs
      <4> QED
        BY <4>1, <4>2 DEF Desc
    <3> QED
      BY <1>11, <3>1 DEF SetAll
  <2>2. \A s \in Seg : Simple(desc'[s]) \in BOOLEAN /\ FastBase(desc'[s]) \in Nat
    <3>1. \A s \in Seg : desc'[s].base \in Nat
      BY <2>1, WidthAssumption DEF Desc
    <3> QED
      BY <3>1, WidthAssumption DEF Simple, FastBase
  <2>3. /\ fast_ok' = [s \in Seg |-> Simple(desc'[s])]
        /\ fast_base' = [s \in Seg |-> FastBase(desc'[s])]
        /\ UNCHANGED <<ctl, viol>>
    BY <1>11 DEF SetAll
  <2> QED
    BY <2>1, <2>2, <2>3 DEF IInv, TypeOK, CacheCoherent, VtrConsistent, ctl, viol
<1> QED
  BY <1>1, <1>2, <1>3, <1>6, <1>7, <1>8, <1>9, <1>10, <1>11 DEF Program

LEMMA AcknowledgeIInv ==
  ASSUME IInv, Acknowledge
  PROVE  IInv'
<1>1. CASE ResetVtr
  BY <1>1 DEF ResetVtr, IInv, TypeOK, CacheCoherent, VtrConsistent, table, ctl, Kinds
<1>2. ASSUME NEW f \in {"SWW", "FATL"}, ClearFlag(f) PROVE IInv'
  <2>1. UNCHANGED <<table, ctl, viol_sn, viol_off, bcsr, viol_captured, segt,
                    warn_pending>> /\ viol_type' = viol_type \ {f}
    BY <1>2 DEF ClearFlag
  <2>2. TypeOK' /\ CacheCoherent'
    BY <2>1 DEF IInv, TypeOK, CacheCoherent, table, ctl
  <2>3. viol_type' \cap Kinds = viol_type \cap Kinds
    BY <2>1 DEF Kinds
  <2>4. "PWW" \in viol_type => "PWW" \in viol_type'
    BY <2>1
  <2> QED
    BY <2>1, <2>2, <2>3, <2>4 DEF IInv, VtrConsistent
<1>3. CASE TakeWarning
  BY <1>3 DEF TakeWarning, IInv, TypeOK, CacheCoherent, VtrConsistent, table, ctl
<1> QED
  BY <1>1, <1>2, <1>3 DEF Acknowledge

LEMMA NextIInv == IInv /\ [Next]_vars => IInv'
<1> SUFFICES ASSUME IInv, [Next]_vars PROVE IInv'
  OBVIOUS
<1>1. CASE UNCHANGED vars
  BY <1>1 DEF vars, table, ctl, viol, IInv, TypeOK, CacheCoherent, VtrConsistent
<1> QED
  BY <1>1, TranslateIInv, ProgramIInv, AcknowledgeIInv DEF Next

LEMMA SpecIInv == Spec => []IInv
BY InitIInv, NextIInv, PTL DEF Spec

(* Every register keeps its width, whatever the guest sends to the port.   *)
THEOREM TypeCorrect == Spec => []TypeOK
<1>1. IInv => TypeOK
  BY DEF IInv
<1> QED
  BY <1>1, SpecIInv, PTL

(* The translation cache always agrees with the descriptor table.          *)
THEOREM CacheSound == Spec => []CacheCoherent
<1>1. IInv => CacheCoherent
  BY DEF IInv
<1> QED
  BY <1>1, SpecIInv, PTL

(* The type register, the capture latch and the trap request agree.        *)
THEOREM VtrSound == Spec => []VtrConsistent
<1>1. IInv => VtrConsistent
  BY DEF IInv
<1> QED
  BY <1>1, SpecIInv, PTL

(* Both translation paths enforce exactly what the descriptor says.        *)
THEOREM ProtectionSound == Spec => []ProtectionEnforced
<1>1. IInv => ProtectionEnforced
  <2> SUFFICES ASSUME IInv, NEW a \in Accesses, Acts(a)
               PROVE  LET d == desc[Idx(a)]
                      IN  /\ Faults(a) <=> ~Permits(d, a)
                          /\ Permits(d, a) => Address(a) = Phys(d.base * B + a.off)
                          /\ Permits(d, a) /\ Boundary(d, a) => Outcome(a) = "warn"
    BY DEF ProtectionEnforced
  <2> DEFINE d == desc[Idx(a)]
  <2>1. a \in Access
    BY InputAssumption
  <2>2. Idx(a) \in Seg
    BY <2>1, WidthAssumption DEF Idx, Seg, Access, SegNum
  <2>3. d \in Desc
    BY <2>2 DEF IInv, TypeOK
  <2>4. Page(a) \in 0 .. B - 1
    <3>1. B \in Nat /\ B > 1 /\ a.off \in Nat /\ a.off < B * B
      BY <2>1, WidthAssumption DEF Access, Offset
    <3>2. /\ Page(a) \in Nat
          /\ a.off = B * Page(a) + (a.off % B)
          /\ a.off % B \in Nat
      BY <3>1 DEF Page
    <3>3. SUFFICES ASSUME Page(a) >= B PROVE FALSE
      BY <3>1, <3>2
    <3>4. B * Page(a) >= B * B
      BY <3>1, <3>2, <3>3
    <3> QED
      BY <3>1, <3>2, <3>4
  <2>5. fast_ok[Idx(a)] = Simple(d) /\ fast_base[Idx(a)] = d.base * B
    BY <2>2 DEF IInv, CacheCoherent, FastBase
  <2>6. d.limit \in 0 .. B - 1 /\ d.attr \in SUBSET Attrs
    BY <2>3 DEF Desc, Byte
  <2>7. TooLong(d, a) <=> Page(a) \notin ValidPages(d)
    BY <2>4, <2>6, WidthAssumption DEF TooLong, ValidPages
  <2>8. Permits(d, a) <=> Ladder(d, a) = "none"
    BY <2>1, <2>7 DEF Permits, Ladder, Access
  <2>9. CASE Simple(d)
    <3>1. Outcome(a) = "fast"
      BY <2>5, <2>9 DEF Outcome
    <3>2. d.attr \cap {"CPU", "RD", "SYS", "EXC", "DIRW"} = {} /\ d.limit = B - 1
      BY <2>9 DEF Simple, ARestrict
    <3>3. Permits(d, a) /\ ~Boundary(d, a)
      BY <2>4, <3>2, WidthAssumption DEF Permits, ValidPages, Boundary
    <3>4. Address(a) = Phys(d.base * B + a.off)
      BY <2>5, <3>1 DEF Address
    <3> QED
      BY <3>1, <3>3, <3>4 DEF Faults
  <2>10. CASE ~Simple(d) /\ Ladder(d, a) # "none"
    <3>1. Outcome(a) = "deny"
      BY <2>5, <2>10 DEF Outcome
    <3> QED
      BY <2>8, <2>10, <3>1 DEF Faults
  <2>11. CASE ~Simple(d) /\ Ladder(d, a) = "none"
    <3>1. Outcome(a) = IF Boundary(d, a) THEN "warn" ELSE "grant"
      BY <2>5, <2>11 DEF Outcome
    <3>2. Address(a) = Phys(d.base * B + a.off)
      BY <3>1 DEF Address
    <3> QED
      BY <2>8, <2>11, <3>1, <3>2 DEF Faults
  <2> QED
    BY <2>9, <2>10, <2>11
<1> QED
  BY <1>1, SpecIInv, PTL

(* The context of the first violation survives until VTR is reset.         *)
THEOREM ContextSound == Spec => ContextFrozen
<1>1. [Next]_vars /\ viol_captured /\ viol_captured' =>
        /\ UNCHANGED <<viol_sn, viol_off, bcsr>>
        /\ viol_type \cap Kinds \subseteq viol_type'
  <2> SUFFICES ASSUME [Next]_vars, viol_captured, viol_captured'
               PROVE  /\ UNCHANGED <<viol_sn, viol_off, bcsr>>
                      /\ viol_type \cap Kinds \subseteq viol_type'
    OBVIOUS
  <2>1. CASE UNCHANGED viol
    BY <2>1 DEF viol
  <2>2. ASSUME NEW kind, NEW a, NEW suppress, latch_viol(kind, a, suppress)
        PROVE  /\ UNCHANGED <<viol_sn, viol_off, bcsr>>
               /\ viol_type \cap Kinds \subseteq viol_type'
    BY <2>2 DEF latch_viol, LatchContext, NewType
  <2>3. ASSUME NEW a \in Accesses, mmu_translate(a)
        PROVE  UNCHANGED viol \/ \E k, s : latch_viol(k, a, s)
    <3>1. Outcome(a) \in {"pass", "fast", "deny", "warn", "grant"}
      BY DEF Outcome
    <3> QED
      BY <2>3, <3>1 DEF mmu_translate
  <2>4. ASSUME Program PROVE UNCHANGED viol
    BY <2>4 DEF Program, WriteMode, WriteSar, WriteDsc, WriteBase, WriteLimit,
                WriteAttr, WriteFull, ReadBase, ReadField, ReadFull, SetAll
  <2>5. ASSUME Acknowledge
        PROVE  /\ UNCHANGED <<viol_sn, viol_off, bcsr>>
               /\ viol_type \cap Kinds \subseteq viol_type'
    BY <2>5 DEF Acknowledge, ResetVtr, ClearFlag, TakeWarning, Kinds
  <2>6. CASE UNCHANGED vars
    BY <2>6 DEF vars, viol
  <2> QED
    BY <2>1, <2>2, <2>3, <2>4, <2>5, <2>6 DEF Next
<1> QED
  BY <1>1, PTL DEF Spec, ContextFrozen

(* No step that leaves FATL or SWW set raises a trap request.              *)
THEOREM InhibitSound == Spec => NoRequestWhileInhibited
<1>1. IInv /\ [Next]_vars /\ viol_type' \cap {"FATL", "SWW"} # {} =>
        (segt' => segt) /\ (warn_pending' => warn_pending)
  <2> SUFFICES ASSUME IInv, [Next]_vars, viol_type' \cap {"FATL", "SWW"} # {}
               PROVE  (segt' => segt) /\ (warn_pending' => warn_pending)
    OBVIOUS
  <2>0. segt \in BOOLEAN /\ warn_pending \in BOOLEAN
    BY DEF IInv, TypeOK
  <2>1. CASE UNCHANGED viol
    BY <2>1 DEF viol
  <2>2. ASSUME NEW kind, NEW a, NEW suppress, latch_viol(kind, a, suppress)
        PROVE  (segt' => segt) /\ (warn_pending' => warn_pending)
    BY <2>0, <2>2 DEF latch_viol, Inhibited
  <2>3. ASSUME NEW a \in Accesses, mmu_translate(a)
        PROVE  UNCHANGED viol \/ \E k, s : latch_viol(k, a, s)
    <3>1. Outcome(a) \in {"pass", "fast", "deny", "warn", "grant"}
      BY DEF Outcome
    <3> QED
      BY <2>3, <3>1 DEF mmu_translate
  <2>4. ASSUME Program PROVE UNCHANGED viol
    BY <2>4 DEF Program, WriteMode, WriteSar, WriteDsc, WriteBase, WriteLimit,
                WriteAttr, WriteFull, ReadBase, ReadField, ReadFull, SetAll
  <2>5. ASSUME Acknowledge
        PROVE  (segt' => segt) /\ (warn_pending' => warn_pending)
    BY <2>5 DEF Acknowledge, ResetVtr, ClearFlag, TakeWarning
  <2>6. CASE UNCHANGED vars
    BY <2>6 DEF vars, viol
  <2> QED
    BY <2>1, <2>2, <2>3, <2>4, <2>5, <2>6 DEF Next
<1> QED
  BY <1>1, SpecIInv, PTL DEF Spec, NoRequestWhileInhibited

-----------------------------------------------------------------------------

(* A denied cycle that has not led to a trap is on record: in fault while  *)
(* its instruction runs, in the latched requests from then on.             *)
OnRecord ==
  /\ fault \in BOOLEAN /\ req \in BOOLEAN /\ owed \in BOOLEAN
  /\ at \in {"boundary", "push"} => (owed => req)
  /\ at \in {"instr", "data"} => (owed => fault)
  /\ at \in {"boundary", "push", "instr", "data"}

(* Every step of the CPU is a command, a cycle or a stutter of the MMU.    *)
(* The last needs the type of warn_pending: an instruction that leaves no  *)
(* warning retires without touching the MMU.                               *)
LEMMA StepImplements ==
  ASSUME TypeOK, [TrapNext]_allvars
  PROVE  [Next]_vars
<1>1. CASE UNCHANGED allvars
  BY <1>1 DEF allvars
<1>2. CASE \E a \in Accesses : Cycle(a)
  BY <1>2 DEF Cycle, Next
<1>3. CASE Command
  BY <1>3 DEF Command, Next, Acknowledge
<1>4. CASE Retire
  <2>1. CASE warn_pending
    BY <1>4, <2>1 DEF Retire, Next, Acknowledge, TakeWarning
  <2>2. CASE ~warn_pending
    <3>1. warn_pending' = warn_pending
      BY <1>4, <2>2 DEF Retire, TypeOK
    <3> QED
      BY <1>4, <3>1 DEF Retire, vars, viol
  <2> QED
    BY <2>1, <2>2
<1>5. CASE Fetch \/ Undecoded \/ Entered \/ \E segtrap \in BOOLEAN : Trap(segtrap)
  BY <1>5 DEF Fetch, Undecoded, Entered, Trap
<1> QED
  BY <1>1, <1>2, <1>3, <1>4, <1>5 DEF TrapNext

LEMMA TrapIInv == TrapSpec => []IInv /\ [][Next]_vars
<1>1. TrapInit => IInv
  BY InitIInv DEF TrapInit
<1>2. IInv /\ [TrapNext]_allvars => [Next]_vars
  BY StepImplements DEF IInv
<1>3. IInv /\ [Next]_vars => IInv'
  BY NextIInv
<1> QED
  BY <1>1, <1>2, <1>3, PTL DEF TrapSpec

(* The composition implements the MMU's own specification (mmu_translate   *)
(* and the command port called from cpu.c).                                *)
THEOREM TrapImplementsMmu == TrapSpec => Spec
<1>1. TrapInit => Init
  BY DEF TrapInit
<1> QED
  BY <1>1, TrapIInv, PTL DEF Spec, TrapSpec

(* The cache agrees with the table through every instruction and trap of    *)
(* the CPU, whose special I/O is all that writes either (mmu_cmd_write).   *)
THEOREM TrapCacheSound == TrapSpec => []CacheCoherent
BY TrapImplementsMmu, CacheSound, PTL

(* Protection holds whatever instructions, traps and unknown encodings the *)
(* cycles come from (mmu_translate under mem_r16, mem_w16, ifetch16).      *)
THEOREM TrapProtectionSound == TrapSpec => []ProtectionEnforced
BY TrapImplementsMmu, ProtectionSound, PTL

(* The violation registers stay consistent while cpu_step consumes the     *)
(* warnings and software resets VTR between instructions.                  *)
THEOREM TrapVtrSound == TrapSpec => []VtrConsistent
BY TrapImplementsMmu, VtrSound, PTL

(* The context of the first violation survives the rest of its             *)
(* instruction, the trap entry and the handler, until VTR is reset.        *)
THEOREM TrapContextSound == TrapSpec => ContextFrozen
BY TrapImplementsMmu, ContextSound, PTL

(* With FATL or SWW set no cycle and no retiring instruction makes the MMU *)
(* raise a request (latch_viol).                                           *)
THEOREM TrapInhibitSound == TrapSpec => NoRequestWhileInhibited
BY TrapImplementsMmu, InhibitSound, PTL

-----------------------------------------------------------------------------
LEMMA StepOnRecord ==
  ASSUME OnRecord, [TrapNext]_allvars
  PROVE  OnRecord'
<1> USE DEF OnRecord
<1>1. CASE UNCHANGED allvars
  BY <1>1 DEF allvars, cpu
<1>2. ASSUME NEW a \in Accesses, Cycle(a) PROVE OnRecord'
  <2>1. Faults(a) \in BOOLEAN
    BY DEF Faults
  <2> QED
    BY <1>2, <2>1 DEF Cycle
<1>3. CASE Fetch
  BY <1>3 DEF Fetch
<1>4. CASE Command
  BY <1>4 DEF Command
<1>5. CASE Retire
  BY <1>5 DEF Retire, Requests
<1>6. CASE Undecoded
  BY <1>6 DEF Undecoded
<1>7. CASE Entered
  BY <1>7 DEF Entered
<1>8. ASSUME NEW segtrap \in BOOLEAN, Trap(segtrap) PROVE OnRecord'
  BY <1>8 DEF Trap
<1> QED
  BY <1>1, <1>2, <1>3, <1>4, <1>5, <1>6, <1>7, <1>8 DEF TrapNext

(* Only an instruction that starts without a request leaves the boundary   *)
(* for an instruction, and then nothing is owed (cpu_step).                *)
LEMMA NothingOwed ==
  ASSUME OnRecord, [TrapNext]_allvars, at = "boundary", at' = "instr"
  PROVE  ~owed
<1>1. ~UNCHANGED allvars
  BY DEF allvars, cpu
<1>2. ~req
  BY <1>1 DEF TrapNext, Fetch, Cycle, Command, Retire, Undecoded, Entered, Trap
<1> QED
  BY <1>2 DEF OnRecord

(* No violation of an instruction that decodes is still owed a segment     *)
(* trap when the next instruction starts, whatever traps come first.       *)
THEOREM FaultsSound == TrapSpec => FaultsReported
<1>1. TrapInit => OnRecord
  BY DEF TrapInit, OnRecord
<1>2. OnRecord /\ [TrapNext]_allvars => OnRecord'
  BY StepOnRecord
<1>3. OnRecord /\ [TrapNext]_allvars =>
        [at = "boundary" /\ at' = "instr" => ~owed]_allvars
  BY NothingOwed
<1> QED
  BY <1>1, <1>2, <1>3, PTL DEF TrapSpec, FaultsReported
============================================================================
