-------------------------------- MODULE Mmu --------------------------------
(***************************************************************************)
(* The Z8010 memory management unit (mmu.c): a table of segment            *)
(* descriptors programmed one byte at a time through a command port, the   *)
(* translation of a bus cycle with its protection ladder, a per-descriptor *)
(* cache that lets simple descriptors skip the ladder, and the registers   *)
(* that latch the first violation for the guest's trap handler.            *)
(*                                                                         *)
(* The widths are parameters: B is the number of values of a byte (256 in  *)
(* the code) and NSeg the number of descriptors (64).  A segment number    *)
(* has one bit more than a descriptor index; an offset is two bytes, a     *)
(* physical address three.                                                 *)
(***************************************************************************)
EXTENDS Integers

CONSTANTS
  B,          \* values of a byte: 256
  NSeg,       \* descriptors: 64
  DataBytes,  \* bytes software sends to the command port, see DataByte
  Modes,      \* values software sends to the mode register
  Accesses    \* bus cycles the CPU presents, see Access

Attrs  == {"REF", "CHG", "DIRW", "DMAI", "EXC", "CPU", "SYS", "RD"}
Kinds  == {"PWW", "EXCV", "CPUIV", "SLV", "SYSV", "RDV"}
VtBits == Kinds \cup {"FATL", "SWW"}
Flags  == {"MSEN", "TRNS", "URS"}

Byte   == 0 .. B - 1
Seg    == 0 .. NSeg - 1
SegNum == 0 .. 2 * NSeg - 1
Offset == 0 .. B * B - 1

(* A data byte is read as a number by the base and limit fields and as a   *)
(* set of bits by the attribute field.                                     *)
DataByte == [num : Byte, bits : SUBSET Attrs]
Access   == [sn : SegNum, off : Offset,
             write : BOOLEAN, normal : BOOLEAN, fetch : BOOLEAN]
Desc     == [base : 0 .. B * B - 1, limit : Byte, attr : SUBSET Attrs]
Bcsr     == [st : {0, 9, 10, 13}, write : BOOLEAN, normal : BOOLEAN]

ASSUME WidthAssumption == B \in Nat \ {0, 1} /\ NSeg \in Nat \ {0}
ASSUME InputAssumption == /\ DataBytes \subseteq DataByte
                          /\ Modes \subseteq SUBSET Flags
                          /\ Accesses \subseteq Access

VARIABLES
  desc, fast_ok, fast_base,         \* descriptors and their cache
  mode, sar, dsc,                   \* control registers
  viol_type, viol_sn, viol_off, bcsr, viol_captured,  \* violation registers
  segt, warn_pending                \* trap request, one-shot write warning

table == <<desc, fast_ok, fast_base>>
ctl   == <<mode, sar, dsc>>
viol  == <<viol_type, viol_sn, viol_off, bcsr, viol_captured, segt, warn_pending>>
vars  == <<table, ctl, viol>>

-----------------------------------------------------------------------------
(* The fast-path cache (mmu_refresh_fast).                                 *)

ARestrict == {"CPU", "RD", "SYS", "EXC", "DIRW"}

(* Mutant: the stack direction bit forgotten among the restrictive bits.   *)
Simple_forgets_DIRW(d) ==
  d.limit = B - 1 /\ d.attr \cap {"CPU", "RD", "SYS", "EXC"} = {}

Simple(d) == d.limit = B - 1 /\ d.attr \cap ARestrict = {}

FastBase(d) == d.base * B

(* Mutant: the cache rebuilt for the descriptor SAR points at afterwards.  *)
RefreshFast_after_step(s) ==
  /\ fast_ok' = [fast_ok EXCEPT ![sar'] = Simple(desc'[sar'])]
  /\ fast_base' = [fast_base EXCEPT ![sar'] = FastBase(desc'[sar'])]

RefreshFast(s) ==
  /\ fast_ok' = [fast_ok EXCEPT ![s] = Simple(desc'[s])]
  /\ fast_base' = [fast_base EXCEPT ![s] = FastBase(desc'[s])]

ZeroDesc == [base |-> 0, limit |-> 0, attr |-> {}]
ZeroBcsr == [st |-> 0, write |-> FALSE, normal |-> FALSE]

(* mmu_reset: the state the machine starts from.                           *)
Init ==
  /\ desc = [s \in Seg |-> ZeroDesc]
  /\ fast_ok = [s \in Seg |-> Simple(ZeroDesc)]
  /\ fast_base = [s \in Seg |-> FastBase(ZeroDesc)]
  /\ mode = {"MSEN"} /\ sar = 0 /\ dsc = 0
  /\ viol_type = {} /\ viol_sn = 0 /\ viol_off = 0 /\ bcsr = ZeroBcsr
  /\ viol_captured = FALSE /\ segt = FALSE /\ warn_pending = FALSE

-----------------------------------------------------------------------------
(* The violation latch (latch_viol).                                       *)

Status(a) == IF a.fetch THEN 13 ELSE IF a.write THEN 10 ELSE 9

BcsrOf(a) == [st |-> Status(a), write |-> a.write, normal |-> a.normal]

Fatal(a, suppress) == viol_captured /\ (suppress \/ a.normal)

SecondWarning(a, suppress) ==
  ~suppress /\ ~a.normal /\ "PWW" \in viol_type /\ ~Fatal(a, suppress)

(* VTR after this violation: latched by the first, accumulated by others.  *)
NewType(kind, a, suppress) ==
  (IF viol_captured THEN viol_type ELSE {}) \cup {kind}
    \cup (IF Fatal(a, suppress) THEN {"FATL"} ELSE {})
    \cup (IF SecondWarning(a, suppress) THEN {"SWW"} ELSE {})

(* Mutant: every violation overwrites the latched context.                 *)
LatchContext_always(a) ==
  viol_sn' = a.sn /\ viol_off' = a.off /\ bcsr' = BcsrOf(a)

LatchContext(a) ==
  IF viol_captured
    THEN UNCHANGED <<viol_sn, viol_off, bcsr>>
    ELSE viol_sn' = a.sn /\ viol_off' = a.off /\ bcsr' = BcsrOf(a)

Inhibited(vt) == vt \cap {"FATL", "SWW"} # {}

latch_viol(kind, a, suppress) ==
  LET vt == NewType(kind, a, suppress)
  IN  /\ viol_type' = vt
      /\ viol_captured' = TRUE
      /\ LatchContext(a)
      /\ segt' = (segt \/ ~Inhibited(vt))
      /\ warn_pending' = (warn_pending \/ (~suppress /\ ~Inhibited(vt)))

-----------------------------------------------------------------------------
(* Translation of one bus cycle (mmu_translate).                           *)

Idx(a)      == a.sn % NSeg
Page(a)     == a.off \div B
Identity(a) == a.sn * (B * B) + a.off
Phys(n)     == n % (B * B * B)

(* The MMU is enabled, translating, and this is its half of the segments.  *)
Acts(a) ==
  /\ {"MSEN", "TRNS"} \subseteq mode
  /\ a.sn \div NSeg = IF "URS" \in mode THEN 1 ELSE 0

TooLong(d, a) ==
  IF "DIRW" \in d.attr THEN Page(a) < d.limit ELSE Page(a) > d.limit

(* The protection ladder: the first failing test names the violation.      *)
Ladder(d, a) ==
  IF "CPU" \in d.attr                THEN "CPUIV" ELSE
  IF TooLong(d, a)                   THEN "SLV"   ELSE
  IF "RD" \in d.attr /\ a.write      THEN "RDV"   ELSE
  IF "SYS" \in d.attr /\ a.normal    THEN "SYSV"  ELSE
  IF "EXC" \in d.attr /\ ~a.fetch    THEN "EXCV"  ELSE "none"

(* A permitted write to the boundary page of a stack segment.              *)
Boundary(d, a) == "DIRW" \in d.attr /\ a.write /\ Page(a) = d.limit

Touched(a) == {"REF"} \cup (IF a.write THEN {"CHG"} ELSE {})

Account(a) == desc' = [desc EXCEPT ![Idx(a)].attr = @ \cup Touched(a)]

Outcome(a) ==
  IF ~Acts(a)                            THEN "pass" ELSE
  IF fast_ok[Idx(a)]                     THEN "fast" ELSE
  IF Ladder(desc[Idx(a)], a) # "none"    THEN "deny" ELSE
  IF Boundary(desc[Idx(a)], a)           THEN "warn" ELSE "grant"

(* The address the cycle is given, and whether it is inhibited.            *)
Address(a) ==
  CASE Outcome(a) \in {"pass", "deny"}  -> Identity(a)
    [] Outcome(a) = "fast"              -> Phys(fast_base[Idx(a)] + a.off)
    [] Outcome(a) \in {"warn", "grant"} -> Phys(desc[Idx(a)].base * B + a.off)

Faults(a) == Outcome(a) = "deny"

mmu_translate(a) ==
  /\ CASE Outcome(a) = "pass"  -> UNCHANGED <<desc, viol>>
       [] Outcome(a) \in {"fast", "grant"} -> Account(a) /\ UNCHANGED viol
       [] Outcome(a) = "deny"  ->
            latch_viol(Ladder(desc[Idx(a)], a), a, TRUE) /\ UNCHANGED desc
       [] Outcome(a) = "warn"  -> Account(a) /\ latch_viol("PWW", a, FALSE)
  /\ UNCHANGED <<fast_ok, fast_base, ctl>>

-----------------------------------------------------------------------------
(* The command port (mmu_cmd_read, mmu_cmd_write).  Commands 0x0C..0x0F    *)
(* are 0x08..0x0B with inc = TRUE: they also step SAR.                     *)

SarStep(inc) == sar' = IF inc THEN (sar + 1) % NSeg ELSE sar

WithByte(d, which, b) ==
  CASE which = 0 -> [d EXCEPT !.base = (@ % B) + b.num * B]
    [] which = 1 -> [d EXCEPT !.base = (@ - (@ % B)) + b.num]
    [] which = 2 -> [d EXCEPT !.limit = b.num]
    [] which = 3 -> [d EXCEPT !.attr = b.bits]

(* write_desc_byte and the refresh of the descriptor that was written.     *)
PutByte(which, b) ==
  /\ desc' = [desc EXCEPT ![sar] = WithByte(@, which, b)]
  /\ RefreshFast(sar)

StepBase(inc) ==          \* DSC bit 0 walks base high, base low
  /\ dsc' = 1 - (dsc % 2)
  /\ SarStep(inc /\ dsc % 2 = 1)

StepFull(inc) ==          \* DSC walks base high, base low, limit, attr
  /\ dsc' = (dsc + 1) % 4
  /\ SarStep(inc /\ dsc = 3)

WriteMode(m) == mode' = m /\ UNCHANGED <<table, sar, dsc, viol>>

WriteSar(s) == sar' = s /\ dsc' = 0 /\ UNCHANGED <<table, mode, viol>>

WriteDsc(k) == dsc' = k /\ UNCHANGED <<table, mode, sar, viol>>

WriteBase(inc, b) ==
  StepBase(inc) /\ PutByte(dsc % 2, b) /\ UNCHANGED <<mode, viol>>

WriteLimit(inc, b) ==
  SarStep(inc) /\ PutByte(2, b) /\ UNCHANGED <<mode, dsc, viol>>

WriteAttr(inc, b) ==
  SarStep(inc) /\ PutByte(3, b) /\ UNCHANGED <<mode, dsc, viol>>

WriteFull(inc, b) ==
  StepFull(inc) /\ PutByte(dsc, b) /\ UNCHANGED <<mode, viol>>

ReadBase(inc)  == StepBase(inc) /\ UNCHANGED <<table, mode, viol>>
ReadField(inc) == SarStep(inc) /\ UNCHANGED <<table, mode, dsc, viol>>
ReadFull(inc)  == StepFull(inc) /\ UNCHANGED <<table, mode, viol>>

ResetVtr ==
  /\ viol_type' = {} /\ viol_captured' = FALSE /\ segt' = FALSE
  /\ UNCHANGED <<table, ctl, viol_sn, viol_off, bcsr, warn_pending>>

ClearFlag(f) ==           \* 0x13 clears SWW, 0x14 clears FATL
  /\ viol_type' = viol_type \ {f}
  /\ UNCHANGED <<table, ctl, viol_sn, viol_off, bcsr, viol_captured, segt,
                 warn_pending>>

SetAll(bit) ==            \* 0x15 sets CPU, 0x16 sets DMAI, in every descriptor
  /\ desc' = [s \in Seg |-> [desc[s] EXCEPT !.attr = @ \cup {bit}]]
  /\ fast_ok' = [s \in Seg |-> Simple(desc'[s])]
  /\ fast_base' = [s \in Seg |-> FastBase(desc'[s])]
  /\ UNCHANGED <<ctl, viol>>

(* cpu_step consumes a write warning once the instruction is complete.     *)
TakeWarning == warn_pending /\ warn_pending' = FALSE
  /\ UNCHANGED <<table, ctl, viol_type, viol_sn, viol_off, bcsr, viol_captured,
                 segt>>

-----------------------------------------------------------------------------
Program ==
  \/ \E m \in Modes : WriteMode(m)
  \/ \E s \in Seg : WriteSar(s)
  \/ \E k \in 0 .. 3 : WriteDsc(k)
  \/ \E inc \in BOOLEAN, b \in DataBytes :
       \/ WriteBase(inc, b)
       \/ WriteLimit(inc, b)
       \/ WriteAttr(inc, b)
       \/ WriteFull(inc, b)
  \/ \E inc \in BOOLEAN : ReadBase(inc) \/ ReadField(inc) \/ ReadFull(inc)
  \/ \E bit \in {"CPU", "DMAI"} : SetAll(bit)

Acknowledge ==
  \/ ResetVtr
  \/ \E f \in {"SWW", "FATL"} : ClearFlag(f)
  \/ TakeWarning

Next ==
  \/ \E a \in Accesses : mmu_translate(a)
  \/ Program
  \/ Acknowledge

Spec == Init /\ [][Next]_vars

-----------------------------------------------------------------------------
(* Every register holds a value of its width.                              *)
TypeOK ==
  /\ desc \in [Seg -> Desc]
  /\ fast_ok \in [Seg -> BOOLEAN]
  /\ fast_base \in [Seg -> Nat]
  /\ mode \in SUBSET Flags /\ sar \in Seg /\ dsc \in 0 .. 3
  /\ viol_type \in SUBSET VtBits
  /\ viol_sn \in SegNum /\ viol_off \in Offset /\ bcsr \in Bcsr
  /\ viol_captured \in BOOLEAN /\ segt \in BOOLEAN /\ warn_pending \in BOOLEAN

(* The cache agrees with the descriptors: what mmu_refresh_fast computes   *)
(* from a descriptor is what is cached for it.  mmu_translate changes      *)
(* attributes without a refresh, so the agreement rests on the accounting  *)
(* bits not being restrictive.                                             *)
CacheCoherent ==
  \A s \in Seg : /\ fast_ok[s] = Simple(desc[s])
                 /\ fast_base[s] = FastBase(desc[s])

(* What a descriptor grants, stated without the ladder's order.            *)
ValidPages(d) == IF "DIRW" \in d.attr THEN d.limit .. B - 1 ELSE 0 .. d.limit

Permits(d, a) ==
  /\ Page(a) \in ValidPages(d)
  /\ "CPU" \notin d.attr
  /\ "RD" \in d.attr => ~a.write
  /\ "SYS" \in d.attr => ~a.normal
  /\ "EXC" \in d.attr => a.fetch

(* mmu_translate enforces protection in every reachable state, whichever   *)
(* of its two paths it takes: a cycle the descriptor forbids is inhibited, *)
(* a permitted one gets the descriptor's own base plus the offset, and a   *)
(* permitted write to a stack segment's boundary page never takes the      *)
(* check-free path that would skip its warning.                            *)
ProtectionEnforced ==
  \A a \in Accesses : Acts(a) =>
    LET d == desc[Idx(a)]
    IN  /\ Faults(a) <=> ~Permits(d, a)
        /\ Permits(d, a) => Address(a) = Phys(d.base * B + a.off)
        /\ Permits(d, a) /\ Boundary(d, a) => Outcome(a) = "warn"

(* The violation registers tell one story: the type register names a       *)
(* violation exactly while the capture latch is closed, the trap request   *)
(* is up exactly as long (so the guest always learns of a first            *)
(* violation), and a secondary warning presupposes a primary one.          *)
VtrConsistent ==
  /\ viol_captured <=> viol_type \cap Kinds # {}
  /\ viol_captured <=> segt
  /\ ~viol_captured => viol_type = {}
  /\ "SWW" \in viol_type => "PWW" \in viol_type

(* latch_viol pins the context of the first violation: until the guest     *)
(* resets VTR no access and no command moves the latched address and bus   *)
(* status, and no violation type already recorded is lost.                 *)
ContextFrozen ==
  [][viol_captured /\ viol_captured' =>
       /\ UNCHANGED <<viol_sn, viol_off, bcsr>>
       /\ viol_type \cap Kinds \subseteq viol_type']_vars

(* A step that leaves FATL or SWW set raises no new trap request, the step *)
(* that sets the flag included.                                            *)
NoRequestWhileInhibited ==
  [][viol_type' \cap {"FATL", "SWW"} # {} =>
       (segt' => segt) /\ (warn_pending' => warn_pending)]_vars

============================================================================
