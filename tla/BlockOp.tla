------------------------------ MODULE BlockOp ------------------------------
(***************************************************************************)
(* The repeating block instructions of cpu.c (LDIR, CPIR, CPSIR, OTIR and  *)
(* their kin) and the fast path of cpu_step that loops the decoded         *)
(* instruction in place.                                                   *)
(*                                                                         *)
(* One element is one call of execute: it touches memory at the pointer,   *)
(* advances the pointer and decrements the count, both modulo the register *)
(* width.  The loop gives way to traps and interrupts between elements by  *)
(* rewinding PC, and resumes from the registers.  An element is identified *)
(* by the pointer it is found at; moved counts what happened to each.      *)
(***************************************************************************)
EXTENDS Integers

CONSTANTS
  W,         \* register modulus, 2^16 in the code
  Matches,   \* sets of elements that satisfy the condition; {} for the forms
             \* without one
  Rings,     \* elements whose output makes a device request an interrupt
  Pages,     \* what an access may meet: subset of {"ok", "warn", "fault"}
  MaxVi      \* bound: device interrupts during the instruction

Elem == 0 .. W - 1

ASSUME BlockAssumption ==
  /\ W \in Nat \ {0, 1} /\ MaxVi \in Nat
  /\ Matches \subseteq SUBSET Elem /\ Rings \subseteq Elem
  /\ "ok" \in Pages /\ Pages \subseteq {"ok", "warn", "fault"}

VARIABLES
  where,      \* PC: "at" the instruction, "past" it, or in a "handler"
  saved,      \* PC in the trap frame
  looping,    \* cpu_step is at the head of its repeat loop
  ptr, cnt,   \* pointer and count registers
  pv, z,      \* flags: count exhausted, condition met
  segtrap,    \* IRQ_SEGTRAP requested
  stale,      \* IRQ_VI latched in irq_req although VIE is off
  dev, vis,   \* an enabled device interrupt is requested; how many so far
  match,      \* elements that satisfy the condition
  page,       \* what the MMU says to an access to each element
  start,      \* history: pointer and count at the outset
  moved       \* history: how often each element was transferred, up to 2

regs == <<ptr, cnt, pv, z>>
bvars == <<where, saved, looping, regs, segtrap, stale, dev, vis, match, page,
           start, moved>>

-----------------------------------------------------------------------------
Faulted == page[ptr] = "fault"

(* Mutant: an element that raised the warning is not counted.              *)
Count_not_on_warning == IF page[ptr] = "warn" THEN cnt ELSE (cnt - 1) % W

Count == (cnt - 1) % W

(* A faulting store is skipped; the registers move on all the same.        *)
Transfers == ~Faulted

Repeats == Count # 0 /\ ptr \notin match

(* One element: memory, pointer, count, flags, requests.                   *)
Element ==
  /\ moved' = IF Transfers THEN [moved EXCEPT ![ptr] = IF @ = 2 THEN 2 ELSE @ + 1]
              ELSE moved
  /\ ptr' = (ptr + 1) % W
  /\ cnt' = Count
  /\ pv' = (Count = 0) /\ z' = (ptr \in match)
  /\ segtrap' = (segtrap \/ page[ptr] # "ok")
  /\ dev' = (dev \/ (ptr \in Rings /\ ~stale))
  /\ UNCHANGED <<saved, stale, vis, match, page, start>>

(* The first element of a cpu_step.  No trap was selected at the boundary; *)
(* after a fault PC is that of the following instruction.                  *)
First ==
  /\ where = "at" /\ ~looping /\ ~segtrap /\ ~dev
  /\ Element
  /\ where' = "past" /\ looping' = (Repeats /\ ~Faulted)

Pending == segtrap \/ stale

(* Mutant: the loop gives way without rewinding PC.                        *)
Rewound_forgotten == "past"

Rewound == "at"

(* The loop head gives way; a level-sensitive line cannot have changed     *)
(* since the boundary, for only the machine loop samples devices.          *)
Preempt ==
  /\ looping /\ Pending
  /\ looping' = FALSE /\ where' = Rewound
  /\ UNCHANGED <<saved, regs, segtrap, stale, dev, vis, match, page, start,
                 moved>>

(* A further element.  After a fault PC is that of this instruction.       *)
Again ==
  /\ looping /\ ~Pending
  /\ Element
  /\ where' = (IF Faulted THEN "at" ELSE "past")
  /\ looping' = (Repeats /\ ~Faulted)

(* The boundary takes the segment trap, else the sampled device interrupt. *)
Trap ==
  /\ ~looping /\ where # "handler" /\ (segtrap \/ dev)
  /\ saved' = where /\ where' = "handler"
  /\ IF segtrap THEN segtrap' = FALSE /\ UNCHANGED dev
                ELSE dev' = FALSE /\ UNCHANGED segtrap
  /\ UNCHANGED <<looping, regs, stale, vis, match, page, start, moved>>

(* The handler returns with the registers restored, and may have extended  *)
(* the segment.                                                            *)
Return(grown) ==
  /\ where = "handler" /\ where' = saved
  /\ page' = IF grown THEN [e \in Elem |-> "ok"] ELSE page
  /\ UNCHANGED <<saved, looping, regs, segtrap, stale, dev, vis, match, start,
                 moved>>

(* Between two cpu_steps the machine loop finds a device requesting.       *)
Request ==
  /\ ~looping /\ where # "handler" /\ ~stale /\ vis < MaxVi
  /\ dev' = TRUE /\ vis' = vis + 1
  /\ UNCHANGED <<where, saved, looping, regs, segtrap, stale, match, page,
                 start, moved>>

BlockInit ==
  /\ where = "at" /\ saved = "at" /\ looping = FALSE
  /\ ptr \in Elem /\ cnt \in Elem /\ start = [ptr |-> ptr, cnt |-> cnt]
  /\ pv = FALSE /\ z = FALSE /\ segtrap = FALSE /\ stale \in BOOLEAN
  /\ dev = FALSE /\ vis = 0
  /\ match \in Matches
  /\ page \in [Elem -> Pages] /\ moved = [e \in Elem |-> 0]

Done == where = "past" /\ ~looping /\ ~segtrap /\ ~dev

BlockNext ==
  \/ First \/ Preempt \/ Again \/ Trap \/ Request
  \/ \E grown \in BOOLEAN : Return(grown)
  \/ Done /\ UNCHANGED bvars

(* cpu_step is called again and again, and handlers return.                *)
BlockSpec ==
  /\ BlockInit /\ [][BlockNext]_bvars
  /\ WF_bvars(First \/ Preempt \/ Again \/ Trap)
  /\ WF_bvars(\E grown \in BOOLEAN : Return(grown))

-----------------------------------------------------------------------------
(* Elements the instruction should process, a zero count meaning W of      *)
(* them: those up to the first match, or all.                              *)
Length == IF start.cnt = 0 THEN W ELSE start.cnt
Nth(i) == (start.ptr + i) % W
Asked  == {Nth(i) : i \in {j \in 0 .. Length - 1 :
                             \A k \in 0 .. j - 1 : Nth(k) \notin match}}

(* No element is transferred twice or out of range, whatever traps and     *)
(* interrupts rewind the loop, and PV is only up when the count has run    *)
(* out; once past the instruction every element asked for has been         *)
(* transferred exactly once, and Z and PV tell how it ended.               *)
EveryElementOnce ==
  /\ \A e \in Elem : moved[e] <= IF e \in Asked THEN 1 ELSE 0
  /\ pv => cnt = 0
  /\ where = "past" /\ ~looping =>
       /\ \A e \in Elem : moved[e] = IF e \in Asked THEN 1 ELSE 0
       /\ z <=> Asked \cap match # {}
       /\ pv <=> cnt = 0
       /\ z \/ pv

(* The instruction completes whatever interrupts it.                       *)
Completes == <>Done

============================================================================
