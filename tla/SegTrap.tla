------------------------------ MODULE SegTrap ------------------------------
(***************************************************************************)
(* The MMU with the CPU around it: how a violation becomes a segment trap. *)
(*                                                                         *)
(* Nothing connects the MMU's SEGT output to the CPU's segt_line.  Instead *)
(* cpu_step collects c->fault and warn_pending from the cycles of the      *)
(* instruction and turns them into IRQ_SEGTRAP when it retires.  The       *)
(* cycles of a trap frame's push, and the fetches of an encoding decode    *)
(* does not know, go through the same MMU.                                 *)
(***************************************************************************)
EXTENDS Mmu

VARIABLES
  at,        \* "boundary", in an "instr"uction, "data" written or command
             \* sent, or in a "push" of a trap frame
  fault,     \* c->fault
  req,       \* IRQ_SEGTRAP in irq_req
  owed       \* history: a denied cycle has not led to a segment trap yet

cpu     == <<at, fault, req, owed>>
allvars == <<vars, cpu>>

-----------------------------------------------------------------------------
(* cpu_step past the boundary: no trap is pending.                         *)
Fetch ==
  /\ at = "boundary" /\ ~req
  /\ at' = "instr" /\ fault' = FALSE
  /\ UNCHANGED <<vars, req, owed>>

(* ifetch16, mem_r16, mem_w16, mem_r8, mem_w8.  A trap frame's push has    *)
(* nobody to report to.                                                    *)
Cycle(a) ==
  /\ at \in {"instr", "data", "push"}
  /\ mmu_translate(a)
  /\ fault' = (fault \/ Faults(a))
  /\ owed' = (owed \/ (Faults(a) /\ at # "push"))
  /\ at' = IF at = "instr" /\ a.write THEN "data" ELSE at
  /\ UNCHANGED req

(* An I/O instruction programs the MMU; a cycle before it, a block         *)
(* instruction's read, may have been denied.                               *)
Command ==
  /\ at = "instr"
  /\ Program \/ ResetVtr \/ \E f \in {"SWW", "FATL"} : ClearFlag(f)
  /\ at' = "data" /\ UNCHANGED <<fault, req, owed>>

(* Mutant: only warnings become traps.                                     *)
Requests_warning_only == warn_pending

Requests == warn_pending \/ fault

(* The end of cpu_step: consume the warning, look at the fault.            *)
Retire ==
  /\ at \in {"instr", "data"}
  /\ warn_pending' = FALSE /\ req' = (req \/ Requests) /\ at' = "boundary"
  /\ UNCHANGED <<table, ctl, viol_type, viol_sn, viol_off, bcsr, viol_captured,
                 segt, fault, owed>>

(* An unknown encoding: cpu_step asks for the EPU trap and returns before  *)
(* it looks at either, so that a violation in the fetches is dropped.      *)
Undecoded ==
  /\ at = "instr"
  /\ at' = "push" /\ owed' = FALSE /\ UNCHANGED <<vars, fault, req>>

(* handle_interrupts takes the segment trap, or one of higher priority.    *)
Trap(segtrap) ==
  /\ at = "boundary" /\ (segtrap => req)
  /\ at' = "push" /\ req' = (req /\ ~segtrap) /\ owed' = (owed /\ ~segtrap)
  /\ UNCHANGED <<vars, fault>>

Entered ==
  /\ at = "push" /\ at' = "boundary"
  /\ UNCHANGED <<vars, fault, req, owed>>

TrapInit ==
  Init /\ at = "boundary" /\ fault = FALSE /\ req = FALSE /\ owed = FALSE

TrapNext ==
  \/ Fetch \/ Command \/ Retire \/ Undecoded \/ Entered
  \/ \E a \in Accesses : Cycle(a)
  \/ \E segtrap \in BOOLEAN : Trap(segtrap)

TrapSpec == TrapInit /\ [][TrapNext]_allvars

-----------------------------------------------------------------------------
(* cpu.c of the memory helpers: a hard violation "sets c->fault, which     *)
(* cpu_step turns into a segment trap".  Of an instruction that decodes,   *)
(* no violation is still owed when the next instruction starts, however    *)
(* many other traps come first.                                            *)
FaultsReported == [][at = "boundary" /\ at' = "instr" => ~owed]_allvars

============================================================================
