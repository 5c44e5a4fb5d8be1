----------------------------- MODULE MCSegTrap -----------------------------
(* An instance of SegTrap for TLC.  With two pages, limit 0 and the full   *)
(* limit 1 are both boundary values; the bytes make the segment a stack or *)
(* one of executable system code, and the cycles touch both pages from     *)
(* both modes.                                                             *)
(*                                                                         *)
(* Two descriptors are what a step of SAR needs to reach the wrong one.    *)
(* CommandPort bounds them: while both are in use no violation is on       *)
(* record and one of them has only its attributes set.  From the first     *)
(* violation on, the cycles and the commands are about descriptor 0.       *)
EXTENDS SegTrap

Cyc(o, w, n, f) == [sn |-> 0, off |-> o, write |-> w, normal |-> n, fetch |-> f]

MCBytes == {[num |-> 1, bits |-> {}], [num |-> 0, bits |-> {"EXC", "SYS"}],
            [num |-> 1, bits |-> {"DIRW"}]}
MCModes == {{"MSEN", "TRNS"}}
MCAccesses == {Cyc(0, TRUE, FALSE, FALSE), Cyc(3, TRUE, FALSE, FALSE),
               Cyc(3, TRUE, TRUE, FALSE), Cyc(0, FALSE, FALSE, TRUE)}

OnlyAttributes(s) == desc[s] = [ZeroDesc EXCEPT !.attr = desc[s].attr]
CommandPort ==
  \/ desc[1] = ZeroDesc /\ sar = 0
  \/ viol_type = {} /\ ~fault /\ ~req /\ \E s \in {0, 1} : OnlyAttributes(s)
============================================================================
