-------------------------------- MODULE Park --------------------------------
(***************************************************************************)
(* The park watch (park_step in bus.c): it ends the run of a guest that a  *)
(* periodic interrupt keeps waking and that does nothing when woken.       *)
(*                                                                         *)
(* sig stands for all of the guest the watch compares: registers, PC, FCW, *)
(* console stamp, script position and prompt count.  Memory, the disk and  *)
(* wired ports are not compared.                                           *)
(***************************************************************************)
EXTENDS Naturals

CONSTANTS
  Budget,        \* PARK_LOOPS
  Awake          \* PARK_AWAKE

ASSUME ParkAssumption == Budget \in Nat \ {0} /\ Awake \in Nat \ {0}

VARIABLES loops, awake, was_halted, taken   \* ParkWatch; taken is its signature

watch == <<loops, awake, was_halted, taken>>

(* The watch has no signature: valid is false.                             *)
Invalid == <<"invalid">>

ParkInit == loops = 0 /\ awake = 0 /\ was_halted = FALSE /\ taken = Invalid

(* Mutant: every wakeup clears the park.                                   *)
Running_resets ==
  /\ awake' = IF awake > Awake THEN awake ELSE awake + 1
  /\ was_halted' = FALSE /\ loops' = 0 /\ taken' = Invalid

(* park_step on a running guest: a brief excursion keeps the signature, a  *)
(* long one throws it away.                                                *)
Running ==
  /\ awake' = IF awake > Awake THEN awake ELSE awake + 1
  /\ was_halted' = FALSE
  /\ IF awake' > Awake THEN loops' = 0 /\ taken' = Invalid
                       ELSE UNCHANGED <<loops, taken>>

(* At the instant of a halt the signature is compared; while the guest     *)
(* stays halted it is not.                                                 *)
Same(s) == was_halted \/ taken = s

(* Mutant: a new signature does not restart the count.                     *)
Counted_kept(s) == loops + 1

Counted(s) == IF Same(s) THEN loops + 1 ELSE 1

Parked(s) ==
  /\ awake' = 0 /\ was_halted' = TRUE
  /\ taken' = IF Same(s) THEN taken ELSE s
  /\ loops' = Counted(s)

park_step(h, s) == IF h THEN Parked(s) ELSE Running

(* park_step says that the run is over.                                    *)
Fires(h, s) == h /\ Counted(s) > Budget
=============================================================================
