---------------------------- MODULE VectorGuest -----------------------------
(***************************************************************************)
(* Interrupts with a guest on the other side of the vector: either one     *)
(* that does anything at all, or a kernel, with the timer and every        *)
(* receiver enabled, whose handlers run with VIE off, answer their source  *)
(* and return.  A handler takes three iterations of machine_run here; the  *)
(* constants of the model keep its proportion to the timer's shortest      *)
(* period and to the wires' (2000 and 64 iterations).                      *)
(***************************************************************************)
EXTENDS Interrupts

CONSTANT Script   \* bytes the console's script types at the kernel

ASSUME ScriptAssumption == Script \in Nat

VARIABLES
  script,     \* those not yet typed
  kernel,     \* the guest is the kernel
  handler     \* the handler it is in; "return" before the IRET, "none"

gvars == <<vars, script, kernel, handler>>

Anything == ~kernel /\ Next /\ UNCHANGED <<script, handler>>

(* The machine takes a trap or interrupt: the program status area loads an *)
(* FCW with VIE off.                                                       *)
Enter == \/ TakeVi(FALSE) /\ handler' = vi_vector
         \/ TakeTrap(FALSE) /\ handler' = "return"

(* The clock handler takes IP down, a receiver's reads the byte, the       *)
(* disk's has nothing to do; and then the IRET.                            *)
Answer ==
  /\ handler \in Sources /\ handler' = "return"
  /\ CASE handler = "ct3"  -> Command(FALSE, TRUE, FALSE, FALSE)
       [] handler = "disk" -> Other
       [] OTHER            -> ReadRR8(handler)

Iret == handler = "return" /\ handler' = "none" /\ LoadVie(TRUE)

(* Between handlers: system calls, disk requests one at a time, another    *)
(* time constant, the rest.                                                *)
Work ==
  /\ handler = "none" /\ UNCHANGED handler
  /\ \/ RaiseTrap \/ Other \/ (Doorbell /\ ~owed)
     \/ \E t \in Constants : WriteMode(t, csc)

(* A script is finite, and what is not of it is looked for now and then.   *)
Machine ==
  /\ UNCHANGED handler
  /\ \/ Bus /\ UNCHANGED script
     \/ \E ch \in Channels :
          /\ Arrive(ch)
          /\ \/ tick_counter = 0 /\ UNCHANGED script
             \/ tick_counter # 0 /\ script > 0 /\ script' = script - 1

Kernel == /\ kernel
          /\ Machine \/ ((Enter \/ Answer \/ Iret \/ Work) /\ UNCHANGED script)

On == [ch \in Channels |-> TRUE]

(* The kernel from the time when it has set its devices up; the disk may   *)
(* have been asked for something before that.                              *)
Running ==
  /\ ph = "bus" /\ tick_counter = 0 /\ tc \in Constants
  /\ cs = [ip |-> FALSE, ie |-> TRUE] /\ mie = TRUE /\ csc = TRUE
  /\ ct3_running = TRUE /\ ct3_accum = 0
  /\ rx_avail = Off /\ wr1 = On /\ wr9 = On
  /\ disk_vi \in BOOLEAN /\ owed = disk_vi /\ last_vi_disk = FALSE
  /\ vi_line = FALSE /\ vi_vector = "none"
  /\ vie = TRUE /\ irq_vi = FALSE /\ trap = FALSE /\ asked = {}

GuestInit ==
  /\ handler = "none" /\ script = Script
  /\ \/ kernel = FALSE /\ Init
     \/ kernel = TRUE /\ Running

GuestNext == (Anything \/ Kernel) /\ UNCHANGED kernel

(* The loop goes round, and whichever guest it is executes.                *)
GuestSpec == GuestInit /\ [][GuestNext]_gvars /\ WF_gvars(GuestNext)

(* A kernel whose handlers answer in time hears of every disk completion,  *)
(* whatever the timer was programmed to and the wires and the script       *)
(* bring: the bounds machine_run puts on the period leave room for the end *)
(* of the chain.                                                           *)
DiskDelivered == kernel => (disk_vi ~> ~disk_vi)
=============================================================================
