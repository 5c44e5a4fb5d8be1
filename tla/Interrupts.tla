----------------------------- MODULE Interrupts -----------------------------
(***************************************************************************)
(* Vectored interrupts: how machine_run (bus.c) drives the CPU's one VI    *)
(* line from the CT3 timer, the serial receivers and the disk, and what    *)
(* cpu_step (cpu.c) makes of it.                                           *)
(*                                                                         *)
(* One iteration of the loop is two steps.  "bus" offers bytes to the      *)
(* receivers, advances the timer and drives the line; "cpu" takes a trap   *)
(* or interrupt, or executes one instruction.  A vector is abstracted to   *)
(* the source it names.  Other traps are one pending flag: all of them     *)
(* outrank VI.                                                             *)
(***************************************************************************)
EXTENDS Naturals, Sequences

CONSTANTS
  Chain,        \* the SCC channels, highest priority first
  Chip,         \* the chip of each channel
  Console,      \* the console's one
  WirePeriod,   \* iterations between two polls of the wires (64)
  MinPeriod, MaxPeriod,  \* machine_run's bounds on the CT3 period
  Constants     \* the CT3 time constants the guest may program

Channels == {Chain[i] : i \in 1..Len(Chain)}
Sources == {"ct3", "disk"} \cup Channels

ASSUME InterruptAssumption ==
  /\ Console \in Channels
  /\ "ct3" \notin Channels /\ "disk" \notin Channels /\ "none" \notin Channels
  /\ WirePeriod \in Nat \ {0} /\ MinPeriod \in Nat \ {0}
  /\ MaxPeriod \in Nat /\ MinPeriod <= MaxPeriod /\ Constants \subseteq Nat

VARIABLES
  ph, tick_counter,
  cs, mie, tc, csc, ct3_running, ct3_accum,  \* CIO 1: MICR and CT3; csc is
                                        \* its continuous mode bit
  rx_avail, wr1, wr9,                   \* per channel, as SCCChan keeps them
  disk_vi, last_vi_disk,
  vi_line, vi_vector,                   \* the line into the CPU
  vie, irq_vi, trap,                    \* FCW_VIE, IRQ_VI of irq_req, the rest
  owed, asked                           \* history, see the properties

timer == <<cs, mie, tc, csc, ct3_running, ct3_accum>>
scc == <<rx_avail, wr1, wr9>>
line == <<last_vi_disk, vi_line, vi_vector>>
cpu == <<vie, irq_vi, trap>>
vars == <<ph, tick_counter, timer, scc, disk_vi, line, cpu, owed, asked>>

-----------------------------------------------------------------------------
(* The bus half of an iteration.                                           *)

(* A byte from a host endpoint, held back while the receiver is full: the  *)
(* wires are looked at now and then (and the keyboard less often), the     *)
(* script in every iteration.                                              *)
Arrive(ch) ==
  /\ ph = "bus" /\ ~rx_avail[ch]
  /\ tick_counter = 0 \/ ch = Console
  /\ rx_avail' = [rx_avail EXCEPT ![ch] = TRUE]
  /\ UNCHANGED <<ph, tick_counter, timer, wr1, wr9, disk_vi, line, cpu, owed,
                 asked>>

(* Mutant: only an upper bound.                                            *)
Period_unbounded == LET p == tc \div 2 IN IF p > MaxPeriod THEN MaxPeriod ELSE p

Period == LET p == tc \div 2 IN IF p < MinPeriod THEN MinPeriod ELSE
                                IF p > MaxPeriod THEN MaxPeriod ELSE p

(* CT3 in continuous mode; at the end of a period it sets IP.              *)
Counts == ct3_running /\ csc
Expires == Counts /\ ct3_accum + 1 >= Period
Ct3 ==
  /\ ct3_accum' = IF Expires THEN 0 ELSE
                  IF Counts THEN ct3_accum + 1 ELSE ct3_accum
  /\ cs' = [cs EXCEPT !.ip = @ \/ Expires]

scc_rx_int(ch) == wr9[ch] /\ rx_avail[ch] /\ wr1[ch]

Requests(src) == CASE src = "ct3"  -> cs'.ip /\ cs'.ie /\ mie
                   [] src = "disk" -> disk_vi
                   [] OTHER        -> scc_rx_int(src)

(* The daisy chain: the timer, the channels in order, the disk.            *)
Order == <<"ct3">> \o Chain \o <<"disk">>
Pending == {i \in 1..Len(Order) : Requests(Order[i])}
Highest == Order[CHOOSE i \in Pending : \A j \in Pending : i <= j]

(* Mutant: a new source on the line leaves last_vi_disk alone.             *)
FromDisk_sticky == last_vi_disk \/ Highest = "disk"

FromDisk == Highest = "disk"

(* Mutant: the line stays up when the last request goes away.              *)
Quiet_stuck == UNCHANGED <<vi_line, vi_vector, last_vi_disk>>

(* No request: the line drops; the vector and last_vi_disk stay.           *)
Quiet == vi_line' = FALSE /\ UNCHANGED <<vi_vector, last_vi_disk>>

DriveLine ==
  IF Pending = {} THEN Quiet
  ELSE vi_line' = TRUE /\ vi_vector' = Highest /\ last_vi_disk' = FromDisk

Bus ==
  /\ ph = "bus" /\ ph' = "cpu"
  /\ tick_counter' = (tick_counter + 1) % WirePeriod
  /\ Ct3 /\ DriveLine
  /\ asked' = asked \cup {Order[i] : i \in Pending}
  /\ UNCHANGED <<mie, tc, csc, ct3_running, scc, disk_vi, cpu, owed>>

-----------------------------------------------------------------------------
(* The CPU half: handle_interrupts, then one instruction.                  *)

Sampled == irq_vi \/ (vi_line /\ vie)

(* A trap of higher priority; the VI request it displaces stays latched.   *)
TakeTrap(on) ==
  /\ ph = "cpu" /\ ph' = "bus" /\ trap
  /\ trap' = FALSE /\ irq_vi' = Sampled /\ vie' = on
  /\ UNCHANGED <<tick_counter, timer, scc, disk_vi, line, owed, asked>>

(* The disk's request is a one-shot: machine_run clears it when the VI     *)
(* taken was the disk's.                                                   *)
Cleared == disk_vi /\ ~last_vi_disk

TakeVi(on) ==
  /\ ph = "cpu" /\ ph' = "bus" /\ ~trap /\ Sampled /\ vie
  /\ irq_vi' = FALSE /\ vie' = on /\ disk_vi' = Cleared
  /\ owed' = (owed /\ vi_vector # "disk") /\ asked' = {}
  /\ UNCHANGED <<tick_counter, timer, scc, line, trap>>

Execute == ph = "cpu" /\ ph' = "bus" /\ ~trap /\ ~(Sampled /\ vie)
           /\ irq_vi' = Sampled /\ UNCHANGED <<tick_counter, line, asked>>

(* Instructions that raise a trap or load the FCW.                         *)
RaiseTrap ==
  Execute /\ trap' = TRUE /\ UNCHANGED <<timer, scc, disk_vi, vie, owed>>
LoadVie(b) ==
  /\ Execute /\ vie' = b
  /\ UNCHANGED <<timer, scc, disk_vi, trap, owed>>

(* OUT to the disk doorbell with a command block armed.                    *)
Doorbell ==
  /\ Execute /\ disk_vi' = TRUE /\ owed' = TRUE
  /\ UNCHANGED <<timer, scc, vie, trap>>

(* RR8 of a channel, WR1, and WR9, which both channels of a chip share.    *)
ReadRR8(ch) ==
  /\ Execute /\ rx_avail' = [rx_avail EXCEPT ![ch] = FALSE]
  /\ UNCHANGED <<timer, wr1, wr9, disk_vi, vie, trap, owed>>
WriteWR1(ch, b) ==
  /\ Execute /\ wr1' = [wr1 EXCEPT ![ch] = b]
  /\ UNCHANGED <<timer, rx_avail, wr9, disk_vi, vie, trap, owed>>
WriteWR9(ch, b) ==
  /\ Execute
  /\ wr9' = [c \in Channels |-> IF Chip[c] = Chip[ch] THEN b ELSE wr9[c]]
  /\ UNCHANGED <<timer, rx_avail, wr1, disk_vi, vie, trap, owed>>

(* The CT3 command register: IP and IE, and the trigger, which restarts a  *)
(* running counter only if its REB bit is set.  IUS has no effect here.    *)
Command(ip, ie, start, reb) ==
  /\ Execute /\ (ip = cs.ip \/ ie = cs.ie)
  /\ cs' = [ip |-> ip, ie |-> ie]
  /\ ct3_running' = (ct3_running \/ start)
  /\ ct3_accum' = IF start /\ (~ct3_running \/ reb) THEN 0 ELSE ct3_accum
  /\ UNCHANGED <<mie, tc, csc, scc, disk_vi, vie, trap, owed>>

(* MICR, and the mode or the time constant register of CT3.                *)
WriteMicr(b) ==
  /\ Execute /\ mie' = b
  /\ UNCHANGED <<cs, tc, csc, ct3_running, ct3_accum, scc, disk_vi, vie, trap,
                 owed>>
WriteMode(t, c) ==
  /\ Execute /\ (t = tc \/ c = csc) /\ tc' = t /\ csc' = c
  /\ UNCHANGED <<cs, mie, ct3_running, ct3_accum, scc, disk_vi, vie, trap,
                 owed>>

(* An instruction with no effect here, HALT included.                      *)
Other == Execute /\ UNCHANGED <<timer, scc, disk_vi, vie, trap, owed>>

AnyInstruction ==
  \/ RaiseTrap \/ Doorbell \/ Other
  \/ \E b \in BOOLEAN : LoadVie(b) \/ WriteMicr(b)
  \/ \E ch \in Channels : ReadRR8(ch)
  \/ \E ch \in Channels, b \in BOOLEAN : WriteWR1(ch, b) \/ WriteWR9(ch, b)
  \/ \E ip, ie, start, reb \in BOOLEAN : Command(ip, ie, start, reb)
  \/ \E t \in Constants, c \in BOOLEAN : WriteMode(t, c)

-----------------------------------------------------------------------------
Off == [ch \in Channels |-> FALSE]

(* Reset.                                                                  *)
Init ==
  /\ ph = "bus" /\ tick_counter = 0 /\ tc \in Constants
  /\ cs = [ip |-> FALSE, ie |-> FALSE] /\ mie = FALSE /\ csc = FALSE
  /\ ct3_running = FALSE /\ ct3_accum = 0
  /\ rx_avail = Off /\ wr1 = Off /\ wr9 = Off
  /\ disk_vi = FALSE /\ last_vi_disk = FALSE
  /\ vi_line = FALSE /\ vi_vector = "none"
  /\ vie = FALSE /\ irq_vi = FALSE /\ trap = FALSE
  /\ owed = FALSE /\ asked = {}

Host == Bus \/ \E ch \in Channels : Arrive(ch)

Next == Host \/ AnyInstruction \/ \E on \in BOOLEAN : TakeTrap(on) \/ TakeVi(on)

Spec == Init /\ [][Next]_vars

-----------------------------------------------------------------------------
(* Properties.                                                             *)

(* The disk's request is up exactly while a completion has not yet been    *)
(* delivered with the disk's vector: no other interrupt taken in between   *)
(* eats it, and it is not delivered twice (machine_run's one-shot).        *)
DiskOwed == disk_vi <=> owed

(* The vector a VI would be taken with is that of a source that requested  *)
(* service since the VI before, although its request may be gone by now    *)
(* and the line down (IRQ_VI stays latched behind another trap).           *)
VectorAsked == irq_vi \/ (ph = "cpu" /\ vi_line) => vi_vector \in asked

=============================================================================
