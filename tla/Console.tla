------------------------------ MODULE Console ------------------------------
(***************************************************************************)
(* The console port and its scripted input: the first half of one          *)
(* iteration of machine_run (bus.c) and the console side of scc_read and   *)
(* scc_write.                                                              *)
(*                                                                         *)
(* A script of bytes (--input) is typed at a guest that the emulator can   *)
(* only watch: it feeds a byte when the receiver is free, a prompt has     *)
(* been seen since the last carriage return, and the console has been      *)
(* quiet.  A byte marked \i is type-ahead and skips the wait, from \g on   *)
(* the prompt is not waited for, and --idle ends the run once the script   *)
(* is used up and the guest looks idle.                                    *)
(*                                                                         *)
(* Instruction counts are abstracted to what the code compares them with:  *)
(* quiet is the level reached by insns - last_tx_insn (0, 1 past 300000,   *)
(* 2 past 40000000), streak stops at RX_BLOCKED_POLLS, and awaiting is     *)
(* prompt_seq < inq_wait_seq, the only use the feeder makes of them.       *)
(* Carriage return and line feed are one byte kind, "cr".                  *)
(*                                                                         *)
(* The guest is a command shell that may read its receiver at any time, by *)
(* interrupt or by polling, and prints a prompt only when it is ready for  *)
(* the next command.                                                       *)
(***************************************************************************)
EXTENDS Integers, Sequences

CONSTANTS
  Scripts,     \* the scripts tried: sequences of Byte
  Gates,       \* the values of inq_gateoff tried, -1 for none
  Marked,      \* TRUE when --input-mark is given
  Blocked,     \* RX_BLOCKED_POLLS
  IdleAt,      \* the quiet level of --idle; 0 disarms the channel
  MaxNoise     \* bound on the lines of text printed and host keys pressed

Byte == [cr : BOOLEAN, now : BOOLEAN]

ASSUME ConsoleAssumption ==
  /\ \A s \in Scripts : s \in Seq(Byte)
  /\ Gates \subseteq Int /\ Marked \in BOOLEAN
  /\ Blocked \in Nat \ {0} /\ IdleAt \in 0..2 /\ MaxNoise \in Nat

VARIABLES
  ph,           \* where machine_run is: "top" of the loop or "cpu" step
  stop,         \* why the run ended, "no" while it runs
  inq, inq_gateoff, inq_pos, inq_cr_wait, inq_mark_seen, awaiting,
  guest_polls, shell_up, at_prompt, streak, quiet,
  rx,           \* channel B's receiver: [avail, data], data an index of inq
                \* or 0 for a byte typed by the host
  booted,       \* more than a million instructions have run
  shell, lines, \* the guest: "busy" or "idle"; lines read and not yet run
  heard,          \* how many scripted bytes the guest has read
  noise         \* what is counted against MaxNoise

script == <<inq, inq_gateoff>>
feeder == <<inq_pos, inq_cr_wait, inq_mark_seen, awaiting, guest_polls>>
watch == <<shell_up, at_prompt, streak, quiet>>
guest == <<booted, shell, lines, heard>>
cvars == <<ph, stop, script, feeder, watch, rx, guest, noise>>

Noisy == noise < MaxNoise /\ noise' = noise + 1

-----------------------------------------------------------------------------
(* The top of machine_run's loop.                                          *)

Exhausted == inq_pos >= Len(inq)
Next1 == inq[inq_pos + 1]

(* The script is used up, a prompt was printed last, the guest is polling  *)
(* the receiver and the console has been quiet for --idle.                 *)
IdleExit ==
  /\ IdleAt > 0 /\ inq # <<>> /\ Exhausted
  /\ at_prompt /\ streak >= Blocked /\ quiet >= IdleAt

(* Mutant: the position of \g is never reached.                            *)
PastGate_never == FALSE

PastGate == inq_gateoff >= 0 /\ inq_pos >= inq_gateoff

(* The quiet a byte waits for: long for the first byte past the gate, and  *)
(* past it while a command may be running and the guest is not polling.    *)
Needed ==
  IF PastGate /\ ( \/ inq_pos = inq_gateoff
                   \/ (inq_cr_wait \/ guest_polls) /\ streak < Blocked)
  THEN 2 ELSE 1

TypeAhead == Next1.now /\ (~Marked \/ inq_mark_seen)

(* Mutant: the feeder does not look for a fresh prompt after a command.    *)
Paced_any_prompt == shell_up /\ quiet >= Needed

Paced == shell_up /\ (PastGate \/ ~awaiting) /\ quiet >= Needed

(* Mutant: a byte is offered to a full receiver.                           *)
ReceiverFree_always == TRUE

ReceiverFree == ~rx.avail

Fed == inq_pos + 1

Feeds == ReceiverFree /\ ~Exhausted /\ (TypeAhead \/ Paced)

Feed ==
  /\ ph = "top" /\ stop = "no" /\ ~IdleExit /\ Feeds
  /\ rx' = [avail |-> TRUE, data |-> inq_pos + 1]
  /\ inq_pos' = Fed /\ guest_polls' = FALSE
  /\ inq_cr_wait' = Next1.cr
  /\ awaiting' = (awaiting \/ Next1.cr)
  /\ ph' = "cpu"
  /\ UNCHANGED <<stop, script, inq_mark_seen, watch, guest, noise>>

(* A key pressed at the host's console, polled for every 4096 iterations.  *)
HostKey ==
  /\ ph = "top" /\ stop = "no" /\ ~IdleExit /\ ReceiverFree /\ ~Feeds
  /\ Noisy /\ rx' = [avail |-> TRUE, data |-> 0] /\ ph' = "cpu"
  /\ UNCHANGED <<stop, script, feeder, watch, guest>>

(* Ctrl-] stops the run; the instruction of this iteration still executes. *)
HostQuit ==
  /\ ph = "top" /\ stop = "no" /\ ~IdleExit /\ ReceiverFree /\ ~Feeds
  /\ stop' = "user" /\ ph' = "cpu"
  /\ UNCHANGED <<script, feeder, watch, rx, guest, noise>>

NothingToFeed ==
  /\ ph = "top" /\ stop = "no" /\ ~IdleExit /\ ~Feeds
  /\ ph' = "cpu"
  /\ UNCHANGED <<stop, script, feeder, watch, rx, guest, noise>>

StopIdle ==
  /\ ph = "top" /\ stop = "no" /\ IdleExit
  /\ stop' = "idle"
  /\ UNCHANGED <<ph, script, feeder, watch, rx, guest, noise>>

-----------------------------------------------------------------------------
(* cpu_step: one instruction of the guest.                                 *)

Step == ph = "cpu" /\ ph' = "top" /\ UNCHANGED <<stop, script>>

(* WR8 on the console.  A prompt character counts only once booted; the    *)
(* text of --input-mark opens type-ahead for good.                         *)
Transmit(prompt, mark) ==
  /\ quiet' = 0 /\ streak' = 0
  /\ inq_mark_seen' = (inq_mark_seen \/ (Marked /\ mark))
  /\ shell_up' = (shell_up \/ (prompt /\ booted))
  /\ at_prompt' = (prompt /\ booted)
  /\ awaiting' = (awaiting /\ ~(prompt /\ booted))
  /\ UNCHANGED <<inq_pos, inq_cr_wait, guest_polls, rx>>

(* Echo, or a command's output.                                            *)
PrintText(mark) ==
  Step /\ Noisy /\ Transmit(FALSE, mark) /\ UNCHANGED guest

(* A prompt character among the power-on messages.                         *)
PrintEarly ==
  Step /\ Noisy /\ ~booted /\ Transmit(TRUE, FALSE) /\ UNCHANGED guest

(* The shell has run its command and is ready for the next one.  The first *)
(* prompt comes well after the power-on tests.                             *)
PrintPrompt ==
  /\ Step /\ booted /\ shell = "busy" /\ shell' = "idle"
  /\ Transmit(TRUE, FALSE)
  /\ UNCHANGED <<booted, lines, heard, noise>>

(* The shell starts the command of the next line it has read.              *)
StartCommand ==
  /\ Step /\ shell = "idle" /\ lines > 0
  /\ shell' = "busy" /\ lines' = lines - 1
  /\ UNCHANGED <<booted, heard, feeder, watch, rx, noise>>

(* RR0, read by a guest that waits for a byte; it counts only when the     *)
(* receiver is empty.                                                      *)
PollRR0 ==
  /\ Step
  /\ streak' = IF rx.avail \/ streak = Blocked THEN streak ELSE streak + 1
  /\ guest_polls' = (guest_polls \/ (~rx.avail /\ streak' >= Blocked))
  /\ UNCHANGED <<inq_pos, inq_cr_wait, inq_mark_seen, awaiting, shell_up,
                 at_prompt, quiet, rx, guest, noise>>

(* RR8: the byte is taken, and counts as console activity.                 *)
ReadRR8 ==
  /\ Step /\ rx.avail
  /\ rx' = [rx EXCEPT !.avail = FALSE] /\ streak' = 0 /\ quiet' = 0
  /\ heard' = IF rx.data > 0 THEN rx.data ELSE heard
  /\ lines' = IF rx.data > 0 /\ inq[rx.data].cr THEN lines + 1 ELSE lines
  /\ UNCHANGED <<feeder, shell_up, at_prompt, booted, shell, noise>>

(* Instructions that do not touch the console; the loop comes round often  *)
(* enough that no level of quiet is passed over.                           *)
RunSilently ==
  /\ Step /\ quiet' \in {quiet, IF quiet = 2 THEN 2 ELSE quiet + 1}
  /\ booted' \in {booted, TRUE}
  /\ UNCHANGED <<feeder, shell_up, at_prompt, streak, rx, shell, lines, heard,
                 noise>>

ConsoleInit ==
  /\ ph = "top" /\ stop = "no"
  /\ inq \in Scripts /\ inq_gateoff \in {g \in Gates : g <= Len(inq)}
  /\ inq_pos = 0 /\ inq_cr_wait = FALSE /\ inq_mark_seen = FALSE
  /\ awaiting = FALSE /\ guest_polls = FALSE
  /\ shell_up = FALSE /\ at_prompt = FALSE /\ streak = 0 /\ quiet = 0
  /\ rx = [avail |-> FALSE, data |-> 0]
  /\ booted = FALSE /\ shell = "busy" /\ lines = 0 /\ heard = 0 /\ noise = 0

Top == Feed \/ HostKey \/ HostQuit \/ NothingToFeed \/ StopIdle

Shell == \/ \E mark \in {FALSE, Marked} : PrintText(mark)
         \/ PrintEarly \/ PrintPrompt \/ StartCommand \/ PollRR0 \/ ReadRR8
         \/ RunSilently

ConsoleNext == Top \/ Shell

ConsoleSpec == ConsoleInit /\ [][ConsoleNext]_cvars

(* The script has passed \g.                                               *)
Ungated == inq_gateoff >= 0 /\ inq_pos >= inq_gateoff

(* A guest that is alive: it boots, reads what it is given, runs what it   *)
(* read, goes on executing and, until the script reaches \g, prompts.      *)
ConsoleFairSpec ==
  /\ ConsoleSpec /\ WF_cvars(ConsoleNext) /\ SF_cvars(ReadRR8) /\ SF_cvars(StartCommand)
  /\ SF_cvars(RunSilently /\ quiet' = IF quiet = 2 THEN 2 ELSE quiet + 1)
  /\ SF_cvars(RunSilently /\ booted')
  /\ SF_cvars(PrintPrompt /\ (~Ungated \/ ~shell_up))

-----------------------------------------------------------------------------
(* Properties.                                                             *)

(* The script reaches the guest whole and in order: at most one scripted   *)
(* byte is in the receiver, it is the next one the guest will read, and    *)
(* every earlier one has been read (the rx_avail test of machine_run).     *)
NoByteLost ==
  inq_pos = IF rx.avail /\ rx.data > 0 THEN heard + 1 ELSE heard

(* Up to \g a byte that is not type-ahead is never typed at a running      *)
(* command: the guest has finished every line it was given (machine_run's  *)
(* "so a still-running command cannot swallow it").                        *)
CommandSafe ==
  [][ (inq_pos' # inq_pos /\ ~inq[inq_pos'].now /\ ~Ungated)
      => shell = "idle" /\ lines = 0 ]_cvars

(* A live guest is sent the whole script, unless the user ends the run.    *)
(* Past \g this holds of a guest that never prints another prompt.         *)
ScriptTyped == <>(inq_pos = Len(inq) \/ stop # "no")

=============================================================================
