------------------------------ MODULE RunLoop -------------------------------
(***************************************************************************)
(* The ends of a run: machine_run's loop (bus.c) around cpu_step, the      *)
(* breakpoints (dbg_pc_hit in debug.c), the instruction budget, the park   *)
(* watch, and the exit status main.c makes of them.                        *)
(*                                                                         *)
(* One pass of the loop is one action.  A guest is its signature, in which *)
(* the watch sees everything and the breakpoints the PC, and it does as it *)
(* likes; the idle exit is an action without a cause here (the module      *)
(* Console says when it comes).  With no budget the instruction count      *)
(* stands still, since nothing reads it.                                   *)
(***************************************************************************)
EXTENDS Park, Sequences

CONSTANTS
  PCs, Regs,     \* a signature is a PC, the registers, and
  Scripts,       \* the script position with the console's stamp
  Options,       \* the option settings tried
  Tables,        \* the breakpoint tables tried
  Idle,          \* the limit of the halted-with-no-interrupt check
  Burst,         \* the most elements of one repeating instruction
  MaxCount       \* bound: a count is followed up to here

Sigs == PCs \X Regs \X Scripts
Brk == [pc : PCs, want : Nat]
Opts == [limit : Nat, stop_at_break : BOOLEAN, park_watch : BOOLEAN,
         require_stop : BOOLEAN]

ASSUME RunAssumption ==
  /\ Sigs # {} /\ Options \subseteq Opts /\ Tables \subseteq Seq(Brk)
  /\ Idle \in Nat \ {0} /\ Burst \in Nat \ {0} /\ MaxCount \in Nat
  /\ \A t \in Tables : \A i \in DOMAIN t : t[i].want <= MaxCount

VARIABLES
  opt, brks,            \* the command line's
  sig, halted,          \* the guest,
  vi_line, latched,     \* its interrupt line, a trap its HALT has raised
  insns,                \* c->insns
  seen,                 \* the breakpoints' hits
  idle,                 \* machine_run's counter
  checked,              \* m->stop was clear, the budget is looked at next
  stop, why, max_reached, over, \* m->stop, m->stop_why, ..., the loop is left
  asked,                \* history: a stop channel has asked for the end
  late,                 \* history: SIGINT came when m->stop had been looked at
  done,                 \* history: how often the instruction at a PC has begun
  last, still           \* history: the guest at the last instant it halted,
                        \* and the passes all of whose halts began so

line == <<opt, brks>>
guest == <<sig, halted, vi_line, latched>>
hist == <<asked, late, done, last, still>>
vars == <<line, guest, insns, seen, watch, idle, checked, stop, why,
          max_reached, over, hist>>

PcOf(s) == s[1]

(* The guest has done nothing; the feeder may have typed.                  *)
SameCpu(s) == s[1] = sig[1] /\ s[2] = sig[2]
Capped(n) == IF n > MaxCount THEN MaxCount ELSE n

-----------------------------------------------------------------------------
(* Breakpoints.                                                            *)

(* The entry dbg_pc_hit looks at, the first one with this PC.              *)
Entry(pc) ==
  {i \in DOMAIN brks : brks[i].pc = pc /\ \A j \in 1 .. (i - 1) : brks[j].pc # pc}

(* It counts no more once it has recorded all it was asked for.            *)
Records(i) == ~(brks[i].want # 0 /\ seen[i] >= brks[i].want)

(* Mutant: the run ends with the hit after the last one recorded.          *)
Last_one_more(i) == brks[i].want # 0 /\ seen[i] + 1 > brks[i].want

Last(i) == brks[i].want # 0 /\ seen[i] + 1 >= brks[i].want

Breaks(pc) == opt.stop_at_break /\ \E i \in Entry(pc) : Records(i) /\ Last(i)

dbg_pc_hit(pc) ==
  seen' = [i \in DOMAIN brks |->
             IF i \in Entry(pc) /\ Records(i) THEN Capped(seen[i] + 1) ELSE seen[i]]

-----------------------------------------------------------------------------
(* cpu_step, from the loop: (h, s) is the guest after it, w the stop       *)
(* channel that asked in it, "none" if none did.                           *)

(* A trap or interrupt is taken, the guest awake or not.                   *)
Trap(h, s, w) ==
  /\ ~h /\ w = "none" /\ (halted => vi_line' \/ latched)
  /\ latched' = FALSE /\ UNCHANGED <<insns, seen, done>>

Rest(h, s, w) ==
  /\ halted /\ ~latched /\ h /\ SameCpu(s) /\ w = "none"
  /\ UNCHANGED <<latched, insns, seen, done>>

(* An encoding the decoder does not know is no hit and is not counted.     *)
Undecoded(h, s, w) ==
  /\ ~halted /\ ~h /\ w = "none"
  /\ UNCHANGED <<latched, insns, seen, done>>

(* The breakpoint's last hit: the instruction is not begun.                *)
Break(h, s, w) ==
  /\ ~halted /\ ~h /\ SameCpu(s) /\ Breaks(PcOf(sig)) /\ w = "break"
  /\ dbg_pc_hit(PcOf(sig)) /\ UNCHANGED <<latched, insns, done>>

(* An instruction, or n elements of a repeating one.  What it prints may   *)
(* be the stop mark, what it writes may be the stop port.  A HALT's own    *)
(* fetch may have met a guard page.                                        *)
Retire(h, s, w, n) ==
  /\ ~halted /\ ~Breaks(PcOf(sig)) /\ dbg_pc_hit(PcOf(sig))
  /\ w \in {"none", "mark", "port"} /\ (h => w = "none")
  /\ latched' \in BOOLEAN /\ (latched' => h)
  /\ insns' = IF opt.limit = 0 THEN 0
              ELSE IF insns + n > opt.limit THEN opt.limit ELSE insns + n
  /\ done' = [done EXCEPT ![PcOf(sig)] = Capped(@ + 1)]

cpu_step(h, s, w) ==
  \/ Trap(h, s, w) \/ Rest(h, s, w) \/ Undecoded(h, s, w) \/ Break(h, s, w)
  \/ \E n \in 1 .. Burst : Retire(h, s, w, n)

-----------------------------------------------------------------------------
(* The loop.                                                               *)

Exhausted == opt.limit # 0 /\ insns >= opt.limit

(* Mutant: the budget is looked at before the stop request.                *)
Asked_after_budget == stop /\ ~Exhausted

(* The test at the head of the loop that comes first.                      *)
Asked == stop

Leave ==
  /\ ~over /\ ~checked /\ Asked /\ over' = TRUE
  /\ UNCHANGED <<line, guest, insns, seen, watch, idle, checked, stop, why,
                 max_reached, hist>>

(* Nobody has asked, and the budget is exhausted: it is looked at in a     *)
(* step of its own, since SIGINT may come before it.  Nothing else in a    *)
(* pass looks at m->stop, so anywhere else SIGINT comes between passes.    *)
NotAsked ==
  /\ ~over /\ ~checked /\ ~Asked /\ Exhausted /\ checked' = TRUE
  /\ UNCHANGED <<line, guest, insns, seen, watch, idle, stop, why,
                 max_reached, over, hist>>

OutOfBudget ==
  /\ ~over /\ checked
  /\ over' = TRUE /\ why' = "budget" /\ max_reached' = TRUE
  /\ UNCHANGED <<line, guest, insns, seen, watch, idle, checked, stop, hist>>

IdleExit ==
  /\ ~over /\ ~Asked /\ ~Exhausted
  /\ over' = TRUE /\ why' = "prompt"
  /\ UNCHANGED <<line, guest, insns, seen, watch, idle, checked, stop,
                 max_reached, hist>>

(* SIGINT, at any time: on_sigint.                                         *)
Signal ==
  /\ ~over /\ ~stop /\ stop' = TRUE /\ late' = checked
  /\ UNCHANGED <<line, guest, insns, seen, watch, idle, checked, why,
                 max_reached, over, asked, done, last, still>>

(* How long every halt has begun as the one before it did.                 *)
Observe(h, s) ==
  IF ~h THEN UNCHANGED <<last, still>>
  ELSE /\ last' = IF halted THEN last ELSE s
       /\ still' = IF ~halted /\ last # s THEN 1 ELSE
                   IF still > Budget THEN still ELSE still + 1

(* One pass: the keyboard (key is Ctrl-]), the interrupt line, cpu_step    *)
(* and the two checks after it, of which the first ends the pass.  What    *)
(* asks last gives the reason.                                             *)
Pass(h, s, vi, key, w) ==
  /\ ~over /\ ~Asked /\ ~Exhausted
  /\ vi_line' = vi /\ halted' = h /\ sig' = s
  /\ cpu_step(h, s, w)
  /\ stop' = (key \/ w # "none") /\ asked' = (asked \/ key \/ w # "none")
  /\ idle' = IF h /\ ~vi THEN idle + 1 ELSE 0
  /\ IF idle' > Idle \/ ~opt.park_watch THEN UNCHANGED watch ELSE park_step(h, s)
  /\ LET said == IF w # "none" THEN w ELSE IF key THEN "key" ELSE why
         dead == idle' > Idle
         parked == ~dead /\ opt.park_watch /\ Fires(h, s)
     IN  /\ over' = (dead \/ parked)
         /\ why' = IF dead THEN "no interrupt" ELSE IF parked THEN "parked" ELSE said
  /\ Observe(h, s) /\ UNCHANGED <<line, checked, max_reached, late>>

Step == \E h, vi, key \in BOOLEAN, s \in Sigs, w \in {"none", "mark", "port", "break"} :
          Pass(h, s, vi, key, w)

Init ==
  /\ opt \in Options /\ brks \in Tables
  /\ sig \in Sigs /\ halted = FALSE /\ vi_line = FALSE /\ latched = FALSE /\ insns = 0
  /\ seen = [i \in DOMAIN brks |-> 0] /\ ParkInit /\ idle = 0
  /\ checked = FALSE /\ stop = FALSE /\ why = "none" /\ max_reached = FALSE
  /\ over = FALSE /\ asked = FALSE /\ late = FALSE
  /\ done = [pc \in PCs |-> 0] /\ last = Invalid /\ still = 0

Next == Step \/ Leave \/ NotAsked \/ OutOfBudget \/ IdleExit \/ Signal

(* The loop never waits.                                                   *)
Spec == Init /\ [][Next]_vars /\ WF_vars(Step \/ Leave \/ NotAsked \/ OutOfBudget)

(* main's last line.                                                       *)
Status == IF opt.require_stop /\ max_reached THEN 3 ELSE 0

-----------------------------------------------------------------------------
(* Properties.                                                             *)

(* The run is called parked only after a whole budget of halted passes in  *)
(* which every halt began with the registers, the console and the script   *)
(* the halt before had begun with, whatever the guest did when awake       *)
(* (park_step).  A byte that the feeder types while the guest stays halted *)
(* is noticed at the next halt, and not if the guest never wakes.          *)
OnlyParked == why = "parked" => still > Budget

(* With --stop-on=break an instruction with a breakpoint begins fewer      *)
(* times than the breakpoint's count, whatever traps, signals and other    *)
(* entries come between, and the run it ends leaves the PC there           *)
(* (dbg_pc_hit: "the instruction has not run and PC still points at it").  *)
(* Of several entries with one PC this is true of the first.               *)
BreakHonoured ==
  /\ opt.stop_at_break =>
       \A pc \in PCs : \A i \in Entry(pc) :
          brks[i].want # 0 => done[pc] < brks[i].want
  /\ over /\ why = "break" =>
       \E i \in Entry(PcOf(sig)) :
          seen[i] = brks[i].want /\ done[PcOf(sig)] = brks[i].want - 1

(* Exit status 3 means that the budget ran out and that nobody had asked   *)
(* for the end when the loop looked, by the last instruction of the budget *)
(* either; only a SIGINT between that look and the one at the budget, in   *)
(* the same pass, is too late.  And with --require-stop status 0 means     *)
(* that something did end the run (main.c: "a test can assert that the     *)
(* session ENDED").                                                        *)
ExitTruthful ==
  /\ Status = 3 => over /\ Exhausted /\ ~asked /\ (stop => late)
  /\ over /\ opt.require_stop /\ Status = 0 =>
       asked \/ stop \/ why \in {"prompt", "no interrupt", "parked"}

(* Every run ends that has a budget and the park watch, if its guest       *)
(* retires instructions when it is awake (a guest that only traps, or only *)
(* meets unknown encodings, retires none); and one without a budget ends   *)
(* when the guest has nothing left to do: from some time on every wakeup   *)
(* is brief and every halt begins as the one before it began.              *)
Retires == []<><<halted' \/ insns' # insns>>_vars
Dozes == /\ <>[][halted' /\ ~halted => sig' = last]_vars
         /\ <>[](awake < Awake)

RunEnds ==
  opt.park_watch /\ ((opt.limit # 0 /\ Retires) \/ Dozes) => <>over
=============================================================================
