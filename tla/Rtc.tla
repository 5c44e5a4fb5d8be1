-------------------------------- MODULE Rtc --------------------------------
(***************************************************************************)
(* The clock module's pins and divider (bus.c).  The guest bit-bangs Port  *)
(* B and the chip select of CIO #1; the divider is brought up to date      *)
(* lazily, at each access, from the CPU's instruction count.               *)
(*                                                                         *)
(* The thirteen digits are one count of seconds here (RtcCalendar has      *)
(* them); a register write marks the digit file, and register 0x0D, the    *)
(* post-stage reset, has an address of its own.                            *)
(***************************************************************************)
EXTENDS Integers, FiniteSets

CONSTANTS
  Ips,          \* instructions per second of clock time
  MaxInsns,     \* bound: instructions executed
  MaxGap        \* bound: instructions between two accesses

Strobes == {"READ", "WRITE", "ADWR", "STOP"}
Addrs   == {"digit", "reset"}   \* what the data nibble selects or carries
Level   == [pins : SUBSET Strobes, d : Addrs]

ASSUME RtcAssumption == Ips \in Nat \ {0} /\ MaxInsns \in Nat /\ MaxGap \in Nat

VARIABLES
  insns,                     \* the CPU's instruction count
  cs,                        \* /CS asserted (Port C bit 1)
  addr, stopped,             \* latched address, oscillator halted
  prev_pb, prev_cs,          \* previous levels, for edge detection
  cs_since, base, held,      \* divider
  n_tick, n_tick_selected,   \* seconds counted, those inside a transaction
  written,                   \* register writes accepted
  run,                       \* history: instructions the oscillator saw
  selected                   \* history: carries while /CS was asserted

rtc  == <<addr, stopped, prev_pb, prev_cs, cs_since, base, held, n_tick,
          n_tick_selected, written>>
rvars == <<insns, cs, rtc, run, selected>>

-----------------------------------------------------------------------------
(* rtc_advance: the carries since base, each at its own instant.           *)
Carries == IF stopped THEN 0 ELSE (insns - base) \div Ips

(* Mutant: every carry found by an access with /CS asserted.               *)
InTransaction_all(sel, since) == IF sel THEN Carries ELSE 0

(* Those at or after the transaction's start; the loop compares each       *)
(* carry's instant with cs_since, and the level of /CS is the present one. *)
InTransaction(sel, since) ==
  IF sel THEN Cardinality({i \in 1 .. Carries : base + i * Ips >= since}) ELSE 0

(* Mutant: the divider starts afresh at the access that brought it up to   *)
(* date.                                                                   *)
Advanced_to_now == IF stopped THEN base ELSE insns

(* base after the advance.                                                 *)
Advanced == base + Carries * Ips

Rises(pin, old, new) == pin \in new.pins /\ pin \notin old.pins

(* rtc_pb_write: note the /CS edge, advance, act on the strobes, then STOP.*)
(* sel is the chip select as it now stands.                                *)
rtc_pb_write(v, sel) ==
  LET since  == IF sel /\ ~prev_cs THEN insns ELSE cs_since
      latch  == sel /\ Rises("ADWR", prev_pb, v)
      a      == IF latch THEN v.d ELSE addr
      writes == sel /\ Rises("WRITE", prev_pb, v)
      resets == writes /\ a = "reset"
      b      == IF resets THEN insns ELSE Advanced
      h      == IF resets THEN 0 ELSE held
      stop   == "STOP" \in v.pins
  IN  /\ cs_since' = since /\ prev_cs' = sel
      /\ n_tick' = n_tick + Carries
      /\ n_tick_selected' = n_tick_selected + InTransaction(sel, since)
      /\ addr' = a /\ written' = (written \/ (writes /\ ~resets))
      /\ prev_pb' = v
      /\ stopped' = stop
      /\ held' = IF stop /\ ~stopped THEN insns - b ELSE h
      /\ base' = IF ~stop /\ stopped THEN insns - h ELSE b
      /\ run' = IF resets THEN (n_tick + Carries) * Ips ELSE run

(* Port B is written through to the chip.                                  *)
WritePortB(v) == rtc_pb_write(v, cs) /\ UNCHANGED <<insns, cs, selected>>

(* Port C moves the chip select only; Port B's level is passed again.  A   *)
(* carry at the very instant of the assertion is inside the transaction.   *)
WritePortC(sel) ==
  /\ cs' = sel /\ rtc_pb_write(prev_pb, sel)
  /\ selected' = selected + IF sel /\ ~cs /\ Carries > 0
                                 /\ insns = base + Carries * Ips
                              THEN 1 ELSE 0
  /\ UNCHANGED insns

(* rtc_pb_read and rtc_report bring the digits up to date first.           *)
ReadPortB ==
  /\ n_tick' = n_tick + Carries /\ base' = Advanced
  /\ n_tick_selected' = n_tick_selected + InTransaction(cs, cs_since)
  /\ UNCHANGED <<insns, cs, addr, stopped, prev_pb, prev_cs, cs_since, held,
                 written, run, selected>>

(* Instructions that do not touch CIO #1.                                  *)
Execute(n) ==
  /\ insns + n <= MaxInsns
  /\ insns' = insns + n
  /\ run' = IF stopped THEN run ELSE run + n
  /\ selected' = selected + IF cs /\ ~stopped
                              THEN (insns + n - base) \div Ips - (insns - base) \div Ips
                              ELSE 0
  /\ UNCHANGED <<cs, rtc>>

(* calloc leaves /CS low, that is asserted, and prev_cs false.             *)
RtcInit ==
  /\ insns = 0 /\ cs = TRUE /\ addr = "digit" /\ stopped = FALSE
  /\ prev_pb = [pins |-> {}, d |-> "digit"] /\ prev_cs = FALSE /\ cs_since = 0
  /\ base = 0 /\ held = 0 /\ n_tick = 0 /\ n_tick_selected = 0
  /\ written = FALSE /\ run = 0 /\ selected = 0

RtcNext ==
  \/ \E v \in Level : WritePortB(v)
  \/ \E sel \in BOOLEAN : WritePortC(sel)
  \/ ReadPortB
  \/ \E n \in 1 .. MaxGap : Execute(n)

RtcSpec == RtcInit /\ [][RtcNext]_rvars

-----------------------------------------------------------------------------
(* What the divider holds.                                                 *)
Fraction == IF stopped THEN held ELSE insns - base

(* Lazy catching up, STOP and the post-stage reset lose no time and gain   *)
(* none: the seconds counted and the divider's contents are at every       *)
(* moment all the instructions the oscillator has seen.                    *)
TimeConserved == Ips * n_tick + Fraction = run

(* rtc_report: n_tick_selected is "the count of one-second carries that    *)
(* landed while /CS was asserted".  No other carry is ever among them,     *)
(* though the carries are discovered late, some after the chip select has  *)
(* been released and asserted again.                                       *)
SelectedOnly == n_tick_selected <= selected

============================================================================
