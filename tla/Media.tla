------------------------------- MODULE Media --------------------------------
(***************************************************************************)
(* What the disk controller promises its drivers: two media of fixed size, *)
(* a slot for each drive's command, and a doorbell that makes exactly the  *)
(* transfer an armed command names and says that it did, or makes none of  *)
(* it and says so.  The hard disk's slot is at base, the floppy's behind   *)
(* it; what comes of a write to a protected image is the exception: it is  *)
(* reported as made.                                                       *)
(***************************************************************************)
EXTENDS Naturals

CONSTANTS Sectors, Buffers, Data,
          Protected   \* the drives that cannot be written

Drives == DOMAIN Sectors

VARIABLES medium, buf, slot, base, ready

mvars == <<medium, buf, slot, base, ready>>

(* Command c, of a driver that was told the size of drive d.               *)
Accepted(d, c) == ready[d] /\ c.lba + c.n <= Sectors[d]

(* c.n sectors from c.lba on, and as many buffers from c.at on.            *)
ReadOf(s, d, c) ==
  [s EXCEPT !.buf = [i \in DOMAIN @ |-> IF i \in c.at..c.at + c.n - 1
                                        THEN s.medium[d][c.lba + i - c.at] ELSE @[i]]]
WriteOf(s, d, c) ==
  [s EXCEPT !.medium[d] = [k \in DOMAIN @ |-> IF k \in c.lba..c.lba + c.n - 1
                                              THEN s.buf[c.at + k - c.lba] ELSE @[k]]]

Performed(s, d, c) ==
  CASE c.op = "read" /\ Accepted(d, c) -> ReadOf(s, d, c)
    [] c.op = "write" /\ Accepted(d, c) /\ d \notin Protected -> WriteOf(s, d, c)
    [] c.op = "move" /\ d = "hd" -> [s EXCEPT !.base = c.to]
    [] OTHER -> s

(* A transfer is answered by whether it was made.                          *)
Answers(d, c) ==
  IF c.op \in {"read", "write"} THEN {IF Accepted(d, c) THEN "80" ELSE "92"}
  ELSE {"00", "80", "81", "92"}

Answered(a) ==
  [op |-> "status", lba |-> 0, n |-> 0, at |-> 0, to |-> 0, err |-> a]

(* The states in which a doorbell may leave the slot p of drive d.         *)
Served(s, d, p) ==
  IF s.slot[p].err # "FF" THEN {s} ELSE
  {[Performed(s, d, s.slot[p]) EXCEPT !.slot[p] = Answered(a)] :
     a \in Answers(d, s.slot[p])}

Now == [medium |-> medium, buf |-> buf, slot |-> slot, base |-> base]

Command ==
  /\ \E s \in Served(Now, "hd", base) : Now' \in Served(s, "fd", s.base + 1)
  /\ UNCHANGED ready

(* A driver arms its slot.                                                 *)
Issue ==
  /\ \E p \in DOMAIN slot : /\ slot[p].err # "FF" /\ slot'[p].err = "FF"
                            /\ slot' = [slot EXCEPT ![p] = slot'[p]]
  /\ UNCHANGED <<medium, buf, base, ready>>

(* The guest fills a buffer.                                               *)
Store == /\ \E i \in DOMAIN buf, v \in Data : buf' = [buf EXCEPT ![i] = v]
         /\ UNCHANGED <<medium, slot, base, ready>>

MInit == /\ medium \in [Drives -> UNION {[0..n - 1 -> Data] : n \in {Sectors[d] : d \in Drives}}]
         /\ \A d \in Drives : DOMAIN medium[d] = 0..Sectors[d] - 1
         /\ DOMAIN buf = 0..Buffers - 1
         /\ \A p \in DOMAIN slot : slot[p].err # "FF"

MSpec == MInit /\ [][Store \/ Issue \/ Command]_mvars
=============================================================================
