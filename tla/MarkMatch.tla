----------------------------- MODULE MarkMatch -----------------------------
(***************************************************************************)
(* Finding a text in what the guest prints: mark_advance and               *)
(* stop_mark_watch (bus.c), and the --input-mark half of scc_write, as     *)
(* operators on a watch: the mark, how much of it each port has matched,   *)
(* and what was concluded.                                                 *)
(*                                                                         *)
(* mark_advance keeps only how much of the mark has matched.  On a         *)
(* mismatch it falls back to the longest prefix of the mark that is also a *)
(* suffix of what had matched, so no output has to be kept.  Each port has *)
(* a match of its own for --stop-mark; --input-mark watches the console.   *)
(* Characters are nonzero: the end of the mark matches none of them.       *)
(***************************************************************************)
EXTENDS Naturals, Sequences, FiniteSetsExt


(* The longest proper prefix of mark that is a suffix of mark[1..pos].     *)
Fallback(mark, pos) ==
  Max({k \in 0..pos - 1 : k = 0 \/
         SubSeq(mark, 1, k) = SubSeq(mark, pos - k + 1, pos)})

(* Mutant: a mismatch restarts at the first character, or after it when v  *)
(* is the first character.                                                 *)
mark_advance_naive(mark, pos, v) ==
  IF pos < Len(mark) /\ mark[pos + 1] = v THEN pos + 1 ELSE
  IF mark[1] = v THEN 1 ELSE 0

mark_advance(mark, pos, v) ==
  LET Hit(p) == p < Len(mark) /\ mark[p + 1] = v
      from[p \in 0..Len(mark)] ==
        IF Hit(p) THEN p + 1 ELSE IF p = 0 THEN 0 ELSE from[Fallback(mark, p)]
  IN  from[pos]

(* A watch before anything is printed.                                     *)
Watch(mark, ports) ==
  [mark |-> mark, stop_mark_pos |-> [p \in ports |-> 0], stop |-> FALSE,
   inq_mark_pos |-> 0, inq_mark_seen |-> FALSE]

(* stop_mark_watch: the character v of port p, after it was handed on.     *)
stop_mark_watch(w, p, v) ==
  LET pos == mark_advance(w.mark, w.stop_mark_pos[p], v)
  IN  [w EXCEPT !.stop_mark_pos[p] = pos,
                !.stop = @ \/ pos = Len(w.mark)]

(* --input-mark on one console character; once seen it stays seen.         *)
InputMark(w, v) ==
  IF w.inq_mark_seen THEN w
  ELSE LET pos == mark_advance(w.mark, w.inq_mark_pos, v)
       IN  [w EXCEPT !.inq_mark_pos = pos, !.inq_mark_seen = pos = Len(w.mark)]

(* WR8 on port p.                                                          *)
Transmit(w, p, v, console) ==
  IF p = console THEN InputMark(stop_mark_watch(w, p, v), v)
                 ELSE stop_mark_watch(w, p, v)

-----------------------------------------------------------------------------
(* Reference: the mark in a whole output.                                  *)
Printed(mark, s) == \E i \in 0..Len(s) - Len(mark) :
                      SubSeq(s, i + 1, i + Len(mark)) = mark
=============================================================================
