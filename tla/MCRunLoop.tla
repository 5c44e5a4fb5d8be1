----------------------------- MODULE MCRunLoop ------------------------------
(* Two addresses, a script that the feeder may move, and every setting of  *)
(* the options with a budget of two instructions or none.                  *)
EXTENDS RunLoop

CONSTANTS p1, p2

MCOptions == [limit : {0, 2}, stop_at_break : BOOLEAN, park_watch : BOOLEAN,
              require_stop : {TRUE}]

At(pc, n) == [pc |-> pc, want |-> n]

(* No breakpoint; one; one hidden behind another of the same address; one  *)
(* that records every hit beside one that stops at the second.             *)
MCTables == {<< >>, <<At(p1, 2), At(p1, 1)>>, <<At(p2, 0), At(p1, 2)>>}
=============================================================================
