----------------------------- MODULE MCConsole -----------------------------
(* Small instances of Console.                                             *)
EXTENDS Console

Text == [cr |-> FALSE, now |-> FALSE]
Cr == [cr |-> TRUE, now |-> FALSE]
Ahead == [cr |-> FALSE, now |-> TRUE]

UpTo(n, S) == UNION {[1..k -> S] : k \in 0..n}

(* Every script of up to three bytes whose carriage returns are paced.     *)
MCScripts == UpTo(3, {Text, Cr, Ahead})
MCGates == {-1, 1, 2}
=============================================================================
