------------------------------- MODULE MCHdc -------------------------------
(* Small instances of Hdc: a hard disk of one sector and a floppy of two   *)
(* whose image may have been trimmed.                                      *)
EXTENDS Hdc

MCSectors == [d \in Drives |-> IF d = "hd" THEN 1 ELSE 2]
MCFiles == [d \in Drives |-> IF d = "hd" THEN {<<"x">>}
                             ELSE {<<>>, <<"x">>, <<"x", "x">>}]
=============================================================================
