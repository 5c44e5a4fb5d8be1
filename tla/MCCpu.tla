------------------------------- MODULE MCCpu -------------------------------
(* Instances of Cpu for TLC.  The program status area enters the handlers  *)
(* segmented, except that system calls run with interrupts enabled and     *)
(* privileged traps start non-segmented.                                   *)
EXTENDS Cpu

MCPsa == [s \in Sources |->
            [pc |-> 0,
             fcw |-> CASE s = "SYSCALL" -> {"SN", "SEG", "VIE"}
                       [] s = "TRAP" -> {"SN"}
                       [] OTHER -> {"SN", "SEG"}]]
MCGuestFcws == {{"SN", "SEG"}, {"SN"}, {"SEG", "VIE"}}
============================================================================
