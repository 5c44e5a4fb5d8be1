-------------------------------- MODULE Line --------------------------------
(***************************************************************************)
(* What a serial line promises the guest at its receiving end: the bytes   *)
(* the host took arrive once each and in order.  With overruns on, a byte  *)
(* may be destroyed, but only by the one after it, and the error bit is    *)
(* then up until the guest acknowledges it (serial_selftest in main.c      *)
(* states the same of single cases).                                       *)
(***************************************************************************)
EXTENDS Naturals, Sequences

CONSTANT Bytes

VARIABLES
  flight,   \* the bytes taken and not yet received, in order
  got,      \* the bytes received
  lost,     \* how many were destroyed
  err,      \* the error bit
  lossy     \* overruns are possible

lvars == <<flight, got, lost, err, lossy>>

LInit == /\ flight = << >> /\ got = << >> /\ lost = 0 /\ err = FALSE
         /\ lossy \in BOOLEAN

Send == \E b \in Bytes :
          flight' = Append(flight, b) /\ UNCHANGED <<got, lost, err, lossy>>

Receive == /\ flight # << >>
           /\ got' = Append(got, Head(flight)) /\ flight' = Tail(flight)
           /\ UNCHANGED <<lost, err, lossy>>

Lose == /\ lossy /\ Len(flight) > 1
        /\ flight' = Tail(flight) /\ lost' = lost + 1 /\ err' = TRUE
        /\ UNCHANGED <<got, lossy>>

Acknowledge == err' = FALSE /\ UNCHANGED <<flight, got, lost, lossy>>

LNext == Send \/ Receive \/ Lose \/ Acknowledge

LSpec == LInit /\ [][LNext]_lvars
=============================================================================
