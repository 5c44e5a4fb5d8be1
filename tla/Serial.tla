------------------------------- MODULE Serial -------------------------------
(***************************************************************************)
(* A wired serial port, from the far end's transmitter to the guest's      *)
(* read: the socket and the endpoint's buffer (wire.c), the pass of        *)
(* machine_run that offers the next byte to the receiver, with and without *)
(* --rx-overrun, and the channel's registers (bus.c).                      *)
(*                                                                         *)
(* The far end is another emulator or a bridge; what it puts into a full   *)
(* socket is dropped, as wire_put_char_n does.  The guest accesses the     *)
(* registers in any order it likes.  Other ports have endpoints and        *)
(* channels of their own.                                                  *)
(***************************************************************************)
EXTENDS Naturals, Sequences

CONSTANTS
  Bytes,
  SockSize,   \* the host's socket buffer
  BufSize,    \* the endpoint's buffer (8192)
  MaxSent     \* bound: bytes the far end offers

ASSUME SerialAssumption ==
  SockSize \in Nat \ {0} /\ BufSize \in Nat \ {0} /\ MaxSent \in Nat

VARIABLES
  peer,                   \* the far end holds its end of the socket open
  fd,                     \* so does the emulator
  sock,                   \* bytes in the socket
  buf,                    \* the unread part of the endpoint's buffer
  rx_avail, rx_data,      \* the receiver
  rx_overrun, rx_lost,    \* RR1 D5, and the count of destroyed bytes
  ptr,                    \* the channel's register pointer
  rx_overrun_on,          \* --rx-overrun
  sent, got               \* history: bytes offered, bytes the guest took

ends    == <<peer, fd>>
errors  == <<rx_overrun, rx_lost>>
vars == <<ends, sock, buf, rx_avail, rx_data, errors, ptr, rx_overrun_on, sent, got>>

-----------------------------------------------------------------------------
(* The far end: wire_put_char_n, and the end going away.                   *)
Put(b) ==
  /\ peer /\ sent < MaxSent
  /\ sent' = sent + 1
  /\ sock' = IF fd /\ Len(sock) < SockSize THEN Append(sock, b) ELSE sock
  /\ UNCHANGED <<ends, buf, rx_avail, rx_data, errors, ptr, rx_overrun_on, got>>

Hangup ==
  /\ peer /\ peer' = FALSE
  /\ UNCHANGED <<fd, sock, buf, rx_avail, rx_data, errors, ptr, rx_overrun_on, sent, got>>

(* wire_close, after the run.                                              *)
Close ==
  /\ fd /\ fd' = FALSE
  /\ UNCHANGED <<peer, sock, buf, rx_avail, rx_data, errors, ptr, rx_overrun_on, sent, got>>

-----------------------------------------------------------------------------
(* One pass of the receivers.                                              *)

(* Mutant: a byte is taken from the endpoint whether or not the receiver   *)
(* is full, without --rx-overrun too.                                      *)
Offered_always == fd

(* Mutant: nothing is taken any more once the far end has gone.            *)
Offered_until_hangup == fd /\ peer /\ (rx_avail => rx_overrun_on)

(* The gate of scc_wire_service; a wire that is closed has nothing.        *)
Offered == fd /\ (rx_avail => rx_overrun_on)

(* scc_rx_deliver.                                                         *)
Deliver(b) ==
  /\ rx_avail' = TRUE /\ rx_data' = b
  /\ IF rx_avail /\ rx_overrun_on
     THEN rx_overrun' = TRUE /\ rx_lost' = rx_lost + 1 ELSE UNCHANGED errors

(* What recv takes when the buffer has been read to its end.               *)
Received == IF Len(sock) < BufSize THEN Len(sock) ELSE BufSize

(* wire_poll_char_n.                                                       *)
Service ==
  /\ Offered
  /\ IF buf # << >>
     THEN Deliver(Head(buf)) /\ buf' = Tail(buf) /\ UNCHANGED sock
     ELSE /\ sock # << >> /\ Deliver(Head(sock))
          /\ buf' = SubSeq(sock, 2, Received)
          /\ sock' = SubSeq(sock, Received + 1, Len(sock))
  /\ UNCHANGED <<ends, ptr, rx_overrun_on, sent, got>>

-----------------------------------------------------------------------------
(* The guest.  A non-zero pointer overrides the address of one access.     *)
Selected(a) == IF ptr = 0 THEN a ELSE ptr

(* scc_read: reading the data register empties the receiver; the guest     *)
(* takes the byte if there was one.                                        *)
Read(a) ==
  /\ fd /\ ptr' = 0
  /\ rx_avail' = (rx_avail /\ Selected(a) # 8)
  /\ got' = IF rx_avail /\ Selected(a) = 8 THEN Append(got, rx_data) ELSE got
  /\ UNCHANGED <<ends, sock, buf, rx_data, errors, rx_overrun_on, sent>>

(* WR0: "point high" adds 8 to the pointer, "error reset" takes the error  *)
(* bit down.                                                               *)
WR0(p, cmd) ==
  /\ ptr' = IF cmd = "point high" THEN p + 8 ELSE p
  /\ rx_overrun' = (rx_overrun /\ cmd # "error reset")

Write(a, p, cmd) ==
  /\ fd
  /\ IF Selected(a) = 0 THEN WR0(p, cmd) ELSE ptr' = 0 /\ UNCHANGED rx_overrun
  /\ UNCHANGED <<ends, sock, buf, rx_avail, rx_data, rx_lost, rx_overrun_on, sent, got>>

Guest == \/ \E a \in {0, 1, 8} : Read(a)
         \/ \E a \in {0, 1}, p \in {0, 1}, cmd \in {"none", "point high", "error reset"} :
              Write(a, p, cmd)

Init ==
  /\ peer = TRUE /\ fd = TRUE /\ sock = << >> /\ buf = << >>
  /\ rx_avail = FALSE /\ rx_data \in Bytes /\ rx_overrun = FALSE /\ rx_lost = 0
  /\ ptr = 0 /\ rx_overrun_on \in BOOLEAN /\ sent = 0 /\ got = << >>

Next == Hangup \/ Close \/ Service \/ Guest \/ \E b \in Bytes : Put(b)

Spec == Init /\ [][Next]_vars

(* The loop runs on, and so does the guest, which reads the data register  *)
(* again and again when there is something to read.                        *)
TakesByte == rx_avail /\ \E a \in {0, 1, 8} : Selected(a) = 8 /\ Read(a)
FairSpec == Spec /\ WF_vars(Service) /\ WF_vars(Guest) /\ SF_vars(TakesByte)

-----------------------------------------------------------------------------
(* Properties.                                                             *)

(* The bytes on their way: the unread byte, the buffer, the socket.        *)
Flight == (IF rx_avail THEN <<rx_data>> ELSE << >>) \o buf \o sock

L == INSTANCE Line WITH flight <- Flight, lost <- rx_lost, err <- rx_overrun,
                        lossy <- rx_overrun_on

(* The endpoint and the receiver implement the line: whatever the passes,  *)
(* the refills, the register pointer and the far end do, no byte is lost,  *)
(* repeated or reordered, except by an overrun that was asked for and that *)
(* the error bit reports (scc_wire_service: "the host endpoint keeps the   *)
(* byte, so nothing is ever lost").                                        *)
LineKept == L!LSpec

(* No byte is stranded behind a receiver, in the buffer of a socket that   *)
(* has nothing more to give, or by a far end that has gone: while the wire *)
(* is open everything taken from the far end gets out of the way.          *)
NothingStranded == []<>(Flight = << >> \/ ~fd)
=============================================================================
