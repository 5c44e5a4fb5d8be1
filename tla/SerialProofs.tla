---------------------------- MODULE SerialProofs ----------------------------
(***************************************************************************)
(* The wired port implements the line, for every set of bytes and every    *)
(* size of the host's buffers.                                             *)
(***************************************************************************)
EXTENDS Serial, Console, SequenceTheorems, TLAPS

TypeOK ==
  /\ sock \in Seq(Bytes) /\ buf \in Seq(Bytes) /\ got \in Seq(Bytes)
  /\ rx_avail \in BOOLEAN /\ rx_data \in Bytes
  /\ rx_overrun \in BOOLEAN /\ rx_lost \in Nat /\ rx_overrun_on \in BOOLEAN

-----------------------------------------------------------------------------
(* Sequences.                                                              *)

LEMMA Cons ==
  ASSUME NEW S, NEW e \in S, NEW s \in Seq(S)
  PROVE  /\ <<e>> \o s \in Seq(S) /\ Len(<<e>> \o s) = Len(s) + 1
         /\ <<e>> \o s # << >>
         /\ Head(<<e>> \o s) = e /\ Tail(<<e>> \o s) = s
<1> DEFINE t == <<e>> \o s
<1>1. <<e>> \in Seq(S) /\ Len(<<e>>) = 1 /\ <<e>>[1] = e
  OBVIOUS
<1>2. /\ t \in Seq(S) /\ Len(t) = Len(s) + 1 /\ Len(s) \in Nat
      /\ \A i \in 1 .. Len(s) + 1 : t[i] = IF i <= 1 THEN e ELSE s[i - 1]
  BY <1>1, ConcatProperties, LenProperties
<1> HIDE DEF t
<1>3. t # << >> /\ Head(t) = t[1]
  BY <1>2, EmptySeq
<1>4. /\ Tail(t) \in Seq(S) /\ Len(Tail(t)) = Len(s)
      /\ \A i \in 1 .. Len(s) : Tail(t)[i] = t[i + 1]
  BY <1>2, <1>3, HeadTailProperties
<1>5. \A i \in 1 .. Len(s) : Tail(t)[i] = s[i]
  BY <1>2, <1>4
<1>6. Tail(t) = s
  BY <1>4, <1>5, SeqEqual
<1> QED
  BY <1>2, <1>3, <1>6 DEF t

LEMMA HeadTail ==
  ASSUME NEW S, NEW s \in Seq(S), s # << >>
  PROVE  Head(s) \in S /\ Tail(s) \in Seq(S) /\ s = <<Head(s)>> \o Tail(s)
<1>1. Len(s) \in Nat \ {0} /\ Head(s) = s[1]
  BY EmptySeq
<1>2. SubSeq(s, 1, Len(s)) = <<s[1]>> \o SubSeq(s, 2, Len(s))
  BY <1>1, SubSeqRecursiveFirst
<1> QED
  BY <1>1, <1>2, SubSeqFull, TailIsSubSeq, HeadTailProperties

(* A refill: its first byte, the rest of what was taken, what was left.    *)
LEMMA Split ==
  ASSUME NEW S, NEW s \in Seq(S), NEW n \in 1 .. Len(s)
  PROVE  /\ SubSeq(s, 2, n) \in Seq(S) /\ SubSeq(s, n + 1, Len(s)) \in Seq(S)
         /\ Head(s) \in S
         /\ s = <<Head(s)>> \o (SubSeq(s, 2, n) \o SubSeq(s, n + 1, Len(s)))
<1>1. Len(s) \in Nat \ {0} /\ n \in Nat /\ n <= Len(s)
  BY LenProperties
<1>2. s # << >> /\ Head(s) = s[1] /\ Head(s) \in S
  BY <1>1, EmptySeq, HeadTailProperties
<1>3. SubSeq(s, 2, n) \in Seq(S) /\ SubSeq(s, n + 1, Len(s)) \in Seq(S)
  <2>1. \A i \in 1 .. Len(s) : s[i] \in S
    BY ElementOfSeq
  <2>2. (\A i \in 2 .. n : s[i] \in S) /\ \A i \in n + 1 .. Len(s) : s[i] \in S
    BY <1>1, <2>1
  <2> QED
    BY <1>1, <2>2, SubSeqProperties
<1>4. SubSeq(s, 2, n) \o SubSeq(s, n + 1, Len(s)) = SubSeq(s, 2, Len(s))
  <2>1. 2 \in 1 .. Len(s) + 1 /\ n \in 2 - 1 .. Len(s) /\ Len(s) \in n .. Len(s)
    BY <1>1
  <2> QED
    BY <2>1, ConcatAdjacentSubSeq
<1> QED
  BY <1>2, <1>3, <1>4, HeadTail, TailIsSubSeq

-----------------------------------------------------------------------------
(* What is on its way, seen from the receiver.                             *)
Behind == buf \o sock

LEMMA Shape ==
  ASSUME NEW S, NEW d \in S, NEW b \in Seq(S), NEW s \in Seq(S)
  PROVE  /\ b \o s \in Seq(S)
         /\ <<d>> \o b \o s = <<d>> \o (b \o s) /\ <<d>> \o b \o s \in Seq(S)
         /\ << >> \o b \o s = b \o s
<1>1. b \o s \in Seq(S) /\ <<d>> \in Seq(S) /\ << >> \in Seq(S)
  BY ConcatProperties, EmptySeq
<1>2. (<<d>> \o b) \o s = <<d>> \o (b \o s)
  BY <1>1, ConcatAssociative
<1>3. (<< >> \o b) \o s = b \o s
  BY ConcatEmptySeq
<1>4. <<d>> \o (b \o s) \in Seq(S)
  BY <1>1, ConcatProperties
<1> QED
  BY <1>1, <1>2, <1>3, <1>4

LEMMA FlightShape ==
  TypeOK => /\ Behind \in Seq(Bytes) /\ Flight \in Seq(Bytes)
            /\ rx_avail => Flight = <<rx_data>> \o Behind
            /\ ~rx_avail => Flight = Behind
<1> SUFFICES ASSUME TypeOK PROVE FlightShape!2
  OBVIOUS
<1>1. CASE rx_avail
  BY <1>1, Shape DEF TypeOK, Flight, Behind
<1>2. CASE ~rx_avail
  BY <1>2, Shape DEF TypeOK, Flight, Behind
<1> QED
  BY <1>1, <1>2

LEMMA FlightShapeNext ==
  TypeOK' => /\ Behind' \in Seq(Bytes) /\ Flight' \in Seq(Bytes)
             /\ rx_avail' => Flight' = <<rx_data'>> \o Behind'
             /\ ~rx_avail' => Flight' = Behind'
<1> SUFFICES ASSUME TypeOK' PROVE FlightShapeNext!2
  OBVIOUS
<1>1. CASE rx_avail'
  BY <1>1, Shape DEF TypeOK, Flight, Behind
<1>2. CASE ~rx_avail'
  BY <1>2, Shape DEF TypeOK, Flight, Behind
<1> QED
  BY <1>1, <1>2

(* A pass takes the first byte behind the receiver, and it alone.          *)
LEMMA ServiceTakes ==
  ASSUME TypeOK, SerialAssumption, Service
  PROVE  /\ TypeOK' /\ rx_avail' /\ Behind = <<rx_data'>> \o Behind'
         /\ UNCHANGED <<got, rx_overrun_on>> /\ (rx_avail => rx_overrun_on)
         /\ IF rx_avail THEN rx_overrun' /\ rx_lost' = rx_lost + 1
                        ELSE UNCHANGED <<rx_overrun, rx_lost>>
<1>0. /\ UNCHANGED <<ends, ptr, rx_overrun_on, sent, got>> /\ (rx_avail => rx_overrun_on)
  BY DEF Service, Offered
<1>1. ASSUME NEW b \in Bytes, Deliver(b)
      PROVE  /\ rx_avail' = TRUE /\ rx_data' = b /\ rx_overrun' \in BOOLEAN /\ rx_lost' \in Nat
             /\ IF rx_avail THEN rx_overrun' /\ rx_lost' = rx_lost + 1
                            ELSE UNCHANGED <<rx_overrun, rx_lost>>
  <2>1. CASE rx_avail
    <3>1. rx_overrun' = TRUE /\ rx_lost' = rx_lost + 1
      BY <1>0, <1>1, <2>1 DEF Deliver
    <3> QED
      BY <1>1, <2>1, <3>1 DEF Deliver, TypeOK
  <2>2. CASE ~rx_avail
    BY <1>1, <2>2 DEF Deliver, errors, TypeOK
  <2> QED
    BY <2>1, <2>2
<1>2. CASE buf # << >>
  <2>1. Deliver(Head(buf)) /\ buf' = Tail(buf) /\ sock' = sock
    BY <1>2 DEF Service
  <2>2. Head(buf) \in Bytes /\ buf' \in Seq(Bytes) /\ buf = <<Head(buf)>> \o buf'
    BY <1>2, <2>1, HeadTail DEF TypeOK
  <2>3. Behind = <<Head(buf)>> \o Behind'
    BY <2>1, <2>2, ConcatAssociative DEF Behind, TypeOK
  <2> QED
    BY <1>0, <1>1, <2>1, <2>2, <2>3 DEF TypeOK
<1>3. CASE buf = << >>
  <2>1. /\ sock # << >> /\ Deliver(Head(sock)) /\ buf' = SubSeq(sock, 2, Received)
        /\ sock' = SubSeq(sock, Received + 1, Len(sock))
    BY <1>3 DEF Service
  <2>2. Received \in 1 .. Len(sock)
    BY <2>1, EmptySeq DEF Received, SerialAssumption, TypeOK
  <2>3. /\ buf' \in Seq(Bytes) /\ sock' \in Seq(Bytes) /\ Head(sock) \in Bytes
        /\ sock = <<Head(sock)>> \o (buf' \o sock')
    BY <2>1, <2>2, Split DEF TypeOK
  <2>4. Behind = sock
    BY <1>3, ConcatEmptySeq DEF Behind, TypeOK
  <2> QED
    BY <1>0, <1>1, <2>1, <2>3, <2>4 DEF TypeOK, Behind
<1> QED
  BY <1>2, <1>3

-----------------------------------------------------------------------------
LEMMA ServiceStep ==
  ASSUME TypeOK, SerialAssumption, Service
  PROVE  TypeOK' /\ [L!LNext]_(L!lvars)
<1>1. TypeOK' /\ Flight' = <<rx_data'>> \o Behind' /\ Flight' = Behind
  BY ServiceTakes, FlightShapeNext
<1>2. CASE ~rx_avail
  BY <1>1, <1>2, ServiceTakes, FlightShape DEF L!lvars
<1>3. CASE rx_avail
  <2>1. Flight = <<rx_data>> \o Flight' /\ Flight' \in Seq(Bytes) /\ rx_data \in Bytes
    BY <1>1, <1>3, FlightShape DEF TypeOK
  <2>2. Tail(Flight) = Flight' /\ Len(Flight) = Len(Flight') + 1
    BY <2>1, Cons
  <2>3. Flight' # << >>
    BY <1>1, ServiceTakes, FlightShape, Cons DEF TypeOK
  <2>4. Len(Flight) > 1
    BY <2>1, <2>2, <2>3, EmptySeq, LenProperties
  <2>5. L!Lose
    BY <1>3, <2>2, <2>4, ServiceTakes DEF L!Lose, TypeOK
  <2> QED
    BY <1>1, <2>5 DEF L!LNext
<1> QED
  BY <1>2, <1>3 DEF TypeOK

LEMMA PutStep ==
  ASSUME TypeOK, NEW b \in Bytes, Put(b)
  PROVE  TypeOK' /\ [L!LNext]_(L!lvars)
<1>1. /\ UNCHANGED <<buf, rx_avail, rx_data, rx_overrun, rx_lost, rx_overrun_on, got>>
      /\ sock' = sock \/ sock' = Append(sock, b)
  BY DEF Put, errors
<1>2. CASE sock' = sock
  BY <1>1, <1>2 DEF TypeOK, L!lvars, Flight
<1>3. CASE sock' = Append(sock, b)
  <2>1. TypeOK' /\ sock' = sock \o <<b>> /\ <<b>> \in Seq(Bytes)
    BY <1>1, <1>3, AppendProperties, AppendIsConcat DEF TypeOK
  <2>2. (<<rx_data>> \o buf) \in Seq(Bytes) /\ (<< >> \o buf) \in Seq(Bytes)
    BY ConcatProperties, EmptySeq DEF TypeOK
  <2>3. Flight' = Flight \o <<b>>
    <3>1. CASE rx_avail
      BY <1>1, <2>1, <2>2, <3>1, ConcatAssociative DEF Flight, TypeOK
    <3>2. CASE ~rx_avail
      BY <1>1, <2>1, <2>2, <3>2, ConcatAssociative DEF Flight, TypeOK
    <3> QED
      BY <3>1, <3>2
  <2>4. Flight' = Append(Flight, b)
    BY <2>3, FlightShape, AppendIsConcat
  <2>5. L!Send
    BY <1>1, <2>4 DEF L!Send
  <2> QED
    BY <2>1, <2>5 DEF L!LNext
<1> QED
  BY <1>1, <1>2, <1>3

LEMMA ReadStep ==
  ASSUME TypeOK, NEW a, Read(a)
  PROVE  TypeOK' /\ [L!LNext]_(L!lvars)
<1>1. /\ UNCHANGED <<sock, buf, rx_data, rx_overrun, rx_lost, rx_overrun_on>>
      /\ Behind' = Behind
  BY DEF Read, errors, Behind
<1>2. CASE ~(rx_avail /\ Selected(a) = 8)
  <2>1. rx_avail' = rx_avail /\ got' = got
    BY <1>2 DEF Read, TypeOK
  <2> QED
    BY <1>1, <2>1 DEF TypeOK, L!lvars, Flight
<1>3. CASE rx_avail /\ Selected(a) = 8
  <2>1. rx_avail' = FALSE /\ got' = Append(got, rx_data)
    BY <1>3 DEF Read
  <2>2. TypeOK'
    BY <1>1, <2>1, AppendProperties DEF TypeOK
  <2>3. Flight = <<rx_data>> \o Behind /\ Flight' = Behind /\ Behind \in Seq(Bytes)
    BY <1>1, <1>3, <2>1, <2>2, FlightShape, FlightShapeNext
  <2>4. Flight # << >> /\ Head(Flight) = rx_data /\ Tail(Flight) = Flight'
    BY <2>3, Cons DEF TypeOK
  <2>5. L!Receive
    BY <1>1, <2>1, <2>4 DEF L!Receive
  <2> QED
    BY <2>2, <2>5 DEF L!LNext
<1> QED
  BY <1>2, <1>3

LEMMA WriteStep ==
  ASSUME TypeOK, NEW a, NEW p, NEW cmd, Write(a, p, cmd)
  PROVE  TypeOK' /\ [L!LNext]_(L!lvars)
<1>1. /\ UNCHANGED <<sock, buf, rx_avail, rx_data, rx_lost, rx_overrun_on, got>>
      /\ Flight' = Flight
      /\ rx_overrun' = rx_overrun \/ rx_overrun' = FALSE
  BY DEF Write, WR0, Flight, TypeOK
<1>2. TypeOK'
  BY <1>1 DEF TypeOK
<1>3. CASE rx_overrun' = rx_overrun
  BY <1>1, <1>2, <1>3 DEF L!lvars
<1>4. CASE rx_overrun' = FALSE
  BY <1>1, <1>2, <1>4 DEF L!LNext, L!Acknowledge
<1> QED
  BY <1>1, <1>2, <1>3, <1>4

LEMMA NextStep ==
  ASSUME TypeOK, [Next]_vars
  PROVE  TypeOK' /\ [L!LNext]_(L!lvars)
<1>1. CASE UNCHANGED vars
  BY <1>1 DEF vars, errors, TypeOK, L!lvars, Flight
<1>2. CASE Hangup \/ Close
  <2>1. UNCHANGED <<sock, buf, rx_avail, rx_data, errors, rx_overrun_on, got>>
    BY <1>2 DEF Hangup, Close
  <2> QED
    BY <2>1 DEF errors, TypeOK, L!lvars, Flight
<1>3. CASE Service
  BY <1>3, ServiceStep, SerialAssumption
<1>4. CASE Guest
  BY <1>4, ReadStep, WriteStep DEF Guest
<1>5. CASE \E b \in Bytes : Put(b)
  BY <1>5, PutStep
<1> QED
  BY <1>1, <1>2, <1>3, <1>4, <1>5 DEF Next

(* What the far end managed to put into the socket reaches the guest once  *)
(* and in order, but for the bytes an overrun destroyed and the error bit  *)
(* owned up to: the port implements the line (scc_wire_service,            *)
(* wire_poll_char_n).                                                      *)
THEOREM LineSound == Spec => LineKept
<1>1. Init => TypeOK /\ L!LInit
  <2>1. << >> \in Seq(Bytes) /\ << >> \o << >> \o << >> = << >>
    BY EmptySeq, ConcatEmptySeq
  <2>2. Init => TypeOK
    <3> SUFFICES ASSUME Init PROVE TypeOK
      OBVIOUS
    <3>1. sock \in Seq(Bytes) /\ buf \in Seq(Bytes) /\ got \in Seq(Bytes)
      BY <2>1, Zenon DEF Init
    <3>2. /\ rx_avail \in BOOLEAN /\ rx_data \in Bytes
          /\ rx_overrun \in BOOLEAN /\ rx_lost \in Nat /\ rx_overrun_on \in BOOLEAN
      BY DEF Init
    <3> QED
      BY <3>1, <3>2 DEF TypeOK
  <2>3. Init => Flight = << >>
    <3> SUFFICES ASSUME Init PROVE Flight = << >>
      OBVIOUS
    <3>1. ~rx_avail /\ buf = << >> /\ sock = << >>
      BY DEF Init
    <3>2. Flight = << >> \o << >> \o << >>
      BY <3>1 DEF Flight
    <3> QED
      BY <2>1, <3>2
  <2>4. Init => L!LInit
    BY <2>3 DEF Init, L!LInit
  <2> QED
    BY <2>2, <2>4
<1> QED
  BY <1>1, NextStep, PTL DEF Spec, LineKept, L!LSpec

-----------------------------------------------------------------------------
(***************************************************************************)
(* Part two: the console channel and its script, for every script, option  *)
(* setting and guest.                                                      *)
(***************************************************************************)

(* A scripted byte in the receiver is the last one fed.                    *)
Held == rx.avail /\ rx.data > 0 => rx.data = inq_pos

Delivery == heard \in Nat /\ inq_pos \in Nat /\ Held /\ NoByteLost

LEMMA DeliveryStep ==
  ASSUME Delivery, [ConsoleNext]_cvars
  PROVE  Delivery'
<1> USE DEF Delivery, Held, NoByteLost
<1>1. CASE UNCHANGED cvars
  BY <1>1 DEF cvars, feeder, guest
<1>2. CASE Feed
  <2>1. rx' = [avail |-> TRUE, data |-> inq_pos + 1] /\ inq_pos' = inq_pos + 1
    BY <1>2 DEF Feed, Fed
  <2>2. heard' = heard /\ ~rx.avail
    BY <1>2 DEF Feed, Feeds, ReceiverFree, guest
  <2> QED
    BY <2>1, <2>2
<1>3. CASE HostKey
  <2>1. rx' = [avail |-> TRUE, data |-> 0] /\ inq_pos' = inq_pos
    BY <1>3 DEF HostKey, feeder
  <2>2. heard' = heard /\ ~rx.avail
    BY <1>3 DEF HostKey, ReceiverFree, guest
  <2> QED
    BY <2>1, <2>2
<1>4. CASE HostQuit \/ NothingToFeed \/ StopIdle
  BY <1>4 DEF HostQuit, NothingToFeed, StopIdle, feeder, guest
<1>5. CASE ReadRR8
  <2>1. rx.avail /\ rx' = [rx EXCEPT !.avail = FALSE] /\ inq_pos' = inq_pos
    BY <1>5 DEF ReadRR8, feeder
  <2>2. heard' = IF rx.data > 0 THEN rx.data ELSE heard
    BY <1>5 DEF ReadRR8
  <2>3. ~rx'.avail
    BY <2>1
  <2> QED
    BY <2>1, <2>2, <2>3
<1>6. ASSUME NEW mark \in {FALSE, Marked}, PrintText(mark)
      PROVE  Delivery'
  BY <1>6 DEF PrintText, Transmit, guest
<1>7. CASE PrintEarly \/ PrintPrompt
  BY <1>7 DEF PrintEarly, PrintPrompt, Transmit, guest
<1>8. CASE StartCommand \/ PollRR0 \/ RunSilently
  BY <1>8 DEF StartCommand, PollRR0, RunSilently, feeder, guest
<1> QED
  BY <1>1, <1>2, <1>3, <1>4, <1>5, <1>6, <1>7, <1>8 DEF ConsoleNext, Top, Shell

(* Whatever the guest reads, polls and prints and the user types, it gets  *)
(* the script byte by byte (the rx_avail test of machine_run).             *)
THEOREM DeliverySound == ConsoleSpec => []NoByteLost
<1>1. ConsoleInit => Delivery
  BY DEF ConsoleInit, Delivery, Held, NoByteLost
<1>2. Delivery => NoByteLost
  BY DEF Delivery
<1> QED
  BY <1>1, <1>2, DeliveryStep, PTL DEF ConsoleSpec

-----------------------------------------------------------------------------
(* The scripts CommandSafe is about: no carriage return is type-ahead, for *)
(* such a one asks for a command to be typed at another.                   *)
PacedScripts == \A s \in Scripts : \A i \in DOMAIN s : s[i].cr => ~s[i].now

(* A carriage return the guest has not read.                               *)
Entered == rx.avail /\ rx.data > 0 /\ inq[rx.data].cr

(* One line at most is on its way through the shell, in the receiver, read *)
(* or running, and until its prompt comes the feeder knows that it is.     *)
Quiet == shell = "idle" /\ lines = 0 /\ (Entered => awaiting)
Taken == shell = "idle" /\ lines = 1 /\ awaiting /\ ~Entered
Runs  == shell = "busy" /\ lines = 0 /\ ~Entered

OneCommand ==
  /\ ~shell_up => Runs
  /\ shell_up => Quiet \/ Taken \/ (Runs /\ awaiting)

Pacing ==
  /\ inq_pos \in Nat /\ inq \in Scripts /\ inq_gateoff \in Int
  /\ ~Ungated => OneCommand

(* The script is read, never written, one byte at a time.                  *)
LEMMA ScriptStays ==
  ASSUME [ConsoleNext]_cvars
  PROVE  /\ inq' = inq /\ inq_gateoff' = inq_gateoff
         /\ inq_pos' = inq_pos \/ inq_pos' = inq_pos + 1
<1>1. inq' = inq /\ inq_gateoff' = inq_gateoff
  BY DEF cvars, ConsoleNext, Top, Shell, Feed, HostKey, HostQuit,
         NothingToFeed, StopIdle, PrintText, PrintEarly, PrintPrompt,
         StartCommand, PollRR0, ReadRR8, RunSilently, Step, script
<1>2. inq_pos' = inq_pos \/ inq_pos' = inq_pos + 1
  BY DEF cvars, ConsoleNext, Top, Shell, Feed, Fed, HostKey, HostQuit,
         NothingToFeed, StopIdle, PrintText, PrintEarly, PrintPrompt,
         StartCommand, PollRR0, ReadRR8, RunSilently, Step,
         Transmit, script, feeder
<1> QED
  BY <1>1, <1>2

(* \g, once passed, stays passed.                                          *)
LEMMA GateStays ==
  ASSUME [ConsoleNext]_cvars, inq_pos \in Nat, inq_gateoff \in Int, ~Ungated'
  PROVE  ~Ungated
  BY ScriptStays DEF Ungated

LEMMA PacingStep ==
  ASSUME PacedScripts, Pacing, Held, [ConsoleNext]_cvars
  PROVE  Pacing'
<1>1. inq_pos \in Nat /\ inq \in Scripts /\ inq_gateoff \in Int
  BY DEF Pacing
<1>2. inq \in Seq(Byte) /\ \A i \in DOMAIN inq : inq[i].cr => ~inq[i].now
  BY <1>1, ConsoleAssumption DEF PacedScripts
<1>3. inq' = inq /\ inq_gateoff' = inq_gateoff /\ inq_pos' \in Nat
  BY <1>1, ScriptStays
<1> SUFFICES ASSUME ~Ungated' PROVE OneCommand'
  BY <1>1, <1>3 DEF Pacing
<1>4. ~Ungated
  BY <1>1, GateStays
<1>5. OneCommand
  BY <1>4 DEF Pacing
<1> USE DEF OneCommand, Quiet, Taken, Runs
<1>6. CASE UNCHANGED cvars
  <2>1. Entered' = Entered
    BY <1>6 DEF cvars, script, Entered
  <2> QED
    BY <1>5, <1>6, <2>1 DEF cvars, feeder, watch, guest
<1>7. CASE Feed
  <2>1. /\ UNCHANGED <<shell_up, shell, lines>>
        /\ rx' = [avail |-> TRUE, data |-> inq_pos + 1] /\ ~rx.avail
        /\ awaiting' = (awaiting \/ Next1.cr)
    BY <1>7 DEF Feed, Feeds, ReceiverFree, watch, guest
  <2>2. ~Exhausted
    BY <1>7 DEF Feed, Feeds
  <2>3. inq_pos + 1 \in DOMAIN inq /\ Next1 = inq[inq_pos + 1]
    BY <1>1, <1>2, <2>2 DEF Exhausted, Next1
  <2>4. ~Entered /\ (Entered' <=> inq[inq_pos + 1].cr)
    BY <1>1, <1>3, <2>1 DEF Entered
  <2>5. CASE inq[inq_pos + 1].cr
    <3>1. ~TypeAhead
      BY <1>2, <2>3, <2>5 DEF TypeAhead
    <3>2. shell_up /\ ~awaiting
      BY <1>4, <1>7, <3>1 DEF Feed, Feeds, Paced, PastGate, Ungated
    <3>3. shell = "idle" /\ lines = 0
      BY <1>5, <3>2
    <3>4. awaiting'
      BY <2>1, <2>3, <2>5
    <3> QED
      BY <2>1, <3>2, <3>3, <3>4
  <2>6. CASE ~inq[inq_pos + 1].cr
    <3>1. (awaiting' <=> awaiting) /\ ~Entered'
      BY <2>1, <2>3, <2>4, <2>6
    <3> QED
      BY <1>5, <2>1, <2>4, <3>1
  <2> QED
    BY <2>5, <2>6
<1>8. CASE HostKey
  <2>1. rx' = [avail |-> TRUE, data |-> 0] /\ ~rx.avail
    BY <1>8 DEF HostKey, ReceiverFree
  <2>2. ~Entered /\ ~Entered'
    BY <2>1 DEF Entered
  <2> QED
    BY <1>5, <1>8, <2>2 DEF HostKey, feeder, watch, guest
<1>9. CASE HostQuit \/ NothingToFeed \/ StopIdle
  <2>1. Entered' = Entered
    BY <1>3, <1>9 DEF HostQuit, NothingToFeed, StopIdle, Entered
  <2> QED
    BY <1>5, <1>9, <2>1 DEF HostQuit, NothingToFeed, StopIdle, feeder, watch, guest
<1>10. CASE ReadRR8
  <2>1. rx.avail /\ rx' = [rx EXCEPT !.avail = FALSE]
    BY <1>10 DEF ReadRR8
  <2>2. ~rx'.avail
    BY <2>1
  <2>3. ~Entered'
    BY <2>2 DEF Entered
  <2>4. lines' = IF Entered THEN lines + 1 ELSE lines
    BY <1>10, <2>1 DEF ReadRR8, Entered
  <2>5. UNCHANGED <<awaiting, shell_up, shell>>
    BY <1>10 DEF ReadRR8, feeder
  <2>6. CASE Entered
    BY <1>5, <2>3, <2>4, <2>5, <2>6
  <2>7. CASE ~Entered
    BY <1>5, <2>3, <2>4, <2>5, <2>7
  <2> QED
    BY <2>6, <2>7
<1>11. CASE PrintEarly \/ \E mark \in {FALSE, Marked} : PrintText(mark)
  <2>1. /\ UNCHANGED <<rx, shell, lines>>
        /\ shell_up' <=> shell_up
        /\ awaiting' <=> awaiting
    BY <1>11 DEF PrintEarly, PrintText, Transmit, guest
  <2>2. Entered' = Entered
    BY <1>3, <2>1 DEF Entered
  <2> QED
    BY <1>5, <2>1, <2>2
<1>12. CASE PrintPrompt
  <2>1. /\ shell = "busy" /\ shell' = "idle" /\ rx' = rx /\ lines' = lines
        /\ shell_up'
    BY <1>12 DEF PrintPrompt, Transmit
  <2>2. Runs
    BY <1>5, <2>1
  <2>3. Entered' = Entered
    BY <1>3, <2>1 DEF Entered
  <2> QED
    BY <2>1, <2>2, <2>3
<1>13. CASE StartCommand
  <2>1. /\ shell = "idle" /\ lines > 0 /\ shell' = "busy" /\ lines' = lines - 1
        /\ UNCHANGED <<awaiting, shell_up, rx>>
    BY <1>13 DEF StartCommand, feeder, watch
  <2>2. shell_up /\ Taken
    BY <1>5, <2>1
  <2>3. Entered' = Entered
    BY <1>3, <2>1 DEF Entered
  <2> QED
    BY <2>1, <2>2, <2>3
<1>14. CASE PollRR0 \/ RunSilently
  <2>1. UNCHANGED <<awaiting, shell_up, rx, shell, lines>>
    BY <1>14 DEF PollRR0, RunSilently, feeder, guest
  <2>2. Entered' = Entered
    BY <1>3, <2>1 DEF Entered
  <2> QED
    BY <1>5, <2>1, <2>2
<1> QED
  BY <1>6, <1>7, <1>8, <1>9, <1>10, <1>11, <1>12, <1>13, <1>14 DEF ConsoleNext, Top, Shell

(* A paced byte is typed only at a shell that has nothing to do: by the    *)
(* invariant awaiting is set as long as a line is under way (prompt_seq    *)
(* and inq_wait_seq in machine_run).                                       *)
THEOREM CommandsSound ==
  ASSUME PacedScripts
  PROVE  ConsoleSpec => CommandSafe
<1>1. ConsoleInit => Pacing /\ Delivery
  <2>1. \A g \in Gates : g \in Int
    BY ConsoleAssumption
  <2> QED
    BY <2>1 DEF ConsoleInit, Pacing, OneCommand, Runs, Entered, Delivery, Held, NoByteLost
<1>2. Pacing /\ Delivery /\ [ConsoleNext]_cvars => (Pacing /\ Delivery)'
  BY PacingStep, DeliveryStep DEF Delivery
<1>3. ASSUME Pacing, [ConsoleNext]_cvars
      PROVE  [ (inq_pos' # inq_pos /\ ~inq[inq_pos'].now /\ ~Ungated)
               => shell = "idle" /\ lines = 0 ]_cvars
  <2> SUFFICES ASSUME inq_pos' # inq_pos, ~inq[inq_pos'].now, ~Ungated
               PROVE  shell = "idle" /\ lines = 0
    OBVIOUS
  <2>1. Feed
    BY <1>3 DEF cvars, ConsoleNext, Top, Shell, HostKey, HostQuit,
         NothingToFeed, StopIdle, PrintText, PrintEarly, PrintPrompt,
         StartCommand, PollRR0, ReadRR8, RunSilently, Transmit, feeder
  <2>2. ~TypeAhead
    BY <2>1 DEF Feed, Fed, TypeAhead, Next1
  <2>3. shell_up /\ ~awaiting
    BY <2>1, <2>2 DEF Feed, Feeds, Paced, PastGate, Ungated
  <2> QED
    BY <1>3, <2>3 DEF Pacing, OneCommand, Quiet, Taken
<1> QED
  BY <1>1, <1>2, <1>3, PTL DEF ConsoleSpec, CommandSafe
=============================================================================
