-------------------------- MODULE InterruptsProofs --------------------------
(***************************************************************************)
(* The VI line carries what was asked for and the disk's one-shot is not   *)
(* lost, for every chain of channels and every timer period.               *)
(***************************************************************************)
EXTENDS Interrupts, WellFoundedInduction, TLAPS

(* last_vi_disk tells whether the vector on the line is the disk's; it is  *)
(* what makes clearing the one-shot safe (machine_run).                    *)
LineInv ==
  /\ disk_vi \in BOOLEAN /\ owed \in BOOLEAN /\ last_vi_disk \in BOOLEAN
  /\ last_vi_disk <=> vi_vector = "disk"
  /\ DiskOwed /\ VectorAsked

(* A set of natural numbers has a first one.                               *)
LEMMA FirstOf ==
  ASSUME NEW S \in SUBSET Nat, S # {}
  PROVE  \E i \in S : \A j \in S : i <= j
<1>1. PICK i \in S : \A j \in S : ~(<<j, i>> \in OpToRel(<, Nat))
  BY NatLessThanWellFounded, WFMin
<1>2. ASSUME NEW j \in S PROVE i <= j
  <2>1. i \in Nat /\ j \in Nat /\ <<j, i>> \in Nat \X Nat
    OBVIOUS
  <2>2. ~(j < i)
    BY <1>1, <2>1 DEF OpToRel
  <2> QED
    BY <2>1, <2>2
<1> QED
  BY <1>2

(* The vector driven is that of a source that requests service.            *)
LEMMA HighestPending ==
  ASSUME Pending # {}
  PROVE  \E i \in Pending : Highest = Order[i]
<1>1. Pending \in SUBSET Nat
  BY DEF Pending
<1>2. \E i \in Pending : \A j \in Pending : i <= j
  BY <1>1, FirstOf
<1> QED
  BY <1>2 DEF Highest

LEMMA BusLine ==
  ASSUME LineInv, Bus
  PROVE  LineInv'
<1>1. /\ UNCHANGED <<disk_vi, irq_vi, owed>> /\ ph' = "cpu"
      /\ asked' = asked \cup {Order[i] : i \in Pending}
  BY DEF Bus, cpu
<1>2. CASE Pending = {}
  <2>1. vi_line' = FALSE /\ UNCHANGED <<vi_vector, last_vi_disk>>
    BY <1>2 DEF Bus, DriveLine, Quiet
  <2> QED
    BY <1>1, <2>1 DEF LineInv, DiskOwed, VectorAsked
<1>3. CASE Pending # {}
  <2>1. vi_line' = TRUE /\ vi_vector' = Highest /\ last_vi_disk' = (Highest = "disk")
    BY <1>3 DEF Bus, DriveLine, FromDisk
  <2>2. Highest \in asked'
    BY <1>1, <1>3, HighestPending
  <2> QED
    BY <1>1, <2>1, <2>2 DEF LineInv, DiskOwed, VectorAsked
<1> QED
  BY <1>2, <1>3

(* An instruction samples the line; only the doorbell makes the disk owe.  *)
LEMMA ExecuteLine ==
  ASSUME LineInv, Execute, UNCHANGED <<disk_vi, owed>> \/ (disk_vi' = TRUE /\ owed' = TRUE)
  PROVE  LineInv'
<1>1. /\ ph = "cpu" /\ ph' = "bus" /\ irq_vi' = Sampled
      /\ UNCHANGED <<last_vi_disk, vi_line, vi_vector, asked>>
  BY DEF Execute, line
<1>2. DiskOwed' /\ disk_vi' \in BOOLEAN /\ owed' \in BOOLEAN
  <2>1. CASE UNCHANGED <<disk_vi, owed>>
    BY <2>1 DEF LineInv, DiskOwed
  <2>2. CASE disk_vi' = TRUE /\ owed' = TRUE
    BY <2>2 DEF DiskOwed
  <2> QED
    BY <2>1, <2>2
<1>3. VectorAsked'
  BY <1>1 DEF LineInv, VectorAsked, Sampled
<1> QED
  BY <1>1, <1>2, <1>3 DEF LineInv

LEMMA TrapLine ==
  ASSUME LineInv, NEW on \in BOOLEAN, TakeTrap(on)
  PROVE  LineInv'
<1>1. /\ ph = "cpu" /\ ph' = "bus" /\ irq_vi' = Sampled
      /\ UNCHANGED <<disk_vi, owed, last_vi_disk, vi_line, vi_vector, asked>>
  BY DEF TakeTrap, line
<1>2. VectorAsked'
  BY <1>1 DEF LineInv, VectorAsked, Sampled
<1> QED
  BY <1>1, <1>2 DEF LineInv, DiskOwed

LEMMA ViLine ==
  ASSUME LineInv, NEW on \in BOOLEAN, TakeVi(on)
  PROVE  LineInv'
<1>1. /\ ph' = "bus" /\ irq_vi' = FALSE
      /\ UNCHANGED <<last_vi_disk, vi_line, vi_vector>>
      /\ disk_vi' = Cleared /\ owed' = (owed /\ vi_vector # "disk")
  BY DEF TakeVi, line
<1>2. Cleared = (owed /\ vi_vector # "disk")
  BY DEF LineInv, Cleared, DiskOwed
<1> QED
  BY <1>1, <1>2 DEF LineInv, DiskOwed, VectorAsked

LEMMA NextLine ==
  ASSUME LineInv, [Next]_vars
  PROVE  LineInv'
<1>1. CASE UNCHANGED vars
  BY <1>1 DEF vars, line, cpu, LineInv, DiskOwed, VectorAsked
<1>2. ASSUME NEW ch \in Channels, Arrive(ch) PROVE LineInv'
  BY <1>2 DEF Arrive, line, cpu, LineInv, DiskOwed, VectorAsked
<1>3. CASE AnyInstruction
  <2>1. Execute
    BY <1>3 DEF AnyInstruction, RaiseTrap, Doorbell, Other, LoadVie, WriteMicr,
                ReadRR8, WriteWR1, WriteWR9, Command, WriteMode
  <2>2. UNCHANGED <<disk_vi, owed>> \/ (disk_vi' = TRUE /\ owed' = TRUE)
    BY <1>3 DEF AnyInstruction, RaiseTrap, Doorbell, Other, LoadVie, WriteMicr,
                ReadRR8, WriteWR1, WriteWR9, Command, WriteMode
  <2> QED
    BY <2>1, <2>2, ExecuteLine
<1> QED
  BY <1>1, <1>2, <1>3, BusLine, TrapLine, ViLine DEF Next, Host

LEMMA SpecLine == Spec => []LineInv
<1>1. Init => LineInv
  BY DEF Init, LineInv, DiskOwed, VectorAsked
<1> QED
  BY <1>1, NextLine, PTL DEF Spec

(* The disk's request stays up until its vector has been delivered, and    *)
(* goes down with it: no other interrupt in between eats it, and it is not *)
(* delivered twice (machine_run's one-shot).                               *)
THEOREM DiskSound == Spec => []DiskOwed
<1>1. LineInv => DiskOwed
  BY DEF LineInv
<1> QED
  BY <1>1, SpecLine, PTL

(* A VI is only ever taken with the vector of a source that asked for it   *)
(* since the VI before (handle_interrupts, machine_run).                   *)
THEOREM VectorSound == Spec => []VectorAsked
<1>1. LineInv => VectorAsked
  BY DEF LineInv
<1> QED
  BY <1>1, SpecLine, PTL
=============================================================================
