-------------------------------- MODULE Hdc --------------------------------
(***************************************************************************)
(* The disk controller card (bus.c: hdc_process, hdc_doorbell and the two  *)
(* attach functions).  A hard disk and a floppy share one doorbell and one *)
(* interrupt.  Each has a command block in memory, the hard disk's at      *)
(* hdc_cmdblk and the floppy's behind it, armed by writing FF into its     *)
(* error byte.                                                             *)
(*                                                                         *)
(* Memory is cut into the block places 0..Places-1 (16 bytes each) and     *)
(* sector buffers 0..Buffers-1, which do not overlap.  A block number is   *)
(* hi * Low + lo: lo stands for its low byte, hi for the bytes the         *)
(* controller echoes on completion.  An image file is the sequence of its  *)
(* sectors; beyond its end it reads as zero.                               *)
(***************************************************************************)
EXTENDS Naturals, Sequences

CONSTANTS
  Places, Buffers, Low, Hi, MaxCnt,
  Data, Zero,        \* sector contents
  Sectors,           \* Sectors[d]: what the driver of d is told it holds
  Files,             \* Files[d]: the image files d may be attached to
  ReadOnly,          \* the drives whose image could only be opened for reading
  Relocates          \* the bases ChangeCmdBlockAddr may be given

Drives == {"hd", "fd"}
Codes == {"status", "format", "move", "read", "write", "bad"}

ASSUME HdcAssumption ==
  /\ Places \in Nat /\ Places > 1 /\ Relocates \subseteq 0..Places - 2
  /\ Buffers \in Nat /\ Low \in Nat /\ Hi \in Nat /\ MaxCnt \in Nat
  /\ Zero \in Data /\ ReadOnly \subseteq Drives /\ Sectors \in [Drives -> Nat]
  /\ \A d \in Drives : \A f \in Files[d] : f \in Seq(Data) /\ Len(f) <= Sectors[d]

VARIABLES
  blk,         \* the command blocks, by place
  buf,         \* the sector buffers
  hdc_cmdblk,  \* the place of the hard disk's block
  present, file, disk_vi

vars == <<blk, buf, hdc_cmdblk, present, file, disk_vi>>

Place == 0..Places - 1
Block == [op : Codes, hi : 0..Hi, lo : 0..Low - 1, cnt : 0..MaxCnt,
          dma : 0..Buffers - 1, to : Relocates \cup {0},
          err : {"FF", "00", "80", "81", "92"}, echo : 0..Hi]

-----------------------------------------------------------------------------
(* Image files.                                                            *)

SectorAt(f, k) == IF k < Len(f) THEN f[k + 1] ELSE Zero

(* fseek and fwrite: what lies between the old end and lba reads as zero.  *)
Stored(f, lba, data) ==
  LET end == IF Len(data) = 0 \/ lba + Len(data) < Len(f) THEN Len(f)
             ELSE lba + Len(data)
  IN  [k \in 1..end |-> IF k > lba /\ k <= lba + Len(data)
                        THEN data[k - lba] ELSE SectorAt(f, k - 1)]

-----------------------------------------------------------------------------
(* hdc_process on a controller state s: the memory, the media and the base *)
(* in one record, because the doorbell runs it for one drive and then for  *)
(* the other.                                                              *)

(* Mutant: the high byte of the block number is ignored.                   *)
Lba_low(b) == b.lo

Lba(b) == b.hi * Low + b.lo

(* A block that is not armed.  Nothing reads its other fields again before *)
(* the driver has filled them in anew, so they are forgotten.              *)
Done(err, echo) ==
  [op |-> "status", hi |-> 0, lo |-> 0, cnt |-> 0, dma |-> 0, to |-> 0,
   err |-> err, echo |-> echo]

Fits(d, b) == Lba(b) + b.cnt <= Sectors[d]

Status(s, d, b) ==
  CASE b.op = "status" -> IF present[d] THEN "00" ELSE "92"
    [] b.op = "format" -> IF present[d] THEN "80" ELSE "92"
    [] b.op = "move"   -> "00"
    [] b.op = "bad"    -> "81"
    [] OTHER           -> IF present[d] /\ Fits(d, b) THEN "80" ELSE "92"

(* A read fills the buffers it names; a short file is filled up with zero. *)
Read(s, d, b) ==
  [s EXCEPT !.buf = [i \in 0..Buffers - 1 |->
     IF i \in b.dma..b.dma + b.cnt - 1
     THEN SectorAt(s.file[d], Lba(b) + (i - b.dma)) ELSE @[i]]]

Outgoing(s, b) == [i \in 1..b.cnt |-> s.buf[b.dma + i - 1]]

(* A write to a read-only image is reported as done all the same.          *)
Write(s, d, b) ==
  LET data == Outgoing(s, b)
  IN  [s EXCEPT !.file[d] = IF d \in ReadOnly THEN @
                            ELSE Stored(@, Lba(b), data)]

Perform(s, d, b) ==
  CASE b.op = "move" /\ d = "hd" -> [s EXCEPT !.base = b.to]
    [] b.op = "read" /\ Status(s, d, b) = "80" -> Read(s, d, b)
    [] b.op = "write" /\ Status(s, d, b) = "80" -> Write(s, d, b)
    [] OTHER -> s

(* Mutant: the command block is left armed when the drive is not there.    *)
Answered_if_present(s, d, p, b) ==
  IF ~present[d] THEN s ELSE
  [s EXCEPT !.blk[p] = Done(Status(s, d, b), b.hi), !.vi = TRUE]

(* The completion status, the echo and the interrupt.                      *)
Answered(s, d, p, b) ==
  [s EXCEPT !.blk[p] = Done(Status(s, d, b), b.hi), !.vi = TRUE]

hdc_process(s, d, p) ==
  LET b == s.blk[p]
  IN  IF b.err # "FF" THEN s ELSE Answered(Perform(s, d, b), d, p, b)

State == [blk |-> blk, buf |-> buf, base |-> hdc_cmdblk, file |-> file,
          vi |-> disk_vi]

(* The hard disk first, then the floppy behind wherever the base is now.   *)
hdc_doorbell ==
  LET hd == hdc_process(State, "hd", hdc_cmdblk)
  IN  hdc_process(hd, "fd", hd.base + 1)

Doorbell ==
  LET s == hdc_doorbell
  IN  /\ blk' = s.blk /\ buf' = s.buf /\ hdc_cmdblk' = s.base
      /\ file' = s.file /\ disk_vi' = s.vi
      /\ UNCHANGED present

-----------------------------------------------------------------------------
(* The guest's drivers.                                                    *)

Current(p) == p \in {hdc_cmdblk, hdc_cmdblk + 1}

(* A driver fills in its block and arms it.  Its transfer stays within the *)
(* buffers it owns.                                                        *)
Arm(p, op, hi, lo, cnt, dma, to) ==
  /\ Current(p) /\ blk[p].err # "FF" /\ dma + cnt <= Buffers
  /\ blk' = [blk EXCEPT ![p] = [op |-> op, hi |-> hi, lo |-> lo, cnt |-> cnt,
                                dma |-> dma, to |-> to, err |-> "FF",
                                echo |-> @.echo]]
  /\ UNCHANGED <<buf, hdc_cmdblk, present, file, disk_vi>>

ArmTransfer ==
  \E p \in Place, op \in {"read", "write"}, hi \in 0..Hi, lo \in 0..Low - 1,
     cnt \in 0..MaxCnt, dma \in 0..Buffers - 1 :
    Arm(p, op, hi, lo, cnt, dma, 0)
ArmOther == \E p \in Place, op \in {"status", "format", "bad"} :
              Arm(p, op, 0, 0, 0, 0, 0)
(* A driver moves the base once, away from where reset puts it.            *)
ArmMove == /\ hdc_cmdblk = 0
           /\ \E p \in Place, to \in Relocates : Arm(p, "move", 0, 0, 0, 0, to)

(* The guest stores into a buffer.                                         *)
Store(i, v) ==
  /\ buf[i] # v /\ buf' = [buf EXCEPT ![i] = v]
  /\ UNCHANGED <<blk, hdc_cmdblk, present, file, disk_vi>>

(* The disk's VI is taken (Interrupts).                                    *)
Delivered ==
  /\ disk_vi /\ disk_vi' = FALSE
  /\ UNCHANGED <<blk, buf, hdc_cmdblk, present, file>>

(* machine_attach_disk and machine_attach_floppy, or no image.             *)
Init ==
  /\ blk = [p \in Place |-> Done("00", 0)] /\ buf = [i \in 0..Buffers - 1 |-> Zero]
  /\ hdc_cmdblk = 0 /\ disk_vi = FALSE /\ present \in [Drives -> BOOLEAN]
  /\ \E hd \in Files["hd"], fd \in Files["fd"] :
       file = [d \in Drives |-> IF ~present[d] THEN <<>> ELSE
                                IF d = "hd" THEN hd ELSE fd]

Next == \/ Doorbell \/ ArmTransfer \/ ArmOther \/ ArmMove \/ Delivered
        \/ \E i \in 0..Buffers - 1, v \in Data : Store(i, v)

Spec == Init /\ [][Next]_vars

-----------------------------------------------------------------------------
(* Properties.                                                             *)

(* The media as the drivers know them: a trimmed image reads as zero past  *)
(* its end.                                                                *)
Medium == [d \in Drives |-> [k \in 0..Sectors[d] - 1 |-> SectorAt(file[d], k)]]

(* A command block as its driver wrote it, with the block number whole.    *)
Slot(b) == [op |-> b.op, lba |-> b.hi * Low + b.lo, n |-> b.cnt, at |-> b.dma,
            to |-> b.to, err |-> b.err]

D == INSTANCE Media WITH
       medium <- Medium, slot <- [p \in Place |-> Slot(blk[p])],
       base <- hdc_cmdblk, ready <- present, Protected <- ReadOnly

(* The controller and its image files, trimmed or grown by writes,         *)
(* implement two plain media: a doorbell makes exactly the transfer each   *)
(* armed block names, sector for sector, and answers 80, or changes        *)
(* nothing and answers 92; a read finds what was last written there; and   *)
(* no other sector, buffer or block is touched, whatever both drives do in *)
(* one doorbell (the Read and Write cases of hdc_process and the range     *)
(* check before them).  A write to an image opened read-only is reported   *)
(* as made and changes nothing.                                            *)
MediaKept == D!MSpec

(* A doorbell answers every armed command block, with an image attached or *)
(* not, and raises the interrupt if there was one (hdc_doorbell: "rather   *)
(* than leaving the driver waiting for an interrupt that never comes").    *)
(* One kind of block is left waiting and is excepted: the floppy's, when   *)
(* the hard disk's command moves the base in the same doorbell.            *)
Answerable == {p \in {hdc_cmdblk, hdc_cmdblk + 1} :
                 blk[p].err = "FF" /\ (p = hdc_cmdblk \/ hdc_cmdblk' = hdc_cmdblk)}
EveryArmedAnswered ==
  [][Doorbell => /\ \A p \in Answerable : blk'[p].err # "FF"
                 /\ Answerable # {} => disk_vi']_vars
=============================================================================
