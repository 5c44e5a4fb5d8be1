---------------------------- MODULE DeviceProofs ----------------------------
(***************************************************************************)
(* The disk controller implements two plain media and leaves no driver     *)
(* waiting, for every number of sectors, buffers and command block places, *)
(* every image, however short, and whatever the drivers ask for.           *)
(*                                                                         *)
(* The clock's lazily advanced divider keeps time, for every rate of       *)
(* instructions to the second, and charges no carry to a transaction it    *)
(* did not fall into.                                                      *)
(***************************************************************************)
EXTENDS Hdc, Rtc, SequenceTheorems, FiniteSetTheorems, TLAPS

(***************************************************************************)
(* Part one: the disk controller.                                          *)
(***************************************************************************)

Index == 0..Buffers - 1
Base  == 0..Places - 2

(* A command block; when it is armed, it names buffers that are there.     *)
Filled == {b \in [op : Codes, hi : Nat, lo : Nat, cnt : Nat, dma : Nat, to : Base,
                  err : {"FF", "00", "80", "81", "92"}, echo : Nat] :
             b.dma + b.cnt <= Buffers}

(* The image files, none longer than its medium.                           *)
Image(d) == {f \in Seq(Data) : Len(f) <= Sectors[d]}

(* A controller state, as hdc_process works on it.                         *)
Good(s) ==
  /\ s \in [blk : [Place -> Filled], buf : [Index -> Data], base : Base,
            file : [Drives -> Seq(Data)], vi : BOOLEAN]
  /\ \A d \in Drives : s.file[d] \in Image(d)

TypeOK == Good(State) /\ present \in [Drives -> BOOLEAN]

-----------------------------------------------------------------------------
(* Image files.                                                            *)

LEMMA SectorType ==
  ASSUME NEW f \in Seq(Data), NEW k \in Nat
  PROVE  SectorAt(f, k) \in Data
<1>1. k < Len(f) => k + 1 \in 1 .. Len(f)
  OBVIOUS
<1>2. k < Len(f) => f[k + 1] \in Data
  BY <1>1, ElementOfSeq
<1> QED
  BY <1>2, HdcAssumption DEF SectorAt

(* The file g is f with data written from sector lba on.                   *)
StoredAt(g, f, lba, data, max) ==
  /\ g \in Seq(Data) /\ Len(g) <= max
  /\ \A k \in Nat : SectorAt(g, k) =
       IF k \in lba .. lba + Len(data) - 1 THEN data[k - lba + 1]
       ELSE SectorAt(f, k)

(* A write changes the sectors it names and no other, whether the image    *)
(* reached so far before or not, and the image grows no further than the   *)
(* last sector it names.                                                   *)
LEMMA StoredMeans ==
  ASSUME NEW f \in Seq(Data), NEW lba \in Nat, NEW data \in Seq(Data),
         NEW max \in Nat, Len(f) <= max, lba + Len(data) <= max
  PROVE  StoredAt(Stored(f, lba, data), f, lba, data, max)
<1> DEFINE n == Len(data)
           end == IF n = 0 \/ lba + n < Len(f) THEN Len(f) ELSE lba + n
           sector(k) == IF k > lba /\ k <= lba + n THEN data[k - lba]
                        ELSE SectorAt(f, k - 1)
           g == [k \in 1 .. end |-> sector(k)]
<1>1. Stored(f, lba, data) = g
  BY DEF Stored
<1>2. n \in Nat /\ Len(f) \in Nat
  BY LenProperties
<1>3. end \in Nat /\ end <= max /\ end >= Len(f) /\ (n # 0 => end >= lba + n)
  BY <1>2
<1>4. \A k \in 1 .. end : sector(k) \in Data
  <2> SUFFICES ASSUME NEW k \in 1 .. end PROVE sector(k) \in Data
    OBVIOUS
  <2>1. k - 1 \in Nat /\ (k > lba /\ k <= lba + n => k - lba \in 1 .. n)
    BY <1>2, <1>3
  <2>2. SectorAt(f, k - 1) \in Data
    BY <2>1, SectorType
  <2> QED
    BY <2>1, <2>2, ElementOfSeq
<1> HIDE DEF sector, end
<1>5. g \in Seq(Data) /\ Len(g) = end
  <2>1. g \in [1 .. end -> Data]
    BY <1>4
  <2>2. g \in Seq(Data)
    BY <1>3, <2>1
  <2>3. DOMAIN g = 1 .. end
    OBVIOUS
  <2> QED
    BY <1>3, <2>2, <2>3, LenProperties
<1>6. ASSUME NEW k \in Nat
      PROVE  SectorAt(g, k) = IF k \in lba .. lba + n - 1 THEN data[k - lba + 1]
                              ELSE SectorAt(f, k)
  <2>1. CASE k < end
    <3>1. k + 1 \in 1 .. end /\ (k + 1) - 1 = k /\ (k + 1) - lba = k - lba + 1
      BY <1>3, <2>1
    <3>2. SectorAt(g, k) = sector(k + 1)
      BY <1>5, <2>1, <3>1 DEF SectorAt
    <3>3. k \in lba .. lba + n - 1 <=> (k + 1 > lba /\ k + 1 <= lba + n)
      BY <1>2
    <3> QED
      BY <3>1, <3>2, <3>3 DEF sector
  <2>2. CASE ~(k < end)
    <3>1. SectorAt(g, k) = Zero
      BY <1>5, <2>2 DEF SectorAt
    <3>2. ~(k < Len(f)) /\ k \notin lba .. lba + n - 1
      BY <1>2, <1>3, <2>2
    <3> QED
      BY <3>1, <3>2 DEF SectorAt
  <2> QED
    BY <2>1, <2>2
<1> QED
  BY <1>1, <1>3, <1>5, <1>6 DEF StoredAt

-----------------------------------------------------------------------------
(* One command.                                                            *)

MediumOf(s) ==
  [d \in Drives |-> [k \in 0..Sectors[d] - 1 |-> SectorAt(s.file[d], k)]]
SlotsOf(s) == [p \in Place |-> Slot(s.blk[p])]

(* A controller state as the drivers see it.                               *)
Seen(s) == [medium |-> MediumOf(s), buf |-> s.buf, slot |-> SlotsOf(s),
            base |-> s.base]

(* What a command leaves alone besides the media.                          *)
Aside(s, r, d) ==
  r.blk = s.blk /\ r.vi = s.vi /\ (d # "hd" => r.base = s.base)

LEMMA Fields ==
  ASSUME NEW s, Good(s)
  PROVE  /\ s.blk \in [Place -> Filled] /\ s.buf \in [Index -> Data]
         /\ s.base \in Base /\ s.file \in [Drives -> Seq(Data)] /\ s.vi \in BOOLEAN
         /\ \A d \in Drives : s.file[d] \in Seq(Data) /\ Len(s.file[d]) <= Sectors[d]
  BY DEF Good, Image

LEMMA Sizes ==
  /\ Buffers \in Nat /\ Places \in Nat /\ Places > 1
  /\ \A d \in Drives : Sectors[d] \in Nat
  /\ DOMAIN Sectors = Drives
  BY HdcAssumption

(* A block and what its driver meant by it.                                *)
LEMMA SlotFields ==
  ASSUME NEW b
  PROVE  /\ Slot(b).op = b.op /\ Slot(b).lba = Lba(b) /\ Slot(b).n = b.cnt
         /\ Slot(b).at = b.dma /\ Slot(b).to = b.to /\ Slot(b).err = b.err
  BY DEF Slot, Lba

(* The controller accepts the transfers its medium has the sectors for.    *)
LEMMA AcceptedMeans ==
  ASSUME NEW s, NEW d \in Drives, NEW b \in Filled, b.op \in {"read", "write"}
  PROVE  /\ D!Accepted(d, Slot(b)) <=> Status(s, d, b) = "80"
         /\ Status(s, d, b) = IF D!Accepted(d, Slot(b)) THEN "80" ELSE "92"
  BY SlotFields DEF Status, Fits, D!Accepted

(* A transfer that is made names sectors of the medium.                    *)
LEMMA Transfer ==
  ASSUME NEW s, NEW d \in Drives, NEW b \in Filled, b.op \in {"read", "write"},
         Status(s, d, b) = "80"
  PROVE  /\ Lba(b) \in Nat /\ b.cnt \in Nat /\ b.dma \in Nat
         /\ Lba(b) + b.cnt <= Sectors[d] /\ b.dma + b.cnt <= Buffers
<1>1. b.hi \in Nat /\ b.lo \in Nat /\ b.cnt \in Nat /\ b.dma \in Nat
  BY DEF Filled
<1>2. b.hi * Low \in Nat
  BY <1>1, HdcAssumption
<1>3. Lba(b) \in Nat
  BY <1>1, <1>2 DEF Lba
<1>4. Fits(d, b)
  BY DEF Status
<1> QED
  BY <1>1, <1>3, <1>4 DEF Fits, Filled

LEMMA ReadSound ==
  ASSUME NEW s, Good(s), NEW d \in Drives, NEW b \in Filled, b.op = "read",
         Status(s, d, b) = "80"
  PROVE  /\ Good(Read(s, d, b)) /\ Aside(s, Read(s, d, b), d)
         /\ Seen(Read(s, d, b)) = D!ReadOf(Seen(s), d, Slot(b))
<1> DEFINE r == Read(s, d, b)
           lba == Lba(b)
           n == b.cnt
           at == b.dma
           new == [i \in Index |-> IF i \in at..at + n - 1
                                   THEN SectorAt(s.file[d], lba + (i - at))
                                   ELSE s.buf[i]]
<1>1. /\ lba \in Nat /\ n \in Nat /\ at \in Nat
      /\ lba + n <= Sectors[d] /\ at + n <= Buffers
  BY Transfer
<1>2. /\ s.buf \in [Index -> Data] /\ s.file[d] \in Seq(Data)
      /\ Buffers \in Nat /\ Sectors[d] \in Nat
  BY Fields, Sizes
<1>3. r = [s EXCEPT !.buf = new]
  BY DEF Read, Index
<1> HIDE DEF lba, n, at
<1>4. new \in [Index -> Data]
  <2> SUFFICES ASSUME NEW i \in Index, i \in at..at + n - 1
               PROVE  SectorAt(s.file[d], lba + (i - at)) \in Data
    BY <1>2
  <2>1. lba + (i - at) \in Nat
    BY <1>1
  <2> QED
    BY <1>2, <2>1, SectorType
<1> HIDE DEF new
<1>5. Good(r) /\ Aside(s, r, d) /\ r.file = s.file /\ r.buf = new
  BY <1>3, <1>4 DEF Good, Aside
<1>6. /\ MediumOf(r) = MediumOf(s) /\ SlotsOf(r) = SlotsOf(s) /\ r.base = s.base
  BY <1>3, <1>5 DEF MediumOf, SlotsOf, Aside, Good
<1>7. Seen(r) = [medium |-> MediumOf(s), buf |-> new, slot |-> SlotsOf(s),
                 base |-> s.base]
  BY <1>5, <1>6 DEF Seen
<1>8. ASSUME NEW i \in Index, i \in at..at + n - 1
      PROVE  MediumOf(s)[d][lba + i - at] = SectorAt(s.file[d], lba + (i - at))
  <2>1. i \in Int /\ i >= at /\ i <= at + n - 1
    BY <1>1, <1>8
  <2>2. lba + i - at = lba + (i - at) /\ lba + (i - at) \in 0..Sectors[d] - 1
    BY <1>1, <1>2, <2>1
  <2> QED
    BY <2>2 DEF MediumOf
<1>9. new = [i \in Index |-> IF i \in at..at + n - 1
                             THEN MediumOf(s)[d][lba + i - at] ELSE s.buf[i]]
  BY <1>8 DEF new
<1>10. Seen(r) = D!ReadOf(Seen(s), d, Slot(b))
  <2>1. DOMAIN s.buf = Index
    BY <1>2
  <2>2. Slot(b).lba = lba /\ Slot(b).n = n /\ Slot(b).at = at
    BY SlotFields DEF lba, n, at
  <2>3. D!ReadOf(Seen(s), d, Slot(b)) = [Seen(s) EXCEPT !.buf = new]
    BY <1>9, <2>1, <2>2 DEF D!ReadOf, Seen
  <2> QED
    BY <1>7, <2>3 DEF Seen
<1> QED
  BY <1>5, <1>10

LEMMA OutgoingMeans ==
  ASSUME NEW s, Good(s), NEW b, b.cnt \in Nat, b.dma \in Nat,
         b.dma + b.cnt <= Buffers
  PROVE  /\ Outgoing(s, b) \in Seq(Data) /\ Len(Outgoing(s, b)) = b.cnt
         /\ \A i \in 1..b.cnt : Outgoing(s, b)[i] = s.buf[b.dma + i - 1]
<1> DEFINE n == b.cnt
           g == [i \in 1..n |-> s.buf[b.dma + i - 1]]
<1>1. s.buf \in [Index -> Data] /\ Buffers \in Nat
  BY Fields, Sizes
<1>2. \A i \in 1..n : b.dma + i - 1 \in Index
  BY <1>1 DEF Index
<1>3. g \in [1..n -> Data] /\ n \in Nat
  BY <1>1, <1>2
<1> HIDE DEF n
<1>4. g \in Seq(Data) /\ DOMAIN g = 1..n
  BY <1>3
<1>5. Len(g) = n
  BY <1>3, <1>4, LenProperties
<1> QED
  BY <1>4, <1>5 DEF Outgoing, n

LEMMA WriteSound ==
  ASSUME NEW s, Good(s), NEW d \in Drives \ ReadOnly, NEW b \in Filled,
         b.op = "write", Status(s, d, b) = "80"
  PROVE  /\ Good(Write(s, d, b)) /\ Aside(s, Write(s, d, b), d)
         /\ Seen(Write(s, d, b)) = D!WriteOf(Seen(s), d, Slot(b))
<1> DEFINE r == Write(s, d, b)
           lba == Lba(b)
           n == b.cnt
           at == b.dma
           data == Outgoing(s, b)
           new == Stored(s.file[d], lba, data)
<1>1. /\ lba \in Nat /\ n \in Nat /\ at \in Nat
      /\ lba + n <= Sectors[d] /\ at + n <= Buffers
  BY Transfer
<1>2. /\ s.buf \in [Index -> Data] /\ s.file \in [Drives -> Seq(Data)]
      /\ s.file[d] \in Seq(Data) /\ Len(s.file[d]) <= Sectors[d]
      /\ Buffers \in Nat /\ Sectors[d] \in Nat
  BY Fields, Sizes
<1>3. /\ data \in Seq(Data) /\ Len(data) = n
      /\ \A i \in 1..n : data[i] = s.buf[at + i - 1]
  BY <1>1, OutgoingMeans
<1>4. r = [s EXCEPT !.file[d] = new]
  BY DEF Write
<1> HIDE DEF lba, n, at, data
<1>5. /\ new \in Seq(Data) /\ Len(new) <= Sectors[d]
      /\ \A k \in Nat : SectorAt(new, k) =
           IF k \in lba .. lba + n - 1 THEN data[k - lba + 1]
           ELSE SectorAt(s.file[d], k)
  <2> DEFINE f == s.file[d]
             max == Sectors[d]
  <2>1. f \in Seq(Data) /\ max \in Nat /\ Len(f) <= max /\ lba + Len(data) <= max
    BY <1>1, <1>2, <1>3
  <2> HIDE DEF f, max
  <2>2. StoredAt(Stored(f, lba, data), f, lba, data, max)
    BY <1>1, <1>3, <2>1, StoredMeans
  <2>3. /\ new \in Seq(Data) /\ Len(new) <= max
        /\ \A k \in Nat : SectorAt(new, k) =
             IF k \in lba .. lba + Len(data) - 1 THEN data[k - lba + 1]
             ELSE SectorAt(f, k)
    BY <2>2, Zenon DEF StoredAt, f
  <2>4. Len(data) = n
    BY <1>3
  <2> HIDE DEF new
  <2> QED
    BY <2>3, <2>4, Zenon DEF f, max
<1> HIDE DEF new
<1>6. r.file = [s.file EXCEPT ![d] = new] /\ r.buf = s.buf /\ Aside(s, r, d)
  BY <1>4 DEF Good, Aside
<1>7. Good(r)
  <2>1. r.file \in [Drives -> Seq(Data)]
    BY <1>2, <1>5, <1>6
  <2>2. \A x \in Drives : r.file[x] \in Image(x)
    BY <1>2, <1>5, <1>6 DEF Good, Image
  <2> QED
    BY <1>4, <2>1, <2>2 DEF Good
<1> DEFINE Sec == 0..Sectors[d] - 1
           now == [k \in Sec |-> SectorAt(new, k)]
<1>8. MediumOf(r) = [MediumOf(s) EXCEPT ![d] = now]
  BY <1>2, <1>6 DEF MediumOf
<1>9. Seen(r) = [medium |-> [MediumOf(s) EXCEPT ![d] = now], buf |-> s.buf,
                 slot |-> SlotsOf(s), base |-> s.base]
  <2>1. SlotsOf(r) = SlotsOf(s) /\ r.base = s.base
    BY <1>4, <1>6 DEF SlotsOf, Aside, Good
  <2> QED
    BY <1>6, <1>8, <2>1 DEF Seen
<1>10. MediumOf(s)[d] = [k \in Sec |-> SectorAt(s.file[d], k)]
  BY DEF MediumOf
<1>11. \A k \in Sec : SectorAt(new, k) =
         IF k \in lba .. lba + n - 1 THEN data[k - lba + 1]
         ELSE MediumOf(s)[d][k]
  BY <1>2, <1>5, <1>10
<1>12. ASSUME NEW k \in Sec, k \in lba .. lba + n - 1
       PROVE  data[k - lba + 1] = s.buf[at + k - lba]
  <2>1. k - lba + 1 \in 1..n /\ at + (k - lba + 1) - 1 = at + k - lba
    BY <1>1, <1>12
  <2> QED
    BY <1>3, <2>1
<1>13. now = [k \in Sec |-> IF k \in lba..lba + n - 1
                            THEN s.buf[at + k - lba] ELSE MediumOf(s)[d][k]]
  BY <1>11, <1>12
<1>14. D!WriteOf(Seen(s), d, Slot(b)) = [Seen(s) EXCEPT !.medium[d] = now]
  <2>1. DOMAIN MediumOf(s)[d] = Sec
    BY <1>10
  <2>2. Slot(b).lba = lba /\ Slot(b).n = n /\ Slot(b).at = at
    BY SlotFields DEF lba, n, at
  <2>3. D!WriteOf(Seen(s), d, Slot(b)) =
          [Seen(s) EXCEPT !.medium[d] =
             [k \in Sec |-> IF k \in lba..lba + n - 1
                            THEN s.buf[at + k - lba] ELSE MediumOf(s)[d][k]]]
    BY <2>1, <2>2 DEF D!WriteOf, Seen
  <2> QED
    BY <1>13, <2>3
<1>15. Seen(r) = D!WriteOf(Seen(s), d, Slot(b))
  BY <1>9, <1>14 DEF Seen
<1> QED
  BY <1>6, <1>7, <1>15

LEMMA PerformSound ==
  ASSUME NEW s, Good(s), NEW d \in Drives, NEW b \in Filled
  PROVE  /\ Good(Perform(s, d, b)) /\ Aside(s, Perform(s, d, b), d)
         /\ Seen(Perform(s, d, b)) = D!Performed(Seen(s), d, Slot(b))
<1> DEFINE c == Slot(b)
           a == D!Accepted(d, c)
<1>1. c.op = b.op /\ c.to = b.to
  BY SlotFields
<1>2. b.op \in {"read", "write"} => (a <=> Status(s, d, b) = "80")
  BY AcceptedMeans
<1>3. D!Performed(Seen(s), d, c) =
        CASE b.op = "read" /\ a -> D!ReadOf(Seen(s), d, c)
          [] b.op = "write" /\ a /\ d \notin ReadOnly -> D!WriteOf(Seen(s), d, c)
          [] b.op = "move" /\ d = "hd" -> [Seen(s) EXCEPT !.base = b.to]
          [] OTHER -> Seen(s)
  BY <1>1 DEF D!Performed
<1> HIDE DEF c, a
<1>4. CASE b.op = "move" /\ d = "hd"
  <2>1. Perform(s, d, b) = [s EXCEPT !.base = b.to] /\ b.to \in Base
    BY <1>4 DEF Perform, Filled
  <2> DEFINE m == [s EXCEPT !.base = b.to]
  <2>2. /\ m.blk = s.blk /\ m.buf = s.buf /\ m.file = s.file /\ m.vi = s.vi
        /\ m.base = b.to /\ Good(m)
    BY <2>1 DEF Good
  <2> HIDE DEF m
  <2>3. Seen(m) = [Seen(s) EXCEPT !.base = b.to] /\ Aside(s, m, d)
    <3>1. MediumOf(m) = MediumOf(s) /\ SlotsOf(m) = SlotsOf(s)
      BY <2>2 DEF MediumOf, SlotsOf
    <3> QED
      BY <1>4, <2>2, <3>1 DEF Seen, Aside
  <2>4. D!Performed(Seen(s), d, c) = [Seen(s) EXCEPT !.base = b.to]
    BY <1>3, <1>4
  <2> QED
    BY <2>1, <2>2, <2>3, <2>4, Zenon DEF m, c
<1>5. CASE b.op = "read" /\ Status(s, d, b) = "80"
  <2>1. Perform(s, d, b) = Read(s, d, b)
    BY <1>5 DEF Perform
  <2>2. D!Performed(Seen(s), d, c) = D!ReadOf(Seen(s), d, c)
    BY <1>2, <1>3, <1>5
  <2> QED
    BY <1>5, <2>1, <2>2, ReadSound, Zenon DEF c
<1>6. CASE b.op = "write" /\ Status(s, d, b) = "80"
  <2>1. Perform(s, d, b) = Write(s, d, b)
    BY <1>6 DEF Perform
  <2>2. CASE d \in ReadOnly
    <3>1. Write(s, d, b) = [s EXCEPT !.file[d] = s.file[d]]
      BY <2>2 DEF Write
    <3>2. Write(s, d, b) = s
      BY <3>1, Fields DEF Good
    <3>3. D!Performed(Seen(s), d, c) = Seen(s)
      BY <1>3, <1>6, <2>2
    <3>4. Aside(s, s, d)
      BY DEF Aside
    <3> QED
      BY <2>1, <3>2, <3>3, <3>4, Zenon DEF c
  <2>3. CASE d \notin ReadOnly
    <3>1. D!Performed(Seen(s), d, c) = D!WriteOf(Seen(s), d, c)
      BY <1>2, <1>3, <1>6, <2>3
    <3>2. d \in Drives \ ReadOnly
      BY <2>3
    <3> QED
      BY <1>6, <2>1, <3>1, <3>2, WriteSound, Zenon DEF c
  <2> QED
    BY <2>2, <2>3
<1>7. CASE ~(b.op = "move" /\ d = "hd")
           /\ ~(b.op \in {"read", "write"} /\ Status(s, d, b) = "80")
  <2>1. Perform(s, d, b) = s
    BY <1>7 DEF Perform
  <2>2. D!Performed(Seen(s), d, c) = Seen(s)
    BY <1>2, <1>3, <1>7
  <2>3. Aside(s, s, d)
    BY DEF Aside
  <2> QED
    BY <2>1, <2>2, <2>3, Zenon DEF c
<1> QED
  BY <1>4, <1>5, <1>6, <1>7

-----------------------------------------------------------------------------
(* hdc_process for one drive, and the doorbell for both.                   *)

(* What the driver is told is one of the answers Media allows.             *)
LEMMA StatusMeans ==
  ASSUME NEW s, NEW d \in Drives, NEW b \in Filled
  PROVE  Status(s, d, b) \in D!Answers(d, Slot(b))
<1>1. Status(s, d, b) \in {"00", "80", "81", "92"}
  BY DEF Status, Filled, Codes
<1>2. Slot(b).op = b.op
  BY SlotFields
<1>3. CASE b.op \in {"read", "write"}
  <2>1. Status(s, d, b) = IF D!Accepted(d, Slot(b)) THEN "80" ELSE "92"
    BY <1>3, AcceptedMeans
  <2> QED
    BY <1>2, <1>3, <2>1 DEF D!Answers
<1>4. CASE b.op \notin {"read", "write"}
  BY <1>1, <1>2, <1>4 DEF D!Answers
<1> QED
  BY <1>3, <1>4

LEMMA DoneFilled ==
  ASSUME NEW s, NEW d \in Drives, NEW b \in Filled
  PROVE  /\ Done(Status(s, d, b), b.hi) \in Filled
         /\ Done(Status(s, d, b), b.hi).err # "FF"
         /\ Slot(Done(Status(s, d, b), b.hi)) = D!Answered(Status(s, d, b))
<1>1. Status(s, d, b) \in {"00", "80", "81", "92"}
  BY DEF Status, Filled, Codes
<1>2. 0 \in Base /\ 0 + 0 <= Buffers /\ b.hi \in Nat
  BY Sizes DEF Base, Filled
<1>3. 0 * Low + 0 = 0
  BY HdcAssumption
<1>4. Slot(Done(Status(s, d, b), b.hi)) = D!Answered(Status(s, d, b))
  BY <1>3 DEF Slot, Done, D!Answered
<1> QED
  BY <1>1, <1>2, <1>4 DEF Done, Filled, Codes

LEMMA ProcessSound ==
  ASSUME NEW s, Good(s), NEW d \in Drives, NEW p \in Place
  PROVE  LET r == hdc_process(s, d, p)
         IN  /\ Good(r) /\ Seen(r) \in D!Served(Seen(s), d, p)
             /\ d # "hd" => r.base = s.base
             /\ r.blk[p].err # "FF"
             /\ \A q \in Place \ {p} : r.blk[q] = s.blk[q]
             /\ s.blk[p].err # "FF" => r = s
             /\ s.blk[p].err = "FF" => r.vi
             /\ s.vi => r.vi
<1> DEFINE b == s.blk[p]
           m == Perform(s, d, b)
           r == hdc_process(s, d, p)
           answer == Status(m, d, b)
           done == Done(answer, b.hi)
<1>1. Seen(s).slot[p] = Slot(b) /\ Slot(b).err = b.err
  BY SlotFields DEF Seen, SlotsOf
<1>2. CASE b.err # "FF"
  <2>1. r = s
    BY <1>2 DEF hdc_process
  <2>2. Seen(s) \in D!Served(Seen(s), d, p)
    BY <1>1, <1>2 DEF D!Served
  <2> QED
    BY <1>2, <2>1, <2>2
<1>3. CASE b.err = "FF"
  <2>1. b \in Filled /\ s.blk \in [Place -> Filled]
    BY Fields
  <2>2. r = [m EXCEPT !.blk[p] = done, !.vi = TRUE]
    BY <1>3 DEF hdc_process, Answered
  <2> HIDE DEF b
  <2>3. /\ Good(m) /\ Aside(s, m, d) /\ Seen(m) = D!Performed(Seen(s), d, Slot(b))
    BY <2>1, PerformSound
  <2> HIDE DEF m
  <2>4. /\ done \in Filled /\ done.err # "FF" /\ Slot(done) = D!Answered(answer)
        /\ answer \in D!Answers(d, Slot(b))
    BY <2>1, DoneFilled, StatusMeans
  <2> HIDE DEF done, answer, r
  <2>5. m.blk = s.blk
    BY <2>3 DEF Aside
  <2>6. /\ r.blk = [m.blk EXCEPT ![p] = done] /\ r.vi = TRUE
        /\ r.buf = m.buf /\ r.file = m.file /\ r.base = m.base
    BY <2>2, <2>3 DEF Good
  <2>7. r.blk \in [Place -> Filled]
    BY <2>1, <2>4, <2>5, <2>6
  <2>8. Good(r)
    BY <2>2, <2>3, <2>6, <2>7 DEF Good
  <2>9. r.blk[p] = done /\ \A q \in Place \ {p} : r.blk[q] = s.blk[q]
    BY <2>1, <2>5, <2>6
  <2>10. d # "hd" => r.base = s.base
    BY <2>3, <2>6 DEF Aside
  <2>11. MediumOf(r) = MediumOf(m) /\ r.buf = m.buf /\ r.base = m.base
    BY <2>6 DEF MediumOf
  <2>12. SlotsOf(r) = [SlotsOf(m) EXCEPT ![p] = D!Answered(answer)]
    <3>1. /\ Slot(r.blk[p]) = D!Answered(answer)
          /\ \A q \in Place \ {p} : Slot(r.blk[q]) = Slot(m.blk[q])
      BY <2>4, <2>5, <2>9
    <3> QED
      BY <3>1 DEF SlotsOf
  <2>13. Seen(r) = [Seen(m) EXCEPT !.slot[p] = D!Answered(answer)]
    BY <2>11, <2>12 DEF Seen
  <2>14. Seen(r) \in D!Served(Seen(s), d, p)
    <3>1. Seen(s).slot[p] = Slot(b) /\ Slot(b).err = "FF"
      BY <1>1, <1>3 DEF b
    <3>2. Seen(r) = [D!Performed(Seen(s), d, Slot(b)) EXCEPT
                       !.slot[p] = D!Answered(answer)]
      BY <2>3, <2>13
    <3> QED
      BY <2>4, <3>1, <3>2 DEF D!Served
  <2> QED
    BY <1>3, <2>4, <2>6, <2>8, <2>9, <2>10, <2>14 DEF b, r
<1> QED
  BY <1>2, <1>3

LEMMA PlacesThere ==
  ASSUME NEW x \in Base
  PROVE  x \in Place /\ x + 1 \in Place /\ x # x + 1
  BY Sizes DEF Base, Place

(* The doorbell, from the outside.                                         *)
LEMMA DoorbellSound ==
  ASSUME TypeOK
  PROVE  LET r == hdc_doorbell
         IN  /\ Good(r)
             /\ \E m \in D!Served(Seen(State), "hd", hdc_cmdblk) :
                  Seen(r) \in D!Served(m, "fd", m.base + 1)
             /\ r.blk[hdc_cmdblk].err # "FF"
             /\ r.base = hdc_cmdblk => r.blk[hdc_cmdblk + 1].err # "FF"
             /\ blk[hdc_cmdblk].err = "FF" => r.vi
             /\ r.base = hdc_cmdblk /\ blk[hdc_cmdblk + 1].err = "FF" => r.vi
<1> DEFINE s == State
           c == hdc_cmdblk
           h == hdc_process(s, "hd", c)
           r == hdc_process(h, "fd", h.base + 1)
<1>1. r = hdc_doorbell
  BY DEF hdc_doorbell
<1>2. Good(s) /\ s.base = c /\ s.blk = blk
  BY DEF TypeOK, State
<1>3. c \in Base
  BY <1>2, Fields
<1>4. c \in Place /\ c + 1 \in Place /\ c # c + 1
  BY <1>3, PlacesThere
<1> HIDE DEF s, c
<1>5. "hd" \in Drives /\ "fd" \in Drives /\ "fd" # "hd"
  BY DEF Drives
<1>6. /\ Good(h) /\ Seen(h) \in D!Served(Seen(s), "hd", c)
      /\ h.blk[c].err # "FF"
      /\ \A q \in Place \ {c} : h.blk[q] = s.blk[q]
      /\ s.blk[c].err = "FF" => h.vi
  BY <1>2, <1>4, <1>5, ProcessSound
<1> HIDE DEF h
<1>7. h.base \in Base
  BY <1>6, Fields
<1>8. h.base + 1 \in Place
  BY <1>7, PlacesThere
<1>9. /\ Good(r) /\ Seen(r) \in D!Served(Seen(h), "fd", h.base + 1) /\ r.base = h.base
      /\ r.blk[h.base + 1].err # "FF"
      /\ \A q \in Place \ {h.base + 1} : r.blk[q] = h.blk[q]
      /\ h.blk[h.base + 1].err = "FF" => r.vi
      /\ h.vi => r.vi
  BY <1>5, <1>6, <1>8, ProcessSound
<1> HIDE DEF r
<1>10. r.blk[c].err # "FF"
  BY <1>4, <1>6, <1>9
<1>11. ASSUME r.base = c, s.blk[c + 1].err = "FF" PROVE r.vi
  BY <1>4, <1>6, <1>9, <1>11
<1>12. \E m \in D!Served(Seen(s), "hd", c) : Seen(r) \in D!Served(m, "fd", m.base + 1)
  <2>1. Seen(h).base = h.base
    BY DEF Seen
  <2> QED
    BY <1>6, <1>9, <2>1
<1> QED
  BY <1>1, <1>2, <1>6, <1>9, <1>10, <1>11, <1>12 DEF s, c

-----------------------------------------------------------------------------
(* The steps, of the controller and of its drivers.                        *)

LEMMA StateFields ==
  /\ State.blk = blk /\ State.buf = buf /\ State.base = hdc_cmdblk
  /\ State.file = file /\ State.vi = disk_vi
  /\ MediumOf(State) = Medium
  BY DEF State, MediumOf, Medium

LEMMA GoodState ==
  TypeOK <=> /\ blk \in [Place -> Filled] /\ buf \in [Index -> Data]
             /\ hdc_cmdblk \in Base /\ disk_vi \in BOOLEAN
             /\ file \in [Drives -> Seq(Data)]
             /\ \A d \in Drives : file[d] \in Image(d)
             /\ present \in [Drives -> BOOLEAN]
  BY DEF TypeOK, Good, State

LEMMA InitTypeOK == Init => TypeOK
<1> SUFFICES ASSUME Init PROVE TypeOK
  OBVIOUS
<1>1. 0 \in Base /\ 0 + 0 <= Buffers
  BY Sizes DEF Base
<1>2. Done("00", 0) \in Filled
  BY <1>1 DEF Done, Filled, Codes
<1>3. blk \in [Place -> Filled]
  BY <1>2 DEF Init
<1>4. buf \in [Index -> Data]
  BY HdcAssumption DEF Init, Index
<1>5. \A d \in Drives : file[d] \in Image(d)
  <2>1. << >> \in Seq(Data) /\ Len(<< >>) = 0
    BY EmptySeq
  <2>2. \A d \in Drives : << >> \in Image(d)
    BY <2>1, Sizes DEF Image
  <2>3. \A d \in Drives : \A f \in Files[d] : f \in Image(d)
    BY HdcAssumption DEF Image
  <2>4. PICK hd \in Files["hd"], fd \in Files["fd"] :
          file = [d \in Drives |-> IF ~present[d] THEN <<>> ELSE
                                   IF d = "hd" THEN hd ELSE fd]
    BY DEF Init
  <2>5. hd \in Image("hd") /\ fd \in Image("fd")
    BY <2>3 DEF Drives
  <2>6. ASSUME NEW d \in Drives PROVE file[d] \in Image(d)
    <3>1. file[d] = IF ~present[d] THEN <<>> ELSE IF d = "hd" THEN hd ELSE fd
      BY <2>4
    <3>2. d = "hd" \/ d = "fd"
      BY DEF Drives
    <3> QED
      BY <2>2, <2>5, <3>1, <3>2
  <2> QED
    BY <2>6
<1>6. file \in [Drives -> Seq(Data)]
  <2>1. DOMAIN file = Drives /\ file = [d \in Drives |-> file[d]]
    BY DEF Init
  <2>2. \A d \in Drives : file[d] \in Seq(Data)
    BY <1>5 DEF Image
  <2> QED
    BY <2>1, <2>2
<1> QED
  BY <1>1, <1>3, <1>4, <1>5, <1>6, GoodState DEF Init

LEMMA ArmStep ==
  ASSUME TypeOK, NEW p \in Place, NEW op \in Codes, NEW hi \in Nat, NEW lo \in Nat,
         NEW cnt \in Nat, NEW dma \in Nat, NEW to \in Base,
         Arm(p, op, hi, lo, cnt, dma, to)
  PROVE  TypeOK' /\ D!Issue
<1>1. blk[p] \in Filled /\ blk \in [Place -> Filled]
  BY GoodState
<1>2. dma + cnt <= Buffers
  BY DEF Arm
<1> DEFINE b == [op |-> op, hi |-> hi, lo |-> lo, cnt |-> cnt, dma |-> dma,
                 to |-> to, err |-> "FF", echo |-> blk[p].echo]
<1>3. b \in Filled
  BY <1>1, <1>2 DEF Filled
<1>4. blk' = [blk EXCEPT ![p] = b] /\ UNCHANGED <<buf, hdc_cmdblk, present, file, disk_vi>>
  BY DEF Arm
<1> HIDE DEF b
<1>5. blk' \in [Place -> Filled]
  BY <1>1, <1>3, <1>4
<1>6. TypeOK'
  BY <1>4, <1>5, GoodState DEF TypeOK, Good, State
<1>7. Medium' = Medium
  BY <1>4 DEF Medium
<1>8. blk[p].err # "FF" /\ b.err = "FF"
  BY DEF Arm, b
<1> DEFINE slot == [q \in Place |-> Slot(blk[q])]
<1>9. /\ slot[p].err # "FF" /\ slot'[p].err = "FF"
      /\ slot' = [slot EXCEPT ![p] = slot'[p]]
  BY <1>1, <1>4, <1>8, SlotFields DEF Slot
<1>10. D!Issue
  BY <1>4, <1>7, <1>9 DEF D!Issue
<1> QED
  BY <1>6, <1>10

LEMMA ArmsStep ==
  ASSUME TypeOK, ArmTransfer \/ ArmOther \/ ArmMove
  PROVE  TypeOK' /\ D!Issue
<1>1. 0 \in Base /\ 0 \in Nat /\ Relocates \subseteq Base
  BY HdcAssumption DEF Base
<1>2. CASE ArmTransfer
  <2>1. PICK p \in Place, op \in {"read", "write"}, hi \in 0..Hi, lo \in 0..Low - 1,
             cnt \in 0..MaxCnt, dma \in 0..Buffers - 1 :
               Arm(p, op, hi, lo, cnt, dma, 0)
    BY <1>2 DEF ArmTransfer
  <2>2. op \in Codes /\ hi \in Nat /\ lo \in Nat /\ cnt \in Nat /\ dma \in Nat
    BY HdcAssumption DEF Codes
  <2> QED
    BY <1>1, <2>1, <2>2, ArmStep
<1>3. CASE ArmOther
  <2>1. PICK p \in Place, op \in {"status", "format", "bad"} : Arm(p, op, 0, 0, 0, 0, 0)
    BY <1>3 DEF ArmOther
  <2>2. op \in Codes
    BY DEF Codes
  <2> QED
    BY <1>1, <2>1, <2>2, ArmStep
<1>4. CASE ArmMove
  <2>1. PICK p \in Place, to \in Relocates : Arm(p, "move", 0, 0, 0, 0, to)
    BY <1>4 DEF ArmMove
  <2>2. "move" \in Codes /\ to \in Base
    BY <1>1 DEF Codes
  <2> QED
    BY <1>1, <2>1, <2>2, ArmStep
<1> QED
  BY <1>2, <1>3, <1>4

LEMMA DoorbellStep ==
  ASSUME TypeOK, Doorbell
  PROVE  TypeOK' /\ D!Command
<1> DEFINE r == hdc_doorbell
<1>1. Good(r) /\ \E m \in D!Served(Seen(State), "hd", hdc_cmdblk) :
                   Seen(r) \in D!Served(m, "fd", m.base + 1)
  BY DoorbellSound
<1>2. /\ blk' = r.blk /\ buf' = r.buf /\ hdc_cmdblk' = r.base /\ file' = r.file
      /\ disk_vi' = r.vi /\ present' = present
  BY DEF Doorbell
<1> HIDE DEF r
<1>3. TypeOK'
  <2>1. present \in [Drives -> BOOLEAN]
    BY DEF TypeOK
  <2>2. Good(State')
    BY <1>1, <1>2 DEF Good, State
  <2> QED
    BY <1>2, <2>1, <2>2 DEF TypeOK
<1>4. Seen(r) = (D!Now)'
  BY <1>2 DEF Seen, SlotsOf, MediumOf, Medium, D!Now
<1>5. Seen(State) = D!Now
  BY StateFields DEF Seen, SlotsOf, D!Now
<1> QED
  BY <1>1, <1>2, <1>3, <1>4, <1>5 DEF D!Command

LEMMA NextSound ==
  ASSUME TypeOK, [Next]_vars
  PROVE  TypeOK' /\ [D!Store \/ D!Issue \/ D!Command]_(D!mvars)
<1>1. CASE UNCHANGED vars
  BY <1>1 DEF vars, TypeOK, Good, State, D!mvars, Medium
<1>2. CASE Doorbell
  BY <1>2, DoorbellStep
<1>3. CASE ArmTransfer \/ ArmOther \/ ArmMove
  BY <1>3, ArmsStep
<1>4. CASE Delivered
  BY <1>4 DEF Delivered, TypeOK, Good, State, D!mvars, Medium
<1>5. ASSUME NEW i \in 0..Buffers - 1, NEW v \in Data, Store(i, v)
      PROVE  TypeOK' /\ D!Store
  <2>1. /\ buf' = [buf EXCEPT ![i] = v]
        /\ UNCHANGED <<blk, hdc_cmdblk, present, file, disk_vi>>
    BY <1>5 DEF Store
  <2>2. buf \in [Index -> Data] /\ i \in Index
    BY GoodState DEF Index
  <2>3. buf' \in [Index -> Data]
    BY <2>1, <2>2
  <2>4. TypeOK'
    BY <2>1, <2>3 DEF TypeOK, Good, State
  <2>5. Medium' = Medium
    BY <2>1 DEF Medium
  <2>6. D!Store
    BY <2>1, <2>2, <2>5 DEF D!Store
  <2> QED
    BY <2>4, <2>6
<1> QED
  BY <1>1, <1>2, <1>3, <1>4, <1>5 DEF Next

(* hdc_process, hdc_doorbell and the image files, trimmed, grown and       *)
(* missing, are two media of the sizes the drivers were told.              *)
THEOREM MediaSound == Spec => MediaKept
<1>1. Init => D!MInit
  <2> SUFFICES ASSUME Init PROVE D!MInit
    OBVIOUS
  <2>1. TypeOK
    BY InitTypeOK
  <2>2. \A d \in Drives : Sectors[d] \in Nat /\ file[d] \in Seq(Data)
    BY <2>1, GoodState, Sizes
  <2>3. \A d \in Drives : Medium[d] \in [0..Sectors[d] - 1 -> Data]
    <3> SUFFICES ASSUME NEW d \in Drives, NEW k \in 0..Sectors[d] - 1
                 PROVE  SectorAt(file[d], k) \in Data
      BY DEF Medium
    <3>1. k \in Nat
      BY <2>2
    <3> QED
      BY <2>2, <3>1, SectorType
  <2>4. Medium = [d \in Drives |-> Medium[d]]
    BY DEF Medium
  <2>5. DOMAIN buf = 0..Buffers - 1
    BY DEF Init
  <2>6. \A d \in Drives : DOMAIN Medium[d] = 0..Sectors[d] - 1
    BY <2>3
  <2>7. D!Drives = Drives
    BY Sizes DEF D!Drives
  <2>8. \A d \in Drives :
          Medium[d] \in UNION {[0..n - 1 -> Data] : n \in {Sectors[e] : e \in Drives}}
    BY <2>3
  <2>9. Medium \in [Drives -> UNION {[0..n - 1 -> Data] : n \in {Sectors[e] : e \in Drives}}]
    BY <2>4, <2>8
  <2>10. \A p \in Place : Slot(blk[p]).err # "FF"
    BY SlotFields DEF Init, Done
  <2> QED
    BY <2>5, <2>6, <2>7, <2>9, <2>10 DEF D!MInit
<1> QED
  BY <1>1, InitTypeOK, NextSound, PTL DEF Spec, MediaKept, D!MSpec

(* Every armed block is answered by the doorbell that finds it, with an    *)
(* image attached or not, and the interrupt is requested.                  *)
THEOREM AnswersSound == Spec => EveryArmedAnswered
<1>1. ASSUME TypeOK, [Next]_vars
      PROVE  [Doorbell => /\ \A p \in Answerable : blk'[p].err # "FF"
                          /\ Answerable # {} => disk_vi']_vars
  <2> SUFFICES ASSUME Doorbell
               PROVE  /\ \A p \in Answerable : blk'[p].err # "FF"
                      /\ Answerable # {} => disk_vi'
    OBVIOUS
  <2>1. blk' = hdc_doorbell.blk /\ hdc_cmdblk' = hdc_doorbell.base /\ disk_vi' = hdc_doorbell.vi
    BY DEF Doorbell
  <2>2. /\ blk'[hdc_cmdblk].err # "FF"
        /\ hdc_cmdblk' = hdc_cmdblk => blk'[hdc_cmdblk + 1].err # "FF"
        /\ blk[hdc_cmdblk].err = "FF" => disk_vi'
        /\ hdc_cmdblk' = hdc_cmdblk /\ blk[hdc_cmdblk + 1].err = "FF" => disk_vi'
    BY <1>1, <2>1, DoorbellSound
  <2> QED
    BY <2>2 DEF Answerable
<1> QED
  BY <1>1, InitTypeOK, NextSound, PTL DEF Spec, EveryArmedAnswered

-----------------------------------------------------------------------------
(***************************************************************************)
(* Part two: the clock's divider.                                          *)
(***************************************************************************)

(* The divider's registers are numbers, held is the fraction while the     *)
(* oscillator stands still, and no time has been lost.                     *)
DividerInv ==
  /\ {insns, base, held, n_tick, run} \subseteq Int
  /\ stopped \in BOOLEAN
  /\ TimeConserved

(* An advance turns whole seconds of the fraction into carries: what it    *)
(* adds to the one it takes from the other (rtc_advance).                  *)
LEMMA AdvanceConserves ==
  ASSUME DividerInv
  PROVE  /\ Carries \in Int /\ Advanced \in Int
         /\ Ips * (n_tick + Carries)
              + (IF stopped THEN held ELSE insns - Advanced) = run
<1>1. Ips \in Nat \ {0}
  BY RtcAssumption
<1>2. Carries \in Int
  BY <1>1 DEF Carries, DividerInv
<1>3. Ips * (n_tick + Carries) = Ips * n_tick + Carries * Ips
  BY <1>1, <1>2 DEF DividerInv
<1>4. Carries * Ips \in Int /\ Ips * n_tick \in Int
  BY <1>1, <1>2 DEF DividerInv
<1>5. CASE stopped
  <2>1. Carries = 0 /\ Carries * Ips = 0
    BY <1>1, <1>5 DEF Carries
  <2> QED
    BY <1>2, <1>3, <1>4, <1>5, <2>1 DEF DividerInv, TimeConserved, Fraction, Advanced
<1>6. CASE ~stopped
  BY <1>2, <1>3, <1>4, <1>6 DEF DividerInv, TimeConserved, Fraction, Advanced
<1> QED
  BY <1>5, <1>6

(* STOP, its release and the post-stage reset each settle the fraction     *)
(* before they move the reference (rtc_pb_write, rtc_set_stop).            *)
LEMMA StrobesConserve ==
  ASSUME DividerInv, NEW v, NEW sel,
         rtc_pb_write(v, sel), UNCHANGED insns
  PROVE  DividerInv'
<1> DEFINE resets == /\ sel /\ Rises("WRITE", prev_pb, v)
                     /\ (IF sel /\ Rises("ADWR", prev_pb, v) THEN v.d ELSE addr) = "reset"
           b == IF resets THEN insns ELSE Advanced
           h == IF resets THEN 0 ELSE held
           n == n_tick + Carries
           stop == "STOP" \in v.pins
<1>1. /\ n_tick' = n /\ stopped' = stop /\ insns' = insns
      /\ held' = IF stop /\ ~stopped THEN insns - b ELSE h
      /\ base' = IF ~stop /\ stopped THEN insns - h ELSE b
      /\ run' = IF resets THEN n * Ips ELSE run
  BY DEF rtc_pb_write
<1>2. /\ Ips \in Nat \ {0} /\ Carries \in Int /\ Advanced \in Int /\ n \in Int
      /\ {insns, held, run} \subseteq Int /\ stopped \in BOOLEAN /\ stop \in BOOLEAN
      /\ Ips * n + (IF stopped THEN held ELSE insns - Advanced) = run
  BY AdvanceConserves, RtcAssumption DEF DividerInv
<1>3. Ips * n = n * Ips /\ Ips * n \in Int
  BY <1>2
<1> HIDE DEF n, stop
<1>4. {insns', base', held', n_tick', run'} \subseteq Int /\ stopped' \in BOOLEAN
  BY <1>1, <1>2, <1>3
<1>5. Ips * n + (IF stop THEN held' ELSE insns - base') = run'
  <2>1. CASE resets
    BY <1>1, <1>2, <1>3, <2>1
  <2>2. CASE ~resets
    BY <1>1, <1>2, <1>3, <2>2
  <2> QED
    BY <2>1, <2>2
<1> QED
  BY <1>1, <1>4, <1>5 DEF DividerInv, TimeConserved, Fraction

LEMMA InitDivider == RtcInit => DividerInv
<1> SUFFICES ASSUME RtcInit PROVE DividerInv
  OBVIOUS
<1>1. insns = 0 /\ base = 0 /\ held = 0 /\ n_tick = 0 /\ run = 0 /\ stopped = FALSE
  BY DEF RtcInit
<1>2. Ips * n_tick = 0
  BY <1>1, RtcAssumption
<1>3. Fraction = 0
  BY <1>1 DEF Fraction
<1>4. TimeConserved
  BY <1>1, <1>2, <1>3 DEF TimeConserved
<1>5. {insns, base, held, n_tick, run} \subseteq Int
  BY <1>1
<1>6. stopped \in BOOLEAN
  BY <1>1
<1> QED
  BY <1>4, <1>5, <1>6 DEF DividerInv

LEMMA NextDivider ==
  ASSUME DividerInv, [RtcNext]_rvars
  PROVE  DividerInv'
<1>1. ASSUME NEW v \in Level, WritePortB(v) PROVE DividerInv'
  BY <1>1, StrobesConserve DEF WritePortB
<1>2. ASSUME NEW sel \in BOOLEAN, WritePortC(sel) PROVE DividerInv'
  BY <1>2, StrobesConserve DEF WritePortC
<1>3. CASE ReadPortB
  BY <1>3, AdvanceConserves DEF ReadPortB, DividerInv, TimeConserved, Fraction
<1>4. ASSUME NEW n \in 1 .. MaxGap, Execute(n) PROVE DividerInv'
  <2>1. n \in Int /\ Ips * n_tick \in Int
    BY RtcAssumption DEF DividerInv
  <2>2. insns' = insns + n /\ run' = (IF stopped THEN run ELSE run + n) /\ UNCHANGED rtc
    BY <1>4 DEF Execute
  <2> QED
    BY <2>1, <2>2 DEF rtc, DividerInv, TimeConserved, Fraction
<1>5. CASE UNCHANGED rvars
  BY <1>5 DEF rvars, rtc, DividerInv, TimeConserved, Fraction
<1> QED
  BY <1>1, <1>2, <1>3, <1>4, <1>5 DEF RtcNext

(* Lazy catching up, STOP and the post-stage reset lose no time and gain   *)
(* none, at any instant and at any rate (rtc_advance, rtc_pb_write).       *)
THEOREM TimeSound == RtcSpec => []TimeConserved
<1>1. DividerInv => TimeConserved
  BY DEF DividerInv
<1> QED
  BY <1>1, InitDivider, NextDivider, PTL DEF RtcSpec
-----------------------------------------------------------------------------
(* The carries an access finds.                                            *)

(* The carries since base that fall at or after an instant.                *)
CarriesFrom(since) == {i \in 1 .. Carries : base + i * Ips >= since}

(* The carries found late are charged as they fell: those counted and      *)
(* those an access would count now are no more than fell while /CS was     *)
(* asserted.                                                               *)
Charged == n_tick_selected + InTransaction(cs, cs_since) <= selected

(* cs_since lies in the past, the pending fraction is not       *)
(* negative, and less than a second while the oscillator stands still.     *)
SelectInv ==
  /\ {insns, base, held, cs_since, n_tick_selected, selected} \subseteq Int
  /\ stopped \in BOOLEAN /\ cs \in BOOLEAN /\ prev_cs \in BOOLEAN
  /\ prev_cs => cs
  /\ cs_since <= insns
  /\ stopped => 0 <= held /\ held < Ips
  /\ ~stopped => base <= insns
  /\ Charged

(* A division by the rate rounds down.                                     *)
LEMMA Quotient ==
  ASSUME NEW a \in Int
  PROVE  /\ a \div Ips \in Int
         /\ (a \div Ips) * Ips <= a /\ a < (a \div Ips) * Ips + Ips
         /\ a >= 0 => a \div Ips >= 0
         /\ 0 <= a /\ a < Ips => a \div Ips = 0
         /\ \A c \in Int : a <= c => a \div Ips <= c \div Ips
<1>1. Ips \in Nat \ {0}
  BY RtcAssumption
<1>2. a \div Ips \in Int /\ (a \div Ips) * Ips <= a /\ a < (a \div Ips) * Ips + Ips
  BY <1>1
<1>3. a >= 0 => a \div Ips >= 0
  BY <1>1
<1>4. 0 <= a /\ a < Ips => a \div Ips = 0
  BY <1>1
<1>5. ASSUME NEW c \in Int, a <= c PROVE a \div Ips <= c \div Ips
  BY <1>1, <1>5
<1> QED
  BY <1>2, <1>3, <1>4, <1>5

(* An advance leaves less than a second in the divider.                    *)
LEMMA AdvanceBounds ==
  ASSUME SelectInv
  PROVE  /\ Carries \in Nat /\ Advanced \in Int
         /\ stopped => Carries = 0
         /\ ~stopped => Advanced <= insns /\ insns - Advanced < Ips
<1>1. CASE stopped
  <2>1. Carries = 0
    BY <1>1 DEF Carries
  <2>2. 0 * Ips = 0
    BY RtcAssumption
  <2> QED
    BY <1>1, <2>1, <2>2 DEF Advanced, SelectInv
<1>2. CASE ~stopped
  <2>1. insns - base \in Int /\ insns - base >= 0 /\ base \in Int /\ insns \in Int
    BY <1>2 DEF SelectInv
  <2>2. Carries = (insns - base) \div Ips
    BY <1>2 DEF Carries
  <2>3. /\ Carries \in Int /\ Carries >= 0
        /\ Carries * Ips <= insns - base /\ insns - base < Carries * Ips + Ips
    BY <2>1, <2>2, Quotient
  <2>4. Carries * Ips \in Int /\ Ips \in Int
    BY <2>3, RtcAssumption
  <2> QED
    BY <1>2, <2>1, <2>3, <2>4 DEF Advanced
<1> QED
  BY <1>1, <1>2 DEF SelectInv

(* The carries counted are a finite set, and fewer of them from later on.  *)
LEMMA FewerLater ==
  ASSUME SelectInv, NEW s \in Int, NEW t \in Int, s <= t
  PROVE  /\ IsFiniteSet(CarriesFrom(s))
         /\ Cardinality(CarriesFrom(s)) \in Nat
         /\ Cardinality(CarriesFrom(t)) <= Cardinality(CarriesFrom(s))
<1>1. Carries \in Nat /\ Ips \in Int /\ base \in Int
  BY AdvanceBounds, RtcAssumption DEF SelectInv
<1>2. IsFiniteSet(1 .. Carries)
  BY <1>1, FS_Interval
<1>3. CarriesFrom(s) \in SUBSET (1 .. Carries)
  BY DEF CarriesFrom
<1>4. IsFiniteSet(CarriesFrom(s))
  BY <1>2, <1>3, FS_Subset
<1>5. ASSUME NEW i \in CarriesFrom(t) PROVE i \in CarriesFrom(s)
  <2>1. i \in 1 .. Carries /\ base + i * Ips >= t
    BY DEF CarriesFrom
  <2>2. base + i * Ips \in Int
    BY <1>1, <2>1
  <2> QED
    BY <2>1, <2>2 DEF CarriesFrom
<1>6. CarriesFrom(t) \in SUBSET CarriesFrom(s)
  BY <1>5
<1> QED
  BY <1>4, <1>6, FS_Subset, FS_CardinalityType

(* Of the carries an access discovers, one at most falls at this instant.  *)
LEMMA CarryNow ==
  ASSUME SelectInv
  PROVE  Cardinality(CarriesFrom(insns)) <=
           IF Carries > 0 /\ insns = base + Carries * Ips THEN 1 ELSE 0
<1>1. Carries \in Nat /\ Ips \in Nat \ {0} /\ base \in Int /\ insns \in Int
  BY AdvanceBounds, RtcAssumption DEF SelectInv
<1>2. ASSUME NEW i \in CarriesFrom(insns)
      PROVE  i = Carries /\ Carries > 0 /\ insns = base + Carries * Ips
  <2>1. i \in 1 .. Carries /\ base + i * Ips >= insns
    BY DEF CarriesFrom
  <2>2. ~stopped /\ base + Carries * Ips <= insns
    BY <1>1, <2>1, AdvanceBounds DEF Advanced, SelectInv
  <2>3. i \in Int /\ Carries - i >= 0 /\ Carries * Ips \in Int /\ i * Ips \in Int
        /\ (Carries - i) * Ips = Carries * Ips - i * Ips
    BY <1>1, <2>1
  <2>4. (Carries - i) * Ips <= 0
    BY <1>1, <2>1, <2>2, <2>3
  <2>5. Carries - i = 0
    BY <1>1, <2>3, <2>4
  <2> QED
    BY <1>1, <2>1, <2>2, <2>3, <2>5
<1>3. CASE CarriesFrom(insns) = {}
  BY <1>3, FS_EmptySet
<1>4. CASE CarriesFrom(insns) # {}
  <2>1. PICK i : i \in CarriesFrom(insns)
    BY <1>4
  <2>2. CarriesFrom(insns) = {Carries}
    BY <1>2, <2>1
  <2>3. Cardinality(CarriesFrom(insns)) = 1
    BY <2>2, FS_Singleton
  <2> QED
    BY <1>2, <2>1, <2>3
<1> QED
  BY <1>3, <1>4

(* The carries of the next state, from what becomes of the divider.        *)
LEMMA CarriesLater ==
  ~stopped' => Carries' = (insns' - base') \div Ips
BY DEF Carries

(* Differences of integers, and the sum with nothing.                      *)
LEMMA Sums == \A x, y \in Int : x - y \in Int /\ x + 0 = x
OBVIOUS

(* Between accesses the carries that fall while /CS is asserted become     *)
(* pending, one for one.                                                   *)
LEMMA ExecuteSelect ==
  ASSUME SelectInv, NEW n \in 1 .. MaxGap, Execute(n)
  PROVE  SelectInv'
<1>1. /\ insns' = insns + n /\ cs' = cs
      /\ stopped' = stopped /\ prev_cs' = prev_cs /\ cs_since' = cs_since
      /\ base' = base /\ held' = held /\ n_tick_selected' = n_tick_selected
      /\ selected' = selected + IF cs /\ ~stopped
                       THEN (insns + n - base) \div Ips - (insns - base) \div Ips
                       ELSE 0
  BY DEF Execute, rtc
<1>2. /\ n \in Nat /\ {insns, base, cs_since, n_tick_selected, selected} \subseteq Int
      /\ Carries \in Nat /\ Ips \in Nat \ {0}
  BY AdvanceBounds, RtcAssumption DEF SelectInv
<1>3. CASE cs /\ ~stopped
  <2>1. /\ Carries = (insns - base) \div Ips
        /\ Carries' = (insns + n - base) \div Ips
    <3>1. ~stopped /\ ~stopped'
      BY <1>1, <1>3
    <3>2. Carries = (insns - base) \div Ips
      BY <3>1 DEF Carries
    <3>3. insns' = insns + n /\ base' = base
      BY <1>1
    <3>4. Carries' = (insns' - base') \div Ips
      BY <3>1, CarriesLater
    <3>5. insns' - base' = insns + n - base
      BY <1>2, <3>3
    <3>6. Carries' = (insns + n - base) \div Ips
      BY <3>4, <3>5
    <3> QED
      BY <3>2, <3>6
  <2>2. Carries' \in Int /\ Carries <= Carries'
    <3>1. insns - base \in Int /\ insns + n - base \in Int /\ insns - base <= insns + n - base
      BY <1>2
    <3> QED
      BY <2>1, <3>1, Quotient
  <2> DEFINE S == CarriesFrom(cs_since)
             T == (Carries + 1) .. Carries'
             U == CarriesFrom(cs_since)'
  <2>3. IsFiniteSet(S) /\ Cardinality(S) \in Nat
    BY <1>2, FewerLater
  <2>4. IsFiniteSet(T) /\ Cardinality(T) = Carries' - Carries
    <3>1. Carries + 1 \in Int /\ Carries' \in Int
      BY <1>2, <2>2
    <3>2. IsFiniteSet(T) /\ Cardinality(T) =
            IF Carries + 1 > Carries' THEN 0 ELSE Carries' - (Carries + 1) + 1
      BY <3>1, FS_Interval
    <3> QED
      BY <1>2, <2>2, <3>2
  <2>5. U \in SUBSET (S \cup T)
    BY <1>1, <1>2, <2>2 DEF CarriesFrom
  <2>6. IsFiniteSet(S \cup T) /\ Cardinality(S \cup T) <= Cardinality(S) + Cardinality(T)
    <3>1. IsFiniteSet(S \cap T)
      BY <2>3, FS_Subset
    <3>2. Cardinality(S \cap T) \in Nat /\ Cardinality(T) \in Nat
      BY <2>4, <3>1, FS_CardinalityType
    <3>3. IsFiniteSet(S \cup T) /\ Cardinality(S \cup T) =
            Cardinality(S) + Cardinality(T) - Cardinality(S \cap T)
      BY <2>3, <2>4, FS_Union
    <3> QED
      BY <2>3, <3>2, <3>3
  <2>7. IsFiniteSet(U) /\ Cardinality(U) <= Cardinality(S \cup T)
    BY <2>5, <2>6, FS_Subset
  <2>8. Cardinality(U) \in Nat /\ Cardinality(S \cup T) \in Nat
    BY <2>6, <2>7, FS_CardinalityType
  <2>9. /\ InTransaction(cs, cs_since) = Cardinality(S)
        /\ InTransaction(cs, cs_since)' = Cardinality(U)
    BY <1>1, <1>3 DEF InTransaction, CarriesFrom
  <2> HIDE DEF S, T, U
  <2>10. selected' = selected + (Carries' - Carries)
    BY <1>1, <1>3, <2>1
  <2>11. n_tick_selected + Cardinality(S) <= selected
    BY <2>9 DEF SelectInv, Charged
  <2>12. n_tick_selected' + Cardinality(U) <= selected'
    BY <1>1, <1>2, <2>2, <2>3, <2>4, <2>6, <2>7, <2>8, <2>10, <2>11
  <2>13. Charged'
    BY <2>9, <2>12 DEF Charged
  <2>14. selected' \in Int
    BY <1>2, <2>2, <2>10
  <2> QED
    BY <1>1, <1>2, <2>13, <2>14 DEF SelectInv
<1>4. CASE ~(cs /\ ~stopped)
  <2>1. selected' = selected
    BY <1>1, <1>2, <1>4
  <2>2. InTransaction(cs, cs_since)' = InTransaction(cs, cs_since)
    BY <1>1, <1>4 DEF InTransaction, Carries, SelectInv
  <2>3. Charged'
    BY <1>1, <2>1, <2>2 DEF SelectInv, Charged
  <2> QED
    BY <1>1, <1>2, <2>1, <2>3 DEF SelectInv
<1> QED
  BY <1>3, <1>4

(* After an access nothing is left to be discovered.                       *)
LEMMA NothingLeft ==
  ASSUME {insns', base', held'} \subseteq Int, stopped' \in BOOLEAN,
         ~stopped' => base' <= insns' /\ insns' - base' < Ips
  PROVE  InTransaction(cs, cs_since)' = 0
<1>1. Carries' = 0
  <2>1. CASE stopped'
    BY <2>1 DEF Carries
  <2>2. CASE ~stopped'
    <3>1. insns' - base' \in Int /\ 0 <= insns' - base' /\ insns' - base' < Ips
      BY <2>2, RtcAssumption
    <3>2. (insns' - base') \div Ips = 0
      BY <3>1, Quotient
    <3> QED
      BY <2>2, <3>2 DEF Carries
  <2> QED
    BY <2>1, <2>2
<1>2. {i \in 1 .. Carries' : base' + i * Ips >= cs_since'} = {}
  BY <1>1
<1> QED
  BY <1>2, FS_EmptySet DEF InTransaction

(* A write to the ports: what it charges is covered by what fell while     *)
(* /CS was asserted, a carry at the instant of the assertion included      *)
(* (rtc_pb_write).                                                         *)
LEMMA StrobesSelect ==
  ASSUME SelectInv, NEW v, NEW sel \in BOOLEAN,
         rtc_pb_write(v, sel), insns' = insns, cs' = sel, selected' \in Int,
         sel /\ cs => selected' = selected,
         ~sel => selected' = selected,
         sel /\ ~cs => selected' = selected +
           IF Carries > 0 /\ insns = base + Carries * Ips THEN 1 ELSE 0
  PROVE  SelectInv'
<1> DEFINE resets == /\ sel /\ Rises("WRITE", prev_pb, v)
                     /\ (IF sel /\ Rises("ADWR", prev_pb, v) THEN v.d ELSE addr) = "reset"
           b == IF resets THEN insns ELSE Advanced
           h == IF resets THEN 0 ELSE held
           stop == "STOP" \in v.pins
           since == IF sel /\ ~prev_cs THEN insns ELSE cs_since
<1>1. /\ stopped' = stop /\ cs_since' = since /\ prev_cs' = sel
      /\ n_tick_selected' = n_tick_selected + InTransaction(sel, since)
      /\ held' = IF stop /\ ~stopped THEN insns - b ELSE h
      /\ base' = IF ~stop /\ stopped THEN insns - h ELSE b
  BY DEF rtc_pb_write
<1>2. /\ {insns, base, held, cs_since, n_tick_selected, selected, since} \subseteq Int
      /\ stopped \in BOOLEAN /\ cs \in BOOLEAN /\ prev_cs \in BOOLEAN
      /\ stop \in BOOLEAN /\ cs_since <= since /\ since <= insns
  BY DEF SelectInv
<1>3. /\ Ips \in Nat \ {0} /\ Carries \in Nat /\ Advanced \in Int
      /\ ~stopped => Advanced <= insns /\ insns - Advanced < Ips
      /\ stopped => 0 <= held /\ held < Ips
  BY AdvanceBounds, RtcAssumption DEF SelectInv
<1>4. /\ {b, h} \subseteq Int
      /\ ~stopped => b <= insns /\ insns - b < Ips
      /\ stopped => 0 <= h /\ h < Ips
  BY <1>2, <1>3
<1>5. n_tick_selected' \in Int /\ n_tick_selected' <= selected'
  <2>1. CASE ~sel
    <3>1. InTransaction(sel, since) = 0
      BY <2>1 DEF InTransaction
    <3>2. InTransaction(cs, cs_since) \in Nat
      BY <1>2, FewerLater DEF InTransaction, CarriesFrom
    <3> QED
      BY <1>1, <1>2, <2>1, <3>1, <3>2 DEF SelectInv, Charged
  <2>2. CASE sel /\ cs
    <3>1. InTransaction(sel, since) = Cardinality(CarriesFrom(since))
      BY <2>2 DEF InTransaction, CarriesFrom
    <3>2. InTransaction(cs, cs_since) = Cardinality(CarriesFrom(cs_since))
      BY <2>2 DEF InTransaction, CarriesFrom
    <3>3. /\ Cardinality(CarriesFrom(since)) \in Nat
          /\ Cardinality(CarriesFrom(cs_since)) \in Nat
          /\ Cardinality(CarriesFrom(since)) <= Cardinality(CarriesFrom(cs_since))
      BY <1>2, FewerLater
    <3>4. selected' = selected
      BY <2>2
    <3>5. n_tick_selected' = n_tick_selected + Cardinality(CarriesFrom(since))
      BY <1>1, <3>1
    <3>6. n_tick_selected + Cardinality(CarriesFrom(cs_since)) <= selected
      BY <3>2 DEF SelectInv, Charged
    <3> HIDE DEF since
    <3> QED
      BY <1>2, <3>3, <3>4, <3>5, <3>6
  <2>3. CASE sel /\ ~cs
    <3>1. since = insns
      BY <2>3 DEF SelectInv
    <3>2. InTransaction(sel, since) = Cardinality(CarriesFrom(insns))
      BY <2>3, <3>1 DEF InTransaction, CarriesFrom
    <3>3. Cardinality(CarriesFrom(insns)) \in Nat
      BY <1>2, FewerLater
    <3>4. InTransaction(cs, cs_since) = 0
      BY <2>3 DEF InTransaction
    <3>5. n_tick_selected <= selected
      <4>1. n_tick_selected + 0 <= selected
        BY <3>4 DEF SelectInv, Charged
      <4> QED
        BY <1>2, <4>1
    <3> DEFINE now == IF Carries > 0 /\ insns = base + Carries * Ips THEN 1 ELSE 0
    <3>6. selected' = selected + now
      BY <2>3
    <3>7. n_tick_selected' = n_tick_selected + Cardinality(CarriesFrom(insns))
      BY <1>1, <3>2
    <3>8. Cardinality(CarriesFrom(insns)) <= now
      BY CarryNow
    <3>9. now \in Int
      OBVIOUS
    <3> HIDE DEF now, since
    <3> QED
      BY <1>2, <3>3, <3>5, <3>6, <3>7, <3>8, <3>9
  <2> QED
    BY <1>2, <2>1, <2>2, <2>3
<1> HIDE DEF b, h, stop, since
<1>6. /\ {held', base'} \subseteq Int
      /\ stopped' => 0 <= held' /\ held' < Ips
      /\ ~stopped' => base' <= insns' /\ insns' - base' < Ips
  <2>1. {insns, b, h, insns - b, insns - h} \subseteq Int
    BY <1>2, <1>4
  <2>2. CASE stop /\ stopped
    BY <1>1, <1>4, <2>1, <2>2
  <2>3. CASE stop /\ ~stopped
    <3>1. stopped' /\ base' = b /\ held' = insns - b
      BY <1>1, <2>3
    <3>2. 0 <= insns - b
      BY <1>4, <2>1, <2>3
    <3> QED
      BY <1>4, <2>1, <2>3, <3>1, <3>2
  <2>4. CASE ~stop /\ stopped
    <3>1. ~stopped' /\ held' = h /\ base' = insns - h /\ insns' = insns
      BY <1>1, <2>4
    <3>2. insns - h <= insns /\ insns - (insns - h) = h
      BY <1>4, <2>1, <2>4
    <3> QED
      BY <1>4, <2>1, <2>4, <3>1, <3>2
  <2>5. CASE ~stop /\ ~stopped
    BY <1>1, <1>4, <2>1, <2>5
  <2> QED
    BY <1>2, <2>2, <2>3, <2>4, <2>5
<1>7. stopped' \in BOOLEAN /\ insns' \in Int
  BY <1>1, <1>2
<1>8. InTransaction(cs, cs_since)' = 0
  BY <1>6, <1>7, NothingLeft
<1>9. /\ {insns, base, held, cs_since, n_tick_selected, selected}' \subseteq Int
      /\ cs' \in BOOLEAN /\ prev_cs' \in BOOLEAN /\ (prev_cs' => cs')
      /\ cs_since' <= insns'
  BY <1>1, <1>2, <1>5, <1>6
<1>10. n_tick_selected' + 0 <= selected'
  <2>1. n_tick_selected' \in Int
    BY <1>5
  <2>2. n_tick_selected' + 0 = n_tick_selected'
    BY <2>1, Sums
  <2> QED
    BY <1>5, <2>2
<1>11. Charged'
  BY <1>8, <1>10 DEF Charged
<1> QED
  BY <1>6, <1>7, <1>9, <1>11 DEF SelectInv

LEMMA InitSelect == RtcInit => SelectInv
<1> SUFFICES ASSUME RtcInit PROVE SelectInv
  OBVIOUS
<1>1. /\ insns = 0 /\ base = 0 /\ held = 0 /\ cs_since = 0
      /\ n_tick_selected = 0 /\ selected = 0
  BY DEF RtcInit
<1>2. ~stopped /\ cs /\ ~prev_cs /\ {stopped, cs, prev_cs} \subseteq BOOLEAN
  BY DEF RtcInit
<1>3. Carries = 0
  <2>1. 0 \div Ips = 0
    BY RtcAssumption
  <2> QED
    BY <1>1, <1>2, <2>1 DEF Carries
<1>4. InTransaction(cs, cs_since) = 0
  BY <1>3, FS_EmptySet DEF InTransaction
<1>5. n_tick_selected + 0 <= selected
  BY <1>1
<1>6. Charged
  BY <1>4, <1>5 DEF Charged
<1>7. cs_since <= insns /\ base <= insns
  BY <1>1
<1>8. {insns, base, held, cs_since, n_tick_selected, selected} \subseteq Int
  BY <1>1
<1> QED
  BY <1>2, <1>6, <1>7, <1>8 DEF SelectInv

LEMMA NextSelect ==
  ASSUME SelectInv, [RtcNext]_rvars
  PROVE  SelectInv'
<1>1. ASSUME NEW v \in Level, WritePortB(v) PROVE SelectInv'
  <2>1. /\ rtc_pb_write(v, cs) /\ insns' = insns /\ cs' = cs
        /\ selected' = selected /\ cs \in BOOLEAN /\ selected \in Int
    BY <1>1 DEF WritePortB, SelectInv
  <2> QED
    BY <2>1, StrobesSelect
<1>2. ASSUME NEW sel \in BOOLEAN, WritePortC(sel) PROVE SelectInv'
  <2>1. /\ rtc_pb_write(prev_pb, sel) /\ insns' = insns /\ cs' = sel
        /\ selected' = selected + IF sel /\ ~cs /\ Carries > 0
                                       /\ insns = base + Carries * Ips
                                    THEN 1 ELSE 0
        /\ selected \in Int
    BY <1>2 DEF WritePortC, SelectInv
  <2>2. /\ selected' \in Int
        /\ sel /\ cs => selected' = selected
        /\ ~sel => selected' = selected
        /\ sel /\ ~cs => selected' = selected +
             IF Carries > 0 /\ insns = base + Carries * Ips THEN 1 ELSE 0
    BY <2>1
  <2> QED
    BY <2>1, <2>2, StrobesSelect
<1>3. CASE ReadPortB
  <2>1. /\ base' = Advanced /\ UNCHANGED <<insns, cs, stopped, prev_cs, cs_since, held, selected>>
        /\ n_tick_selected' = n_tick_selected + InTransaction(cs, cs_since)
    BY <1>3 DEF ReadPortB
  <2>2. InTransaction(cs, cs_since) \in Nat
    <3>1. CASE cs
      BY <3>1, FewerLater DEF InTransaction, CarriesFrom, SelectInv
    <3>2. CASE ~cs
      BY <3>2 DEF InTransaction
    <3> QED
      BY <3>1, <3>2
  <2>3. /\ {insns', base', held'} \subseteq Int /\ stopped' \in BOOLEAN
        /\ ~stopped' => base' <= insns' /\ insns' - base' < Ips
    BY <2>1, AdvanceBounds DEF SelectInv
  <2>4. InTransaction(cs, cs_since)' = 0
    BY <2>3, NothingLeft
  <2> DEFINE X == InTransaction(cs, cs_since)
  <2>5. n_tick_selected + X <= selected
    BY DEF SelectInv, Charged
  <2>6. {n_tick_selected, selected} \subseteq Int
    BY DEF SelectInv
  <2>7. n_tick_selected' = n_tick_selected + X /\ X \in Nat
    BY <2>1, <2>2
  <2> HIDE DEF X
  <2>8. n_tick_selected' \in Int /\ n_tick_selected' + 0 <= selected
    BY <2>5, <2>6, <2>7
  <2>9. Charged'
    BY <2>1, <2>4, <2>8 DEF Charged
  <2> QED
    BY <2>1, <2>3, <2>8, <2>9 DEF SelectInv
<1>4. ASSUME NEW n \in 1 .. MaxGap, Execute(n) PROVE SelectInv'
  BY <1>4, ExecuteSelect
<1>5. CASE UNCHANGED rvars
  BY <1>5 DEF rvars, rtc, SelectInv, Charged, InTransaction, Carries
<1> QED
  BY <1>1, <1>2, <1>3, <1>4, <1>5 DEF RtcNext

(* n_tick_selected never counts a carry that fell outside a transaction,   *)
(* however late it is discovered (rtc_advance, rtc_report).                *)
THEOREM SelectedSound == RtcSpec => []SelectedOnly
<1>1. SelectInv => SelectedOnly
  <2> SUFFICES ASSUME SelectInv PROVE n_tick_selected <= selected
    BY DEF SelectedOnly
  <2> DEFINE X == InTransaction(cs, cs_since)
  <2>2. X \in Nat
    <3>1. CASE cs
      BY <3>1, FewerLater DEF InTransaction, CarriesFrom, SelectInv
    <3>2. CASE ~cs
      BY <3>2 DEF InTransaction
    <3> QED
      BY <3>1, <3>2
  <2>3. n_tick_selected + X <= selected
    BY DEF SelectInv, Charged
  <2>4. {n_tick_selected, selected} \subseteq Int
    BY DEF SelectInv
  <2> HIDE DEF X
  <2> QED
    BY <2>2, <2>3, <2>4
<1> QED
  BY <1>1, InitSelect, NextSelect, PTL DEF RtcSpec
=============================================================================
