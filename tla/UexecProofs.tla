---------------------------- MODULE UexecProofs ----------------------------
(***************************************************************************)
(* The descriptors of a program run by --exec and the status it is         *)
(* reported with, for tables, hosts and budgets of every size.             *)
(***************************************************************************)
EXTENDS Uexec, WellFoundedInduction, TLAPS

(* A set of natural numbers has a first one, and Min is it.                *)
LEMMA MinOf ==
  ASSUME NEW S \in SUBSET Nat, S # {}
  PROVE  Min(S) \in S
<1>1. PICK i \in S : \A j \in S : ~(<<j, i>> \in OpToRel(<, Nat))
  BY NatLessThanWellFounded, WFMin
<1>2. ASSUME NEW j \in S PROVE i <= j
  <2>1. i \in Nat /\ j \in Nat /\ <<j, i>> \in Nat \X Nat
    OBVIOUS
  <2>2. ~(j < i)
    BY <1>1, <2>1 DEF OpToRel
  <2> QED
    BY <2>1, <2>2
<1>3. \E x \in S : \A y \in S : x <= y
  BY <1>2
<1> QED
  BY <1>3 DEF Min

-----------------------------------------------------------------------------
(* Descriptors.  A slot above the standard streams never holds one of the  *)
(* emulator's own, which is why closing it closes none.                    *)
SlotInv ==
  /\ gfiles \in [Slots -> [fd : Int, pos : Int]]
  /\ DescriptorsRight
  /\ \A fd \in Slots : fd > 2 => gfiles[fd].fd \notin Std

LEMMA OpenFileSlots ==
  ASSUME SlotInv, OpenFile
  PROVE  SlotInv'
<1>1. CASE UNCHANGED <<gfiles, open>>
  BY <1>1 DEF SlotInv, DescriptorsRight
<1> DEFINE h == Min(HostFree)
<1>2. CASE HostFree # {} /\ ~UNCHANGED <<gfiles, open>>
  <2>1. h \in Nat /\ h \notin open
    <3>1. HostFree \in SUBSET Nat
      BY UexecAssumption DEF HostFree
    <3> QED
      BY <1>2, <3>1, MinOf DEF HostFree
  <2>2. FreeSlots # {} /\ gfiles' = [gfiles EXCEPT ![alloc_fd] = File(h)]
        /\ open' = open \cup {h}
    BY <1>2 DEF OpenFile, Fails, fail, fail_after, NoSlot
  <2>3. alloc_fd \in Slots
    <3>1. FreeSlots \in SUBSET Nat
      BY UexecAssumption DEF FreeSlots, Slots
    <3> QED
      BY <2>2, <3>1, MinOf DEF alloc_fd, FreeSlots
  <2>4. ASSUME NEW fd \in Slots, fd # alloc_fd
        PROVE  gfiles'[fd] = gfiles[fd] /\ gfiles[fd].fd # h
    BY <2>1, <2>2, <2>4 DEF SlotInv, DescriptorsRight
  <2> QED
    BY <2>1, <2>2, <2>3, <2>4 DEF SlotInv, DescriptorsRight, File
<1> QED
  BY <1>1, <1>2 DEF OpenFile, Fails, fail, fail_after

LEMMA OpenDirSlots ==
  ASSUME SlotInv, OpenDir
  PROVE  SlotInv'
<1>1. CASE UNCHANGED <<gfiles, open>>
  BY <1>1 DEF SlotInv, DescriptorsRight
<1>2. CASE /\ FreeSlots # {} /\ gfiles' = [gfiles EXCEPT ![alloc_fd] = Dir(0)]
           /\ open' = open
  <2>1. FreeSlots \in SUBSET Nat /\ FreeSlots \subseteq Slots
    BY UexecAssumption DEF FreeSlots, Slots
  <2>2. alloc_fd \in Slots
    BY <1>2, <2>1, MinOf DEF alloc_fd
  <2> QED
    BY <1>2, <2>2 DEF SlotInv, DescriptorsRight, Dir, Std
<1> QED
  BY <1>1, <1>2 DEF OpenDir, Fails, fail, fail_after

(* Closing a slot above 2 closes a host descriptor nobody else holds, and  *)
(* none of the emulator's.                                                 *)
LEMMA CloseSlots ==
  ASSUME SlotInv, NEW fd \in Slots, Close(fd)
  PROVE  SlotInv'
<1>1. CASE UNCHANGED <<gfiles, open>>
  BY <1>1 DEF SlotInv, DescriptorsRight
<1>2. CASE /\ gfiles' = [gfiles EXCEPT ![fd] = Free]
           /\ open' = IF HostCloses(fd) THEN open \ {gfiles[fd].fd} ELSE open
  <2> DEFINE h == gfiles[fd].fd
  <2>1. ASSUME NEW k \in Slots, k # fd
        PROVE  gfiles'[k] = gfiles[k] /\ (h >= 0 => gfiles[k].fd # h)
    BY <1>2, <2>1 DEF SlotInv, DescriptorsRight
  <2>2. gfiles'[fd] = Free /\ gfiles' \in [Slots -> [fd : Int, pos : Int]]
    BY <1>2 DEF SlotInv, Free
  <2>3. HostCloses(fd) => h >= 0 /\ h \notin Std
    BY DEF SlotInv, HostCloses
  <2>4. Std \subseteq open'
    BY <1>2, <2>3 DEF SlotInv, DescriptorsRight
  <2>5. \A k \in Slots : gfiles'[k].fd >= 0 => k # fd /\ gfiles'[k].fd \in open'
    BY <1>2, <2>1, <2>2, <2>3 DEF SlotInv, DescriptorsRight, Free
  <2>6. \A k \in Slots : k > 2 => gfiles'[k].fd \notin Std
    BY <2>1, <2>2 DEF SlotInv, Free, Std
  <2>7. \A k, l \in Slots : gfiles'[k].fd >= 0 /\ gfiles'[k].fd = gfiles'[l].fd => k = l
    BY <2>1, <2>5 DEF SlotInv, DescriptorsRight
  <2> QED
    BY <2>2, <2>4, <2>5, <2>6, <2>7 DEF SlotInv, DescriptorsRight
<1> QED
  BY <1>1, <1>2 DEF Close, Fails, fail, fail_after

(* A directory read or seek moves a position and no descriptor.            *)
LEMMA MoveSlots ==
  ASSUME SlotInv, NEW fd \in Slots, NEW p \in Int,
         gfiles' = [gfiles EXCEPT ![fd].pos = p], open' = open
  PROVE  SlotInv'
BY DEF SlotInv, DescriptorsRight

LEMMA MaxNat ==
  ASSUME NEW n \in Int
  PROVE  Max({0, n}) \in Nat
<1>1. \E x \in {0, n} : \A y \in {0, n} : x >= y
  OBVIOUS
<1>2. Max({0, n}) \in {0, n} /\ Max({0, n}) >= 0
  BY <1>1 DEF Max
<1> QED
  BY <1>2

LEMMA ReadSlots ==
  ASSUME SlotInv, NEW fd \in Slots, NEW buf, NEW nb \in Counts, Read(fd, buf, nb)
  PROVE  SlotInv'
<1>1. CASE UNCHANGED <<gfiles, open>>
  BY <1>1 DEF SlotInv, DescriptorsRight
<1> DEFINE n == Min({nb, Max({0, DirLen - gfiles[fd].pos})})
<1>2. CASE IsDir(fd) /\ gfiles' = [gfiles EXCEPT ![fd].pos = @ + n] /\ open' = open
  <2>1. gfiles[fd].pos \in Int /\ DirLen - gfiles[fd].pos \in Int /\ nb \in Nat
    BY UexecAssumption DEF SlotInv, Counts
  <2>2. {nb, Max({0, DirLen - gfiles[fd].pos})} \in SUBSET Nat
    BY <2>1, MaxNat
  <2>3. n \in Nat
    BY <2>2, MinOf
  <2> DEFINE p == gfiles[fd].pos + n
  <2>4. p \in Int
    BY <2>1, <2>3
  <2>5. gfiles' = [gfiles EXCEPT ![fd].pos = p]
    BY <1>2
  <2> HIDE DEF p
  <2> QED
    BY <1>2, <2>4, <2>5, MoveSlots
<1>3. \A m, files : Deliver(buf, m, files) => gfiles' = files /\ open' = open
  BY DEF Deliver, fail_after
<1> QED
  BY <1>1, <1>2, <1>3 DEF Read, Fails, fail, fail_after

LEMMA SeekSlots ==
  ASSUME SlotInv, NEW fd \in Slots, NEW off \in Int, NEW whence \in 0 .. 3,
         Seek(fd, off, whence)
  PROVE  SlotInv'
<1>1. CASE UNCHANGED <<gfiles, open>>
  BY <1>1 DEF SlotInv, DescriptorsRight
<1>2. CASE ~UNCHANGED <<gfiles, open>>
  <2> DEFINE from == (<<0, gfiles[fd].pos, DirLen>>)[whence + 1]
  <2>1. whence \in 0 .. 2 /\ open' = open
        /\ gfiles' = [gfiles EXCEPT ![fd].pos = Max({0, off + from})]
    BY <1>2 DEF Seek, Fails, fail, fail_after, Answers
  <2>2. from \in Int
    BY <2>1, UexecAssumption DEF SlotInv
  <2> HIDE DEF from
  <2>3. Max({0, off + from}) \in Int
    BY <2>2, MaxNat
  <2> QED
    BY <2>1, <2>3, MoveSlots
<1> QED
  BY <1>1, <1>2

LEMMA ServicedSlots ==
  ASSUME SlotInv, Serviced
  PROVE  SlotInv'
<1>1. CASE UNCHANGED <<gfiles, open>>
  BY <1>1 DEF SlotInv, DescriptorsRight
<1>2. CASE PathCall \/ \E buf \in Buffers : stat(buf) \/ ftime(buf)
  BY <1>1, <1>2 DEF PathCall, stat, ftime, Structure, Answers, Fails, fail, fail_after
<1>3. CASE \E fd \in Slots, buf \in Buffers : fstat(fd, buf) \/ ioctl(fd, buf)
  BY <1>1, <1>3 DEF fstat, ioctl, Structure, Answers, Fails, fail, fail_after
<1>4. CASE \E fd \in Slots, buf \in Buffers, nb \in Counts : Write(fd, buf, nb)
  BY <1>1, <1>4 DEF Write, Answers, Fails, fail, fail_after
<1>5. CASE \E pipe, device \in BOOLEAN : mknod(pipe, device)
  BY <1>1, <1>5 DEF mknod, Answers, Fails, fail, fail_after
<1>6. CASE \/ \E seg \in 0 .. InstMax + 1 : Brk(seg)
           \/ \E id \in Ids : setuid(id) \/ setgid(id)
  BY <1>1, <1>6 DEF Brk, setuid, setgid, Fails, fail, fail_after
<1>7. CASE \E fd \in Slots, off \in -1 .. 1, whence \in 0 .. 3 : Seek(fd, off, whence)
  BY <1>7, SeekSlots
<1>8. CASE AskBreak \/ getuid \/ getgid
  BY <1>1, <1>8 DEF AskBreak, getuid, getgid, Answers
<1> QED
  BY <1>2, <1>3, <1>4, <1>5, <1>6, <1>7, <1>8, OpenFileSlots, OpenDirSlots, CloseSlots,
     ReadSlots DEF Serviced

LEMMA NextSlots ==
  ASSUME SlotInv, [Next]_vars
  PROVE  SlotInv'
<1>1. CASE UNCHANGED <<gfiles, open>>
  BY <1>1 DEF SlotInv, DescriptorsRight
<1>2. CASE Syscall
  BY <1>2, ServicedSlots DEF Syscall
<1>3. CASE Gap
  BY <1>1, <1>3 DEF Gap, Fails, fail, fail_after
<1> QED
  BY <1>1, <1>2, <1>3 DEF Next, vars, Exit, StackLost, Other, End

LEMMA InitSlots == Init => SlotInv
BY UexecAssumption DEF Init, SlotInv, DescriptorsRight, Slots, Std, File, Free

(* The host descriptor of every guest slot is open and its own, and the    *)
(* emulator's streams stay open, through any sequence of calls             *)
(* (alloc_fd and cases 5, 6 and 8 of sys_hook).                            *)
THEOREM DescriptorsSound == Spec => []DescriptorsRight
<1>1. Init => SlotInv
  BY InitSlots
<1>2. SlotInv => DescriptorsRight
  BY DEF SlotInv
<1> QED
  BY <1>1, <1>2, NextSlots, PTL DEF Spec

-----------------------------------------------------------------------------
(* Calls.  One is refused, and then nothing has changed, or is done, and   *)
(* then what it stored has memory.                                         *)
Refused ==
  /\ r1' = -1 /\ errno' # "none" /\ stored' = {} /\ (moved' => errno' = "EFAULT")
  /\ UNCHANGED <<Referred, open, process>>
Completed ==
  /\ r1' = -1 => meant' \in AllOnes
  /\ \A s \in stored' : s <= InstMax

ProcessInv == {brk_addr, guest_uid, guest_gid} \subseteq Nat

LEMMA FailsRefused ==
  ASSUME NEW code, code # "none", Fails(code)
  PROVE  Refused
<1>1. ~moved'
  <2>1. moved' = (0 > 0)
    BY DEF Fails, fail, fail_after
  <2>2. (0 > 0) = FALSE
    OBVIOUS
  <2> QED
    BY <2>1, <2>2, Zenon
<1>2. r1' = -1 /\ errno' # "none" /\ stored' = {} /\ UNCHANGED <<open, process, gfiles>>
  BY DEF Fails, fail, fail_after
<1>3. UNCHANGED Referred
  BY <1>2 DEF Referred
<1> QED
  BY <1>1, <1>2, <1>3 DEF Refused

(* Of the numbers a call answers only all ones is -1 to the guest.         *)
LEMMA RetCompleted ==
  ASSUME NEW n, NEW v \in Nat, NEW segs, \A s \in segs : s <= InstMax,
         ret_after(n, v, segs)
  PROVE  Completed
<1>1. Int16(v) = -1 => v = Word - 1
  BY UexecAssumption DEF Int16
<1> QED
  BY <1>1 DEF ret_after, Completed, AllOnes

LEMMA RetWideCompleted ==
  ASSUME NEW v \in Nat, ret_wide(v)
  PROVE  Completed
<1>1. Wide(v) = -1 => v = Word * Word - 1
  BY DEF Wide
<1> QED
  BY <1>1 DEF ret_wide, Completed, AllOnes

(* A position is not what a descriptor refers to.                          *)
LEMMA DeliverRight ==
  ASSUME NEW buf, NEW n \in Nat, NEW files, Deliver(buf, n, files),
         [k \in Slots |-> files[k].fd] = Referred
  PROVE  Refused \/ Completed
<1>1. CASE u_range_ok(buf, n)
  <2>1. /\ ret_after(n, n, Touched(buf, n))
        /\ \A s \in Touched(buf, n) : s <= InstMax
    BY <1>1 DEF Deliver, u_range_ok
  <2> QED
    BY <2>1, RetCompleted
<1>2. CASE ~u_range_ok(buf, n)
  BY <1>2 DEF Deliver, fail_after, Refused, Referred
<1> QED
  BY <1>1, <1>2

LEMMA RetRight ==
  ASSUME NEW v \in Nat, ret(v, {})
  PROVE  Completed
BY RetCompleted DEF ret

LEMMA AnswersRight ==
  ASSUME NEW v \in Nat, Answers(v, {})
  PROVE  Completed
BY RetRight DEF Answers

LEMMA StructureRight ==
  ASSUME NEW buf, Structure(buf)
  PROVE  Refused \/ Completed
<1>1. CASE u_range_ok(buf, StructLen)
  <2>1. /\ ret_after(0, 0, Touched(buf, StructLen))
        /\ \A s \in Touched(buf, StructLen) : s <= InstMax
    BY <1>1 DEF Structure, Answers, ret, u_range_ok
  <2> QED
    BY <2>1, RetCompleted
<1>2. CASE ~u_range_ok(buf, StructLen)
  BY <1>2, FailsRefused DEF Structure
<1> QED
  BY <1>1, <1>2

LEMMA AllocNat ==
  ASSUME FreeSlots # {}
  PROVE  alloc_fd \in Nat
<1>1. FreeSlots \in SUBSET Nat
  BY UexecAssumption DEF FreeSlots, Slots
<1> QED
  BY <1>1, MinOf DEF alloc_fd

(* What a read of a directory delivers.                                    *)
LEMMA DirectoryBytes ==
  ASSUME SlotInv, NEW fd \in Slots, NEW nb \in Counts
  PROVE  Min({nb, Max({0, DirLen - gfiles[fd].pos})}) \in Nat
<1>1. DirLen - gfiles[fd].pos \in Int /\ nb \in Nat
  BY UexecAssumption DEF SlotInv, Counts
<1>2. {nb, Max({0, DirLen - gfiles[fd].pos})} \in SUBSET Nat
  BY <1>1, MaxNat
<1> QED
  BY <1>2, MinOf

LEMMA SeekRight ==
  ASSUME SlotInv, NEW fd \in Slots, NEW off \in Int, NEW whence \in 0 .. 3,
         Seek(fd, off, whence)
  PROVE  Refused \/ Completed
<1>1. CASE Fails("EBADF") \/ Fails("EIO") \/ Fails("EINVAL")
  BY <1>1, FailsRefused
<1>2. CASE \E to \in Positions : ret_wide(to)
  <2>1. Word * Word - 1 \in Nat
    <3>1. Word \in Nat /\ Word >= 2
      BY UexecAssumption
    <3>2. Word * Word >= 2 * Word /\ Word * Word \in Nat
      BY <3>1, SMTT(30)
    <3> QED
      BY <3>1, <3>2
  <2> QED
    BY <1>2, <2>1, RetWideCompleted DEF Positions
<1> DEFINE to == off + (<<0, gfiles[fd].pos, DirLen>>)[whence + 1]
<1>3. CASE whence \in 0 .. 2 /\ ret_wide(Max({0, to}))
  <2>1. (<<0, gfiles[fd].pos, DirLen>>)[whence + 1] \in Int
    BY <1>3, UexecAssumption DEF SlotInv
  <2>2. to \in Int
    BY <2>1
  <2> HIDE DEF to
  <2> QED
    BY <1>3, <2>2, MaxNat, RetWideCompleted
<1> QED
  BY <1>1, <1>2, <1>3 DEF Seek

LEMMA ServicedRight ==
  ASSUME SlotInv, ProcessInv, Serviced
  PROVE  Refused \/ Completed
<1>0. ASSUME ret(0, {}) PROVE Completed
  BY <1>0, RetRight
<1>1. ASSUME Answers(0, {}) PROVE Completed
  BY <1>1, AnswersRight
<1>2. \A code \in {"EFAULT", "EIO", "EMFILE", "EISDIR", "EBADF", "EINVAL", "ENOTTY",
                  "EPERM", "ENOMEM"} : Fails(code) => Refused
  BY FailsRefused
<1>3. CASE OpenFile \/ OpenDir
  <2>1. ASSUME r1' = -1, errno' = "EMFILE", stored' = {}, ~moved',
               UNCHANGED open, UNCHANGED <<gfiles, process>>
        PROVE  Refused
    BY <2>1 DEF Refused, Referred
  <2>2. ASSUME FreeSlots # {}, ret(alloc_fd, {}) PROVE Completed
    BY <2>2, AllocNat, RetRight
  <2> QED
    BY <1>2, <1>3, <2>1, <2>2 DEF OpenFile, OpenDir, NoSlot
<1>4. CASE PathCall \/ AskBreak \/ getuid \/ getgid
  <2>1. CASE PathCall
    BY <1>1, <1>2, <2>1 DEF PathCall
  <2>2. CASE AskBreak
    BY <2>2, RetWideCompleted DEF AskBreak, ProcessInv
  <2>3. CASE getuid \/ getgid
    BY <2>3, AnswersRight DEF getuid, getgid, ProcessInv
  <2> QED
    BY <1>4, <2>1, <2>2, <2>3
<1>5. ASSUME NEW fd \in Slots, Close(fd) PROVE Refused \/ Completed
  BY <1>0, <1>2, <1>5 DEF Close
<1>6. ASSUME NEW fd \in Slots, NEW buf \in Buffers, fstat(fd, buf) \/ ioctl(fd, buf)
      PROVE  Refused \/ Completed
  BY <1>1, <1>2, <1>6, StructureRight DEF fstat, ioctl
<1>7. ASSUME NEW fd \in Slots, NEW buf \in Buffers, NEW nb \in Counts, Write(fd, buf, nb)
      PROVE  Refused \/ Completed
  <2>1. ASSUME NEW n \in 0 .. nb, ret_after(n, n, {}) PROVE Completed
    <3>1. n \in Nat
      BY DEF Counts
    <3> QED
      BY <2>1, <3>1, RetCompleted
  <2> QED
    BY <1>2, <1>7, <2>1 DEF Write
<1>8. ASSUME NEW fd \in Slots, NEW buf \in Buffers, NEW nb \in Counts, Read(fd, buf, nb)
      PROVE  Refused \/ Completed
  <2>1. ASSUME NEW n
        PROVE  [k \in Slots |-> [gfiles EXCEPT ![fd].pos = @ + n][k].fd] = Referred
    BY DEF SlotInv, Referred
  <2>2. [k \in Slots |-> gfiles[k].fd] = Referred
    BY DEF Referred
  <2>3. \A n \in 0 .. nb : n \in Nat
    BY DEF Counts
  <2>4. Min({nb, Max({0, DirLen - gfiles[fd].pos})}) \in Nat
    BY DirectoryBytes
  <2> DEFINE m == Min({nb, Max({0, DirLen - gfiles[fd].pos})})
             moves == [gfiles EXCEPT ![fd].pos = @ + m]
  <2>5. \/ Fails("EBADF") \/ Fails("EIO") \/ Deliver(buf, m, moves)
        \/ \E n \in 0 .. nb : Deliver(buf, n, gfiles)
    BY <1>8 DEF Read
  <2>6. m \in Nat /\ [k \in Slots |-> moves[k].fd] = Referred
    BY <2>1, <2>4
  <2> HIDE DEF m, moves
  <2>7. Deliver(buf, m, moves) => Refused \/ Completed
    BY <2>6, DeliverRight
  <2>8. ASSUME NEW n \in 0 .. nb, Deliver(buf, n, gfiles) PROVE Refused \/ Completed
    BY <2>2, <2>3, <2>8, DeliverRight
  <2> QED
    BY <1>2, <2>5, <2>7, <2>8
<1>9. ASSUME NEW fd \in Slots, NEW off \in -1 .. 1, NEW whence \in 0 .. 3,
             Seek(fd, off, whence)
      PROVE  Refused \/ Completed
  BY <1>9, SeekRight
<1>10. ASSUME NEW buf \in Buffers, stat(buf) \/ ftime(buf) PROVE Refused \/ Completed
  BY <1>1, <1>2, <1>10, StructureRight DEF stat, ftime
<1>11. ASSUME NEW pipe, NEW device, mknod(pipe, device) PROVE Refused \/ Completed
  BY <1>1, <1>2, <1>11 DEF mknod
<1>12. ASSUME NEW seg \in 0 .. InstMax + 1, Brk(seg) PROVE Refused \/ Completed
  <2>1. seg \in Nat
    BY UexecAssumption
  <2> QED
    BY <1>2, <1>12, <2>1, RetWideCompleted DEF Brk
<1>13. ASSUME NEW id, setuid(id) \/ setgid(id) PROVE Refused \/ Completed
  BY <1>0, <1>2, <1>13 DEF setuid, setgid
<1> QED
  BY <1>3, <1>4, <1>5, <1>6, <1>7, <1>8, <1>9, <1>10, <1>11, <1>12, <1>13 DEF Serviced

(* The break and the identity stay numbers.                                *)
LEMMA ServicedProcess ==
  ASSUME ProcessInv, Serviced
  PROVE  ProcessInv'
<1>1. CASE UNCHANGED process
  BY <1>1 DEF process, ProcessInv
<1>2. ASSUME NEW seg \in 0 .. InstMax + 1, Brk(seg) PROVE ProcessInv'
  BY <1>1, <1>2, UexecAssumption DEF Brk, Fails, fail, fail_after, ProcessInv
<1>3. ASSUME NEW id \in Ids, setuid(id) \/ setgid(id) PROVE ProcessInv'
  <2>1. id \in Nat
    BY UexecAssumption
  <2> QED
    BY <1>1, <1>3, <2>1 DEF setuid, setgid, Fails, fail, fail_after, ProcessInv
<1>4. CASE OpenFile \/ OpenDir \/ PathCall \/ AskBreak \/ getuid \/ getgid
  BY <1>1, <1>4 DEF OpenFile, OpenDir, PathCall, AskBreak, getuid, getgid, Answers,
     Fails, fail, fail_after
<1>5. ASSUME NEW fd \in Slots, NEW buf, NEW nb,
             Close(fd) \/ Write(fd, buf, nb) \/ Read(fd, buf, nb)
      PROVE  ProcessInv'
  <2>1. CASE Close(fd)
    BY <1>1, <2>1 DEF Close, Fails, fail, fail_after
  <2>2. CASE Write(fd, buf, nb)
    BY <1>1, <2>2 DEF Write, Fails, fail, fail_after
  <2>3. \A n, files : Deliver(buf, n, files) => UNCHANGED process
    BY DEF Deliver, fail_after
  <2>4. CASE Read(fd, buf, nb)
    BY <1>1, <2>3, <2>4 DEF Read, Fails, fail, fail_after
  <2> QED
    BY <1>5, <2>1, <2>2, <2>4
<1>6. ASSUME NEW fd, NEW buf,
             fstat(fd, buf) \/ ioctl(fd, buf) \/ stat(buf) \/ ftime(buf)
      PROVE  ProcessInv'
  BY <1>1, <1>6 DEF fstat, ioctl, stat, ftime, Structure, Answers, Fails, fail, fail_after
<1>7. ASSUME NEW fd, NEW off, NEW whence, Seek(fd, off, whence)
      PROVE  ProcessInv'
  BY <1>1, <1>7 DEF Seek, Fails, fail, fail_after
<1>8. ASSUME NEW pipe, NEW device, mknod(pipe, device) PROVE ProcessInv'
  BY <1>1, <1>8 DEF mknod, Answers, Fails, fail, fail_after
<1> QED
  BY <1>2, <1>3, <1>4, <1>5, <1>6, <1>7, <1>8 DEF Serviced

(* What the last call left for the guest to read.                          *)
AnswerInv ==
  /\ ProcessInv
  /\ r1 = -1 /\ meant \notin AllOnes =>
       errno # "none" /\ stored = {} /\ (moved => errno = "EFAULT")
  /\ \A s \in stored : s <= InstMax

Step == /\ r1' = -1 /\ meant' \notin AllOnes => Refused
        /\ \A s \in stored' : s <= InstMax

LEMMA NextRight ==
  ASSUME SlotInv, AnswerInv, [Next]_vars
  PROVE  AnswerInv' /\ Step
<1>1. CASE UNCHANGED <<gfiles, open, answer, process>>
  BY <1>1 DEF AnswerInv, ProcessInv, AllOnes, Step, Refused, Referred, answer, process
<1>2. ASSUME Refused \/ Completed, ProcessInv' PROVE AnswerInv' /\ Step
  BY <1>2 DEF Refused, Completed, AnswerInv, AllOnes, Step
<1>3. CASE Syscall
  BY <1>2, <1>3, ServicedRight, ServicedProcess DEF Syscall, AnswerInv
<1>4. CASE Gap
  <2>1. CASE Fails("EINVAL")
    <3>1. Refused
      BY <2>1, FailsRefused
    <3>2. ProcessInv'
      BY <2>1 DEF Fails, fail, fail_after, process, AnswerInv, ProcessInv
    <3> QED
      BY <1>2, <3>1, <3>2
  <2> QED
    BY <1>1, <1>4, <2>1 DEF Gap
<1> QED
  BY <1>1, <1>3, <1>4 DEF Next, vars, Exit, StackLost, Other, End

(* A call that answers -1, and not because all ones is the answer it is    *)
(* asked for, has an errno and has changed nothing but, when a read's      *)
(* bytes have no memory, the position in its file; and nothing is stored   *)
(* outside installed memory, for segments, tables and counts of every size *)
(* (fail, u_range_ok, u_addr).                                             *)
THEOREM CallsSound == Spec => DoneOrRefused
<1>1. Init => SlotInv /\ AnswerInv
  BY InitSlots DEF Init, AnswerInv, ProcessInv
<1>2. SlotInv /\ AnswerInv /\ [Next]_vars => (SlotInv /\ AnswerInv)'
  BY NextSlots, NextRight
<1>3. SlotInv /\ AnswerInv /\ [Next]_vars =>
        [/\ r1' = -1 /\ meant' \notin AllOnes =>
              /\ errno' # "none" /\ stored' = {}
              /\ UNCHANGED <<Referred, open, process>>
              /\ moved' => errno' = "EFAULT"
         /\ \A s \in stored' : s <= InstMax]_vars
  BY NextRight DEF Step, Refused
<1> QED
  BY <1>1, <1>2, <1>3, PTL DEF Spec, DoneOrRefused

-----------------------------------------------------------------------------
(* The end.  A run goes on only while it has not exited, and a call        *)
(* without service that was not warned of has stopped it, or is beyond the *)
(* table and all are accepted.                                             *)
EndType ==
  /\ report \in {"running", "exit", "no exit", "stopped"}
  /\ halted \in BOOLEAN /\ exec_exited \in BOOLEAN /\ accept_all \in BOOLEAN
  /\ left \in Nat
Counted ==
  report # "stopped" =>
    made \ Beyond = warned /\ (made \cap Beyond # {} => accept_all)
EndInv == EndType /\ Counted /\ ReportTruthful

(* One instruction leaves the types.                                       *)
LEMMA InstructionType ==
  ASSUME EndType, Instruction, UNCHANGED accept_all,
         report' \in {"running", "stopped"}, halted' \in BOOLEAN, exec_exited' \in BOOLEAN
  PROVE  EndType'
<1>1. left' \in Nat
  BY DEF EndType, Instruction, Stepping
<1> QED
  BY <1>1 DEF EndType

(* While it runs nothing is reported; of a run that was stopped, nothing   *)
(* but that it had not exited.                                             *)
LEMMA Unreported ==
  ASSUME EndType', Counted', report' = "running" \/ (report' = "stopped" /\ ~exec_exited')
  PROVE  EndInv'
BY DEF EndInv, ReportTruthful

LEMMA NextEnd ==
  ASSUME EndInv, [Next]_vars
  PROVE  EndInv'
<1>0. EndType /\ Counted /\ ReportTruthful
  BY DEF EndInv
<1>1. CASE UNCHANGED vars
  BY <1>1 DEF vars, flags, EndInv, EndType, Counted, ReportTruthful
<1>2. CASE Syscall \/ Exit \/ Other
  <2>1. Instruction /\ report' = "running" /\ UNCHANGED <<accept_all, made, warned>>
    BY <1>2 DEF Syscall, Exit, Other, Instruction, Stepping, flags
  <2>2. halted' \in BOOLEAN /\ exec_exited' \in BOOLEAN
    BY <1>0, <1>2 DEF Syscall, Exit, Other, flags, EndType
  <2>3. Counted'
    BY <1>0, <2>1 DEF Instruction, Stepping, Counted
  <2> QED
    BY <1>0, <2>1, <2>2, <2>3, InstructionType, Unreported
<1>3. CASE Gap
  <2>1. Instruction /\ report = "running" /\ ~exec_exited
    BY <1>3 DEF Gap, Instruction, Stepping
  <2>2. UNCHANGED <<halted, exec_exited, accept_all>>
    BY <1>3 DEF Gap, flags
  <2>3. halted' \in BOOLEAN /\ exec_exited' \in BOOLEAN /\ ~exec_exited'
    BY <1>0, <2>1, <2>2 DEF EndType
  <2>4. PICK num \in Gaps :
          /\ made' = made \cup {num}
          /\ IF policy_ok(num)
             THEN warned' = warned \cup ({num} \ Beyond) /\ UNCHANGED report
             ELSE report' = "stopped"
    BY <1>3 DEF Gap
  <2>5. CASE ~policy_ok(num)
    <3>1. report' = "stopped" /\ Counted'
      BY <2>4, <2>5 DEF Counted
    <3> QED
      BY <1>0, <2>1, <2>2, <2>3, <3>1, InstructionType, Unreported
  <2>6. CASE policy_ok(num)
    <3>1. num \in Beyond => accept_all
      BY <2>6, UexecAssumption DEF policy_ok
    <3>2. made' \ Beyond = (made \ Beyond) \cup ({num} \ Beyond)
      BY <2>4
    <3>3. made' \cap Beyond # {} => made \cap Beyond # {} \/ num \in Beyond
      BY <2>4
    <3>4. Counted'
      BY <1>0, <2>1, <2>2, <2>4, <2>6, <3>1, <3>2, <3>3 DEF Counted
    <3>5. report' = "running"
      BY <2>1, <2>4, <2>6
    <3> QED
      BY <1>0, <2>1, <2>2, <2>3, <3>4, <3>5, InstructionType, Unreported
  <2> QED
    BY <2>5, <2>6
<1>4. CASE StackLost
  <2>1. Instruction /\ report' = "stopped" /\ ~exec_exited
    BY <1>4 DEF StackLost, Instruction, Stepping
  <2>2. UNCHANGED <<halted, exec_exited, accept_all>>
    BY <1>4 DEF StackLost, flags
  <2>3. halted' \in BOOLEAN /\ exec_exited' \in BOOLEAN /\ ~exec_exited'
    BY <1>0, <2>1, <2>2 DEF EndType
  <2>4. Counted'
    BY <2>1 DEF Counted
  <2> QED
    BY <1>0, <2>1, <2>2, <2>3, <2>4, InstructionType, Unreported
<1>5. CASE End
  <2>1. UNCHANGED <<halted, exec_exited, accept_all>> /\ UNCHANGED <<left, made, warned>>
    BY <1>5 DEF End, flags
  <2>2. report = "running" /\ report' = IF NoExit THEN "no exit" ELSE "exit"
    BY <1>5 DEF End
  <2>3. urun = 0 <=> left # 0 /\ (halted \/ exec_exited)
    BY DEF urun
  <2>4. left # 0 <=> left > 0
    <3>1. left \in Nat
      BY <1>0 DEF EndType
    <3> QED
      BY <3>1
  <2>5. EndType'
    BY <1>0, <2>1, <2>2 DEF EndType
  <2>6. Counted'
    BY <1>0, <2>1, <2>2 DEF Counted
  <2>7. CASE NoExit
    <3>1. ~exec_exited /\ (halted => left = 0)
      BY <2>3, <2>7 DEF NoExit
    <3>2. report' = "no exit"
      BY <2>2, <2>7
    <3> QED
      BY <2>1, <2>5, <2>6, <3>1, <3>2 DEF EndInv, ReportTruthful
  <2>8. CASE ~NoExit
    <3>1. exec_exited \/ (halted /\ left > 0)
      BY <2>3, <2>4, <2>8 DEF NoExit
    <3>2. report' = "exit"
      BY <2>2, <2>8
    <3>3. ReportTruthful'
      BY <2>1, <2>6, <3>1, <3>2 DEF Counted, ReportTruthful
    <3> QED
      BY <2>5, <2>6, <3>3 DEF EndInv
  <2> QED
    BY <2>7, <2>8
<1> QED
  BY <1>1, <1>2, <1>3, <1>4, <1>5 DEF Next

(* An exit status is reported of a run that exited, or halted with budget  *)
(* left, and of no other; a run that exited is reported so; and the calls  *)
(* passed over were warned of, those beyond the table excepted (urun,      *)
(* run_exec, policy_ok, sys_hook).                                         *)
THEOREM ReportSound == Spec => []ReportTruthful
<1>1. Init => EndInv
  BY UexecAssumption DEF Init, EndInv, EndType, Counted, ReportTruthful
<1>2. EndInv => ReportTruthful
  BY DEF EndInv
<1> QED
  BY <1>1, <1>2, NextEnd, PTL DEF Spec
=============================================================================
