-------------------------------- MODULE Uexec --------------------------------
(***************************************************************************)
(* Running a program as a process (uexec.c): the loop urun, the service of *)
(* COHERENT system calls sys_hook, and what run_exec reports at the end.   *)
(*                                                                         *)
(* Calls with the same control are one action.  A file's contents, a       *)
(* path's text and the host's file system are left out: a host call        *)
(* succeeds, or fails with an error, and a host open yields the lowest     *)
(* free host descriptor.  An address is a segment and an offset.           *)
(***************************************************************************)
EXTENDS Integers, FiniteSetsExt

CONSTANTS
  MaxFd,        \* descriptors of the guest: 256
  HostMax,      \* descriptors the host has
  Word,         \* values of a word, and bytes of a segment: 2^16
  InstMax,      \* highest segment installed, inst_max
  StructLen,    \* bytes of a structure
  DirLen,       \* records of a directory
  Ids,          \* user and group numbers, 0 the super-user
  Gaps,         \* calls without service,
  Accepted,     \* those of them that may pass (accept_set),
  Beyond,       \* and those of a number the table does not have, 128 and up
  Budget        \* instructions

ASSUME UexecAssumption ==
  /\ MaxFd \in Nat /\ MaxFd >= 3 /\ HostMax \in Nat /\ HostMax >= 3
  /\ Word \in Nat \ {0, 1} /\ {InstMax, StructLen, DirLen, Budget} \subseteq Nat
  /\ 0 \in Ids /\ Ids \subseteq 0 .. Word - 1
  /\ Accepted \subseteq Gaps \ Beyond /\ Beyond \subseteq Gaps

VARIABLES
  gfiles,        \* the guest's descriptors: Free, or a host one, or a directory
  open,          \* the host's open descriptors
  r1, errno,     \* the last call's answer, and the guest's errno word
  meant, moved,  \* history: the answer as the service had it, Refusal for
                 \* none; and did the call advance in its file?
  stored,        \* the segments the last call stored to
  brk_addr,      \* the segment of the break
  guest_uid, guest_gid,
  accept_all,    \* does every call without service pass?
  warned,        \* warned_syscall
  halted, fault, exec_exited,
  left,          \* instructions left of the budget
  report,        \* what run_exec reports
  made           \* the calls without service made so far: history

process == <<brk_addr, guest_uid, guest_gid>>
answer  == <<r1, errno, meant, moved, stored>>
flags   == <<halted, fault, exec_exited, accept_all>>
vars == <<gfiles, open, answer, process, warned, flags, left, report, made>>

Free    == [fd |-> -2, pos |-> 0]
File(h) == [fd |-> h, pos |-> 0]
Dir(at) == [fd |-> -1, pos |-> at]

Slots == 0 .. MaxFd - 1
Std   == 0 .. 2

Init ==
  /\ gfiles = [fd \in Slots |-> IF fd \in Std THEN File(fd) ELSE Free]
  /\ open = Std
  /\ r1 = 0 /\ meant = 0 /\ moved = FALSE /\ errno = "none" /\ stored = {}
  /\ brk_addr = 0 /\ accept_all \in BOOLEAN
  /\ guest_uid = 0 /\ guest_gid = 0 /\ warned = {} /\ made = {}
  /\ halted = FALSE /\ fault = FALSE /\ exec_exited = FALSE
  /\ left = Budget /\ report = "running"

-----------------------------------------------------------------------------
(* User memory.  A buffer's bytes carry past the end of a segment into the *)
(* next one (u_addr).                                                      *)
Buffers == [seg : 0 .. InstMax + 1, off : 0 .. Word - 1]
Counts  == 0 .. Word - 1

Segment(v, k)  == v.seg + (v.off + k) \div Word
Touched(v, n)  == {Segment(v, k) : k \in 0 .. n - 1}

u_range_ok(v, n) == \A s \in Touched(v, n) : s <= InstMax

-----------------------------------------------------------------------------
(* Answers.                                                                *)

Refusal == -1

(* A word, read as the int it is to the guest.                             *)
Int16(n) == IF n < Word \div 2 THEN n ELSE n - Word

(* All ones in two words is -1 as well; other long answers are themselves. *)
Wide(v) == IF v = Word * Word - 1 THEN -1 ELSE v

(* A failure after n bytes of the file were passed.                        *)
fail_after(n, code) ==
  /\ r1' = -1 /\ meant' = Refusal /\ moved' = (n > 0)
  /\ errno' = code /\ stored' = {}
  /\ UNCHANGED <<open, process>>

fail(code) == fail_after(0, code)

(* A success stores to the segments segs, and leaves errno alone.  The     *)
(* number v it answers is passed on as an int16_t.                         *)
ret_after(n, v, segs) ==
  /\ r1' = Int16(v) /\ meant' = v /\ moved' = (n > 0)
  /\ stored' = segs /\ UNCHANGED errno

ret(v, segs) == ret_after(0, v, segs)

ret_wide(v) == /\ r1' = Wide(v) /\ meant' = v /\ moved' = FALSE
               /\ stored' = {} /\ UNCHANGED errno

Fails(code) == fail(code) /\ UNCHANGED gfiles
Answers(v, segs) == ret(v, segs) /\ UNCHANGED <<gfiles, open, process>>

Used(fd) == fd \in Slots /\ gfiles[fd] # Free
IsDir(fd) == gfiles[fd].fd = -1

-----------------------------------------------------------------------------
(* Descriptors.                                                            *)

FreeSlots == {fd \in Slots : ~Used(fd)}
alloc_fd  == Min(FreeSlots)
HostFree  == (0 .. HostMax - 1) \ open

(* Mutant: a host descriptor without a guest's is left open.               *)
NoSlot_left_open(h) == open \cup {h}

(* No descriptor for an open file: it is closed again.                     *)
NoSlot(h) == open

(* open and creat of a file, in the code's order: the host's open first.   *)
OpenFile ==
  \/ Fails("EFAULT")                     \* path_arg
  \/ Fails("EIO")                        \* whatever the host answers
  \/ /\ HostFree # {}
     /\ LET h == Min(HostFree)
        IN  IF FreeSlots = {}
            THEN /\ r1' = -1 /\ meant' = Refusal /\ moved' = FALSE
                 /\ errno' = "EMFILE" /\ stored' = {}
                 /\ open' = NoSlot(h) /\ UNCHANGED <<gfiles, process>>
            ELSE /\ gfiles' = [gfiles EXCEPT ![alloc_fd] = File(h)]
                 /\ open' = open \cup {h} /\ ret(alloc_fd, {}) /\ UNCHANGED process

(* open of a directory: its image is built, and no host descriptor kept.   *)
OpenDir ==
  \/ Fails("EISDIR")
  \/ IF FreeSlots = {} THEN Fails("EMFILE")
     ELSE /\ gfiles' = [gfiles EXCEPT ![alloc_fd] = Dir(0)]
          /\ ret(alloc_fd, {}) /\ UNCHANGED <<open, process>>

(* Mutant: the guest's standard streams close the host's.                  *)
HostCloses_all(fd) == gfiles[fd].fd >= 0

(* Is the host descriptor closed too?  Never behind the guest's 0, 1, 2.   *)
HostCloses(fd) == gfiles[fd].fd >= 0 /\ fd > 2

Close(fd) ==
  IF ~Used(fd) THEN Fails("EBADF")
  ELSE /\ gfiles' = [gfiles EXCEPT ![fd] = Free]
       /\ open' = IF HostCloses(fd) THEN open \ {gfiles[fd].fd} ELSE open
       /\ ret(0, {}) /\ UNCHANGED process

(* A terminal or a pipe may take fewer bytes than it is given.             *)
Write(fd, buf, nb) ==
  IF ~Used(fd) \/ IsDir(fd) THEN Fails("EBADF")
  ELSE IF ~u_range_ok(buf, nb) THEN Fails("EFAULT")
  ELSE \/ Fails("EIO")
       \/ \E n \in 0 .. nb : ret_after(n, n, {}) /\ UNCHANGED <<gfiles, open, process>>

(* The n bytes delivered are stored if all of them have memory.  The file  *)
(* has moved on by then.                                                   *)
Deliver(buf, n, files) ==
  /\ gfiles' = files
  /\ IF u_range_ok(buf, n)
     THEN ret_after(n, n, Touched(buf, n)) /\ UNCHANGED <<open, process>>
     ELSE fail_after(n, "EFAULT")

Read(fd, buf, nb) ==
  IF ~Used(fd) THEN Fails("EBADF")
  ELSE IF IsDir(fd)
  THEN LET n == Min({nb, Max({0, DirLen - gfiles[fd].pos})})
       IN  Deliver(buf, n, [gfiles EXCEPT ![fd].pos = @ + n])
  ELSE Fails("EIO") \/ \E n \in 0 .. nb : Deliver(buf, n, gfiles)

(* A file may be of any length, and so may the position answered be all    *)
(* ones.  Seeks of a directory are bounded to one record past its end.     *)
Positions == {0, Word * Word - 1}
Seek(fd, off, whence) ==
  IF ~Used(fd) THEN Fails("EBADF")
  ELSE IF ~IsDir(fd)
  THEN \/ Fails("EIO")
       \/ \E to \in Positions : ret_wide(to) /\ UNCHANGED <<gfiles, open, process>>
  ELSE IF whence > 2 THEN Fails("EINVAL")
  ELSE LET to == off + (<<0, gfiles[fd].pos, DirLen>>)[whence + 1]
       IN  /\ to <= DirLen + 1
           /\ gfiles' = [gfiles EXCEPT ![fd].pos = Max({0, to})]
           /\ ret_wide(Max({0, to})) /\ UNCHANGED <<open, process>>

(* A structure stored through a pointer.                                   *)
Structure(buf) ==
  IF u_range_ok(buf, StructLen) THEN Answers(0, Touched(buf, StructLen))
  ELSE Fails("EFAULT")

fstat(fd, buf) == IF ~Used(fd) THEN Fails("EBADF")
                  ELSE Fails("EIO") \/ Structure(buf)

(* Of a terminal only; setting its modes does nothing.                     *)
ioctl(fd, buf) ==
  IF ~Used(fd) THEN Fails("EBADF")
  ELSE \/ Fails("ENOTTY")
       \/ ~IsDir(fd) /\ (Fails("EINVAL") \/ Answers(0, {}) \/ Structure(buf))

(* unlink link chdir utime chmod access: a path, then the host; also the   *)
(* calls that only answer, and not -1 (sync chown getpid signal umask).    *)
(* stat stores a structure as well, and ftime only that, unless it has no  *)
(* pointer.                                                                *)
PathCall  == Fails("EFAULT") \/ Fails("EIO") \/ Answers(0, {})
stat(buf) == Fails("EFAULT") \/ Fails("EIO") \/ Structure(buf)
ftime(buf) == Answers(0, {}) \/ Structure(buf)

(* mknod: only the super-user makes anything but a pipe, and nobody a      *)
(* device.                                                                 *)
mknod(pipe, device) ==
  \/ Fails("EFAULT")
  \/ IF (~pipe /\ guest_uid # 0) \/ device THEN Fails("EPERM")
     ELSE Fails("EIO") \/ Answers(0, {})

-----------------------------------------------------------------------------
(* The process: its break and its identity.                                *)

(* A break of 0 only asks.  No break is installed where a pointer to it    *)
(* would be all ones.                                                      *)
Brk(seg) ==
  IF seg > InstMax THEN Fails("ENOMEM")
  ELSE /\ brk_addr' = seg /\ ret_wide(seg)
       /\ UNCHANGED <<gfiles, open, guest_uid, guest_gid>>
AskBreak == ret_wide(brk_addr) /\ UNCHANGED <<gfiles, open, process>>

getuid == Answers(guest_uid, {})
getgid == Answers(guest_gid, {})

setuid(id) ==
  IF id # guest_uid /\ guest_uid # 0 THEN Fails("EPERM")
  ELSE guest_uid' = id /\ ret(0, {}) /\ UNCHANGED <<gfiles, open, brk_addr, guest_gid>>

(* The user decides about the group as well.                               *)
setgid(id) ==
  IF id # guest_gid /\ guest_uid # 0 THEN Fails("EPERM")
  ELSE guest_gid' = id /\ ret(0, {}) /\ UNCHANGED <<gfiles, open, brk_addr, guest_uid>>

(* Every call that has a service; exit apart.                              *)
Serviced ==
  \/ OpenFile \/ OpenDir \/ PathCall \/ AskBreak \/ getuid \/ getgid
  \/ \E fd \in Slots : Close(fd)
  \/ \E fd \in Slots, buf \in Buffers :
       \/ fstat(fd, buf) \/ ioctl(fd, buf)
       \/ \E nb \in Counts : Write(fd, buf, nb) \/ Read(fd, buf, nb)
  \/ \E fd \in Slots, off \in -1 .. 1, whence \in 0 .. 3 : Seek(fd, off, whence)
  \/ \E buf \in Buffers : stat(buf) \/ ftime(buf)
  \/ \E pipe, device \in BOOLEAN : ~(pipe /\ device) /\ mknod(pipe, device)
  \/ \E seg \in 0 .. InstMax + 1 : Brk(seg)
  \/ \E id \in Ids : setuid(id) \/ setgid(id)

-----------------------------------------------------------------------------
(* The loop.                                                               *)

Stepping == report = "running" /\ left > 0 /\ ~halted /\ ~exec_exited /\ ~fault
Instruction == Stepping /\ left' = left - 1

Syscall == /\ Instruction /\ Serviced
           /\ UNCHANGED <<warned, flags, report, made>>

(* exit: the run stops at the top of the loop.                             *)
Exit == /\ Instruction
        /\ exec_exited' = TRUE
        /\ UNCHANGED <<gfiles, open, answer, process, halted, fault, accept_all,
                       warned, report, made>>

(* Mutant: the calls beyond the table pass with the others.                *)
policy_ok_beyond(num) == accept_all \/ num \in Accepted \cup Beyond

policy_ok(num) == accept_all \/ num \in Accepted

(* A call without service fails with EINVAL and, if the table has it, with *)
(* a warning; or it stops the run there.                                   *)
Gap ==
  /\ Instruction
  /\ \E num \in Gaps :
       /\ made' = made \cup {num}
       /\ IF policy_ok(num)
          THEN /\ Fails("EINVAL") /\ warned' = warned \cup ({num} \ Beyond)
               /\ UNCHANGED report
          ELSE /\ report' = "stopped"
               /\ UNCHANGED <<gfiles, open, answer, process, warned>>
  /\ UNCHANGED flags

(* A system call made with the stack pointer in no memory stops the run.   *)
StackLost ==
  /\ Instruction /\ report' = "stopped"
  /\ UNCHANGED <<gfiles, open, answer, process, flags, warned, made>>

(* Any other instruction; it may halt, or ask for a trap nobody serves.    *)
Other ==
  /\ Instruction
  /\ \/ UNCHANGED <<halted, fault>>
     \/ halted' = TRUE /\ UNCHANGED fault
     \/ fault' = TRUE /\ UNCHANGED halted
  /\ UNCHANGED <<exec_exited, accept_all, gfiles, open, answer, process, warned, report, made>>

(* urun's answer: 0, 1 for a fault, 2 for the budget.                      *)
urun == IF left = 0 THEN 2 ELSE IF halted \/ exec_exited THEN 0 ELSE 1

(* Mutant: a run that did not end well has not exited.                     *)
NoExit_by_urun == urun # 0

(* Did the run end without an exit status?                                 *)
NoExit == ~exec_exited /\ urun # 0

End ==
  /\ report = "running" /\ ~Stepping
  /\ report' = IF NoExit THEN "no exit" ELSE "exit"
  /\ UNCHANGED <<gfiles, open, answer, process, flags, left, warned, made>>

Next == Syscall \/ Exit \/ Gap \/ StackLost \/ Other \/ End

Spec == Init /\ [][Next]_vars

-----------------------------------------------------------------------------
(* Descriptors stay told apart: the host descriptor of every guest slot is *)
(* open, no two slots share one, and the emulator's own streams stay open, *)
(* through any sequence of opens, closes of 0, 1 and 2, and failures for   *)
(* want of a slot (alloc_fd, cases 5, 6 and 8).  Were a standard stream    *)
(* closed, the next open would take its number and the emulator's messages *)
(* would go to the guest's file.                                           *)
DescriptorsRight ==
  /\ Std \subseteq open
  /\ \A fd \in Slots : gfiles[fd].fd >= 0 => gfiles[fd].fd \in open
  /\ \A fd, other \in Slots :
       gfiles[fd].fd >= 0 /\ gfiles[fd].fd = gfiles[other].fd => fd = other

(* A call is done or is refused: after one that answers -1 there is an     *)
(* errno, and it has changed nothing, neither the guest's descriptors,     *)
(* memory, break and identity nor the host's open files; and whatever a    *)
(* call stores, it stores in installed memory, also where the buffer       *)
(* carries into the next segment (fail, u_range_ok, u_addr).  Two things   *)
(* are apart.  A read whose bytes have no memory is refused after the file *)
(* has moved past them.  And a call that is done may answer all ones: a    *)
(* transfer of 65535 bytes, such a user number, the last position an lseek *)
(* can answer; the guest cannot tell it from a refusal, and errno may be   *)
(* an older one.                                                           *)
Referred == [fd \in Slots |-> gfiles[fd].fd]
AllOnes  == {Word - 1, Word * Word - 1}
DoneOrRefused ==
  [][/\ r1' = -1 /\ meant' \notin AllOnes =>
         /\ errno' # "none" /\ stored' = {}
         /\ UNCHANGED <<Referred, open, process>>
         /\ moved' => errno' = "EFAULT"
     /\ \A s \in stored' : s <= InstMax]_vars

(* What is reported of a run is so: an exit status, that it exited, or     *)
(* halted with some of its budget left; none, that it did not exit, and    *)
(* halted with the last instruction of the budget if at all (urun looks at *)
(* halted before an instruction and not after the last).  A run that       *)
(* exited is never reported otherwise, whatever its last instruction.  And *)
(* every call without service that was passed over has been warned of,     *)
(* those beyond the table excepted, which pass only where every call does  *)
(* (urun, run_exec, policy_ok, the default case of sys_hook).              *)
ReportTruthful ==
  /\ report = "exit" =>
       /\ exec_exited \/ (halted /\ left > 0)
       /\ made \ Beyond = warned
       /\ made \cap Beyond # {} => accept_all
  /\ report = "no exit" => ~exec_exited /\ (halted => left = 0)
  /\ exec_exited => report \in {"running", "exit"}
=============================================================================
