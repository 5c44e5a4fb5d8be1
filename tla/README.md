# A verification of the Commodore 900 emulator

This directory models the emulator of `src/` in TLA+, checks the models with TLC
and proves the most important invariants with TLAPS. It contains:

1. [The system](#1-the-system): an inventory of its parts
2. [Modules](#2-modules): which module models what, and how
3. [Runs](#3-runs): what is checked, with which bounds
4. [Fairness](#4-fairness)
5. [Proofs](#5-proofs)
6. [Observed while modelling](#6-observed-while-modelling)
7. [What is not modelled](#7-what-is-not-modelled)
8. [Plan](#8-plan)

Paths below are relative to `src/src/` unless they say otherwise.

## 1. The system

The program interprets Z8001 code in one thread. `machine_run` (`bus.c`) is the
main loop: look at the console and the wires, advance the timer, drive the CPU's
interrupt line from the devices, call `cpu_step` (`cpu.c`), and look for reasons
to stop. `--exec` (`uexec.c`) replaces that loop and the devices by a loop of its
own that services the system calls of one COHERENT program on the host. There
are no threads and no locks. What makes the program hard is that guest code and
the host's user act between any two steps, and that most state is read at one
time and used at a later one: requests latched at a boundary and taken behind
another trap, a divider brought up to date only when somebody looks, a cache of
a table that guest code rewrites one byte at a time, counters from which the
emulator guesses what the guest is doing.

### Components

| Component | State | Operations | What makes it correct |
|---|---|---|---|
| MMU (`mmu.c`) | descriptors, their fast-path cache, SAR/DSC, mode, violation registers | command writes and reads, translation | the cache never differs from the table it was built from; protection on both paths; the first violation's context survives |
| CPU traps (`cpu.c`) | FCW, PC, R14/R15 and the saved bank, latched requests, stacks | `cpu_step`, `handle_interrupts`, `change_fcw`, IRET, LDPS, LDCTL, HALT | each mode's stack pointer stays with its mode; a nested context is resumed as it was; every trap requested is taken |
| Block instructions (`cpu.c`) | pointer, count, flags, the rewound PC | one element, give way, resume | every element exactly once |
| CPU and MMU | fault and warning flags of the instruction | memory helpers, end of `cpu_step` | a violation becomes a trap before the next instruction |
| Interrupt aggregation and CT3 (`bus.c`) | timer, receivers, `disk_vi`, the line and its vector | one loop iteration, device registers | no completion lost or repeated; no vector nobody asked for |
| Disk controller (`bus.c`) | command blocks, their base, image files | doorbell | the media hold what the drivers were told; every armed block is answered |
| Clock (`bus.c`) | digits; divider base, held fraction, strobe levels | port writes and reads, carries | time is conserved; the digits are a calendar |
| Console feeder (`bus.c`) | script position, prompt, quiet and poll counters | feed, poll, print, read | no byte lost, or typed at a running command; the script gets through |
| Output marks (`bus.c`) | match position of each port | transmit | a mark is found exactly where it is printed |
| Ends of a run (`bus.c`, `main.c`) | stop request and reason, instruction budget, halted counter, park watch | one pass of the loop, SIGINT | a run is ended for the reason given and for no other; a guest that gets nowhere is ended; the exit status tells the two apart |
| ALU and data instructions (`alu.c`, `cpu.c`) | none of their own | arithmetic, shifts, MULT, DIV, PUSH, CALL | results and flags are those of integer arithmetic; stacks are last in, first out |
| Program loader (`uexec.c`) | segments, the argument frame | `lout_layout`, loading, `put_str` | every byte in a place of its own |
| User-mode executor (`uexec.c`, `hostfs.h`) | guest descriptors, host descriptors, break, identity, ends of the run | `urun`, `sys_hook` | descriptors stay apart; a call is done or refused; the status reported is one that happened |
| Serial channels (`bus.c`) | receive byte, overrun latch, WR1, WR9, register pointer | register reads and writes, one offer per pass | a byte received is read once; one destroyed is reported |
| Wires (`wire.c`) | a socket and the endpoint's buffer of it | put, poll, close | the bytes the socket took arrive once each, in order |
| Debugger (`debug.c`) | breakpoints with counts, dump windows | hit test, dump | an instruction with a breakpoint does not run past its count |
| Decoder (`decode.c`) | its table | decode | the words fetched are those the executor takes; each register field is read from its own nibble |
| Memory map (`bus.c`), the rest of `main.c`, `tools/disk.py` | bytes, options | | (not modelled, section 7) |

### Interactions

Components share the `Machine` and `Cpu` structures and call one another
directly. The calls that carry behaviour from one part to another are:

* CPU to MMU: every memory cycle is an `mmu_translate`; a violation comes back
  as `c->fault` or `warn_pending` and is read when the instruction retires
  (`SegTrap`).
* CPU to devices: special I/O commands to the MMU, `io_write` to the serial
  chips, the counter chip with the clock behind its ports, and the doorbell.
* Devices to CPU: one VI line and a vector, recomputed by `machine_run` before
  each `cpu_step`; `disk_vi` is a one-shot that `machine_run` clears when the
  interrupt taken was the disk's (`Interrupts`, `Hdc`).
* Devices to the loop's own watches: transmitted bytes move mark positions, a
  mark opens type-ahead, prompts and polls move the feeder (`MarkMatch`,
  `Console`).
* The loop to the wires and the receivers: a port whose receiver is empty, or may
  be overrun, is offered one byte a pass, from its endpoint (`Serial`).
* Everything to the end of the run: a mark, the stop port, a breakpoint and the
  keyboard raise `m->stop`, which the next pass looks at; the checks after
  `cpu_step` leave the loop at once (`RunLoop`).

### What is hard

`PROJECT.json` lists the hazards with their lines. They fall into five groups:
state kept twice (the fast-path cache, the two stack-pointer banks, the divider
and the digits); requests latched at one boundary and served at another (VI
behind a trap, the tag of an internal trap, `disk_vi`); resumption (nested
traps, rewound block instructions); guesses about the guest (feeder, idle exit,
park watch), each with a liveness obligation as well as a safety one; and
edges (carries, shift counts, quotients, stack offsets, limits of descending
segments, full buffers, and the three hundred entries of a table in which each
opcode's registers are named by hand).

## 2. Modules

Names follow the source. Every definition's lines are in the `map` of
`PROJECT.json`. A definition under a comment "Mutant:" is a plausible mistake in
the definition below it; with it in that definition's place the property it is
listed with must fail.

| Module | Models | Composition |
|---|---|---|
| `Mmu` | the 64-descriptor MMU and its command port | |
| `SegTrap` | the memory helpers and the end of `cpu_step` | extends `Mmu` |
| `Cpu` | traps, interrupts, modes and the two stack pointers | |
| `BlockOp` | a repeating instruction with everything that interrupts it | |
| `Interrupts` | CT3, the daisy chain, the VI line and its sampling | |
| `VectorGuest` | the same with a kernel's handlers | extends `Interrupts` |
| `Media` | what the disk controller promises: two media, and the armed transfer or none of it | |
| `Hdc` | the disk controller, its two drives and their images | implements `Media` |
| `Line` | what a serial line promises the guest | |
| `Serial` | wire endpoint, receiver and channel registers | implements `Line` |
| `Rtc` | strobes, chip select, STOP and the lazy divider | |
| `Console` | the scripted-input half of `machine_run` with its guest | |
| `Park` | the park watch | |
| `RunLoop` | the main loop as far as it ends a run, breakpoints, exit status | extends `Park` |
| `Uexec` | `urun`, `sys_hook` and the report of `run_exec` | |
| `Alu`, `Stack`, `RtcCalendar`, `MarkMatch`, `Lout`, `Decode` | pure algorithms, as operators | used by `Algorithms` |
| `Algorithms` | applies them to enumerated inputs, step by step | extends the six |
| `MmuProofs` | theorems about the MMU and its violations as traps | extends `SegTrap` |
| `CpuProofs` | theorems about traps and modes, block instructions | extends `Cpu`, `BlockOp` |
| `InterruptsProofs`, `UexecProofs`, `RunLoopProofs` | theorems | extend the module they name |
| `SerialProofs` | theorems about the serial line and the console feeder | extends `Serial`, `Console` |
| `DeviceProofs` | theorems about the disk controller and the clock's divider | extends `Hdc`, `Rtc` |
| `AlgorithmsProofs` | what the algorithms compute | extends `Algorithms` |
| `MC*` | constants for TLC | extend the module they name |

How state and actions correspond to the code:

* `Mmu`. One action per command of `mmu_cmd_write` and `mmu_cmd_read` that
  changes state, and `mmu_translate` for a cycle. A descriptor write
  (`PutByte` with its step) is the whole handler: the store, the step of SAR and
  DSC, and the refresh of the fast-path entry of the descriptor captured before
  the step. A byte is a record of a number
  below `B`, for bases and limits, and a set of named bits, for attributes; an
  offset is `B` pages of `B` bytes.
* `SegTrap`. `at` says where `cpu_step` is. `owed` is history: a cycle was denied
  and no segment trap has been taken since.
* `Cpu`. A stack-pointer register is modelled by the mode that owns its value
  and the number of trap frames on that stack. `ctx` is history: the contexts
  interrupted and not resumed. A data instruction is `Ordinary`: any next PC and
  any outcome of its cycles, no other effect on this state. Every action has the
  outcome of its cycles as a parameter (`Cycles`), IRET too: a pop the MMU denies is
  made all the same, what it reads is whatever the guest keeps there, and the fault
  overrides the PC. A warned or denied IRET is followed by a trap entry, so it is
  bounded, as the others are, to what `MaxFrames` leaves room for.
* `BlockOp`. One instruction from its start until it is past. An element is
  named by its address; each page answers "ok" or "warn". `stale` is a write
  warning left by an earlier instruction. `start` and `moved` are history.
* `Interrupts`. An iteration of the loop is a "bus" step and a "cpu" step. A
  vector is the source it names. The wires and the keyboard bring a byte now and
  then, when `tick_counter` is 0; the console's script may in every iteration. `owed`
  (completions the guest was not told of) and `asked` (sources that requested since
  the last VI) are history.
* `VectorGuest` puts a guest behind the vector: either one that does anything, or
  a kernel that enters a handler with VIE off, answers the source and returns.
  `handler` says where it is, `script` how many bytes are left to be typed at it.
* `Hdc`. `hdc_process` is an operator on a record of the controller's state; the
  doorbell applies it for one drive and then, with the base wherever it is now,
  for the other. `Medium` maps an image file, which may be shorter than its disk,
  to the medium it stands for, the missing sectors zero, and `Slot` a command
  block to the command in it. Under these maps the controller implements `Media`. Its
  doorbell looks at the hard disk's slot and then at the floppy's, behind wherever
  the base is then; of a slot that is armed it makes exactly the transfer the
  command names, `n` sectors from `lba` to or from the buffers at `at`, or changes
  nothing, and answers by which it was. A write to a protected image, which the code
  reports as made, is the stated exception.
* `Serial`. `sock` and `buf` are the two queues between the far end's put and the
  receiver. `sent` and `got` are history. The refinement to `Line` calls
  everything the socket took and the receiver has not given up `flight`, the
  unread byte of the receiver included.
* `Rtc`. The digits are one count of seconds. `run` and `selected` are history:
  the instructions the oscillator has seen, the carries that fell while /CS was
  asserted. The digits themselves are `RtcCalendar`.
* `Console`. Instruction counts appear as the levels they are compared with
  (`streak`, `quiet`). `shell`, `lines` and `heard` are the guest.
* `Park` and `RunLoop`. One pass of `machine_run` is one action, `Pass`: the
  keyboard, the feeder, the interrupt line, `cpu_step` with the breakpoint test in
  front, the halted check, the park watch. The two tests at its head are steps of
  their own where the first finds nothing and the second something (`NotAsked`,
  `OutOfBudget`), because SIGINT may come between them; nothing else in a pass looks
  at `m->stop`. `sig` is all of the guest that the watch compares: a PC, which is
  what a breakpoint sees, the registers, and the script's position with the
  console's stamp, which the feeder may change in any pass, those of a halted guest
  included. `latched` is the trap a HALT's own fetch asks for. History: `asked`,
  whether a stop channel has asked for the end; `late`, whether SIGINT came between
  the two tests; `done`, how often the instruction at a PC has begun; `last` and
  `still`, the guest at the instant it last halted and for how many halted passes
  every halt has begun so.
* `Decode`. A control word keeps the selects that say where operands come from,
  not the operation. `OperandsFetched` compares the decoder's lengths, the short
  segmented form included, with the words the executor goes on to use;
  `NibblesApart` demands that no nibble of an instruction has two meanings.
* `Uexec`. Calls with the same control are one action. A host call succeeds or
  fails; a host open yields the lowest free host descriptor. An answer goes back
  through the int or the long helper (`Int16`, `Wide`): `r1` is what the guest
  reads, and the history `meant` what the service had. `moved` says that the call
  passed bytes of a file. `Beyond` are the call numbers the table does not have.
* `Algorithms`. A job is an input of one algorithm; a step applies it once. The
  algorithms of the program are thereby used as the program uses them: limb
  after limb with the flags of one passed to the next, pushes and pops in any
  order, one carry a second.

## 3. Runs

`PROJECT.json` lists the runs with what each shows.

| Run | Properties | Bounds, and why they are enough |
|---|---|---|
| `mmu_traps` | `CacheCoherent` `ProtectionEnforced` `ContextFrozen` `FaultsReported` | two descriptors, which a step of SAR needs to reach the wrong one; two pages, so that limit 0 and the full limit 1 are both boundary values. Bytes are an ascending segment of full size, executable system code, and a descending segment; cycles touch both pages from both modes. `CommandPort` bounds the states in which both descriptors are in use to those with no violation on record; the proofs have no such bound. |
| `cpu` | `BankOwner` `ContextsResumable` `TagFaithful` `IretRestores` `TrapsTaken` | three nested frames (`MaxFrames`): a trap in a handler in a handler. Handlers start segmented, non-segmented and with interrupts enabled; the FCWs in the guest's memory (`GuestFcws`), which LDCTL, LDPS and a denied pop may load, are of both modes and both segmentations. |
| `block` | `EveryElementOnce` `Completes` | register modulus `W` = 4, so that a zero count and a wrapping pointer are reached; every start, count, match and page; two device requests (`MaxVi`). |
| `rtc` | `TimeConserved` `SelectedOnly` | a second of 3 instructions, 7 instructions in all (`MaxInsns`), so that two carries fall between accesses with a fraction left. |
| `console` | `NoByteLost` `CommandSafe` `ScriptTyped` | every script of up to three bytes, every position of `\g`, a mark, two texts without prompt (`MaxNoise`). |
| `stops` | `OnlyParked` `BreakHonoured` `ExitTruthful` `RunEnds` | two PCs, two positions of the script; no budget and one of two instructions; three breakpoint tables, one of them with two entries for one PC; repeating instructions of up to two elements (`Burst`), so that a budget is overshot; park budget 2, excursions of 2, halted limit 2, hit counts to 2 (`MaxCount`): an excursion fits between halts, a byte is typed before, at and after a halt, and each way of ending a run can come first. |
| `vi` | `DiskOwed` `VectorAsked` `DiskDelivered` | one channel; a handler of 3 iterations, a byte of its wire at most every 6 (`WirePeriod`) and two of the console's script (`Script`) at any time, a tick every 7 or 8, whatever time constant is written (0 and 20 lie outside the bounds). 3/6 + 3/7 < 1: the sources ahead of the disk nearly fill the CPU and leave room for it. |
| `hdc` | `MediaKept` `EveryArmedAnswered` | a disk of one sector and a floppy of two whose image is trimmed, full or empty; transfers of up to two sectors, so that one starts inside and ends outside; three block places, the base moved once (`Relocates`). |
| `serial` | `LineKept` `NothingStranded` | a socket of 3, an endpoint buffer of 2, five bytes sent of two kinds: the socket overflows, and a refill takes part of it. |
| `algorithms` | `ArithmeticRight` `ShiftsRight` `DivisionRight` `StackRight` `ClockIsCalendar` `MarksFound` `ImagePlaced` `ArgumentsPlaced` `OperandsFetched` `NibblesApart` | words of 3 bits (all inputs, two limbs), all sums of two two-digit decimals, counts past the width, all pairs of a 6-bit dividend and a divisor; stacks of 4 words (`MaxStack`) in segments of 8 bytes around the wrap; the ends of months of a century, three seconds (`MaxTicks`); all marks of up to four of two characters, five printed (`MaxOut`); sections of up to two bytes in segments of 3; up to four arguments; every opcode, segmented and not, with both forms of address (of the second nibble the decoder only asks whether it is zero: 0 and 5). |
| `uexec` | `DescriptorsRight` `DoneOrRefused` `ReportTruthful` | four guest and six host descriptors, words of two bits and segments of four bytes, so that the largest count is all ones and halves of the counts are negative; structures of two bytes; a call that is stopped, one accepted by name and one beyond the table; five instructions (`Budget`): close and reopen a standard stream, fill the table, fail, exit. |
| `push_wrap` | `PushStoresAtSp` (violated) | the stacks of `algorithms`. |

The bounds named in the modules cap counters only; the guards they appear in
are nowhere those of the code. Runs whose system really ends, or whose bounded
counters run out, have deadlock checking off; in the others it is on.

`block`, `console`, `cpu`, `vi`, `stops` and `serial` check safety and liveness under
one specification, so that the liveness claims are about the states the safety properties see.

### Where the code departs from its own comments

`push_wrap` is expected to fail, and the finding in `PROJECT.json` quotes the
comment. A non-segmented PUSH subtracts from segment and offset together and
gives only the offset back to the register. With the pointer at offset 0 the
word goes to FFFE of the segment below, while the register, read with the PC's
segment, points at FFFE of the segment itself; the word is not read back.
`push_word` and POP wrap the offset alone. `StackRight` leaves those pushes out
(`borrows`) and holds of all others, CALL and RET included.

## 4. Fairness

* `cpu` (`FairSpec`): weak fairness of `TakeInterrupt`. `machine_run` calls
  `cpu_step` for ever, and `cpu_step` looks at latched requests first.
* `block` (`BlockSpec`): weak fairness of the CPU's steps, for the same reason, and
  of `Return`: handlers return. The emulator cannot promise the latter; a guest
  whose handler does not return has no claim on its block instruction.
* `console` (`ConsoleFairSpec`): the loop runs on (weak fairness of `Next`), and the
  guest is alive: it boots, reads what it is given, runs what it read, falls
  silent again and again and, up to `\g`, prompts. These are strong fairness
  conditions on the guest, which a feeder cannot make true; past `\g` no prompt
  is assumed, and that is the case the feeder's fallbacks are for.
* `stops` (`Spec`): the loop never waits (weak fairness of a pass or of leaving).
  What the guest has to do for its run to end is a premise of `RunEnds`, not
  fairness: it retires instructions, or from some time on every wakeup is brief
  and every halt finds it as the last one left it, which is the definition of the
  guest `park_step` is meant to catch.
* `vi` (`GuestSpec`): weak fairness of the whole next-state relation, the loop and
  the guest in turn. `DiskDelivered` is claimed of the kernel alone, whose
  handlers return in the time the model gives them; the emulator owes nothing to
  a guest that keeps VIE off.
* `serial` (`FairSpec`): the loop offers a byte in every pass, the guest runs on,
  and it takes the byte again and again when there is one. The last is strong
  fairness: an access with a register pointer left over may disable it.

The other runs check safety only.

## 5. Proofs

TLAPS checks all theorems of the eight `*Proofs` modules to the last leaf, for
every value of the constants their modules' assumptions allow. Some invariants
(`TypeOK`, `VtrConsistent`, `NoRequestWhileInhibited`, `FramesIntact`) are proved
without being listed in a run: they support the others.

`MmuProofs`, for every byte width and every number of descriptors:

| Theorem | Property |
|---|---|
| `TypeCorrect` | `TypeOK` |
| `CacheSound` | `CacheCoherent` |
| `VtrSound` | `VtrConsistent` |
| `ProtectionSound` | `ProtectionEnforced` |
| `ContextSound` | `ContextFrozen` |
| `InhibitSound` | `NoRequestWhileInhibited` |

The inductive invariant is `TypeOK /\ CacheCoherent /\ VtrConsistent`. Coherence
needs the types, to know that the descriptor refreshed is in the table, and
nothing else: the proof has one step per command, and the step of a
descriptor write rests on the refresh using the index captured before SAR moves. That translation
obeys protection is not inductive but follows in every state from coherence:
where the cache calls a descriptor simple, no rung of the ladder of checks could
have failed. The two action properties follow from one lemma on latching a
violation.

`CpuProofs`, for every program status area, every set of FCWs a guest may load
and every number of vectors:

| Theorem | Property |
|---|---|
| `TypeCorrect` | `TypeOK` |
| `BankSound` | `BankOwner` |
| `FramesSound` | `FramesIntact` |
| `ContextsSound` | `ContextsResumable` |
| `TagSound` | `TagFaithful` |
| `IretSound` | `IretRestores` |

`BankOwner` alone is not inductive: IRET loads an FCW from memory, and only
`FramesIntact` with `ContextsResumable` says that it is the FCW of a context
whose banks were right. The inductive invariant is the conjunction of the
four with `TagFaithful`, and `IretRestores` follows from it in the state before
the IRET: whatever the MMU does, the stack pointers are those of the interrupted
context, and PC, FCW and banks are too unless a pop is denied, which leaves the PC
after the IRET and a segment trap requested. All six theorems assume that system software does not load NSPSEG in
non-segmented mode (`~NonSegNsp`, section 6 says why). Types and tags need the
assumption too: with a bank out of place a trap would be pushed above the end of
the modelled stack.

The second part of `CpuProofs` is about `BlockOp`: `ElementsSound` proves
`EveryElementOnce` for every register width, starting pointer and count, match set
and pattern of warnings and interrupts. The invariant `Progress(k)` says what
registers and memory are after `k` elements, and ties the rewound PC to the
question whether there is an element left: an instruction that is to be resumed,
at once or when a handler returns, has one, and one that is past has none and its
flags say why. What it rests on is that the pointer names different elements for
different `k` below the count (`Ring`), also where it wraps. The theorem assumes
that no access faults, as the run does (`"fault" \notin Pages`): an element a fault
skips is not made up for (section 6).

The second part of `MmuProofs`: `TrapImplementsMmu` shows that `TrapSpec` implements the `Spec`
of `Mmu`: a cycle or command of the CPU is one of the MMU, the end of an
instruction is `TakeWarning` or, with no warning pending, a stutter, and the rest
of the CPU leaves the MMU alone. The theorems of `MmuProofs` thereby hold of the
composition, which is what `mmu_traps` checks (`TrapCacheSound`, `TrapProtectionSound`,
`TrapVtrSound`, `TrapContextSound`, `TrapInhibitSound`). `FaultsSound` proves
`FaultsReported` from the invariant `OnRecord`: a denied cycle that has not led to
a trap is recorded in `fault` while its instruction runs and in `req` from then
on, the entries of other traps included.

`InterruptsProofs`: `DiskSound` and `VectorSound`, for every chain of channels,
every assignment of channels to chips and every timer. The strengthening is that
`last_vi_disk` says whether the vector on the line is the disk's; with it alone
the one-shot can be cleared safely. That the highest pending source is pending
rests on a set of natural numbers having a first element (from the library's
well-foundedness of `<`).

`DeviceProofs`: `MediaSound` proves that `Hdc` implements `Media`, for disks, images,
buffers and counts of every size. `Seen` maps a record of the controller's state to
media, buffers, slots and base; the lemmas are about one file (`StoredMeans`, where the image ends early,
where it grows and where there is none), one transfer of any length (`ReadSound`,
`WriteSound`), one block (`hdc_process` leaves one of the states in which `Media` has
the slot `Served`: the transfer it names or none, and the answer to match) and the
doorbell, which does two of them. `AnswersSound`
proves `EveryArmedAnswered` from the same lemma on the doorbell.

The second part is about the clock: `TimeSound` proves `TimeConserved` for every `Ips`. The property is
inductive together with the registers being numbers; the lemma
`AdvanceConserves` says that an advance moves whole seconds from the fraction to
the count, and `StrobesConserve` that STOP, its release and the post-stage reset
settle the fraction before they move the reference. `SelectedSound` proves
`SelectedOnly`. That alone is not inductive: what an access counts depends on
carries that fell long before it. The strengthening `SelectInv` adds to the
carries counted those an access would count now, and says that `cs_since` lies
in the past and that less than a second is pending where the oscillator stands.
An instruction makes carries pending one for one (`ExecuteSelect`, on the
cardinality of the set of pending carries), an assertion of /CS makes at most
one of them its own (`CarryNow`), and an access leaves none (`NothingLeft`).

`UexecProofs`: `DescriptorsSound`, `CallsSound` and `ReportSound`, for descriptor tables, hosts
and budgets of every size. Descriptors need the strengthening that a slot above 2
never holds one of the emulator's own streams, which is why `close` may close
what such a slot holds. `CallsSound` proves `DoneOrRefused` case by case: each
call is `Refused` or `Completed`, and the steps between calls leave the last
answer in place (`AnswerInv`). An answer of -1 stands for a refusal unless the
service's own answer was all ones; a refused call may have moved in its file. The
report needs that a run not stopped has warned of every call without service that
the table has, and that one beyond the table passed only where all do.

`SerialProofs`: `LineSound` proves that `Serial` implements `Line`, for any bytes and
for sockets and buffers of every size. Besides types, what the steps need is
that a refill, which splits the socket between receiver, buffer and rest, is the
removal of one byte from the front of `Flight` (`Split`, `ServiceTakes`). There is
one lemma per step of the line; a byte that the full socket drops, a hang-up and
the register pointer are stutters.

The second part of `SerialProofs` is about `Console`. `DeliverySound` proves
`NoByteLost` for every script, option and guest: a scripted byte in the receiver is
the last one fed (`Held`). `CommandsSound` proves `CommandSafe` for the scripts whose
carriage returns are paced (`PacedScripts`), for type-ahead asks for the contrary:
`OneCommand` says that at most one line is on its way through the shell, in the
receiver, read or running, and that until its prompt comes the feeder knows it is.

`RunLoopProofs`: `ParkedSound`, `BreakSound` and `ExitSound`, for every budget, guest,
setting of the options and breakpoint table. `ParkInv` says that the watch's count
is at most the number of halted passes since a halt last began otherwise than the
one before it, and that the watch's signature is the one the last halt began with; a
brief excursion disturbs neither, nor does a byte typed while the guest stays halted.
`BreakInv` ties the count of hits to the number of times the instruction began, for
the entry that is looked at. `ExitInv` says that a request not yet acted on is
still in `stop`, and that the budget is looked at, and its flag raised, only where
the test of `stop` before it found none; what `stop` holds then came after that test
and was SIGINT (`late`).

`AlgorithmsProofs` proves eight of the claims about the pure algorithms:

| Theorem | Property | For every |
|---|---|---|
| `ClockSound` | `ClockIsCalendar` | valid seed, 12 or 24 hours, and number of ticks below a century, which is what two digits of the year hold |
| `ArgumentsSound` | `ArgumentsPlaced` | number of arguments and strings of any length |
| `ImageSound` | `ImagePlaced` | link mode, entry and size of the six sections; size and number of the segments |
| `ArithmeticSound` | `ArithmeticRight` | width and operands, one limb or two; every decimal sum of two digits |
| `DivisionSound` | `DivisionRight` | width, dividend and divisor for which C defines the division |
| `MarksSound` | `MarksFound` | mark, number of ports and output of any length |
| `ShiftsSound` | `ShiftsRight` | width of the word, operand and count; needs `Doubling` (below) |
| `StackSound` | `StackRight` | size and number of segments, mode, depth up to `MaxStack` and sequence of pushes, pops, calls and returns |

The prover cannot instantiate an induction theorem, so the module states induction
over sets of numbers, by the least counterexample (`FirstOf`, `Induct`), and
recursion over functions (`Iterate`: the function that a step function defines
exists). A recursive function of a model is then one particular `Iterates`, known to
exist and, by `Induct`, known to be unique where that matters.

* The clock. `DateOf` and `Seconds` number the dates of a century and the times of a
  day. A carry chain that ends at any of its digits is the successor in that
  numbering, leap Februaries included; the invariant `ClockInv` says that the
  registers are as many seconds behind the seed as there were ticks.
* The arguments. `put_str` runs over the strings one by one; the position of each is
  the sum of the lengths before it (`Strings`), so that two do not meet.
* The image. `Laid` says what a list of groups holds: each is filled by its pieces
  without gap or overlap, none is empty, and the file's bytes are those named; one
  group more keeps it so, whether it is left out for being empty or not (`LaidOn`),
  and so each link mode comes to all of the file (`LaidGroups`). A group's segments
  are just enough for its bytes (`NeededMeans`), hence its bytes stay below the next
  group's first segment (`PlaceOf`, `Rising`) and two of them never share a place
  (`PlacesApart`); and what is lost to groups that end inside a segment is less than
  four segments (`Tight`), so that a refusal is right (`RefusedRightly`). That as
  many places are taken as there are bytes is a bijection (`AsMany`).
* The ALU. `carry_chain` is a ripple adder. By induction over the bits (`Chain`,
  `CarrySum`), sum and carry together are the sum of the operands modulo `2^i`.
  `AddFlags` and `SubFlags` turn this into the value, C and PV of `do_add` and
  `do_sub`: the exact unsigned and signed results, reduced. `OneLimb` is the claim
  for one instruction, `TwoLimbs` for ADD then ADC and SUB then SBC, where the carry
  of the first is all that links them; `Corrected` is DAB after an addition. Of
  `2 ^ i` the proofs know what `PowersOfTwo` says, doubling, because the provers
  know less.
* Shifts and rotates. A place to the left doubles the number modulo the width; it
  leaves the signed range exactly when the sign is no longer the operand's, and
  never returns to it, whatever the bits do later (`LeftMeans`), so that the sticky
  PV of `do_shift_left` is an overflow of the whole shift. A place to the right
  halves, rounding down (`RightMeans`). A place of a rotate is undone by one of the
  opposite rotate (`OneBack`), and `TurnsBack` takes them off last first, the carry
  among them for RLC and RRC. A count may be larger than the width, up to 63, so
  `PowersOfTwo`, which ends at the width, is not enough: the theorem has the
  hypothesis `Doubling`, `2 ^ (i + 1) = 2 * 2 ^ i` for `i` up to 62. It is a fact of
  arithmetic and no restriction; it is not an assumption of the module because TLC,
  whose integers have 32 bits, could not evaluate it.
* Division. `exec_div` divides absolute values; `Truncated` says that this is
  division towards zero with the dividend's sign on the remainder. The ranges it
  tells apart are the signed range and the one a bit wider (`Exact`); the packed pair
  reads back as both results (`Divided`), and reads back the multiplicand after
  `exec_mul` (`Undone`).
* The stack. `StackInv` says that the pointer stands at the slot (`Slot`) as deep as
  the words pushed, and that each entry lies in the slots at its depth (`Stacked`).
  A slot is an address modulo the segment, and two are different because
  `MaxStack` words fit a segment (`JobsAssumption`); hence a push leaves the rest
  alone (`KeptBelow`), across the wrap of the offset too. Non-segmented pushes at
  offset 0 are excepted, as in the run (`borrows`).
* The marks. `Longest` says that a port's position is the longest prefix of the mark
  that its output ends with. A character lengthens one of the borders of what was
  matched (`Grows`), the longest that it can; that number is unique, satisfies the
  recursion of `mark_advance`, and is what following the fallbacks finds
  (`Advances`, `AdvanceBack`). The mark is complete exactly when the longest match is
  all of it, so that `Watching` gives `MarksFound`.

Model-checked only:

* liveness (`TrapsTaken`, `Completes`, `ScriptTyped`, `RunEnds`, `NothingStranded`,
  `DiskDelivered`): fairness and `ENABLED` are out of the prover's reach;
* `OperandsFetched` and `NibblesApart`, which are about a finite table and which the
  run checks for every opcode: there is nothing left to generalise.

## 6. Observed while modelling

The models follow the code in these places, and the properties are worded so
that they hold of it. None is refuted by a comment strictly enough to be listed
as a finding, or the model that shows it is not among the runs.

* `cpu.c:1108`: a violation in the fetches of an encoding the decoder does not
  know, or in the pushes of a trap entry, is dropped: `cpu_step` returns, or
  starts the next instruction, without looking at `fault`. `FaultsReported`
  speaks of instructions that decode.
* `cpu.c:1185` and `mmu.c:108`: a hard violation raises a segment trap although
  FATL is set; FATL inhibits the MMU's own output only.
* `cpu.c:122`: a store in a block instruction that faults is skipped; pointers
  and count have moved on, and the re-run after the trap does not make it.
* `cpu.c:1197`: the repeat loop tests lines only `machine_run` updates, so that a
  request raised by the loop's own output is seen after the instruction.
* `cpu.c:626`: LDCTL of NSPSEG in non-segmented system mode writes the saved
  bank, which then holds the system stack's segment. `~NonSegNsp` excludes it.
* `cpu.c:515`, `cpu.c:541`: DIV of the most negative dividend by -1 is undefined
  in C. `Divide` leaves it out.
* `bus.c:484`: one doorbell serves the hard disk and then the floppy at the base
  the hard disk's command may just have moved; a floppy command armed behind the
  old base is not answered. `EveryArmedAnswered` excepts it.
* `bus.c:647`: carries discovered by the access that releases /CS are judged by
  the new level and not counted as selected. `SelectedOnly` is an inequality.
* `bus.c:1110`: the idle exit may fire with the last byte still unread;
  `ScriptTyped` is about bytes typed, not read.
* `bus.c:1160`: a byte released by a mark changes the pacing of the one after it,
  and `bus.c:1166`: a `\i` byte may be released by the paced path before its mark
  is printed (`src/README.md:90` describes the mark as what it waits for).
* `bus.c:990`: "no run that is making progress can reach this bound" holds of what
  the park watch compares. A guest that works in memory, on a wire or on disk and
  halts with the same registers each time is called parked; `OnlyParked` claims
  no more than the watch's signature. The watch compares at the instant of a halt
  only: a byte the feeder types while the guest stays halted is noticed when it next
  halts, and never if nothing wakes it. `OnlyParked` is about the instants.
* `bus.c:1095`: SIGINT caught between the test of `m->stop` and that of the budget
  still ends as "budget exhausted" with status 3. `ExitTruthful` names it as the one
  request that comes too late.
* `cpu.c:1083`: a HALT whose own fetch meets a guard page has a segment trap latched
  when it halts, and the next `cpu_step` wakes it with nothing on the line.
* `cpu.c:658`: the MMU may deny IRET's pops. They are made all the same: the stack
  pointer moves, the FCW read, if its pop was denied, is a word from the untranslated
  address, and it is installed, with its banks, before the fault replaces the PC popped by
  that after the IRET. The context to be resumed is lost. `IretRestores` says
  what is kept of it.
* `bus.c:455`: a write to an image that was opened read-only is answered as made.
* `bus.c`, the keyboard: Ctrl-] raises `m->stop`, but the pass goes on, and an
  instruction that asks for the end in it replaces the reason.
* `bus.c:1093`: a repeating instruction retires all its elements before the budget
  is looked at, so that `--max` can be exceeded.
* `src/README.md:46` says of `--stop-on=none` that it runs "to `--max` whatever
  happens". A guest that halts with its interrupt masked retires nothing, so that
  neither the budget nor a watch ends it; nor does the budget end a guest whose
  handler of unknown encodings is itself unknown. `RunEnds` has these as premises.
  `all` is called the default there; `main.c` starts with `port,park`.
* `debug.c:145`: only the first entry with a PC is looked at, so that an exhausted
  one hides those after it; a repeating instruction resumed after a trap is a hit
  again; an encoding the decoder does not know is none. `BreakHonoured` speaks of
  the first entry.
* `wire.c:134`: a byte put into a full socket is dropped without a trace.
  `bus.c:372` says "nothing is ever lost"; `LineKept` holds from the socket on.
* `cpu.c:567`: the comment on LDM places the extra word of the DA and X forms
  behind the address; the code reads it at `opcode[1]`, before the address, as the
  decoder's lengths have it.
* `cpu.c:1103`: the based-indexed instructions 70 to 77, except 76, are fetched one
  word longer if bit 15 of the index word is set. These bits are reserved, and
  `OperandsFetched` leaves the case out.
* `cpu.c:1107`: `cpu_step` gives the decoder as many words as it asks for, so that the
  sub-decoders' tests for missing words never fire.
* `uexec.c:1564`: a guest that closes 0, opens a file and closes it again leaves
  the host descriptor open. `DescriptorsRight` does not claim the converse.
* `uexec.c:932`: the sizes of a header are not negative, but their sums are C's `int`.
  `Lout` adds without a width; it speaks of images below two gigabytes.
* `uexec.c:1288`: a read whose bytes turn out to have no memory answers EFAULT after
  the position, the host's or a directory's, has moved past them. `DoneOrRefused`
  says so.
* `uexec.c:1265`, `uexec.c:1291`: the count goes back as `int16_t`, so that a transfer
  of 65535 bytes is done and answers -1, without an errno of its own; counts from
  32768 are negative. A user or group number of 65535 and the last position an
  `lseek` can answer read as -1 too. `DoneOrRefused` speaks of answers that are not
  all ones (`AllOnes`).
* `uexec.c:1643`: with accept-all (`N2ACCEPT=all`, `N2STRICT=0`) a call of a number
  from 128 on is made, fails with EINVAL, and is neither warned of nor counted.
  `ReportTruthful` excepts these (`Beyond`).
* `uexec.c:310`: a program that halts is reported as having exited with 0, unless it
  halts with the last instruction of its budget: `urun` looks at `halted` before an
  instruction and not after the last, and reports the budget exhausted.

## 7. What is not modelled

* The bitwise operations, loads, sign extension, bit tests, exchanges and LDM's
  copying, one C operator each; the arithmetic of operand addresses; the memory
  forms of PUSH and POP. `Decode` leaves out the ALU operation an opcode selects.
* NMI, NVI and the CPU's segment-trap line, which nothing in the emulator drives.
* The translate forms of the block instructions, which share the modelled loop.
* `phys_read` and `phys_write`: a pure address decode.
* RR2 and RR3 as software reads them; opening a wire, which is over before the run.
* The dump windows of the debugger, which change no state; the parsing of options
  other than the stop channels and terminal set-up in `main.c`; `tools/disk.py`.
* Host errors in image files other than a short file and a file that could be
  opened for reading only; the contents of files and paths in `--exec`; header
  parsing, symbols and the object-file modes of `uexec.c`.

## 8. Plan

Done, in this order: `Mmu` and `Cpu` with their proofs, `BlockOp`, `SegTrap`,
`Interrupts`, `Hdc`, `Rtc`, `Console`, the park watch, the algorithms, `Uexec`; the
proofs of `SegTrap`, `Rtc`, `Interrupts` and `Uexec`; then the decoder, the serial
line as a refinement with its proof, the ends of a run with breakpoints and their
proofs, a kernel behind the interrupt vector, the disk's media as a refinement,
and the proof of `SelectedOnly`.

Then, with proofs: `EveryElementOnce` of `BlockOp`, `NoByteLost` and `CommandSafe` of
`Console`, the refinement and `EveryArmedAnswered` of `Hdc`, and the calendar, the
argument frame, the image, the arithmetic, the shifts, the division, the stacks and
the marks of `Algorithms`.

Left:

1. An abstract clock that `Rtc` implements, instead of the history variables.
2. The memory map: that word and byte accesses agree at the ends of ROM and RAM.
3. The free list of `tools/disk.py`.
