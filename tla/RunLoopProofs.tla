--------------------------- MODULE RunLoopProofs ----------------------------
(***************************************************************************)
(* How a run ends, for every option setting, table of breakpoints, budget  *)
(* and guest.                                                              *)
(***************************************************************************)
EXTENDS RunLoop, TLAPS

TypeOK ==
  /\ opt \in Opts /\ brks \in Tables /\ sig \in Sigs /\ halted \in BOOLEAN
  /\ insns \in Nat /\ seen \in [DOMAIN brks -> Nat] /\ done \in [PCs -> Nat]
  /\ loops \in Nat /\ was_halted \in BOOLEAN /\ still \in Nat
  /\ stop \in BOOLEAN /\ asked \in BOOLEAN /\ over \in BOOLEAN
  /\ max_reached \in BOOLEAN

LEMMA Tabled ==
  ASSUME TypeOK
  PROVE  /\ \A i \in DOMAIN brks : /\ brks[i].want \in Nat /\ brks[i].want <= MaxCount
                                   /\ brks[i].pc \in PCs
         /\ MaxCount \in Nat /\ Budget \in Nat \ {0}
         /\ \A pc : Entry(pc) \subseteq DOMAIN brks
<1>1. brks \in Tables /\ brks \in Seq(Brk)
  BY RunAssumption DEF TypeOK
<1>2. \A i \in DOMAIN brks : brks[i] \in Brk
  BY <1>1
<1> QED
  BY <1>1, <1>2, RunAssumption, ParkAssumption DEF Brk, Entry

LEMMA CappedNat ==
  ASSUME NEW n \in Nat, MaxCount \in Nat
  PROVE  Capped(n) \in Nat /\ (n <= MaxCount => Capped(n) = n)
  BY DEF Capped

(* A pass, from the outside: what cpu_step can have done.                  *)
LEMMA Steps ==
  ASSUME TypeOK, NEW h \in BOOLEAN, NEW s \in Sigs, NEW w, cpu_step(h, s, w)
  PROVE  /\ insns' \in Nat
         /\ \/ UNCHANGED <<seen, done>> /\ w = "none"
            \/ Break(h, s, w)
            \/ \E n \in 1 .. Burst : Retire(h, s, w, n)
<1>1. CASE Trap(h, s, w)
  BY <1>1 DEF Trap, TypeOK
<1>2. CASE Rest(h, s, w)
  BY <1>2 DEF Rest, TypeOK
<1>3. CASE Undecoded(h, s, w)
  BY <1>3 DEF Undecoded, TypeOK
<1>4. CASE Break(h, s, w)
  BY <1>4 DEF Break, TypeOK
<1>5. ASSUME NEW n \in 1 .. Burst, Retire(h, s, w, n)
      PROVE  insns' \in Nat
  BY <1>5, RunAssumption DEF Retire, TypeOK, Opts
<1> QED
  BY <1>1, <1>2, <1>3, <1>4, <1>5 DEF cpu_step

LEMMA Counts ==
  ASSUME TypeOK, NEW h, NEW s, NEW w,
         \/ UNCHANGED <<seen, done>>
         \/ Break(h, s, w)
         \/ \E n \in 1 .. Burst : Retire(h, s, w, n)
  PROVE  seen' \in [DOMAIN brks -> Nat] /\ done' \in [PCs -> Nat]
<1>1. PcOf(sig) \in PCs
  BY DEF TypeOK, Sigs, PcOf
<1>2. ASSUME dbg_pc_hit(PcOf(sig)) PROVE seen' \in [DOMAIN brks -> Nat]
  BY <1>2, Tabled, CappedNat DEF dbg_pc_hit, TypeOK
<1>3. Capped(done[PcOf(sig)] + 1) \in Nat
  BY <1>1, Tabled, CappedNat DEF TypeOK
<1> QED
  BY <1>1, <1>2, <1>3 DEF Break, Retire, TypeOK

LEMMA WatchType ==
  ASSUME TypeOK, NEW h \in BOOLEAN, NEW s, park_step(h, s) \/ UNCHANGED watch
  PROVE  loops' \in Nat /\ was_halted' \in BOOLEAN
<1>1. CASE UNCHANGED watch
  BY <1>1 DEF watch, TypeOK
<1>2. CASE h /\ park_step(h, s)
  <2>1. Parked(s)
    BY <1>2 DEF park_step
  <2>2. was_halted' \in BOOLEAN /\ loops' = Counted(s)
    BY <2>1 DEF Parked
  <2>3. Counted(s) \in Nat
    BY DEF Counted, TypeOK
  <2> QED
    BY <2>2, <2>3
<1>3. CASE ~h /\ park_step(h, s)
  <2>1. Running
    BY <1>3 DEF park_step
  <2>2. was_halted' \in BOOLEAN /\ (loops' = 0 \/ loops' = loops)
    BY <2>1 DEF Running
  <2> QED
    BY <2>2 DEF TypeOK
<1> QED
  BY <1>1, <1>2, <1>3

LEMMA TypeStep == TypeOK /\ [Next]_vars => TypeOK'
<1> SUFFICES ASSUME TypeOK, [Next]_vars PROVE TypeOK'
  OBVIOUS
<1>1. CASE Leave \/ NotAsked \/ OutOfBudget \/ IdleExit \/ Signal \/ UNCHANGED vars
  BY <1>1 DEF Leave, NotAsked, OutOfBudget, IdleExit, Signal, vars, line, guest, watch,
     hist, TypeOK
<1>2. ASSUME NEW h \in BOOLEAN, NEW vi \in BOOLEAN, NEW key \in BOOLEAN, NEW s \in Sigs,
             NEW w \in {"none", "mark", "port", "break"}, Pass(h, s, vi, key, w)
      PROVE  TypeOK'
  <2>1. /\ UNCHANGED <<opt, brks, max_reached>> /\ sig' = s /\ halted' = h
        /\ cpu_step(h, s, w) /\ Observe(h, s)
        /\ park_step(h, s) \/ UNCHANGED watch
        /\ stop' \in BOOLEAN /\ asked' \in BOOLEAN /\ over' \in BOOLEAN
    BY <1>2 DEF Pass, line
  <2>2. still' \in Nat
    BY <2>1 DEF Observe, TypeOK
  <2>3. insns' \in Nat /\ seen' \in [DOMAIN brks -> Nat] /\ done' \in [PCs -> Nat]
    BY <2>1, Steps, Counts
  <2>4. loops' \in Nat /\ was_halted' \in BOOLEAN
    BY <2>1, WatchType
  <2> QED
    BY <2>1, <2>2, <2>3, <2>4 DEF TypeOK
<1> QED
  BY <1>1, <1>2 DEF Next, Step

LEMMA TypeInit == Init => TypeOK
<1> SUFFICES ASSUME Init PROVE TypeOK
  OBVIOUS
<1> QED
  BY RunAssumption DEF Init, ParkInit, TypeOK

-----------------------------------------------------------------------------
(* The park watch: while it looks, its count is covered by that of the     *)
(* halted passes that all their halts began the same for, because the      *)
(* signature taken is that of the instant it last halted.                  *)
ParkInv ==
  /\ why = "parked" => over /\ still > Budget
  /\ ~over /\ opt.park_watch =>
       /\ was_halted <=> halted
       /\ taken # Invalid => taken = last
       /\ still >= loops \/ still > Budget

LEMMA ParkStep == TypeOK /\ ParkInv /\ [Next]_vars => ParkInv'
<1> SUFFICES ASSUME TypeOK, ParkInv, [Next]_vars PROVE ParkInv'
  OBVIOUS
<1>1. CASE UNCHANGED vars
  BY <1>1 DEF vars, line, guest, watch, hist, ParkInv
<1>2. CASE Leave \/ OutOfBudget \/ IdleExit
  BY <1>2 DEF Leave, OutOfBudget, IdleExit, hist, ParkInv
<1>3. CASE NotAsked
  BY <1>3 DEF NotAsked, line, guest, watch, hist, ParkInv
<1>4. CASE Signal
  BY <1>4 DEF Signal, line, guest, watch, ParkInv
<1>5. ASSUME NEW h \in BOOLEAN, NEW vi \in BOOLEAN, NEW key \in BOOLEAN, NEW s \in Sigs,
             NEW w \in {"none", "mark", "port", "break"}, Pass(h, s, vi, key, w)
      PROVE  ParkInv'
  <2>1. /\ ~over /\ opt' = opt /\ sig' = s /\ halted' = h /\ Observe(h, s)
        /\ why # "parked"
    BY <1>5 DEF Pass, line, ParkInv
  <2>2. s # Invalid
    BY DEF Sigs, Invalid
  <2>3. Budget \in Nat \ {0} /\ loops \in Nat /\ still \in Nat /\ was_halted \in BOOLEAN
    BY Tabled DEF TypeOK
  <2>4. why' = "parked" => opt.park_watch /\ park_step(h, s) /\ Fires(h, s) /\ over'
    BY <1>5, <2>1 DEF Pass
  <2>5. ~over' /\ opt.park_watch => park_step(h, s)
    BY <1>5 DEF Pass
  <2>6. ASSUME opt.park_watch, park_step(h, s)
        PROVE  /\ was_halted' <=> h
               /\ taken' # Invalid => taken' = last'
               /\ still' >= loops' \/ still' > Budget
               /\ h => loops' = Counted(s)
    <3>1. CASE ~h
      <4>1. Running /\ last' = last /\ still' = still
        BY <2>1, <2>6, <3>1 DEF park_step, Observe
      <4>2. /\ ~was_halted'
            /\ \/ loops' = 0 /\ taken' = Invalid
               \/ loops' = loops /\ taken' = taken
        BY <4>1 DEF Running
      <4> QED
        BY <2>1, <2>3, <2>6, <3>1, <4>1, <4>2 DEF ParkInv
    <3>2. CASE h
      <4>1. /\ was_halted' /\ taken' = IF Same(s) THEN taken ELSE s
            /\ loops' = Counted(s) /\ last' = IF halted THEN last ELSE s
            /\ still' = IF ~halted /\ last # s THEN 1 ELSE
                        IF still > Budget THEN still ELSE still + 1
        BY <2>1, <2>6, <3>2 DEF park_step, Parked, Observe
      <4>2. CASE Same(s)
        <5>1. halted \/ last = s
          BY <2>1, <2>2, <2>6, <4>2 DEF Same, ParkInv
        <5>2. still' = still + 1 \/ still' > Budget
          BY <4>1, <5>1
        <5>3. loops' = loops + 1 /\ taken' = taken /\ last' = last
          BY <4>1, <4>2, <5>1 DEF Counted
        <5>4. still >= loops \/ still > Budget
          BY <2>1, <2>6 DEF ParkInv
        <5>5. still' >= loops' \/ still' > Budget
          BY <2>3, <4>1, <5>2, <5>3, <5>4
        <5>6. taken' # Invalid => taken' = last'
          BY <2>1, <2>6, <5>3 DEF ParkInv
        <5> QED
          BY <3>2, <4>1, <5>5, <5>6
      <4>3. CASE ~Same(s)
        <5>1. ~halted /\ taken' = s /\ last' = s
          BY <2>1, <2>6, <4>1, <4>3 DEF Same, ParkInv
        <5>2. loops' = 1 /\ (still' = 1 \/ still' > Budget \/ still' = still + 1)
          BY <4>1, <4>3 DEF Counted
        <5>3. still' >= loops' \/ still' > Budget
          BY <2>3, <5>2
        <5> QED
          BY <3>2, <4>1, <5>1, <5>3
      <4> QED
        BY <4>2, <4>3
    <3> QED
      BY <3>1, <3>2
  <2>7. why' = "parked" => still' > Budget
    <3> SUFFICES ASSUME why' = "parked" PROVE still' > Budget
      OBVIOUS
    <3>1. h /\ Counted(s) > Budget /\ loops' = Counted(s)
      BY <2>4, <2>6 DEF Fires
    <3>2. still' >= loops' \/ still' > Budget
      BY <2>4, <2>6
    <3>3. still' \in Nat /\ loops' \in Nat
      BY TypeStep DEF TypeOK
    <3> QED
      BY <2>3, <3>1, <3>2, <3>3
  <2> QED
    BY <2>1, <2>4, <2>5, <2>6, <2>7 DEF ParkInv
<1> QED
  BY <1>1, <1>2, <1>3, <1>4, <1>5 DEF Next, Step

(* A run is called parked only after a whole budget of halted passes whose *)
(* halts all began the same (park_step), whatever woke the guest between.  *)
THEOREM ParkedSound == Spec => []OnlyParked
<1>1. Init => ParkInv
  <2> SUFFICES ASSUME Init PROVE ParkInv
    OBVIOUS
  <2>1. /\ why = "none" /\ ~halted /\ ~was_halted
        /\ taken = Invalid /\ loops = 0 /\ still = 0
    BY DEF Init, ParkInit
  <2> QED
    BY <2>1 DEF ParkInv
<1>2. ParkInv => OnlyParked
  BY DEF ParkInv, OnlyParked
<1> QED
  BY <1>1, <1>2, TypeInit, TypeStep, ParkStep, PTL DEF Spec

-----------------------------------------------------------------------------
(* Breakpoints: while nobody has asked for the end, the hits of an entry   *)
(* that can end the run are the times its instruction has begun, and they  *)
(* are fewer than it was asked for.                                        *)
BreakInv ==
  /\ opt.stop_at_break =>
       \A pc \in PCs : \A i \in Entry(pc) :
         brks[i].want # 0 => /\ done[pc] < brks[i].want
                             /\ ~stop => seen[i] = done[pc]
  /\ why = "break" =>
       /\ stop
       /\ \E i \in Entry(PcOf(sig)) :
            seen[i] = brks[i].want /\ done[PcOf(sig)] = brks[i].want - 1

LEMMA EntryNext == ASSUME brks' = brks PROVE \A pc : Entry(pc)' = Entry(pc)
  BY DEF Entry

LEMMA EntriesApart ==
  ASSUME NEW pc, NEW q, NEW i \in Entry(pc), i \in Entry(q) PROVE pc = q
  BY DEF Entry

LEMMA BreakStep == TypeOK /\ BreakInv /\ [Next]_vars => BreakInv'
<1> SUFFICES ASSUME TypeOK, BreakInv, [Next]_vars PROVE BreakInv'
  OBVIOUS
<1>1. CASE UNCHANGED vars
  BY <1>1 DEF vars, line, guest, hist, BreakInv, Entry
<1>2. CASE Leave \/ NotAsked
  BY <1>2 DEF Leave, NotAsked, line, guest, hist, BreakInv, Entry
<1>3. CASE OutOfBudget \/ IdleExit
  BY <1>3 DEF OutOfBudget, IdleExit, line, guest, hist, BreakInv, Entry
<1>4. CASE Signal
  BY <1>4 DEF Signal, line, guest, BreakInv, Entry
<1>5. ASSUME NEW h \in BOOLEAN, NEW vi \in BOOLEAN, NEW key \in BOOLEAN, NEW s \in Sigs,
             NEW w \in {"none", "mark", "port", "break"}, Pass(h, s, vi, key, w)
      PROVE  BreakInv'
  <2> DEFINE pc0 == PcOf(sig)
  <2>1. /\ ~stop /\ opt' = opt /\ brks' = brks /\ sig' = s /\ cpu_step(h, s, w)
        /\ why # "break" /\ pc0 \in PCs
    BY <1>5 DEF Pass, Asked, line, BreakInv, TypeOK, Sigs, PcOf
  <2>2. why' = "break" => w = "break"
    BY <1>5, <2>1 DEF Pass
  <2>3. stop' <=> (key \/ w # "none")
    BY <1>5 DEF Pass
  <2>4. CASE UNCHANGED <<seen, done>> /\ w = "none"
    BY <2>1, <2>2, <2>3, <2>4, EntryNext DEF BreakInv
  <2>5. CASE Break(h, s, w)
    <3>1. /\ ~h /\ PcOf(s) = pc0 /\ done' = done /\ dbg_pc_hit(pc0) /\ w = "break"
          /\ opt.stop_at_break
      BY <2>5 DEF Break, Breaks, SameCpu, PcOf
    <3>2. PICK i \in Entry(pc0) : Records(i) /\ Last(i)
      BY <2>5 DEF Break, Breaks
    <3>3. /\ i \in DOMAIN brks /\ brks[i].want \in Nat /\ brks[i].want <= MaxCount
          /\ brks[i].want # 0 /\ seen[i] \in Nat /\ MaxCount \in Nat
      BY <3>2, Tabled DEF Last, TypeOK
    <3>4. seen[i] + 1 = brks[i].want /\ seen[i] = done[pc0]
      BY <2>1, <3>1, <3>2, <3>3 DEF Records, Last, BreakInv
    <3>5. seen'[i] = brks[i].want
      BY <3>1, <3>2, <3>3, <3>4, CappedNat DEF dbg_pc_hit
    <3>6. \E j \in Entry(PcOf(s)) :
            seen'[j] = brks[j].want /\ done'[PcOf(s)] = brks[j].want - 1
      BY <3>1, <3>2, <3>3, <3>4, <3>5
    <3> QED
      BY <2>1, <2>3, <3>1, <3>6, EntryNext DEF BreakInv
  <2>6. ASSUME NEW n \in 1 .. Burst, Retire(h, s, w, n) PROVE BreakInv'
    <3>1. /\ ~Breaks(pc0) /\ dbg_pc_hit(pc0) /\ w # "break"
          /\ done' = [done EXCEPT ![pc0] = Capped(@ + 1)]
      BY <2>6 DEF Retire
    <3>2. ASSUME opt.stop_at_break, NEW pc \in PCs, NEW i \in Entry(pc), brks[i].want # 0
          PROVE  done'[pc] < brks[i].want /\ seen'[i] = done'[pc]
      <4>1. /\ i \in DOMAIN brks /\ brks[i].want \in Nat /\ brks[i].want <= MaxCount
            /\ seen[i] \in Nat /\ done[pc] \in Nat /\ MaxCount \in Nat
            /\ done[pc] < brks[i].want /\ seen[i] = done[pc]
        BY <2>1, <3>2, Tabled DEF BreakInv, TypeOK
      <4>2. CASE pc = pc0
        <5>1. Records(i)
          BY <3>2, <4>1 DEF Records
        <5>2. ~Last(i)
          BY <3>1, <3>2, <4>2, <5>1 DEF Breaks
        <5>3. seen[i] + 1 < brks[i].want
          BY <3>2, <4>1, <5>2 DEF Last
        <5>4. Capped(seen[i] + 1) = seen[i] + 1 /\ Capped(done[pc] + 1) = done[pc] + 1
          BY <4>1, <5>3, CappedNat
        <5>5. seen'[i] = Capped(seen[i] + 1)
          BY <3>1, <3>2, <4>1, <4>2, <5>1 DEF dbg_pc_hit
        <5>6. done'[pc] = Capped(done[pc] + 1)
          BY <3>1, <4>2 DEF TypeOK
        <5> QED
          BY <4>1, <5>3, <5>4, <5>5, <5>6
      <4>3. CASE pc # pc0
        <5>1. i \notin Entry(pc0)
          BY <3>2, <4>3, EntriesApart
        <5>2. seen'[i] = seen[i]
          BY <3>1, <4>1, <5>1 DEF dbg_pc_hit
        <5>3. done'[pc] = done[pc]
          BY <3>1, <4>3 DEF TypeOK
        <5> QED
          BY <4>1, <5>2, <5>3
      <4> QED
        BY <4>2, <4>3
    <3> QED
      BY <2>1, <2>2, <3>1, <3>2, EntryNext DEF BreakInv
  <2> QED
    BY <2>1, <2>4, <2>5, <2>6, Steps
<1> QED
  BY <1>1, <1>2, <1>3, <1>4, <1>5 DEF Next, Step

(* The instruction a breakpoint waits for does not begin, and the PC is    *)
(* left there (dbg_pc_hit), for every table, count and guest.              *)
THEOREM BreakSound == Spec => []BreakHonoured
<1>1. Init /\ TypeOK => BreakInv
  <2> SUFFICES ASSUME Init, TypeOK PROVE BreakInv
    OBVIOUS
  <2>1. why = "none" /\ seen = [i \in DOMAIN brks |-> 0] /\ done = [pc \in PCs |-> 0]
    BY DEF Init
  <2>2. \A pc \in PCs : \A i \in Entry(pc) : brks[i].want \in Nat /\ i \in DOMAIN brks
    BY Tabled
  <2> QED
    BY <2>1, <2>2 DEF BreakInv
<1>2. BreakInv => BreakHonoured
  BY DEF BreakInv, BreakHonoured
<1> QED
  BY <1>1, <1>2, TypeInit, TypeStep, BreakStep, PTL DEF Spec

-----------------------------------------------------------------------------
(* The exit status: a budget is only called exhausted when nobody had      *)
(* asked for the end by then, and a loop is only left for a reason.        *)
ExitInv ==
  /\ checked => Exhausted /\ ~asked /\ (stop => late)
  /\ max_reached => over /\ Exhausted /\ ~asked /\ (stop => late)
  /\ asked => stop
  /\ over => stop \/ max_reached \/ why \in {"prompt", "no interrupt", "parked"}

LEMMA ExitStep == TypeOK /\ ExitInv /\ [Next]_vars => ExitInv'
<1> SUFFICES ASSUME TypeOK, ExitInv, [Next]_vars PROVE ExitInv'
  OBVIOUS
<1>1. CASE UNCHANGED vars
  BY <1>1 DEF vars, line, hist, ExitInv, Exhausted
<1>2. CASE Leave
  BY <1>2 DEF Leave, Asked, line, hist, ExitInv, Exhausted
<1>3. CASE NotAsked
  BY <1>3 DEF NotAsked, Asked, line, hist, ExitInv, Exhausted
<1>4. CASE OutOfBudget
  BY <1>4 DEF OutOfBudget, line, hist, ExitInv, Exhausted
<1>5. CASE IdleExit
  BY <1>5 DEF IdleExit, line, hist, ExitInv, Exhausted
<1>6. CASE Signal
  BY <1>6 DEF Signal, line, ExitInv, Exhausted
<1>7. ASSUME NEW h \in BOOLEAN, NEW vi \in BOOLEAN, NEW key \in BOOLEAN, NEW s \in Sigs,
             NEW w \in {"none", "mark", "port", "break"}, Pass(h, s, vi, key, w)
      PROVE  ExitInv'
  <2>1. /\ ~checked' /\ ~max_reached' /\ ~asked
        /\ (stop' <=> (key \/ w # "none")) /\ (asked' <=> (asked \/ key \/ w # "none"))
    BY <1>7 DEF Pass, Asked, ExitInv
  <2>2. over' => why' \in {"no interrupt", "parked"}
    BY <1>7 DEF Pass
  <2> QED
    BY <2>1, <2>2 DEF ExitInv
<1> QED
  BY <1>1, <1>2, <1>3, <1>4, <1>5, <1>6, <1>7 DEF Next, Step

(* Status 3 is given for a budget exhausted before anybody asked for the   *)
(* end, but for a SIGINT too late in that pass, and withheld only from a   *)
(* run that something ended (machine_run, main).                           *)
THEOREM ExitSound == Spec => []ExitTruthful
<1>1. Init => ExitInv
  BY DEF Init, ExitInv
<1>2. ExitInv /\ TypeOK => ExitTruthful
  <2>1. Status = 3 => max_reached
    BY DEF Status
  <2>2. opt.require_stop /\ Status = 0 => ~max_reached
    BY DEF Status
  <2> QED
    BY <2>1, <2>2 DEF ExitInv, ExitTruthful
<1> QED
  BY <1>1, <1>2, TypeInit, TypeStep, ExitStep, PTL DEF Spec
=============================================================================
