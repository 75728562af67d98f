--------------------------- MODULE TxRing_proofs ---------------------------
(***************************************************************************)
(* Proofs about the framebuffer ring, with any number of frames on the     *)
(* card.  The typing invariant holds for all values of the constants.      *)
(* Until a done callback gives back a held frame that is on the card       *)
(* (released), the safety invariants, the refinement of Sender and, with   *)
(* serve_newest, the order of what is sent hold for all rings, pictures    *)
(* and sessions of a prompt libmtl, port stops that lose frames included.  *)
(***************************************************************************)
EXTENDS TxRing, TLAPS

\* The framebuffer index arithmetic stays in the ring.
LEMMA SuccSlot == \A i \in Slot : Succ(i) \in Slot
  BY RingAssumption, SMT DEF Slot, Succ

\* A session runs under one of the settings.
LEMMA OptType ==
  TypeOK => /\ opt.depth \in Nat \ {0} /\ opt.advance \in Nat
            /\ opt.newest \in BOOLEAN /\ opt.lossy \in BOOLEAN
  BY RingAssumption DEF TypeOK, Setting

-----------------------------------------------------------------------------
(* Typing.  A worker that packs has bands left, and one that looks at its  *)
(* framebuffer has packed none: without these facts the band counter could *)
(* leave its range.                                                        *)

TurnInv ==
  /\ wpc = "pack" => wband < B
  /\ wpc \in {"check", "fetch"} => wband = 0 /\ ~whole
  /\ wpc = "check" => widx = prod

TypeInv == TypeOK /\ TurnInv

\* Every variable keeps its type at the setup.
LEMMA InitType == Init => TypeInv
  <1> SUFFICES ASSUME Init PROVE TypeInv
    OBVIOUS
  <1> USE RingAssumption DEF Init, Slot, NoSlot, Free, Ready, Held
  <1>1. N - 1 \in 0..(N - 1) /\ 0 \in 0..(N - 1)
    OBVIOUS
  <1>2. stat \in [Slot -> {Free, Ready, Held}] /\ lines \in [Slot -> 0..B]
    OBVIOUS
  <1>3. ord \in [Slot -> 0..opt.depth] /\ sent \in [Slot -> 0..B]
    BY DEF Setting
  <1>4. hold \in Slot /\ newer \in SUBSET (Slot \X Slot)
    BY <1>1
  <1> QED
    BY <1>1, <1>2, <1>3, <1>4 DEF TypeInv, TurnInv, TypeOK

\* Releasing a frame keeps the ranks in their range.
LEMMA ReleaseType ==
  ASSUME TypeOK, NEW i \in Slot, Release(i)
  PROVE  ord' \in [Slot -> 0..opt.depth] /\ sent' \in [Slot -> 0..B]
  BY RingAssumption, OptType DEF TypeOK, Release

\* So does accepting one.
LEMMA AcceptType ==
  ASSUME TypeOK, NEW i \in Slot, Accept(i)
  PROVE  /\ ord' \in [Slot -> 0..opt.depth]
         /\ sent' \in [Slot -> 0..B]
         /\ building' \in Slot \cup {NoSlot}
  BY RingAssumption, OptType DEF TypeOK, Accept

\* The done callback keeps the ring variables in their types.
LEMMA FrameDoneType ==
  ASSUME TypeOK, NEW i \in Slot, FrameDone(i)
  PROVE  /\ stat' \in [Slot -> {Free, Ready, Held}]
         /\ lines' \in [Slot -> 0..B]
         /\ hold' \in Slot /\ holdValid' \in BOOLEAN /\ released' \in BOOLEAN
  <1>1. 0 \in 0..B /\ lines \in [Slot -> 0..B] /\ stat \in [Slot -> {Free, Ready, Held}]
    BY RingAssumption DEF TypeOK
  <1>2. stat' \in [Slot -> {Free, Ready, Held}] /\ lines' \in [Slot -> 0..B]
    BY <1>1 DEF FrameDone, Free, Ready, Held
  <1>3. hold' \in Slot
    BY DEF TypeOK, FrameDone
  <1>4. holdValid' \in BOOLEAN /\ released' \in BOOLEAN
    BY Zenon DEF TypeOK, FrameDone
  <1> QED
    BY <1>2, <1>3, <1>4

\* Every step of the worker keeps the types.
LEMMA WorkerType == TypeInv /\ WorkerRest => TypeInv'
  <1> SUFFICES ASSUME TypeInv, WorkerRest PROVE TypeInv'
    OBVIOUS
  <1> USE RingAssumption, SuccSlot
      DEF TypeInv, TurnInv, ringVars, workerVars, libVars, Free, Ready, Held
  <1>1. CASE WorkerTop
    <2>1. prod' \in Slot /\ widx' = prod' /\ wband' = 0 /\ whole' = FALSE /\ wpc' = "check"
      BY <1>1 DEF WorkerTop
    <2>2. cabled' \in BOOLEAN /\ whole' \in BOOLEAN
      BY <1>1, <2>1, Zenon DEF WorkerTop
    <2> QED
      BY <1>1, <2>1, <2>2 DEF TypeOK, WorkerTop
  <1>2. CASE WorkerThrottle
    BY <1>2 DEF TypeOK, WorkerThrottle
  <1>3. CASE WorkerWait
    BY <1>3 DEF TypeOK, WorkerWait
  <1>4. CASE WorkerResync
    <2>1. 0 \in Slot
      BY DEF Slot
    <2> QED
      BY <1>4, <2>1 DEF TypeOK, WorkerResync
  <1>5. CASE ResyncOne
    <2>0. wpc = "resync" /\ ResyncMoves
      BY <1>5 DEF ResyncOne
    <2>1. widx' \in Slot /\ cons' \in Slot /\ wedge' \in {"armed", wedge} /\ wpc' \in {"resync", "top"}
      <3>1. CASE widx < N - 1
        BY <2>0, <3>1 DEF TypeOK, ResyncMoves, Slot
      <3>2. CASE ~(widx < N - 1)
        BY <2>0, <3>2 DEF TypeOK, ResyncMoves
      <3> QED
        BY <3>1, <3>2
    <2>2. stat' \in [Slot -> {Free, Ready, Held}] /\ lines' \in [Slot -> 0..B]
      BY <1>5 DEF TypeOK, ResyncOne
    <2> QED
      BY <1>5, <2>1, <2>2 DEF TypeOK, ResyncOne
  <1>6. CASE WorkerAcquire
    BY <1>6 DEF TypeOK, WorkerAcquire
  <1>7. CASE WorkerFetchWhole
    BY <1>7 DEF TypeOK, WorkerFetchWhole
  <1>8. CASE WorkerFetchGrain
    <2>1. lines' \in [Slot -> 0..B]
      BY <1>8 DEF TypeOK, WorkerFetchGrain
    <2>2. prod' \in Slot
      BY <1>8 DEF TypeOK, WorkerFetchGrain
    <2> QED
      BY <1>8, <2>1, <2>2 DEF TypeOK, WorkerFetchGrain
  <1>9. CASE WorkerPack
    BY <1>9 DEF TypeOK, WorkerPack
  <1>10. CASE WorkerExpose
    BY <1>10 DEF TypeOK, WorkerExpose, AfterBand
  <1>11. CASE WorkerPublish
    BY <1>11 DEF TypeOK, WorkerPublish, AfterBand
  <1> QED
    BY <1>1, <1>2, <1>3, <1>4, <1>5, <1>6, <1>7, <1>8, <1>9, <1>10, <1>11 DEF WorkerRest

\* Every step of libmtl, of its callbacks and of the clock keeps the types.
LEMMA LibType == TypeInv /\ (LibRest \/ WatchdogExpires \/ PortStop) => TypeInv'
  <1> SUFFICES ASSUME TypeInv, LibRest \/ WatchdogExpires \/ PortStop PROVE TypeInv'
    OBVIOUS
  <1> USE RingAssumption, SuccSlot
      DEF TypeInv, TurnInv, ringVars, workerVars, libVars, Free, Ready, Held
  <1>1. CASE NextBusy
    BY <1>1 DEF TypeOK, NextBusy
  <1>2. CASE NextHold
    BY <1>2, AcceptType DEF TypeOK, NextHold
  <1>3. CASE NextNewest
    BY <1>3, AcceptType DEF TypeOK, NextNewest, Candidates
  <1>4. CASE NextOldest
    BY <1>4, AcceptType DEF TypeOK, NextOldest
  <1>5. CASE LibBand
    BY <1>5 DEF TypeOK, LibBand
  <1>6. ASSUME NEW i \in Slot, LibDone(i) PROVE TypeInv'
    BY <1>6, FrameDoneType, ReleaseType DEF TypeOK, LibDone
  <1>7. ASSUME NEW i \in Slot, Reclaim(i) PROVE TypeInv'
    <2>1. FrameDone(i) /\ Release(i) /\ reclaiming' \in BOOLEAN /\ lost' \in SUBSET Slot
      BY <1>7, Zenon DEF Reclaim, TypeOK
    <2> QED
      BY <1>7, <2>1, FrameDoneType, ReleaseType DEF TypeOK, Reclaim
  <1>8. CASE ReclaimStart
    BY <1>8 DEF TypeOK, ReclaimStart
  <1>9. CASE WatchdogExpires
    BY <1>9 DEF TypeOK, WatchdogExpires
  <1>10. CASE PortStop
    <2>1. ord' \in [Slot -> 0..opt.depth] /\ sent' \in [Slot -> 0..B]
      BY <1>10, OptType DEF TypeOK, PortStop
    <2> QED
      BY <1>10, <2>1 DEF TypeOK, PortStop
  <1> QED
    BY <1>1, <1>2, <1>3, <1>4, <1>5, <1>6, <1>7, <1>8, <1>9, <1>10 DEF LibRest

\* The worker's turn is as it should be, whatever the constants are.
LEMMA TypeInvCorrect == Spec => []TypeInv
  <1>1. TypeInv /\ UNCHANGED vars => TypeInv'
    BY DEF TypeInv, TurnInv, TypeOK, vars, ringVars, workerVars, libVars
  <1>2. TypeInv /\ [Next]_vars => TypeInv'
    BY <1>1, WorkerType, LibType DEF Next
  <1> QED
    BY InitType, <1>2, PTL DEF Spec

\* The variables of the ring keep their types, whatever the constants are.
THEOREM TypeCorrect == Spec => []TypeOK
  <1>1. TypeInv => TypeOK
    BY DEF TypeInv
  <1> QED
    BY <1>1, TypeInvCorrect, PTL

-----------------------------------------------------------------------------
(* Safety, for a prompt libmtl, until a held frame on the card is given    *)
(* back: RingInv is inductive.                                             *)

Calm == Prompt(opt) /\ TypeInv /\ RingInv

\* The setup establishes the invariant: the black picture is held, if there is one.
LEMMA InitRing == Init => RingInv
  <1> SUFFICES ASSUME Init PROVE RingInv
    OBVIOUS
  <1> USE RingAssumption DEF Init, Slot, NoSlot, Free, Ready, Held
  <1>1. LibInv /\ LastInv
    BY DEF LibInv, LastInv
  <1>2. HoldInv
    <2>1. (holdValid <=> ~opt.blank) /\ (holdValid \/ opt.blank)
      BY Zenon
    <2>2. CASE ~opt.blank
      <3>1. hold = N - 1 /\ N - 1 \in Slot /\ lines[N - 1] = B
        BY <2>2
      <3>2. \A i \in Slot : stat[i] = Held <=> i = N - 1
        BY <2>2
      <3> QED
        BY <2>1, <2>2, <3>1, <3>2 DEF HoldInv
    <2>3. CASE opt.blank
      <3>1. \A i \in Slot : stat[i] # Held
        BY <2>3
      <3> QED
        BY <2>1, <2>3, <3>1 DEF HoldInv
    <2> QED
      BY <2>2, <2>3
  <1>3. WorkerInv
    <2>1. \A i \in Slot : stat[i] # Ready
      OBVIOUS
    <2> QED
      BY <2>1 DEF WorkerInv, Unpublished, Filling
  <1>4. WedgeInv
    BY DEF WedgeInv
  <1> QED
    BY <1>1, <1>2, <1>3, <1>4 DEF RingInv

\* A frame libmtl already has, or lost, is refused; another is taken, after all
\* those in flight.
LEMMA AcceptRank ==
  ASSUME TypeInv, NEW i \in Slot, Accept(i)
  PROVE  \/ InFlight(i) /\ UNCHANGED <<building, sent, ord>>
         \/ /\ ~InFlight(i) /\ ord[i] = 0 /\ i \notin lost
            /\ building' = i
            /\ sent' = [sent EXCEPT ![i] = 0]
            /\ \E k \in 1..opt.depth :
                 ord' = [ord EXCEPT ![i] = k] /\ \A j \in Slot : ord[j] < k
  BY OptType DEF Accept, InFlight, TypeInv, TypeOK

\* Accepting a ready or held frame keeps what libmtl has in order.
LEMMA AcceptLib ==
  ASSUME TypeInv, LibInv, Asks, NEW i \in Slot, Accept(i), stat'[i] # Free,
         \A j \in Slot : ord[j] > 0 => stat'[j] # Free,
         lines' = lines, UNCHANGED <<opt, reclaiming, lost>>
  PROVE  LibInv'
  <1>1. building = NoSlot
    BY DEF Asks
  <1>2. CASE UNCHANGED <<building, sent, ord>>
    BY <1>1, <1>2 DEF LibInv
  <1>3. CASE ~InFlight(i)
    <2>1. PICK k \in 1..opt.depth :
            /\ building' = i /\ sent' = [sent EXCEPT ![i] = 0] /\ i \notin lost
            /\ ord' = [ord EXCEPT ![i] = k] /\ \A j \in Slot : ord[j] < k
      BY <1>3, AcceptRank
    <2>2. /\ ord'[i] = k /\ k > 0 /\ sent'[i] = 0 /\ 0 <= lines[i] /\ 0 < B
          /\ \A j \in Slot : j # i => ord'[j] = ord[j] /\ sent'[j] = sent[j]
      BY <2>1, OptType, RingAssumption DEF TypeInv, TypeOK
    <2>3. \A j, m \in Slot : ord'[j] > 0 /\ ord'[m] = ord'[j] => m = j
      BY <2>1, <2>2 DEF LibInv
    <2>4. \A j \in Slot : ord'[j] > 0 =>
            /\ j \notin lost' /\ stat'[j] # Free
            /\ sent'[j] <= lines'[j] /\ (j # building' => sent'[j] = B)
      BY <1>1, <2>1, <2>2, RingAssumption DEF LibInv, NoSlot, Slot
    <2> QED
      BY <2>1, <2>2, <2>3, <2>4 DEF LibInv
  <1> QED
    BY <1>2, <1>3, AcceptRank

\* With serve_newest libmtl asks with one frame in flight at most, which is then the
\* last it took from the ring, or the held one; and with none if it lost any.
LEMMA AsksNewest ==
  ASSUME Calm, opt.newest, Asks
  PROVE  /\ \A i \in Slot : ord[i] > 0 => i = marker \/ (holdValid /\ i = hold)
         /\ lost # {} => \A i \in Slot : ord[i] = 0
  <1>1. \A i \in Slot : ord[i] \in Nat /\ ord[i] < opt.depth
    BY OptType DEF Calm, TypeInv, TypeOK, Asks
  <1>2. \A i \in Slot : ord[i] <= 1
    BY <1>1, OptType DEF Calm, TypeInv, Prompt
  <1>3. lost # {} => opt.depth = 1
    BY DEF Calm, RingInv, LibInv, Prompt
  <1>4. \A i \in Slot : ord[i] > 0 => \A j \in Slot : ord[j] <= ord[i]
    BY <1>1, <1>2
  <1> QED
    BY <1>1, <1>3, <1>4 DEF Calm, RingInv, LastInv

\* What is accepted is the last frame in flight; if it was refused nothing moved.
LEMMA AcceptLast ==
  ASSUME Calm, opt.newest, Asks, NEW i \in Slot, Accept(i),
         UNCHANGED <<opt, hold, holdValid>>,
         i = marker' \/ (holdValid /\ i = hold /\ marker' = marker)
  PROVE  LastInv'
  <1>1. CASE InFlight(i)
    <2>1. ord' = ord
      BY <1>1, AcceptRank DEF Calm
    <2>2. CASE ord[i] > 0
      <3>1. marker' = marker \/ \A j \in Slot : ord[j] > 0 => j = i
        <4>1. \A j \in Slot : ord[j] > 0 => ord[j] = 1
          BY OptType DEF Calm, TypeInv, TypeOK, Asks, Prompt
        <4> QED
          BY <2>2, <4>1 DEF Calm, RingInv, LibInv
      <3> QED
        BY <2>1, <2>2, <3>1 DEF LastInv, Calm, RingInv
    <2>3. CASE i \in lost
      BY <2>1, <2>3, AsksNewest DEF LastInv
    <2> QED
      BY <1>1, <2>2, <2>3 DEF InFlight
  <1>2. CASE ~InFlight(i)
    <2>1. PICK k \in 1..opt.depth : ord' = [ord EXCEPT ![i] = k] /\ \A j \in Slot : ord[j] < k
      BY <1>2, AcceptRank DEF Calm
    <2>2. ord'[i] = k /\ \A j \in Slot : j # i => ord'[j] = ord[j]
      BY <2>1 DEF Calm, TypeInv, TypeOK
    <2>3. \A j \in Slot : j # i => ord'[j] < ord'[i]
      BY <2>1, <2>2
    <2>4. ord' \in [Slot -> Nat]
      BY AcceptType, OptType DEF Calm, TypeInv
    <2>5. \A j \in Slot : (\A m \in Slot : ord'[m] <= ord'[j]) => j = i
      BY <2>3, <2>4
    <2> QED
      BY <2>5 DEF LastInv
  <1> QED
    BY <1>1, <1>2

\* A step that leaves the frames and what libmtl has leaves their part of the invariant.
LEMMA SameFrames ==
  ASSUME UNCHANGED <<opt, stat, lines, hold, holdValid, marker, building, sent, ord, lost, reclaiming>>
  PROVE  /\ (LibInv => LibInv') /\ (HoldInv => HoldInv') /\ (LastInv => LastInv')
         /\ (Blocked' <=> Blocked)
  BY DEF LibInv, HoldInv, LastInv, Blocked

\* The steps of the worker that wait, look or pack leave the ring alone.
LEMMA WorkerQuiet ==
  ASSUME Calm,
         WorkerTop \/ WorkerThrottle \/ WorkerWait \/ WorkerResync \/ WorkerAcquire
           \/ WorkerFetchWhole \/ WorkerPack
  PROVE  RingInv'
  <1> USE RingAssumption DEF ringVars, workerVars, libVars, Calm, TypeInv
  <1>1. /\ UNCHANGED <<stat, lines, newer, cons, hold, holdValid, marker, opt>>
        /\ UNCHANGED <<building, sent, ord, lost, reclaiming>>
    BY DEF WorkerTop, WorkerThrottle, WorkerWait, WorkerResync, WorkerAcquire, WorkerFetchWhole, WorkerPack
  <1>2. LibInv' /\ HoldInv' /\ (opt'.newest => LastInv')
    BY <1>1, SameFrames DEF RingInv
  <1>3. WorkerInv'
    <2>1. CASE WorkerTop \/ WorkerThrottle \/ WorkerWait \/ WorkerResync
      <3>1. wpc \in {"top", "check"} /\ wpc' \in {"top", "check", "resync"}
        BY <2>1 DEF WorkerTop, WorkerThrottle, WorkerWait, WorkerResync
      <3> QED
        BY <1>1, <3>1 DEF WorkerInv, Unpublished, Filling, RingInv
    <2>2. CASE WorkerAcquire
      <3>1. stat[widx] = Free /\ wpc = "check" /\ wpc' = "fetch" /\ UNCHANGED <<widx, wband, whole>>
        BY <2>2 DEF WorkerAcquire, TurnInv
      <3> QED
        BY <1>1, <3>1 DEF WorkerInv, Unpublished, Filling, RingInv
    <2>3. CASE WorkerFetchWhole
      <3>1. wpc = "fetch" /\ wpc' = "pack" /\ whole' = TRUE /\ wband = 0 /\ UNCHANGED <<widx, wband>>
        BY <2>3 DEF WorkerFetchWhole, TurnInv
      <3> QED
        BY <1>1, <3>1 DEF WorkerInv, Unpublished, Filling, RingInv
    <2>4. CASE WorkerPack
      <3>1. wpc = "pack" /\ wpc' = "expose" /\ UNCHANGED <<widx, whole>>
            /\ (whole => wband' = B) /\ (~whole => wband' > wband /\ (wband = 0 => wband' = 1))
            /\ wband' \in 1..B /\ wband \in 0..B
        BY <2>4 DEF WorkerPack, RingInv, WorkerInv, TypeOK
      <3>2. (Unpublished <=> whole \/ wband = 0) /\ (Unpublished' <=> whole \/ wband' = 1)
            /\ (Filling <=> ~whole /\ wband > 0) /\ (Filling' <=> ~whole /\ wband' > 1)
        BY <3>1 DEF Unpublished, Filling
      <3>3. (Unpublished' => Unpublished) /\ (Filling' <=> Filling)
        BY <3>1, <3>2
      <3>4. Filling => lines[widx] <= wband'
        BY <3>1, <3>2 DEF RingInv, WorkerInv, TypeOK
      <3> QED
        BY <1>1, <3>1, <3>3, <3>4 DEF WorkerInv, RingInv
    <2> QED
      BY <2>1, <2>2, <2>3, <2>4
  <1>4. WedgeInv'
    <2>1. /\ wedge' = "expired" => wedge = "expired"
          /\ wedge' # "off" => wpc' \in {"top", "check", "resync"}
          /\ wpc' = "resync" => wedge' = "expired"
      BY DEF WorkerTop, WorkerThrottle, WorkerWait, WorkerResync, WorkerAcquire, WorkerFetchWhole,
         WorkerPack, RingInv, WedgeInv
    <2> QED
      BY <1>1, <2>1, SameFrames DEF RingInv, WedgeInv, Stalled, Skips
  <1> QED
    BY <1>2, <1>3, <1>4 DEF RingInv

\* The watchdog expires when what is ready is lost, held, or out of reach of a libmtl
\* that is blocked or finds nothing: what it is blocked on is not whole, and so is
\* not ready in the ring.
LEMMA ExpireStep == ASSUME Calm, WatchdogExpires PROVE RingInv'
  <1> USE DEF Free, Held, Ready, Calm, TypeInv
  <1>1. UNCHANGED <<ringVars, wpc, cabled, widx, wband, whole, libVars, opt>>
        /\ wedge = "armed" /\ wedge' = "expired" /\ Stuck
    BY DEF WatchdogExpires, Prompt
  <1>2. wpc \in {"top", "check"} /\ ~Filling
    BY <1>1 DEF RingInv, WedgeInv, Filling
  <1>3. ASSUME NEW i \in Slot, ord[i] > 0 PROVE holdValid /\ i = hold
    <2>1. stat[i] \in {Ready, Held} /\ i \notin lost
      BY <1>3 DEF TypeOK, RingInv, LibInv
    <2>2. CASE stat[i] = Held
      BY <2>2 DEF RingInv, HoldInv
    <2>3. CASE stat[i] = Ready
      <3>1. lines[i] = B
        BY <1>2, <2>3 DEF RingInv, WorkerInv
      <3>2. ~(holdValid /\ i = hold)
        BY <2>3 DEF RingInv, HoldInv
      <3>3. i = building /\ Blocked
        BY <1>1, <1>3, <2>1, <2>3, <3>2 DEF Stuck, TypeOK
      <3>4. sent[i] < B /\ sent[i] >= lines[i]
        BY <3>3 DEF Blocked, RingInv, LibInv
      <3> QED
        BY <3>1, <3>4 DEF TypeOK
    <2> QED
      BY <2>1, <2>2, <2>3
  <1>4. Blocked \/ Stalled \/ \A i \in Slot : stat[i] = Ready => i \in lost
    BY <1>1 DEF Stuck, RingInv, HoldInv
  <1>5. WedgeInv'
    BY <1>1, <1>2, <1>3, <1>4 DEF WedgeInv, Stalled, Skips, Blocked, ringVars, libVars
  <1>6. LibInv' /\ HoldInv' /\ (opt'.newest => LastInv')
    BY <1>1, SameFrames DEF RingInv, ringVars, libVars
  <1>7. WorkerInv'
    BY <1>1 DEF RingInv, WorkerInv, Unpublished, Filling, ringVars
  <1> QED
    BY <1>5, <1>6, <1>7 DEF RingInv

\* Giving back a framebuffer that is not held takes nothing libmtl has.
LEMMA ResyncStep == ASSUME Calm, ResyncOne PROVE RingInv'
  <1> USE RingAssumption DEF Free, Held, Ready, Calm, TypeInv
  <1>1. /\ wedge = "expired" /\ wpc = "resync" /\ widx \in Slot /\ hold \in Slot
        /\ UNCHANGED <<opt, newer, hold, holdValid, marker, wband, whole>>
        /\ UNCHANGED <<building, sent, ord, lost, reclaiming>>
        /\ \/ wpc' = "resync" /\ UNCHANGED <<cons, wedge>>
           \/ wpc' = "top" /\ wedge' = "armed"
    BY DEF ResyncOne, ResyncMoves, libVars, RingInv, WedgeInv, TypeOK
  <1>2. /\ holdValid => stat'[hold] = stat[hold] /\ lines'[hold] = lines[hold]
        /\ \A i \in Slot :
             \/ stat'[i] = stat[i] /\ lines'[i] = lines[i]
             \/ ~(holdValid /\ i = hold) /\ stat'[i] = Free /\ lines'[i] = 0
    <2>1. CASE holdValid /\ widx = hold /\ UNCHANGED <<stat, lines>>
      BY <2>1
    <2>2. CASE /\ ~(holdValid /\ widx = hold)
               /\ stat' = [stat EXCEPT ![widx] = Free] /\ lines' = [lines EXCEPT ![widx] = 0]
      BY <1>1, <2>2 DEF TypeOK
    <2> QED
      BY <2>1, <2>2 DEF ResyncOne
  <1>3. \A i \in Slot : ord[i] > 0 => holdValid /\ i = hold
    BY <1>1 DEF RingInv, WedgeInv
  <1>4. LibInv'
    BY <1>1, <1>2, <1>3 DEF RingInv, LibInv
  <1>5. HoldInv'
    BY <1>1, <1>2 DEF RingInv, HoldInv
  <1>6. WorkerInv'
    BY <1>1, <1>2 DEF RingInv, WorkerInv, Unpublished, Filling
  <1>7. opt'.newest => LastInv'
    BY <1>1 DEF LastInv, RingInv
  <1>8. WedgeInv'
    <2>1. CASE wedge' # "expired"
      BY <1>1, <2>1 DEF WedgeInv
    <2>2. CASE wedge' = "expired"
      <3>1. wpc' = "resync" /\ cons' = cons
        BY <1>1, <2>2
      <3>2. \A i \in Slot : (stat'[i] = Held <=> stat[i] = Held) /\ (stat'[i] = Ready => stat[i] = Ready)
        BY <1>2 DEF RingInv, HoldInv
      <3>3. Stalled => Stalled'
        <4>1. \A k \in 0..N : (cons + k) % N \in Slot
          BY DEF TypeOK, Slot
        <4>2. \A c \in Slot : Skips(cons, c)' => Skips(cons, c)
          <5> SUFFICES ASSUME NEW c \in Slot, Skips(cons, c)' PROVE Skips(cons, c)
            OBVIOUS
          <5>1. PICK k \in 0..N :
                  /\ c = (cons + k) % N
                  /\ \A m \in 0..(k - 1) : stat'[(cons + m) % N] = Held
                  /\ k = N \/ stat'[c] # Held
            BY <3>1 DEF Skips
          <5>2. \A m \in 0..(k - 1) : stat[(cons + m) % N] = Held
            <6> SUFFICES ASSUME NEW m \in 0..(k - 1) PROVE stat[(cons + m) % N] = Held
              OBVIOUS
            <6>1. m \in 0..N
              OBVIOUS
            <6>2. (cons + m) % N \in Slot /\ stat'[(cons + m) % N] = Held
              BY <4>1, <5>1, <6>1, Zenon
            <6> QED
              BY <3>2, <6>2, Zenon
          <5>3. k = N \/ stat[c] # Held
            BY <3>2, <5>1
          <5> QED
            BY <5>1, <5>2, <5>3 DEF Skips
        <4> QED
          BY <3>1, <3>2, <4>2 DEF Stalled
      <3>4. Blocked => Blocked'
        BY <1>1, <1>2 DEF Blocked, TypeOK
      <3> QED
        BY <1>1, <1>3, <2>2, <3>1, <3>2, <3>3, <3>4 DEF RingInv, WedgeInv
    <2> QED
      BY <2>1, <2>2
  <1> QED
    BY <1>4, <1>5, <1>6, <1>7, <1>8 DEF RingInv

\* Going for a grain empties a framebuffer nobody else has.
LEMMA GrainStep == ASSUME Calm, WorkerFetchGrain PROVE RingInv'
  <1> USE RingAssumption DEF workerVars, libVars, Free, Held, Ready, Calm, TypeInv
  <1>1. /\ UNCHANGED <<opt, stat, newer, hold, holdValid, marker, wedge, widx, wband, whole>>
        /\ UNCHANGED <<building, sent, ord, lost, reclaiming>>
        /\ wpc = "fetch" /\ wpc' = "pack" /\ wband = 0 /\ ~whole /\ widx \in Slot /\ hold \in Slot
    BY DEF WorkerFetchGrain, TypeOK, TurnInv
  <1>2. stat[widx] = Free /\ ~(ord[widx] > 0) /\ ~(holdValid /\ widx = hold) /\ wedge = "off"
    BY <1>1 DEF RingInv, LibInv, HoldInv, WorkerInv, WedgeInv, Unpublished
  <1>3. \A j \in Slot : j # widx => lines'[j] = lines[j]
    BY DEF TypeOK, WorkerFetchGrain
  <1>4. LibInv' /\ HoldInv' /\ (opt'.newest => LastInv')
    BY <1>1, <1>2, <1>3 DEF RingInv, LibInv, HoldInv, LastInv
  <1>5. WorkerInv'
    BY <1>1, <1>2, <1>3 DEF RingInv, WorkerInv, Unpublished, Filling
  <1>6. WedgeInv'
    BY <1>1, <1>2 DEF WedgeInv
  <1> QED
    BY <1>4, <1>5, <1>6 DEF RingInv

\* Exposing a band only lets libmtl go further in the worker's framebuffer.
LEMMA ExposeStep == ASSUME Calm, WorkerExpose PROVE RingInv'
  <1> USE RingAssumption DEF workerVars, libVars, Free, Held, Ready, Calm, TypeInv
  <1>1. /\ UNCHANGED <<opt, stat, newer, hold, holdValid, marker, wedge, widx, wband, whole>>
        /\ UNCHANGED <<building, sent, ord, lost, reclaiming>>
        /\ wpc = "expose" /\ wpc' = (IF whole \/ wband = 1 THEN "publish" ELSE AfterBand)
        /\ widx \in Slot /\ hold \in Slot
    BY DEF WorkerExpose, TypeOK
  <1>2. /\ wband \in 1..B /\ (whole => wband = B) /\ wedge = "off"
        /\ (Unpublished <=> whole \/ wband = 1) /\ (Filling <=> ~whole /\ wband > 1)
    BY <1>1 DEF RingInv, WorkerInv, WedgeInv, Unpublished, Filling, TypeOK
  <1>3. ~(holdValid /\ widx = hold)
    <2>1. stat[widx] # Held
      BY <1>2 DEF RingInv, WorkerInv
    <2> QED
      BY <1>1, <2>1 DEF RingInv, HoldInv
  <1>4. /\ lines'[widx] = wband
        /\ \A j \in Slot : j # widx => lines'[j] = lines[j]
    BY <1>1 DEF TypeOK, WorkerExpose
  <1>5. ord[widx] > 0 => Filling /\ lines[widx] <= wband
    BY <1>1, <1>2 DEF RingInv, LibInv, WorkerInv
  <1>6. LibInv' /\ HoldInv' /\ (opt'.newest => LastInv')
    <2>1. \A i \in Slot : ord[i] > 0 => sent[i] <= lines'[i]
      BY <1>1, <1>2, <1>4, <1>5 DEF TypeOK, RingInv, LibInv
    <2> QED
      BY <1>1, <1>3, <1>4, <2>1 DEF RingInv, LibInv, HoldInv, LastInv
  <1>7. WorkerInv'
    <2>1. CASE whole \/ wband = 1
      <3>1. wpc' = "publish" /\ Unpublished' /\ ~Filling' /\ ~Filling /\ stat[widx] = Free
        BY <1>1, <1>2, <2>1 DEF Unpublished, Filling, RingInv, WorkerInv
      <3> QED
        BY <1>1, <1>2, <1>4, <3>1 DEF RingInv, WorkerInv
    <2>2. CASE ~whole /\ wband > 1
      <3>1. /\ wpc' = (IF wband = B THEN "top" ELSE "pack")
            /\ ~Unpublished' /\ Filling /\ (Filling' <=> wband # B) /\ stat[widx] = Ready
        BY <1>1, <1>2, <2>2 DEF Unpublished, Filling, AfterBand, RingInv, WorkerInv
      <3> QED
        BY <1>1, <1>2, <1>4, <2>2, <3>1 DEF RingInv, WorkerInv
    <2> QED
      BY <1>2, <2>1, <2>2
  <1>8. WedgeInv'
    BY <1>1, <1>2, <1>7 DEF WedgeInv, WorkerInv, AfterBand
  <1> QED
    BY <1>6, <1>7, <1>8 DEF RingInv

\* Announcing a framebuffer takes it from free to ready, and makes it the last
\* published.
LEMMA PublishStep == ASSUME Calm, WorkerPublish PROVE RingInv'
  <1> USE RingAssumption DEF workerVars, libVars, Free, Held, Ready, Calm, TypeInv
  <1>1. /\ UNCHANGED <<opt, lines, hold, holdValid, marker, wedge, widx, wband, whole>>
        /\ UNCHANGED <<building, sent, ord, lost, reclaiming>>
        /\ wpc = "publish" /\ wpc' = AfterBand /\ widx \in Slot /\ hold \in Slot
    BY DEF WorkerPublish, TypeOK
  <1>2. /\ wband \in 1..B /\ (whole => wband = B) /\ lines[widx] = wband /\ wedge = "off"
        /\ stat[widx] = Free /\ ~(holdValid /\ widx = hold) /\ ~Filling
    BY <1>1 DEF RingInv, HoldInv, WorkerInv, WedgeInv, Unpublished, Filling, TypeOK
  <1>3. /\ stat'[widx] = Ready
        /\ \A j \in Slot : j # widx => stat'[j] = stat[j]
    BY <1>1 DEF TypeOK, WorkerPublish
  <1>4. LibInv' /\ HoldInv' /\ (opt'.newest => LastInv')
    BY <1>1, <1>2, <1>3 DEF RingInv, LibInv, HoldInv, LastInv
  <1>5. WorkerInv'
    <2>1. opt.newest => \A i \in Slot : <<i, widx>> \notin newer'
      BY <1>1 DEF WorkerPublish
    <2>2. ~Unpublished' /\ (Filling' <=> wband # B) /\ wpc' = (IF wband = B THEN "top" ELSE "pack")
      BY <1>1, <1>2 DEF Unpublished, Filling, AfterBand
    <2>3. \A i \in Slot : stat'[i] = Ready => lines[i] = B \/ i = widx
      BY <1>2, <1>3 DEF RingInv, WorkerInv
    <2> QED
      BY <1>1, <1>2, <1>3, <2>1, <2>2, <2>3 DEF WorkerInv
  <1>6. WedgeInv'
    BY <1>1, <1>2 DEF WedgeInv, AfterBand
  <1> QED
    BY <1>4, <1>5, <1>6 DEF RingInv

\* The consumer scan stops on a framebuffer that is not held, and a scan that
\* starts from there goes no further.
LEMMA ScanStops ==
  ASSUME TypeOK, HoldInv, NEW c \in Slot, Skips(cons, c)
  PROVE  stat[c] # Held /\ \A d \in Slot : Skips(c, d) => d = c
  <1> USE RingAssumption DEF Slot
  <1>1. PICK k \in 0..N :
          /\ c = (cons + k) % N
          /\ \A m \in 0..(k - 1) : stat[(cons + m) % N] = Held
          /\ k = N \/ stat[c] # Held
    BY DEF Skips
  <1>2. cons \in 0..(N - 1) /\ hold \in 0..(N - 1)
    BY DEF TypeOK
  <1>3. k # N
    <2> SUFFICES ASSUME k = N PROVE FALSE
      OBVIOUS
    <2>0. 0 \in 0..(k - 1) /\ 1 \in 0..(k - 1)
      OBVIOUS
    <2>1. stat[(cons + 0) % N] = Held /\ stat[(cons + 1) % N] = Held
      BY <1>1, <2>0, Zenon
    <2>2. (cons + 0) % N \in 0..(N - 1) /\ (cons + 1) % N \in 0..(N - 1)
      BY <1>2
    <2>3. (cons + 0) % N # (cons + 1) % N
      BY <1>2
    <2> QED
      BY <2>1, <2>2, <2>3 DEF HoldInv
  <1>4. stat[c] # Held
    BY <1>1, <1>3, Zenon
  <1>5. ASSUME NEW d \in Slot, Skips(c, d) PROVE d = c
    <2>1. PICK j \in 0..N : d = (c + j) % N /\ \A m \in 0..(j - 1) : stat[(c + m) % N] = Held
      BY <1>5 DEF Skips
    <2>2. (c + 0) % N = c
      OBVIOUS
    <2>3. j = 0
      <3> SUFFICES ASSUME j # 0 PROVE FALSE
        OBVIOUS
      <3>1. 0 \in 0..(j - 1)
        OBVIOUS
      <3>2. stat[(c + 0) % N] = Held
        BY <2>1, <3>1, Zenon
      <3> QED
        BY <1>4, <2>2, <3>2, Zenon
    <2> QED
      BY <2>1, <2>2, <2>3
  <1> QED
    BY <1>4, <1>5

\* After the watchdog has expired the consumer stays where it is stalled, and
\* what it is offered again is the held frame, or was lost.
LEMMA WedgeServe ==
  ASSUME Calm, Asks, NEW c \in Slot, Skips(cons, c),
         \/ stat[c] # Ready /\ cons' = c /\ UNCHANGED stat
              /\ (holdValid => Accept(hold)) /\ (~holdValid => UNCHANGED ord)
         \/ stat[c] = Ready /\ \E i \in Slot : stat[i] = Ready /\ Accept(i),
         \A j \in Slot : stat'[j] = Ready => stat[j] = Ready,
         UNCHANGED <<hold, holdValid, wedge, wpc, lost>>
  PROVE  WedgeInv'
  <1> USE DEF Free, Held, Ready, Calm, TypeInv
  <1>1. CASE wedge # "expired"
    BY <1>1 DEF RingInv, WedgeInv
  <1>2. CASE wedge = "expired"
    <2>1. /\ Stalled \/ \A i \in Slot : stat[i] = Ready => i \in lost
          /\ wpc \in {"top", "check", "resync"} /\ hold \in Slot
          /\ \A i \in Slot : ord[i] > 0 => holdValid /\ i = hold
      BY <1>2 DEF RingInv, WedgeInv, Asks, Blocked, TypeOK
    <2>2. CASE stat[c] # Ready /\ cons' = c /\ UNCHANGED stat
                 /\ (holdValid => Accept(hold)) /\ (~holdValid => UNCHANGED ord)
      <3>1. Stalled'
        <4>1. \A d \in Slot : Skips(c, d) => stat[d] # Ready
          BY <2>2, ScanStops DEF RingInv
        <4>2. \A d \in Slot : Skips(cons, d)' <=> Skips(c, d)
          BY <2>2 DEF Skips
        <4> QED
          BY <2>2, <4>1, <4>2 DEF Stalled
      <3>2. \A j \in Slot : ord'[j] > 0 => holdValid /\ j = hold
        <4>1. CASE ord' = ord
          BY <2>1, <4>1
        <4>2. CASE holdValid /\ \E k \in 1..opt.depth : ord' = [ord EXCEPT ![hold] = k]
          BY <2>1, <4>2 DEF TypeOK
        <4> QED
          BY <2>1, <2>2, <4>1, <4>2, AcceptRank
      <3> QED
        BY <1>2, <2>1, <3>1, <3>2 DEF WedgeInv
    <2>3. CASE stat[c] = Ready /\ \E i \in Slot : stat[i] = Ready /\ Accept(i)
      <3>1. \A i \in Slot : stat[i] = Ready => i \in lost
        BY <2>1, <2>3 DEF Stalled
      <3>2. ord' = ord
        BY <2>3, <3>1, AcceptRank
      <3> QED
        BY <1>2, <2>1, <3>1, <3>2 DEF WedgeInv
    <2> QED
      BY <2>2, <2>3
  <1> QED
    BY <1>1, <1>2

\* With serve_newest, when libmtl asks, only the held frame and the one served last
\* may be in flight: another that waits is not.
LEMMA CandidateFree ==
  ASSUME Calm, opt.newest, Asks, NEW i \in Candidates
  PROVE  i \in Slot /\ stat[i] = Ready /\ ~(ord[i] > 0) /\ ~(holdValid /\ i = hold)
  BY AsksNewest DEF Candidates, Calm, RingInv, HoldInv, Ready, Held

\* Serving the held frame again, or the oldest ready one, or nothing, keeps the
\* invariant.
LEMMA ServeStep == ASSUME Calm, NextHold \/ NextOldest \/ NextBusy PROVE RingInv'
  <1> USE RingAssumption DEF workerVars, Free, Held, Ready, Calm, TypeInv
  <1>1. UNCHANGED <<opt, stat, lines, newer, hold, holdValid, workerVars, lost, reclaiming>> /\ Asks
    BY DEF NextHold, NextOldest, NextBusy, libVars
  <1>2. LibInv'
    <2>1. CASE NextBusy
      BY <1>1, <2>1 DEF NextBusy, RingInv, LibInv, libVars
    <2>2. CASE NextHold
      <3>1. hold \in Slot /\ stat'[hold] # Free /\ Accept(hold)
        BY <1>1, <2>2 DEF NextHold, TypeOK, RingInv, HoldInv
      <3> QED
        BY <1>1, <3>1, AcceptLib DEF RingInv, LibInv
    <2>3. CASE NextOldest
      <3>1. PICK i \in Slot : stat'[i] # Free /\ Accept(i)
        BY <1>1, <2>3 DEF NextOldest
      <3> QED
        BY <1>1, <3>1, AcceptLib DEF RingInv, LibInv
    <2> QED
      BY <2>1, <2>2, <2>3
  <1>3. HoldInv'
    BY <1>1 DEF RingInv, HoldInv
  <1>4. WorkerInv'
    BY <1>1 DEF RingInv, WorkerInv, Unpublished, Filling
  <1>5. WedgeInv'
    <2>1. PICK c \in Slot :
            /\ Skips(cons, c)
            /\ \/ stat[c] # Ready /\ cons' = c /\ (holdValid => Accept(hold)) /\ (~holdValid => UNCHANGED ord)
               \/ stat[c] = Ready /\ Accept(c)
      <3>1. CASE NextBusy
        BY <3>1 DEF NextBusy, libVars
      <3>2. CASE NextHold
        BY <3>2 DEF NextHold
      <3>3. CASE NextOldest
        BY <3>3 DEF NextOldest
      <3> QED
        BY <3>1, <3>2, <3>3
    <2> QED
      BY <1>1, <2>1, WedgeServe
  <1>6. opt.newest => LastInv'
    <2> SUFFICES ASSUME opt.newest PROVE LastInv'
      OBVIOUS
    <2>1. CASE NextBusy
      BY <1>1, <2>1 DEF NextBusy, libVars, LastInv, RingInv
    <2>2. CASE NextHold
      <3>1. hold \in Slot /\ Accept(hold) /\ holdValid /\ marker' = marker
        BY <2>2 DEF NextHold, TypeOK
      <3> QED
        BY <1>1, <3>1, AcceptLast
    <2>3. CASE NextOldest
      <3>1. PICK i \in Slot : Accept(i) /\ marker' = i
        BY <2>3 DEF NextOldest
      <3> QED
        BY <1>1, <3>1, AcceptLast
    <2> QED
      BY <2>1, <2>2, <2>3
  <1> QED
    BY <1>1, <1>2, <1>3, <1>4, <1>5, <1>6 DEF RingInv

\* Serving the newest frame frees older ready ones: neither the held one, nor one
\* in flight, nor the one the worker is filling, which is the last published.
LEMMA NewestStep == ASSUME Calm, NextNewest PROVE RingInv'
  <1> USE RingAssumption DEF workerVars, Free, Held, Ready, Calm, TypeInv
  <1>1. UNCHANGED <<opt, lines, newer, hold, holdValid, workerVars, lost, reclaiming>> /\ Asks /\ opt.newest
    BY DEF NextNewest
  <1>2. PICK i \in Candidates :
          /\ stat' = [j \in Slot |-> IF j \in Candidates /\ <<i, j>> \in newer
                                     THEN Free ELSE stat[j]]
          /\ \A j \in Candidates : <<j, i>> \notin newer
          /\ marker' = i /\ Accept(i)
    BY DEF NextNewest
  <1>3. i \in Slot /\ stat[i] = Ready /\ stat'[i] = Ready
    BY <1>2 DEF Candidates
  <1>4. \A j \in Slot : stat'[j] = stat[j] \/ (stat'[j] = Free /\ stat[j] = Ready /\ j \in Candidates)
    BY <1>2 DEF Candidates
  <1>5. LibInv'
    <2>1. \A j \in Slot : ord[j] > 0 => stat'[j] # Free
      BY <1>1, <1>4, CandidateFree DEF RingInv, LibInv
    <2> QED
      BY <1>1, <1>2, <1>3, <2>1, AcceptLib DEF RingInv
  <1>6. HoldInv'
    BY <1>1, <1>4 DEF RingInv, HoldInv, TypeOK
  <1>7. WorkerInv'
    <2>1. Unpublished => stat'[widx] = Free
      BY <1>4 DEF RingInv, WorkerInv, TypeOK
    <2>2. Filling => stat'[widx] = Ready
      BY <1>1, <1>2, <1>3 DEF RingInv, WorkerInv, TypeOK
    <2> QED
      BY <1>1, <1>4, <2>1, <2>2 DEF RingInv, WorkerInv, Unpublished, Filling
  <1>8. WedgeInv'
    <2>1. PICK c \in Slot : Skips(cons, c) /\ stat[c] = Ready
      BY DEF NextNewest
    <2> QED
      BY <1>1, <1>2, <1>3, <1>4, <2>1, WedgeServe
  <1>9. LastInv'
    BY <1>1, <1>2, <1>3, AcceptLast
  <1> QED
    BY <1>1, <1>5, <1>6, <1>7, <1>8, <1>9 DEF RingInv

\* A band sent is a band the worker has exposed.
LEMMA BandStep == ASSUME Calm, LibBand PROVE RingInv'
  <1> USE RingAssumption DEF ringVars, workerVars, libVars, Calm, TypeInv
  <1>1. /\ UNCHANGED <<opt, ringVars, workerVars, ord, lost, reclaiming>>
        /\ building \in Slot /\ sent[building] < lines[building] /\ ~Blocked
        /\ sent' = [sent EXCEPT ![building] = sent[building] + 1]
        /\ building' = IF sent[building] + 1 = B THEN NoSlot ELSE building
    BY DEF LibBand, TypeOK, Blocked
  <1>2. LibInv'
    <2>1. /\ sent'[building] = sent[building] + 1 /\ sent'[building] <= lines[building]
          /\ \A j \in Slot : j # building => sent'[j] = sent[j]
      BY <1>1 DEF TypeOK
    <2>2. sent'[building] \in 0..B /\ lines[building] \in 0..B /\ sent[building] \in 0..B
      BY <1>1, <2>1 DEF TypeOK
    <2>3. CASE sent[building] + 1 = B
      BY <1>1, <2>1, <2>2, <2>3 DEF RingInv, LibInv
    <2>4. CASE sent[building] + 1 # B
      BY <1>1, <2>1, <2>2, <2>4 DEF RingInv, LibInv
    <2> QED
      BY <2>3, <2>4
  <1>3. HoldInv' /\ (opt'.newest => LastInv')
    BY <1>1 DEF RingInv, HoldInv, LastInv
  <1>4. WorkerInv'
    BY <1>1 DEF RingInv, WorkerInv, Unpublished, Filling
  <1>5. WedgeInv'
    BY <1>1 DEF RingInv, WedgeInv, Stalled, Skips
  <1> QED
    BY <1>2, <1>3, <1>4, <1>5 DEF RingInv

\* What a port stop takes was in flight, and is lost.
LEMMA StopStep == ASSUME Calm, PortStop PROVE RingInv'
  <1> USE RingAssumption DEF ringVars, workerVars, Calm, TypeInv
  <1>1. /\ UNCHANGED <<opt, ringVars, workerVars, building, reclaiming>> /\ opt.lossy
        /\ lost' = lost \cup {i \in Slot : ord[i] > 0}
        /\ \A i \in Slot : ord'[i] = 0
        /\ building # NoSlot => building \in Slot /\ sent'[building] = sent[building]
    BY DEF PortStop, TypeOK
  <1>2. LibInv'
    <2>1. building # NoSlot => building \in lost'
      BY <1>1 DEF RingInv, LibInv
    <2> QED
      BY <1>1, <2>1 DEF RingInv, LibInv
  <1>3. HoldInv' /\ LastInv'
    BY <1>1 DEF RingInv, HoldInv, LastInv
  <1>4. WorkerInv'
    BY <1>1 DEF RingInv, WorkerInv, Unpublished, Filling
  <1>5. (Stalled => Stalled') /\ (Blocked => Blocked')
    BY <1>1 DEF Stalled, Skips, Blocked
  <1>6. WedgeInv'
    BY <1>1, <1>5 DEF RingInv, WedgeInv
  <1> QED
    BY <1>1, <1>2, <1>3, <1>4, <1>6 DEF RingInv

\* When the oldest frame in flight leaves, the others keep their order.
LEMMA ReleaseRank ==
  ASSUME TypeOK, LibInv, NEW i \in Slot, ord[i] = 1, Release(i)
  PROVE  /\ ord'[i] = 0
         /\ \A j \in Slot : j # i => sent'[j] = sent[j]
         /\ \A j \in Slot : ord'[j] > 0 <=> j # i /\ ord[j] > 0
         /\ \A j \in Slot : ord'[j] > 0 => ord'[j] = ord[j] - 1
  <1>1. ord \in [Slot -> Nat]
    BY OptType DEF TypeOK
  <1>2. \A j \in Slot : ord'[j] = IF j = i THEN 0 ELSE IF ord[j] > 1 THEN ord[j] - 1 ELSE ord[j]
    BY DEF Release
  <1>3. \A j \in Slot : j # i => ord[j] # 1
    BY DEF LibInv
  <1>4. \A j \in Slot : j # i => sent'[j] = sent[j]
    BY DEF Release, TypeOK
  <1> QED
    BY <1>1, <1>2, <1>3, <1>4

\* The frame that is done was exposed to its end: the worker has left it, and
\* it becomes the held frame while the previous one, not in flight, is freed.
LEMMA DoneStep == ASSUME Calm, NEW i \in Slot, LibDone(i), ~released' PROVE RingInv'
  <1> USE RingAssumption DEF workerVars, Free, Held, Ready, Calm, TypeInv
  <1>1. /\ UNCHANGED <<opt, newer, cons, marker, workerVars, building, lost, reclaiming>>
        /\ ord[i] = 1 /\ i # building /\ FrameDone(i) /\ hold \in Slot /\ widx \in Slot
    BY DEF LibDone, TypeOK
  <1>2. lines[i] = B /\ stat[i] # Free
    BY <1>1 DEF TypeOK, RingInv, LibInv
  <1>3. /\ ord'[i] = 0
        /\ \A j \in Slot : j # i => sent'[j] = sent[j]
        /\ \A j \in Slot : ord'[j] > 0 <=> j # i /\ ord[j] > 0
        /\ \A j \in Slot : ord'[j] > 0 => ord'[j] = ord[j] - 1
    BY <1>1, ReleaseRank DEF LibDone, RingInv
  <1>4. ord \in [Slot -> Nat]
    BY OptType DEF TypeOK
  <1>5. ASSUME \A j \in Slot : ord[j] > 0 /\ j # i => stat'[j] = stat[j] /\ lines'[j] = lines[j]
        PROVE  LibInv'
    <2>1. building # NoSlot => building \in Slot /\ sent'[building] = sent[building]
      BY <1>1, <1>3 DEF TypeOK
    <2>2. building # NoSlot => ord'[building] > 0 \/ building \in lost
      BY <1>1, <1>3, <2>1 DEF RingInv, LibInv
    <2>3. \A j, k \in Slot : ord'[j] > 0 /\ ord'[k] = ord'[j] => k = j
      BY <1>3, <1>4 DEF RingInv, LibInv
    <2> QED
      BY <1>1, <1>3, <1>5, <2>1, <2>2, <2>3 DEF RingInv, LibInv
  <1>6. \A j \in Slot : ord'[j] > 0 /\ (\A k \in Slot : ord'[k] <= ord'[j])
          => ord[j] > 0 /\ \A k \in Slot : ord[k] <= ord[j]
    <2> SUFFICES ASSUME NEW j \in Slot, ord'[j] > 0, \A k \in Slot : ord'[k] <= ord'[j], NEW k \in Slot
                 PROVE  ord[j] > 0 /\ ord[k] <= ord[j]
      OBVIOUS
    <2>1. ord[j] > 0 /\ ord'[j] = ord[j] - 1 /\ ord[j] \in Nat /\ ord[k] \in Nat
      BY <1>3, <1>4
    <2>2. CASE k = i \/ ord[k] = 0
      BY <1>1, <2>1, <2>2
    <2>3. CASE k # i /\ ord[k] > 0
      BY <1>3, <2>1, <2>3
    <2> QED
      BY <2>1, <2>2, <2>3
  <1>7. CASE holdValid /\ i = hold
    <2>1. UNCHANGED <<stat, lines, hold, holdValid>>
      BY <1>1, <1>7 DEF FrameDone
    <2>2. HoldInv' /\ LibInv'
      BY <1>1, <1>5, <2>1 DEF RingInv, HoldInv
    <2>3. (Stalled <=> Stalled') /\ (Blocked => Blocked')
      BY <1>1, <1>3, <2>1 DEF Stalled, Skips, Blocked, TypeOK
    <2>4. WedgeInv'
      BY <1>1, <1>3, <2>1, <2>3 DEF RingInv, WedgeInv
    <2>5. WorkerInv'
      BY <1>1, <2>1 DEF RingInv, WorkerInv, Unpublished, Filling
    <2>6. opt'.newest => LastInv'
      BY <1>1, <1>6, <2>1 DEF RingInv, LastInv
    <2> QED
      BY <2>2, <2>4, <2>5, <2>6 DEF RingInv
  <1>8. CASE ~(holdValid /\ i = hold)
    <2>1. /\ lines' = [j \in Slot |-> IF holdValid /\ j = hold THEN 0 ELSE lines[j]]
          /\ stat' = [j \in Slot |-> IF j = i THEN Held
                                     ELSE IF holdValid /\ j = hold THEN Free ELSE stat[j]]
          /\ hold' = i /\ holdValid' /\ ~(holdValid /\ ord[hold] > 0)
      BY <1>1, <1>2, <1>8 DEF FrameDone
    <2>2. HoldInv'
      BY <1>2, <1>8, <2>1 DEF RingInv, HoldInv
    <2>3. Unpublished => stat[widx] = Free /\ widx # i /\ ~(holdValid /\ widx = hold)
      BY <1>1, <1>2 DEF RingInv, WorkerInv, HoldInv
    <2>4. Filling => widx # i /\ ~(holdValid /\ widx = hold)
      BY <1>1, <1>2 DEF RingInv, WorkerInv, HoldInv
    <2>5. wpc \in {"pack", "expose", "publish"} => Unpublished \/ Filling
      BY DEF RingInv, WorkerInv, Unpublished, Filling, TypeOK
    <2>6. WorkerInv'
      BY <1>1, <2>1, <2>3, <2>4, <2>5 DEF RingInv, WorkerInv, Unpublished, Filling
    <2>7. WedgeInv'
      BY <1>1, <1>8 DEF RingInv, WedgeInv
    <2>8. LibInv'
      BY <1>5, <2>1
    <2>9. opt'.newest => LastInv'
      BY <1>1, <1>3, <1>6, <2>1 DEF RingInv, LastInv
    <2> QED
      BY <2>2, <2>6, <2>7, <2>8, <2>9 DEF RingInv
  <1> QED
    BY <1>7, <1>8

\* What is lost is lost to a session that holds a frame: libmtl always has one to
\* send, and reclaims nothing.
LEMMA NoRecovery ==
  ASSUME Calm
  PROVE  ~ReclaimStart /\ \A i \in Slot : ~Reclaim(i)
  <1> USE DEF Calm, RingInv
  <1>1. \A i \in Slot : ~Reclaim(i)
    BY DEF LibInv, Reclaim
  <1>2. SUFFICES ASSUME ReclaimStart PROVE FALSE
    BY <1>1
  <1>3. ~holdValid /\ opt.blank /\ \E i \in Slot : InFlight(i)
    BY <1>2 DEF ReclaimStart, HoldInv
  <1>4. lost = {} /\ \A i \in Slot : ord[i] = 0
    BY <1>2, <1>3 DEF ReclaimStart, Prompt, LibInv
  <1> QED
    BY <1>3, <1>4 DEF InFlight

\* The setting of a session never changes, and what a release upset stays upset.
LEMMA OptKept == [Next]_vars => opt' = opt /\ (released => released')
  <1> SUFFICES ASSUME [Next]_vars PROVE opt' = opt /\ (released => released')
    OBVIOUS
  <1>1. CASE WorkerRest
    <2>1. opt' = opt
      BY <1>1 DEF WorkerRest, WorkerTop, WorkerThrottle, WorkerWait, WorkerResync, ResyncOne, WorkerAcquire,
         WorkerFetchWhole, WorkerFetchGrain, WorkerPack, WorkerExpose, WorkerPublish
    <2>2. UNCHANGED libVars
      BY <1>1 DEF WorkerRest, WorkerTop, WorkerThrottle, WorkerWait, WorkerResync, ResyncOne, WorkerAcquire,
         WorkerFetchWhole, WorkerFetchGrain, WorkerPack, WorkerExpose, WorkerPublish
    <2> QED
      BY <2>1, <2>2, Zenon DEF libVars
  <1>2. CASE LibRest
    <2>1. ASSUME NEW i \in Slot, LibDone(i) \/ Reclaim(i) PROVE opt' = opt /\ (released => released')
      <3>1. opt' = opt /\ FrameDone(i)
        BY <2>1 DEF LibDone, Reclaim
      <3>2. released' = released \/ released' = (released \/ (holdValid /\ ord[hold] > 0))
        BY <3>1 DEF FrameDone
      <3>3. CASE released' = released
        BY <3>1, <3>3
      <3>4. CASE released' = (released \/ (holdValid /\ ord[hold] > 0))
        BY <3>1, <3>4, Zenon
      <3> QED
        BY <3>2, <3>3, <3>4
    <2>2. ASSUME NextBusy \/ NextHold \/ NextNewest \/ NextOldest \/ LibBand \/ ReclaimStart
          PROVE  opt' = opt /\ (released => released')
      <3>1. opt' = opt /\ released' = released
        BY <2>2 DEF NextBusy, NextHold, NextNewest, NextOldest, LibBand, ReclaimStart, libVars
      <3> QED
        BY <3>1
    <2>3. (\E i \in Slot : LibDone(i) \/ Reclaim(i))
          \/ (NextBusy \/ NextHold \/ NextNewest \/ NextOldest \/ LibBand \/ ReclaimStart)
      BY <1>2 DEF LibRest
    <2> QED
      BY <2>1, <2>2, <2>3, Zenon
  <1>3. CASE WatchdogExpires \/ PortStop \/ UNCHANGED vars
    <2>1. opt' = opt /\ released' = released
      BY <1>3 DEF WatchdogExpires, PortStop, vars, libVars
    <2> QED
      BY <2>1, Zenon
  <1> QED
    BY <1>1, <1>2, <1>3 DEF Next

\* Every step that releases no held frame in flight keeps the invariant.
LEMMA RingStep == ASSUME Calm, [Next]_vars, ~released' PROVE RingInv'
  <1>1. CASE WorkerRest
    BY <1>1, ResyncStep, WorkerQuiet, GrainStep, ExposeStep, PublishStep DEF WorkerRest
  <1>2. CASE LibRest
    BY <1>2, NoRecovery, ServeStep, NewestStep, BandStep, DoneStep DEF LibRest
  <1>3. CASE WatchdogExpires \/ PortStop
    BY <1>3, ExpireStep, StopStep
  <1>4. CASE UNCHANGED vars
    BY <1>4 DEF vars, ringVars, workerVars, libVars, Calm, RingInv, LibInv, HoldInv, WorkerInv,
       Unpublished, Filling, WedgeInv, LastInv, Stalled, Blocked, Skips
  <1> QED
    BY <1>1, <1>2, <1>3, <1>4 DEF Next

\* For any ring, picture and number of frames in flight, the induction behind the
\* safety of a prompt session holds until a held frame in flight is released.
THEOREM PromptCorrect == Spec => []PromptInv
  <1>1. Init => PromptInv
    BY InitRing DEF PromptInv
  <1>2. TypeInv /\ PromptInv /\ [Next]_vars => PromptInv'
    <2> SUFFICES ASSUME TypeInv, PromptInv, [Next]_vars, Prompt(opt)', ~released' PROVE RingInv'
      BY DEF PromptInv
    <2>1. opt' = opt /\ ~released
      BY OptKept
    <2>2. Prompt(opt)
      BY <2>1 DEF Prompt
    <2> QED
      BY <2>1, <2>2, RingStep DEF Calm, PromptInv
  <1> QED
    BY <1>1, <1>2, TypeInvCorrect, PTL DEF Spec

\* What RingInv is for.
LEMMA RingSafe == TypeInv /\ RingInv => NoTear /\ InFlightOwned /\ NoneEmptied /\ (holdValid => lines[hold] = B)
  <1> SUFFICES ASSUME TypeInv, RingInv
               PROVE  NoTear /\ InFlightOwned /\ NoneEmptied /\ (holdValid => lines[hold] = B)
    OBVIOUS
  <1> USE RingAssumption DEF Free, Held, Ready, TypeInv
  <1>1. NoTear
    <2> SUFFICES ASSUME wpc = "pack", ord[widx] > 0, widx \in Slot PROVE sent[widx] <= wband
      BY DEF NoTear, TypeOK
    <2>1. stat[widx] # Free /\ sent[widx] <= lines[widx]
      BY DEF RingInv, LibInv
    <2>2. Filling
      BY <2>1 DEF RingInv, WorkerInv, Unpublished, Filling, TypeOK
    <2> QED
      BY <2>1, <2>2 DEF RingInv, WorkerInv, TypeOK
  <1>2. InFlightOwned /\ NoneEmptied
    BY DEF InFlightOwned, NoneEmptied, RingInv, LibInv
  <1>3. holdValid => lines[hold] = B
    BY DEF RingInv, HoldInv
  <1> QED
    BY <1>1, <1>2, <1>3

\* With a prompt libmtl, whatever the ring, the picture, the throttle and the number
\* of frames in flight: a frame in flight is torn, freed or emptied in one way only,
\* by the done callback that gives back the held frame while it is on the card.
THEOREM OneDoorCorrect == Spec => [](Prompt(opt) => OneDoor)
  <1>1. TypeInv /\ PromptInv => (Prompt(opt) => OneDoor)
    BY RingSafe DEF PromptInv, OneDoor
  <1> QED
    BY <1>1, TypeInvCorrect, PromptCorrect, PTL

\* Until then, and under the same condition, the frame kept for a repetition is a
\* whole picture.
THEOREM HeldCorrect == Spec => [](Prompt(opt) => HoldComplete)
  <1>1. TypeInv /\ PromptInv => (Prompt(opt) => HoldComplete)
    BY RingSafe DEF PromptInv, HoldComplete
  <1> QED
    BY <1>1, TypeInvCorrect, PromptCorrect, PTL

-----------------------------------------------------------------------------
(* For every session, whatever libmtl, the ports and the releases do.       *)

\* A done callback marks at most its own frame as held, and frees the other.
LEMMA HeldDone ==
  ASSUME TypeInv, NoneForgotten, NEW i \in Slot, FrameDone(i)
  PROVE  NoneForgotten'
  <1> USE DEF Free, Ready, Held, TypeInv, TypeOK
  <1>1. CASE UNCHANGED <<stat, hold, holdValid>>
    BY <1>1 DEF NoneForgotten
  <1>2. CASE stat' = [stat EXCEPT ![i] = Free] /\ UNCHANGED <<hold, holdValid>>
    BY <1>2 DEF NoneForgotten
  <1>3. CASE /\ stat' = [j \in Slot |-> IF j = i THEN Held
                                     ELSE IF holdValid /\ j = hold THEN Free ELSE stat[j]]
             /\ hold' = i /\ holdValid'
    BY <1>3 DEF NoneForgotten
  <1> QED
    BY <1>1, <1>2, <1>3 DEF FrameDone

\* In every session, port stops, slow frames and releases included, a framebuffer
\* marked held is the one the ring knows it holds: none is stepped over for ever.
THEOREM ForgottenCorrect == Spec => []NoneForgotten
  <1> USE RingAssumption DEF Free, Ready, Held
  <1>1. Init => NoneForgotten
    <2> SUFFICES ASSUME Init, NEW i \in Slot, stat[i] = Held PROVE holdValid /\ i = hold
      BY DEF NoneForgotten
    <2>1. ~opt.blank /\ i = N - 1
      BY DEF Init
    <2>2. holdValid /\ hold = N - 1
      BY <2>1, Zenon DEF Init
    <2> QED
      BY <2>1, <2>2
  <1>2. TypeInv /\ NoneForgotten /\ [Next]_vars => NoneForgotten'
    <2> SUFFICES ASSUME TypeInv, NoneForgotten, [Next]_vars PROVE NoneForgotten'
      OBVIOUS
    <2> USE DEF ringVars, libVars, workerVars
    <2>1. CASE WorkerPublish
      BY <2>1 DEF WorkerPublish, NoneForgotten, TypeInv, TypeOK
    <2>2. CASE ResyncOne
      BY <2>2 DEF ResyncOne, NoneForgotten, TypeInv, TypeOK
    <2>3. CASE NextNewest
      BY <2>3 DEF NextNewest, NoneForgotten, TypeInv, TypeOK
    <2>4. ASSUME NEW i \in Slot, LibDone(i) \/ Reclaim(i) PROVE NoneForgotten'
      BY <2>4, HeldDone DEF LibDone, Reclaim
    <2>5. CASE UNCHANGED <<stat, hold, holdValid>>
      BY <2>5 DEF NoneForgotten
    <2>6. \/ WorkerPublish \/ ResyncOne \/ NextNewest \/ (\E i \in Slot : LibDone(i) \/ Reclaim(i))
          \/ UNCHANGED <<stat, hold, holdValid>>
      BY DEF Next, vars, WorkerRest, WatchdogExpires, WorkerTop, WorkerThrottle, WorkerWait, WorkerResync,
         WorkerAcquire, WorkerFetchWhole, WorkerFetchGrain, WorkerPack, WorkerExpose, LibRest, NextBusy,
         NextHold, NextOldest, LibBand, ReclaimStart, PortStop
    <2> QED
      BY <2>1, <2>2, <2>3, <2>4, <2>5, <2>6
  <1> QED
    BY <1>1, <1>2, TypeInvCorrect, PTL DEF Spec

-----------------------------------------------------------------------------
(* The ring implements the abstract sender, under the same condition.       *)
(* Every step maps to a step of Sender or to none.                          *)

\* In a session with its black picture the pages are those of the ring.
LEMMA Pages ==
  ASSUME ~opt.blank
  PROVE  /\ AbsOwner = [i \in Slot |-> Owner(i)]
         /\ AbsOnAir = {i \in Slot : ord[i] > 0}
  BY DEF AbsOwner, AbsOnAir

LEMMA PagesNext ==
  ASSUME ~opt.blank, opt' = opt
  PROVE  /\ AbsOwner' = [i \in Slot |-> Owner(i)']
         /\ AbsOnAir' = {i \in Slot : ord'[i] > 0}
  BY DEF AbsOwner, AbsOnAir

\* The setup holds its black picture and has nothing on air.
LEMMA InitSender == Init => Abstract!Init
  <1> SUFFICES ASSUME Init PROVE Abstract!Init
    OBVIOUS
  <1> USE RingAssumption DEF Free, Ready, Held, Slot
  <1>0. AbsKept = TRUE
    <2>1. released = FALSE
      BY DEF Init
    <2> QED
      BY <2>1, Zenon DEF AbsKept
  <1>1. CASE opt.blank
    <2>1. AbsOwner = [i \in Slot |-> IF i = 0 THEN "held" ELSE "free"] /\ AbsOnAir = {} /\ 0 \in Slot
      BY <1>1 DEF AbsOwner, AbsOnAir
    <2> QED
      BY <1>0, <2>1 DEF Abstract!Init
  <1>2. CASE ~opt.blank
    <2>1. wpc = "top" /\ N - 1 \in Slot
      BY DEF Init
    <2>2. stat = [i \in Slot |-> IF i = N - 1 THEN Held ELSE Free] /\ \A i \in Slot : ord[i] = 0
      BY <1>2 DEF Init
    <2>3. \A i \in Slot : Owner(i) = IF i = N - 1 THEN "held" ELSE "free"
      BY <2>1, <2>2 DEF Owner, Unpublished
    <2>4. AbsOnAir = {}
      BY <1>2, <2>2, Pages
    <2>5. AbsOwner = [i \in Slot |-> IF i = N - 1 THEN "held" ELSE "free"]
      BY <1>2, <2>3, Pages
    <2> QED
      BY <1>0, <2>1, <2>4, <2>5 DEF Abstract!Init
  <1> QED
    BY <1>1, <1>2

\* A step that moves no page, and no page of the worker, is none of the sender.
LEMMA Stutter ==
  ASSUME ~opt.blank, opt' = opt, UNCHANGED <<stat, ord>>,
         Unpublished' <=> Unpublished, Unpublished => widx' = widx
  PROVE  AbsOwner' = AbsOwner /\ AbsOnAir' = AbsOnAir
  <1>1. \A i \in Slot : Owner(i)' = Owner(i)
    BY DEF Owner
  <1> QED
    BY <1>1, Pages, PagesNext

\* The steps of the worker that wait, look, pack or expose, the watchdog that
\* expires and a band that is sent are none of the sender.
LEMMA QuietSender ==
  ASSUME Calm, ~opt.blank,
         WorkerTop \/ WorkerThrottle \/ WorkerWait \/ WorkerResync \/ WorkerFetchWhole \/ WorkerFetchGrain
           \/ WorkerPack \/ WorkerExpose \/ WatchdogExpires \/ LibBand \/ NextBusy
  PROVE  AbsOwner' = AbsOwner /\ AbsOnAir' = AbsOnAir
  <1> USE RingAssumption DEF workerVars, ringVars, libVars, Calm, TypeInv
  <1>1. UNCHANGED <<opt, stat, ord>>
    BY DEF WorkerTop, WorkerThrottle, WorkerWait, WorkerResync, WorkerFetchWhole, WorkerFetchGrain,
       WorkerPack, WorkerExpose, WatchdogExpires, LibBand, NextBusy
  <1>2. (Unpublished' <=> Unpublished) /\ (Unpublished => widx' = widx)
    <2>1. CASE WorkerTop \/ WorkerThrottle \/ WorkerWait \/ WorkerResync
      <3>1. wpc \in {"top", "check"} /\ wpc' \in {"top", "check", "resync"}
        BY <2>1 DEF WorkerTop, WorkerThrottle, WorkerWait, WorkerResync
      <3> QED
        BY <3>1 DEF Unpublished
    <2>2. CASE WorkerFetchWhole
      BY <2>2 DEF WorkerFetchWhole, Unpublished
    <2>3. CASE WorkerFetchGrain
      BY <2>3 DEF WorkerFetchGrain, Unpublished, TurnInv
    <2>4. CASE WorkerPack
      <3>1. wpc = "pack" /\ wpc' = "expose" /\ UNCHANGED <<widx, whole>> /\ wband \in 0..B
            /\ (~whole => (wband = 0 <=> wband' = 1))
        BY <2>4 DEF WorkerPack, TypeOK, RingInv, WorkerInv
      <3> QED
        BY <3>1 DEF Unpublished
    <2>5. CASE WorkerExpose
      BY <2>5 DEF WorkerExpose, AfterBand, Unpublished, RingInv, WorkerInv, TypeOK
    <2>6. CASE WatchdogExpires \/ LibBand \/ NextBusy
      BY <2>6 DEF WatchdogExpires, LibBand, NextBusy, Unpublished
    <2> QED
      BY <2>1, <2>2, <2>3, <2>4, <2>5, <2>6
  <1> QED
    BY <1>1, <1>2, Stutter

\* The worker takes the framebuffer its index names, and has no other.
LEMMA TakeSender == ASSUME Calm, ~opt.blank, WorkerAcquire PROVE Abstract!Keeps
  <1> USE RingAssumption DEF Free, Ready, Held, ringVars, libVars
  <1>1. widx \in Slot /\ stat[widx] = Free /\ wpc = "check"
    BY DEF WorkerAcquire, Calm, TypeInv, TypeOK, TurnInv
  <1>2. UNCHANGED <<opt, stat, ord, widx>> /\ wpc' = "fetch"
    BY DEF WorkerAcquire
  <1>3. \A i \in Slot : Owner(i) # "worker"
    BY <1>1 DEF Owner, Unpublished
  <1>4. \A i \in Slot : Owner(i)' = IF i = widx THEN "worker" ELSE Owner(i)
    BY <1>1, <1>2 DEF Owner, Unpublished
  <1>5. Owner(widx) = "free"
    BY <1>1 DEF Owner, Unpublished
  <1>6. Abstract!Take(widx)
    BY <1>1, <1>2, <1>3, <1>4, <1>5, Pages, PagesNext DEF Abstract!Take
  <1> QED
    BY <1>1, <1>6 DEF Abstract!Keeps

\* sl_mark_pub announces the framebuffer the worker has.
LEMMA AnnounceSender == ASSUME Calm, ~opt.blank, WorkerPublish PROVE Abstract!Keeps
  <1> USE RingAssumption DEF Free, Ready, Held, libVars, Calm, TypeInv
  <1>1. widx \in Slot /\ wpc = "publish" /\ stat[widx] = Free /\ wband > 0 /\ (whole => wband = B)
    BY DEF WorkerPublish, TypeOK, RingInv, WorkerInv, Unpublished
  <1>2. UNCHANGED <<opt, ord, widx, whole, wband>> /\ stat' = [stat EXCEPT ![widx] = Ready]
    BY DEF WorkerPublish
  <1>3. ~Unpublished'
    BY <1>1, <1>2 DEF WorkerPublish, AfterBand, Unpublished
  <1>4. \A i \in Slot : Owner(i)' = IF i = widx THEN "ready" ELSE Owner(i)
    BY <1>1, <1>2, <1>3 DEF Owner, TypeOK
  <1>5. Owner(widx) = "worker"
    BY <1>1 DEF Owner, Unpublished
  <1>6. Abstract!Announce(widx)
    BY <1>1, <1>2, <1>4, <1>5, Pages, PagesNext DEF Abstract!Announce
  <1> QED
    BY <1>1, <1>6 DEF Abstract!Keeps

\* The watchdog gives a ready framebuffer back; the held one alone may be on air.
LEMMA ResyncSender == ASSUME Calm, ~opt.blank, ResyncOne PROVE Abstract!Keeps
  <1> USE RingAssumption DEF Free, Ready, Held, libVars, Calm, TypeInv
  <1> DEFINE S == {i \in Slot : i = widx /\ i # hold /\ stat[i] = Ready}
  <1>1. /\ wpc = "resync" /\ wpc' \in {"resync", "top"} /\ wedge = "expired" /\ holdValid
        /\ widx \in Slot /\ UNCHANGED <<opt, ord>>
    BY DEF ResyncOne, ResyncMoves, RingInv, HoldInv, WedgeInv, TypeOK
  <1>2. \A i \in Slot : stat'[i] = IF i = widx /\ i # hold THEN Free ELSE stat[i]
    BY <1>1 DEF ResyncOne, TypeOK
  <1>3. \A i \in Slot : (stat[i] = Held <=> i = hold) /\ (ord[i] > 0 => i = hold)
    BY <1>1 DEF RingInv, HoldInv, WedgeInv
  <1>4. ~Unpublished /\ ~Unpublished'
    BY <1>1 DEF Unpublished
  <1>5. \A i \in Slot : Owner(i)' = IF i \in S THEN "free" ELSE Owner(i)
    BY <1>2, <1>3, <1>4 DEF Owner, TypeOK
  <1>6. \A i \in S : Owner(i) = "ready" /\ ~(ord[i] > 0) /\ i \in Slot
    BY <1>3 DEF Owner
  <1>7. S \in SUBSET Slot
    OBVIOUS
  <1> HIDE DEF S
  <1>8. AbsOwner' = [i \in Slot |-> IF i \in S THEN "free" ELSE AbsOwner[i]]
    BY <1>1, <1>5, Pages, PagesNext
  <1>9. AbsOnAir' = AbsOnAir /\ \A i \in S : AbsOwner[i] = "ready" /\ i \notin AbsOnAir
    BY <1>1, <1>6, Pages, PagesNext
  <1>10. Abstract!GiveBack(S)
    BY <1>8, <1>9 DEF Abstract!GiveBack, Abstract!Back
  <1> QED
    BY <1>7, <1>10 DEF Abstract!Keeps

\* The frame libmtl is served was ready or held, and goes on air unless libmtl
\* refuses it; what serve_newest passes over goes back.
LEMMA ServeSender ==
  ASSUME Calm, ~opt.blank, Asks, NEW i \in Slot, Accept(i), stat[i] # Free,
         NEW S \in SUBSET Slot, i \notin S, \A j \in S : stat[j] = Ready /\ ~(ord[j] > 0),
         stat' = [j \in Slot |-> IF j \in S THEN Free ELSE stat[j]],
         UNCHANGED <<opt, workerVars>>
  PROVE  Abstract!Keeps
  <1> USE RingAssumption DEF Free, Ready, Held, workerVars, Calm, TypeInv
  <1>1. stat[i] \in {Ready, Held}
    BY DEF TypeOK
  <1>2. (Unpublished' <=> Unpublished) /\ (Unpublished => stat[widx] = Free) /\ widx' = widx
    BY DEF Unpublished, RingInv, WorkerInv
  <1>3. \A j \in Slot : Owner(j)' = IF j \in S THEN "free" ELSE Owner(j)
    BY <1>2 DEF Owner, TypeOK
  <1>4. Owner(i) \in {"ready", "held"} /\ \A j \in S : Owner(j) = "ready"
    BY <1>1 DEF Owner
  <1>5. AbsOwner' = [j \in Slot |-> IF j \in S THEN "free" ELSE AbsOwner[j]]
    BY <1>3, Pages, PagesNext
  <1>6. AbsOwner[i] \in {"ready", "held"} /\ \A j \in S : AbsOwner[j] = "ready" /\ j \notin AbsOnAir
    BY <1>4, Pages
  <1>7. Abstract!Back(S)
    BY <1>5, <1>6 DEF Abstract!Back
  <1>8. CASE ord' = ord
    <2>1. AbsOnAir' = AbsOnAir
      BY <1>8, Pages, PagesNext
    <2>2. Abstract!GiveBack(S)
      BY <1>7, <2>1 DEF Abstract!GiveBack
    <2> QED
      BY <2>2 DEF Abstract!Keeps
  <1>9. CASE ord[i] = 0 /\ \E k \in 1..opt.depth : ord' = [ord EXCEPT ![i] = k]
    <2>1. \A j \in Slot : ord'[j] > 0 <=> j = i \/ ord[j] > 0
      BY <1>9 DEF TypeOK
    <2>2. AbsOnAir' = AbsOnAir \cup {i} /\ i \notin AbsOnAir
      BY <1>9, <2>1, Pages, PagesNext
    <2>3. Abstract!Serve(i, S)
      BY <1>6, <1>7, <2>2 DEF Abstract!Serve
    <2> QED
      BY <2>3 DEF Abstract!Keeps
  <1> QED
    BY <1>8, <1>9, AcceptRank

LEMMA HoldSender == ASSUME Calm, ~opt.blank, NextHold PROVE Abstract!Keeps
  <1>1. hold \in Slot /\ stat[hold] # Free /\ Asks /\ Accept(hold)
    BY DEF NextHold, Calm, TypeInv, TypeOK, RingInv, HoldInv, Free, Held
  <1> DEFINE S == {}
  <1>2. UNCHANGED <<opt, workerVars>> /\ stat' = [j \in Slot |-> IF j \in S THEN Free ELSE stat[j]]
    BY DEF NextHold, Calm, TypeInv, TypeOK
  <1>3. S \in SUBSET Slot /\ (\A j \in S : stat[j] = Ready /\ ~(ord[j] > 0)) /\ hold \notin S
    OBVIOUS
  <1> HIDE DEF S
  <1> QED
    BY <1>1, <1>2, <1>3, ServeSender

LEMMA OldestSender == ASSUME Calm, ~opt.blank, NextOldest PROVE Abstract!Keeps
  <1>1. PICK c \in Slot : stat[c] = Ready /\ Accept(c)
    BY DEF NextOldest
  <1> DEFINE S == {}
  <1>2. UNCHANGED <<opt, workerVars>> /\ stat' = [j \in Slot |-> IF j \in S THEN Free ELSE stat[j]]
    BY DEF NextOldest, Calm, TypeInv, TypeOK
  <1>3. S \in SUBSET Slot /\ (\A j \in S : stat[j] = Ready /\ ~(ord[j] > 0)) /\ c \notin S
    OBVIOUS
  <1> HIDE DEF S
  <1>4. Asks /\ stat[c] # Free
    BY <1>1 DEF NextOldest, Free, Ready
  <1> QED
    BY <1>1, <1>2, <1>3, <1>4, ServeSender

\* What serve_newest passes over is not in flight.
LEMMA NewestSender == ASSUME Calm, ~opt.blank, NextNewest PROVE Abstract!Keeps
  <1>1. PICK i \in Candidates :
          /\ stat' = [j \in Slot |-> IF j \in Candidates /\ <<i, j>> \in newer
                                     THEN Free ELSE stat[j]]
          /\ \A j \in Candidates : <<j, i>> \notin newer
          /\ Accept(i)
    BY DEF NextNewest
  <1> DEFINE S == {j \in Candidates : <<i, j>> \in newer}
  <1>2. Asks /\ opt.newest /\ UNCHANGED <<opt, workerVars>>
    BY DEF NextNewest
  <1>3. \A j \in Candidates : j \in Slot /\ stat[j] = Ready /\ ~(ord[j] > 0)
    BY <1>2, CandidateFree
  <1>4. S \in SUBSET Slot /\ i \notin S /\ i \in Slot /\ stat[i] # Free
        /\ \A j \in S : stat[j] = Ready /\ ~(ord[j] > 0)
    BY <1>1, <1>3 DEF Free, Ready
  <1>5. stat' = [j \in Slot |-> IF j \in S THEN Free ELSE stat[j]]
    BY <1>1
  <1> HIDE DEF S
  <1> QED
    BY <1>1, <1>2, <1>4, <1>5, ServeSender

\* A frame that is done takes the place of the held one, or was the held one.
LEMMA DoneSender ==
  ASSUME Calm, ~opt.blank, NEW i \in Slot, LibDone(i), ~released'
  PROVE  Abstract!Keeps
  <1> USE RingAssumption DEF Free, Ready, Held, workerVars, Calm, TypeInv
  <1>1. UNCHANGED <<opt, workerVars>> /\ ord[i] = 1 /\ i # building
    BY DEF LibDone
  <1>2. \A j \in Slot : ord'[j] > 0 <=> j # i /\ ord[j] > 0
    BY <1>1, ReleaseRank DEF LibDone, RingInv
  <1>3. i \in AbsOnAir /\ AbsOnAir' = AbsOnAir \ {i}
    BY <1>1, <1>2, Pages, PagesNext
  <1>4. /\ lines[i] = B /\ stat[i] # Free /\ FrameDone(i) /\ hold \in Slot
        /\ holdValid /\ \A j \in Slot : stat[j] = Held <=> j = hold
    BY <1>1 DEF LibDone, TypeOK, RingInv, LibInv, HoldInv
  <1>5. (Unpublished' <=> Unpublished) /\ widx' = widx /\ (Unpublished => stat[widx] = Free)
    BY <1>1 DEF Unpublished, RingInv, WorkerInv
  <1>6. CASE i = hold
    <2>1. stat' = stat
      BY <1>4, <1>6 DEF FrameDone
    <2>2. \A j \in Slot : Owner(j)' = Owner(j)
      BY <1>5, <2>1 DEF Owner
    <2>3. AbsOwner' = AbsOwner /\ AbsOwner[i] = "held"
      BY <1>1, <1>4, <1>6, <2>2, Pages, PagesNext DEF Owner
    <2>4. Abstract!Done(i)
      BY <1>3, <2>3 DEF Abstract!Done
    <2> QED
      BY <2>4 DEF Abstract!Keeps
  <1>7. CASE i # hold
    <2>1. stat' = [j \in Slot |-> IF j = i THEN Held ELSE IF j = hold THEN Free ELSE stat[j]]
          /\ ~(ord[hold] > 0)
      BY <1>4, <1>7 DEF FrameDone
    <2>2. stat[i] = Ready
      BY <1>4, <1>7 DEF TypeOK
    <2>3. \A j \in Slot : Owner(j) = "held" <=> j = hold
      BY <1>4 DEF Owner
    <2>4. Owner(i) = "ready"
      BY <2>2 DEF Owner
    <2>5. Unpublished => widx # hold
      BY <1>4, <1>5
    <2>6. \A j \in Slot :
            Owner(j)' = IF j = i THEN "held" ELSE IF Owner(j) = "held" THEN "free" ELSE Owner(j)
      BY <1>5, <2>1, <2>3, <2>5 DEF Owner
    <2>7. /\ AbsOwner[i] = "ready"
          /\ AbsOwner' = [j \in Slot |-> IF j = i THEN "held"
                                         ELSE IF AbsOwner[j] = "held" THEN "free" ELSE AbsOwner[j]]
      BY <1>1, <2>4, <2>6, Pages, PagesNext
    <2>8. \A j \in AbsOnAir : AbsOwner[j] # "held"
      BY <2>1, <2>3, Pages
    <2>9. Abstract!Done(i)
      BY <1>3, <2>7, <2>8 DEF Abstract!Done
    <2> QED
      BY <2>9 DEF Abstract!Keeps
  <1> QED
    BY <1>6, <1>7

\* The done that gives back a held frame in flight is the sender's release.
LEMMA ReleaseSender ==
  ASSUME Calm, ~opt.blank, ~released, NEW i \in Slot, LibDone(i), released'
  PROVE  Abstract!Release
  <1> USE RingAssumption DEF Free, Ready, Held, Calm, TypeInv
  <1>1. opt' = opt /\ ord[i] = 1 /\ FrameDone(i) /\ stat[i] # Free /\ hold \in Slot
    BY DEF LibDone, RingInv, LibInv, TypeOK
  <1>2. ~(holdValid /\ i = hold) /\ holdValid /\ ord[hold] > 0
    BY <1>1, Zenon DEF FrameDone
  <1>3. stat[i] = Ready /\ stat[hold] = Held
    BY <1>1, <1>2 DEF RingInv, HoldInv, TypeOK
  <1>4. Owner(i) = "ready" /\ Owner(hold) = "held"
    BY <1>3 DEF Owner
  <1>5. i \in AbsOnAir /\ hold \in AbsOnAir /\ AbsOwner[i] = "ready" /\ AbsOwner[hold] = "held"
    BY <1>1, <1>2, <1>4, Pages
  <1>6. AbsKept' = FALSE
    BY <1>1, Zenon DEF AbsKept
  <1> QED
    BY <1>5, <1>6 DEF Abstract!Release

\* A port stop takes from libmtl the pages it had.
LEMMA StopSender == ASSUME Calm, ~opt.blank, PortStop PROVE Abstract!Keeps
  <1>1. UNCHANGED <<opt, stat, widx, wpc, whole, wband>>
        /\ (\E i \in Slot : ord[i] > 0) /\ ord' = [i \in Slot |-> 0]
    BY DEF PortStop, ringVars, workerVars
  <1>2. \A i \in Slot : Owner(i)' = Owner(i)
    BY <1>1 DEF Owner, Unpublished
  <1>3. AbsOwner' = AbsOwner /\ AbsOnAir # {} /\ AbsOnAir' = {}
    BY <1>1, <1>2, Pages, PagesNext
  <1> QED
    BY <1>3 DEF Abstract!Keeps, Abstract!Lose

\* Until a release every step of the ring keeps the sender's promise, or moves
\* none of its pages.
LEMMA KeepsSender ==
  ASSUME Calm, ~opt.blank, [Next]_vars, ~released'
  PROVE  Abstract!Keeps \/ (AbsOwner' = AbsOwner /\ AbsOnAir' = AbsOnAir)
  <1>1. CASE WorkerRest
    BY <1>1, QuietSender, TakeSender, AnnounceSender, ResyncSender DEF WorkerRest
  <1>2. CASE LibRest
    BY <1>2, NoRecovery, HoldSender, OldestSender, NewestSender, QuietSender, DoneSender DEF LibRest
  <1>3. CASE WatchdogExpires \/ PortStop
    BY <1>3, QuietSender, StopSender
  <1>4. CASE UNCHANGED vars
    BY <1>4, Stutter DEF vars, ringVars, workerVars, libVars, Unpublished
  <1> QED
    BY <1>1, <1>2, <1>3, <1>4 DEF Next

\* Only a done callback releases the held frame.
LEMMA ReleasedBy ==
  ASSUME [Next]_vars, ~released, released'
  PROVE  \E i \in Slot : LibDone(i) \/ Reclaim(i)
  <1> SUFFICES ASSUME ~(\E i \in Slot : LibDone(i) \/ Reclaim(i)) PROVE released' = released
    BY Zenon
  <1> USE DEF libVars
  <1>1. CASE WorkerRest
    BY <1>1 DEF WorkerRest, WorkerTop, WorkerThrottle, WorkerWait, WorkerResync, ResyncOne, WorkerAcquire,
       WorkerFetchWhole, WorkerFetchGrain, WorkerPack, WorkerExpose, WorkerPublish
  <1>2. CASE LibRest
    BY <1>2 DEF LibRest, NextBusy, NextHold, NextNewest, NextOldest, LibBand, ReclaimStart
  <1>3. CASE WatchdogExpires \/ PortStop \/ UNCHANGED vars
    BY <1>3 DEF WatchdogExpires, PortStop, vars
  <1> QED
    BY <1>1, <1>2, <1>3 DEF Next

\* Every step of the ring is a step of the sender, or none.
LEMMA StepSender ==
  ASSUME Prompt(opt), TypeInv, PromptInv, [Next]_vars
  PROVE  [Abstract!Next]_(Abstract!vars)
  <1>0. opt' = opt /\ (released => released')
    BY OptKept
  <1>1. CASE opt.blank
    <2>1. AbsOwner' = AbsOwner /\ AbsOnAir' = AbsOnAir
      BY <1>0, <1>1 DEF AbsOwner, AbsOnAir
    <2>2. AbsKept = TRUE /\ AbsKept' = TRUE
      BY <1>0, <1>1, Zenon DEF AbsKept
    <2> QED
      BY <2>1, <2>2 DEF Abstract!vars
  <1>2. CASE ~opt.blank /\ released
    <2>1. AbsKept = FALSE /\ AbsKept' = FALSE
      BY <1>0, <1>2, Zenon DEF AbsKept
    <2> QED
      BY <2>1 DEF Abstract!Next
  <1>3. CASE ~opt.blank /\ ~released /\ released'
    <2>1. Calm
      BY <1>3 DEF Calm, PromptInv
    <2>2. PICK i \in Slot : LibDone(i)
      BY <1>3, <2>1, ReleasedBy, NoRecovery
    <2>3. AbsKept
      BY <1>3, Zenon DEF AbsKept
    <2>4. Abstract!Release
      BY <1>3, <2>1, <2>2, ReleaseSender
    <2> QED
      BY <2>3, <2>4 DEF Abstract!Next
  <1>4. CASE ~opt.blank /\ ~released /\ ~released'
    <2>1. Calm
      BY <1>4 DEF Calm, PromptInv
    <2>2. AbsKept = TRUE /\ AbsKept' = TRUE
      BY <1>4, Zenon DEF AbsKept
    <2>3. Abstract!Keeps \/ (AbsOwner' = AbsOwner /\ AbsOnAir' = AbsOnAir)
      BY <1>4, <2>1, KeepsSender
    <2> QED
      BY <2>2, <2>3 DEF Abstract!Next, Abstract!vars
  <1> QED
    BY <1>1, <1>2, <1>3, <1>4

\* Every session has a prompt libmtl.
AllPrompt == \A s \in Settings : Prompt(s)

\* With a prompt libmtl, any number of frames in flight and any ring, picture and
\* throttle, the ring implements the sender, port stops that lose frames included:
\* every framebuffer has one owner, one is held, and none on air is taken back, until
\* a done callback gives back a held frame that is on the card.
THEOREM SenderRefined == AllPrompt => (Spec => IsSender)
  <1> SUFFICES ASSUME AllPrompt PROVE Spec => IsSender
    OBVIOUS
  <1>1. TypeInv => Prompt(opt)
    BY DEF AllPrompt, TypeInv, TypeOK
  <1>2. TypeInv /\ PromptInv /\ [Next]_vars => [Abstract!Next]_(Abstract!vars)
    BY <1>1, StepSender
  <1> QED
    BY <1>2, InitSender, TypeInvCorrect, PromptCorrect, PTL DEF Spec, IsSender, Abstract!Spec

\* A sender keeps its promise, whatever its pages: the abstract actions alone
\* say so.
LEMMA AbstractPromise == Abstract!Promise /\ [Abstract!Next]_(Abstract!vars) => Abstract!Promise'
  <1> SUFFICES ASSUME Abstract!Promise, [Abstract!Next]_(Abstract!vars) PROVE Abstract!Promise'
    OBVIOUS
  <1> USE DEF Abstract!Promise, Abstract!Owners
  <1>1. CASE UNCHANGED Abstract!vars
    BY <1>1 DEF Abstract!vars
  <1>2. CASE ~AbsKept'
    BY <1>2
  <1>3. CASE AbsKept /\ Abstract!Keeps
    <2>h. PICK h \in Slot : \A i \in Slot : AbsOwner[i] = "held" <=> i = h
      BY <1>3
    <2>t. /\ AbsOwner \in [Slot -> {"free", "worker", "ready", "held"}] /\ AbsOnAir \subseteq Slot
          /\ \A i, j \in Slot : AbsOwner[i] = "worker" /\ AbsOwner[j] = "worker" => i = j
          /\ \A i \in AbsOnAir : AbsOwner[i] \in {"ready", "held"}
      BY <1>3
    <2>1. ASSUME NEW i \in Slot, Abstract!Take(i) PROVE Abstract!Promise'
      BY <2>1, <2>h, <2>t DEF Abstract!Take
    <2>2. ASSUME NEW i \in Slot, Abstract!Announce(i) PROVE Abstract!Promise'
      BY <2>2, <2>h, <2>t DEF Abstract!Announce
    <2>3. ASSUME NEW i \in Slot, Abstract!Done(i) PROVE Abstract!Promise'
      <3>1. CASE AbsOwner[i] = "held"
        BY <2>3, <2>h, <2>t, <3>1 DEF Abstract!Done
      <3>2. CASE AbsOwner[i] = "ready"
        <4>1. AbsOwner' = [j \in Slot |-> IF j = i THEN "held" ELSE IF AbsOwner[j] = "held" THEN "free" ELSE AbsOwner[j]]
              /\ AbsOnAir' = AbsOnAir \ {i} /\ \A j \in AbsOnAir : AbsOwner[j] # "held"
          BY <2>3, <3>2 DEF Abstract!Done
        <4>2. \A j \in Slot : AbsOwner'[j] = "held" <=> j = i
          BY <4>1
        <4> QED
          BY <2>t, <4>1, <4>2
      <3> QED
        BY <2>3, <3>1, <3>2 DEF Abstract!Done
    <2>4. ASSUME NEW S \in SUBSET Slot, Abstract!Back(S), AbsOnAir' \subseteq Slot,
                 \A i \in AbsOnAir' : AbsOwner[i] \in {"ready", "held"} /\ i \notin S
          PROVE  Abstract!Promise'
      <3>1. \A j \in Slot : AbsOwner'[j] = IF j \in S THEN "free" ELSE AbsOwner[j]
        BY <2>4 DEF Abstract!Back
      <3>2. AbsOwner' \in [Slot -> {"free", "worker", "ready", "held"}]
        BY <2>4, <2>t DEF Abstract!Back
      <3>3. \A j \in Slot : AbsOwner'[j] = "held" <=> j = h
        BY <2>4, <2>h, <3>1 DEF Abstract!Back
      <3> QED
        BY <2>4, <2>t, <3>1, <3>2, <3>3
    <2>5. ASSUME NEW S \in SUBSET Slot, Abstract!GiveBack(S) PROVE Abstract!Promise'
      BY <2>4, <2>5, <2>t DEF Abstract!GiveBack, Abstract!Back
    <2>6. ASSUME NEW S \in SUBSET Slot, NEW i \in Slot, Abstract!Serve(i, S) PROVE Abstract!Promise'
      BY <2>4, <2>6, <2>t DEF Abstract!Serve, Abstract!Back
    <2>7. CASE Abstract!Lose
      BY <2>7, <2>h, <2>t DEF Abstract!Lose
    <2> QED
      BY <1>3, <2>1, <2>2, <2>3, <2>5, <2>6, <2>7 DEF Abstract!Keeps
  <1> QED
    BY <1>1, <1>2, <1>3 DEF Abstract!Next, Abstract!Release

\* Under the same assumption, until that release, a sender always has one page to
\* send again, and one only, its worker fills one page at a time, and what is on air
\* is never the worker's nor nobody's: what the refinement is worth.
THEOREM PromiseKept == AllPrompt => (Spec => []Abstract!Promise)
  <1>1. Abstract!Init => Abstract!Promise
    BY DEF Abstract!Init, Abstract!Promise, Abstract!Owners
  <1>2. Abstract!Spec => []Abstract!Promise
    BY <1>1, AbstractPromise, PTL DEF Abstract!Spec
  <1> QED
    BY <1>2, SenderRefined DEF IsSender

-----------------------------------------------------------------------------
(* serve_newest never goes back in time, under the same condition.          *)

\* The last frame served is the held one, which then is alone in flight, is in
\* flight itself, or was lost; and no frame that waits and that libmtl would take
\* was published before what it has.
OrderInv ==
  /\ marker = NoSlot \/ (holdValid /\ marker = hold) \/ ord[marker] > 0 \/ marker \in lost
  /\ holdValid /\ marker = hold => \A i \in Slot : ord[i] > 0 => i = hold
  /\ \A f, i \in Slot : OnWire(f) /\ stat[i] = Ready /\ ~InFlight(i) /\ i # f => <<f, i>> \notin newer

NewestInv == opt.newest /\ Prompt(opt) /\ ~released => OrderInv

LEMMA InitOrder == Init => OrderInv
  BY DEF Init, OrderInv, OnWire, NoSlot, Slot

\* The frame served last waits for nothing: it is held, in flight or lost.
LEMMA AllCandidates ==
  ASSUME Calm, OrderInv, NEW j \in Slot, stat[j] = Ready, ~InFlight(j)
  PROVE  j \in Candidates
  <1>1. j # NoSlot
    BY RingAssumption DEF Slot, NoSlot
  <1>2. ~(holdValid /\ j = hold)
    BY DEF Calm, RingInv, HoldInv, Ready, Held
  <1> QED
    BY <1>1, <1>2 DEF OrderInv, Candidates, InFlight

LEMMA SameOrder ==
  ASSUME OrderInv, UNCHANGED <<marker, hold, holdValid, ord, newer, lost>>,
         \A i \in Slot : stat'[i] = Ready => stat[i] = Ready
  PROVE  OrderInv'
  BY DEF OrderInv, OnWire, InFlight

\* What is published is the newest, and was not in flight.
LEMMA PublishOrder ==
  ASSUME Calm, opt.newest, OrderInv, WorkerPublish
  PROVE  OrderInv'
  <1> USE DEF Calm, TypeInv, Free, Ready, Held
  <1>1. /\ UNCHANGED <<marker, hold, holdValid, ord, lost>> /\ widx \in Slot
        /\ stat' = [stat EXCEPT ![widx] = Ready]
        /\ newer' = {p \in newer : widx \notin {p[1], p[2]}} \cup {<<widx, j>> : j \in Slot \ {widx}}
    BY DEF WorkerPublish, libVars, TypeOK
  <1>2. stat[widx] = Free
    BY DEF WorkerPublish, RingInv, WorkerInv, Unpublished
  <1>3. ~OnWire(widx)
    BY <1>1, <1>2 DEF OnWire, RingInv, LibInv, HoldInv
  <1>4. \A f \in Slot : OnWire(f)' <=> OnWire(f)
    BY <1>1 DEF OnWire
  <1>5. \A i \in Slot : InFlight(i)' <=> InFlight(i)
    BY <1>1 DEF InFlight
  <1>6. \A i \in Slot : i # widx => (stat'[i] = Ready <=> stat[i] = Ready)
    BY <1>1 DEF TypeOK
  <1>7. \A f, i \in Slot : f # widx /\ <<f, i>> \in newer' => i # widx /\ <<f, i>> \in newer
    BY <1>1
  <1> QED
    BY <1>1, <1>3, <1>4, <1>5, <1>6, <1>7 DEF OrderInv

\* A replay of the held frame says nothing new.
LEMMA HoldOrder == ASSUME Calm, OrderInv, NextHold PROVE OrderInv'
  <1>1. /\ Accept(hold) /\ hold \in Slot /\ holdValid
        /\ UNCHANGED <<stat, newer, marker, hold, holdValid, lost>>
    BY DEF NextHold, Calm, TypeInv, TypeOK
  <1>2. CASE ord' = ord
    BY <1>1, <1>2, SameOrder
  <1>3. CASE \E k \in 1..opt.depth : ord' = [ord EXCEPT ![hold] = k]
    <2>1. \A j \in Slot : ord'[j] > 0 <=> j = hold \/ ord[j] > 0
      BY <1>1, <1>3 DEF Calm, TypeInv, TypeOK
    <2>2. \A f \in Slot : OnWire(f)' <=> OnWire(f)
      BY <1>1, <2>1 DEF OnWire
    <2>3. \A j \in Slot : InFlight(j) => InFlight(j)'
      BY <1>1, <2>1 DEF InFlight
    <2>4. marker \in Slot => (ord[marker] > 0 => ord'[marker] > 0)
      BY <2>1
    <2>5. marker \in Slot \/ marker = NoSlot
      BY DEF Calm, TypeInv, TypeOK
    <2> QED
      BY <1>1, <2>1, <2>2, <2>3, <2>4, <2>5 DEF OrderInv
  <1> QED
    BY <1>1, <1>2, <1>3, AcceptRank DEF Calm

\* The newest frame leaves none behind that is older than it.
LEMMA NewestOrder == ASSUME Calm, OrderInv, NextNewest PROVE OrderInv'
  <1> USE RingAssumption DEF Free, Ready, Held
  <1>1. PICK i \in Candidates :
          /\ stat' = [j \in Slot |-> IF j \in Candidates /\ <<i, j>> \in newer THEN Free ELSE stat[j]]
          /\ marker' = i /\ Accept(i)
    BY DEF NextNewest
  <1>2. Asks /\ opt.newest /\ UNCHANGED <<opt, newer, hold, holdValid, lost>>
    BY DEF NextNewest
  <1>3. i \in Slot /\ ~(ord[i] > 0) /\ ~(holdValid /\ i = hold)
    BY <1>2, CandidateFree
  <1>4. \A j \in Slot : stat'[j] = Ready => stat[j] = Ready /\ ~(j \in Candidates /\ <<i, j>> \in newer)
    BY <1>1
  <1>5. CASE ord' = ord /\ i \in lost
    BY <1>1, <1>2, <1>3, <1>4, <1>5 DEF OrderInv, OnWire, InFlight
  <1>6. CASE i \notin lost /\ \E k \in 1..opt.depth : ord' = [ord EXCEPT ![i] = k]
    <2>1. \A j \in Slot : ord'[j] > 0 <=> j = i \/ ord[j] > 0
      BY <1>3, <1>6 DEF Calm, TypeInv, TypeOK
    <2>2. \A f \in Slot : OnWire(f)' <=> f = i \/ OnWire(f)
      BY <1>2, <1>3, <2>1 DEF OnWire
    <2>3. \A j \in Slot : ~InFlight(j)' => ~InFlight(j)
      BY <1>2, <2>1 DEF InFlight
    <2>4. \A j \in Slot : stat'[j] = Ready /\ ~InFlight(j)' => stat[j] = Ready /\ ~InFlight(j) /\ <<i, j>> \notin newer
      BY <1>4, <2>3, AllCandidates
    <2> QED
      BY <1>1, <1>2, <1>3, <2>1, <2>2, <2>4 DEF OrderInv
  <1> QED
    BY <1>1, <1>3, <1>5, <1>6, AcceptRank DEF Calm, InFlight

\* With serve_newest the oldest frame is asked for only when nothing but the frame
\* served last is ready, which libmtl refuses: it has it still, or lost it.
LEMMA OldestOrder ==
  ASSUME Calm, OrderInv, opt.newest, NextOldest
  PROVE  OrderInv' /\ building' = building
  <1>1. PICK c \in Slot : stat[c] = Ready /\ marker' = c /\ Accept(c)
    BY DEF NextOldest
  <1>2. Candidates = {} /\ UNCHANGED <<opt, stat, newer, hold, holdValid, lost>>
    BY DEF NextOldest
  <1>3. InFlight(c)
    BY <1>1, <1>2, AllCandidates
  <1>4. UNCHANGED <<building, ord>>
    BY <1>1, <1>3, AcceptRank DEF Calm
  <1>5. marker = c
    BY <1>1, <1>2 DEF Candidates
  <1> QED
    BY <1>1, <1>2, <1>4, <1>5, SameOrder

\* A frame that is done was in flight: none that waits is older than it.
LEMMA DoneOrder ==
  ASSUME Calm, opt.newest, OrderInv, NEW i \in Slot, LibDone(i), ~released'
  PROVE  OrderInv'
  <1> USE RingAssumption DEF Free, Ready, Held, Calm, TypeInv
  <1>1. ord[i] = 1 /\ FrameDone(i) /\ UNCHANGED <<newer, marker, lost>> /\ lines[i] = B
    BY DEF LibDone, RingInv, LibInv, TypeOK
  <1>2. \A j \in Slot : ord'[j] > 0 <=> j # i /\ ord[j] > 0
    BY <1>1, ReleaseRank DEF LibDone, RingInv
  <1>3. marker \in Slot \/ marker = NoSlot
    BY DEF TypeOK
  <1>4. CASE holdValid /\ i = hold
    <2>1. UNCHANGED <<stat, hold, holdValid>> /\ stat[i] = Held
      BY <1>1, <1>4 DEF FrameDone, RingInv, HoldInv
    <2>2. \A f \in Slot : OnWire(f)' => OnWire(f)
      BY <1>2, <2>1 DEF OnWire
    <2>3. \A j \in Slot : stat'[j] = Ready /\ ~InFlight(j)' => stat[j] = Ready /\ ~InFlight(j)
      BY <1>1, <1>2, <2>1 DEF InFlight
    <2> QED
      BY <1>1, <1>2, <1>3, <1>4, <2>1, <2>2, <2>3 DEF OrderInv
  <1>5. CASE ~(holdValid /\ i = hold)
    <2>1. /\ hold' = i /\ holdValid' /\ ~(holdValid /\ ord[hold] > 0)
          /\ stat' = [j \in Slot |-> IF j = i THEN Held
                                     ELSE IF holdValid /\ j = hold THEN Free ELSE stat[j]]
      BY <1>1, <1>5 DEF FrameDone
    <2>2. \A j \in Slot : stat'[j] = Ready => j # i /\ stat[j] = Ready
      BY <2>1
    <2>3. \A f \in Slot : OnWire(f)' => OnWire(f)
      BY <1>1, <1>2, <2>1 DEF OnWire
    <2>4. \A j \in Slot : stat'[j] = Ready /\ ~InFlight(j)' => stat[j] = Ready /\ ~InFlight(j)
      BY <1>1, <1>2, <2>2 DEF InFlight
    <2>5. ~(holdValid /\ marker = hold)
      BY <1>1, <1>5 DEF OrderInv
    <2>6. marker = NoSlot \/ marker = i \/ ord'[marker] > 0 \/ marker \in lost
      BY <1>2, <1>3, <2>5 DEF OrderInv
    <2>7. marker = i => \A j \in Slot : ~(ord'[j] > 0)
      <3> SUFFICES ASSUME marker = i, NEW j \in Slot, ord[j] > 0, j # i PROVE FALSE
        BY <1>2
      <3>1. ord[j] \in Nat /\ ord[j] # 1 /\ \A k \in Slot : ord[k] \in 0..opt.depth
        BY <1>1, OptType DEF TypeOK, RingInv, LibInv
      <3>2. opt.depth <= 2 /\ opt.depth \in Nat
        BY OptType DEF Prompt
      <3>3. \A k \in Slot : ord[k] <= ord[j]
        BY <3>1, <3>2
      <3>4. j = marker \/ (holdValid /\ j = hold)
        BY <3>3 DEF RingInv, LastInv
      <3> QED
        BY <2>1, <3>4
    <2> QED
      BY <1>1, <2>1, <2>3, <2>4, <2>6, <2>7 DEF OrderInv
  <1> QED
    BY <1>4, <1>5

\* What a port stop takes is lost, and is sent no more.
LEMMA StopOrder == ASSUME Calm, OrderInv, PortStop PROVE OrderInv'
  <1>1. /\ UNCHANGED <<stat, newer, marker, hold, holdValid>>
        /\ lost' = lost \cup {i \in Slot : ord[i] > 0} /\ \A i \in Slot : ord'[i] = 0
    BY DEF PortStop, ringVars
  <1>2. \A f \in Slot : OnWire(f)' => OnWire(f)
    BY <1>1 DEF OnWire
  <1>3. \A i \in Slot : InFlight(i)' <=> InFlight(i)
    BY <1>1 DEF InFlight
  <1>4. marker \in Slot \/ marker = NoSlot
    BY DEF Calm, TypeInv, TypeOK
  <1> QED
    BY <1>1, <1>2, <1>3, <1>4 DEF OrderInv

LEMMA OrderStep ==
  ASSUME Calm, opt.newest, OrderInv, [Next]_vars, ~released'
  PROVE  OrderInv'
  <1> USE DEF ringVars, libVars, workerVars
  <1>1. CASE WorkerPublish
    BY <1>1, PublishOrder
  <1>2. CASE ResyncOne
    <2>1. \A i \in Slot : stat'[i] = Ready => stat[i] = Ready
      BY <1>2 DEF ResyncOne, Calm, TypeInv, TypeOK, Free, Ready
    <2> QED
      BY <1>2, <2>1, SameOrder DEF ResyncOne
  <1>3. CASE NextHold \/ NextNewest \/ NextOldest
    BY <1>3, HoldOrder, NewestOrder, OldestOrder
  <1>4. CASE PortStop
    BY <1>4, StopOrder
  <1>5. ASSUME NEW i \in Slot, LibDone(i) PROVE OrderInv'
    BY <1>5, DoneOrder
  <1>6. CASE UNCHANGED <<stat, marker, hold, holdValid, ord, newer, lost>>
    BY <1>6, SameOrder
  <1>7. \/ WorkerPublish \/ ResyncOne \/ (NextHold \/ NextNewest \/ NextOldest) \/ PortStop
        \/ (\E i \in Slot : LibDone(i)) \/ UNCHANGED <<stat, marker, hold, holdValid, ord, newer, lost>>
    BY NoRecovery DEF Next, vars, WorkerRest, WatchdogExpires, WorkerTop, WorkerThrottle, WorkerWait,
       WorkerResync, WorkerAcquire, WorkerFetchWhole, WorkerFetchGrain, WorkerPack, WorkerExpose,
       LibRest, NextBusy, LibBand
  <1> QED
    BY <1>1, <1>2, <1>3, <1>4, <1>5, <1>6, <1>7

\* Why: with serve_newest and a prompt libmtl, whatever is older than what goes
\* out and would be taken is never ready again, for any ring, throttle and picture.
THEOREM NewestCorrect == Spec => []NewestInv
  <1>1. Init => NewestInv
    BY InitOrder DEF NewestInv
  <1>2. TypeInv /\ PromptInv /\ NewestInv /\ [Next]_vars => NewestInv'
    <2> SUFFICES ASSUME TypeInv, PromptInv, NewestInv, [Next]_vars, opt'.newest, Prompt(opt)', ~released'
                 PROVE  OrderInv'
      BY DEF NewestInv
    <2>1. opt' = opt /\ ~released
      BY OptKept
    <2>2. Prompt(opt) /\ opt.newest
      BY <2>1 DEF Prompt
    <2>3. Calm /\ OrderInv
      BY <2>1, <2>2 DEF Calm, PromptInv, NewestInv
    <2> QED
      BY <2>2, <2>3, OrderStep
  <1> QED
    BY <1>1, <1>2, TypeInvCorrect, PromptCorrect, PTL DEF Spec

\* The sessions with serve_newest have a prompt libmtl; nothing is asked of the
\* others.
NewestPrompt == \A s \in Settings : s.newest => Prompt(s)

\* With serve_newest and such a libmtl, which has two frames at most, the pictures
\* go out in the order they were published, for any ring, throttle and picture,
\* watchdog and port stops included, until a held frame in flight is released: what
\* is taken for its first emission is later than the held frame and than what is on
\* the card.
THEOREM InOrderCorrect == NewestPrompt => (Spec => NeverBackInTime)
  <1> DEFINE Forward ==
        opt.newest /\ ~released =>
          \A i, f \in Slot :
            building' = i /\ building = NoSlot /\ ~(holdValid /\ i = hold) /\ OnWire(f) /\ f # i
              => <<f, i>> \notin newer
  <1> SUFFICES ASSUME NewestPrompt PROVE Spec => NeverBackInTime
    OBVIOUS
  <1>1. TypeInv /\ PromptInv /\ NewestInv /\ [Next]_vars => [Forward]_vars
    <2> SUFFICES ASSUME TypeInv, PromptInv, NewestInv, Next, opt.newest, ~released, NEW i \in Slot, NEW f \in Slot,
                        building' = i, building = NoSlot, ~(holdValid /\ i = hold), OnWire(f), f # i
                 PROVE  <<f, i>> \notin newer
      OBVIOUS
    <2>1. Prompt(opt)
      BY DEF NewestPrompt, TypeInv, TypeOK
    <2>2. Calm /\ OrderInv
      BY <2>1 DEF Calm, PromptInv, NewestInv
    <2>3. i # NoSlot
      BY RingAssumption DEF Slot, NoSlot
    <2>4. NextHold \/ NextNewest
      <3>1. ~WorkerRest /\ ~WatchdogExpires /\ ~PortStop
        BY <2>3 DEF WorkerRest, WatchdogExpires, PortStop, WorkerTop, WorkerThrottle, WorkerWait, WorkerResync,
           ResyncOne, WorkerAcquire, WorkerFetchWhole, WorkerFetchGrain, WorkerPack, WorkerExpose, WorkerPublish,
           libVars
      <3>2. ~LibBand /\ ~NextBusy /\ \A j \in Slot : ~LibDone(j)
        BY <2>3 DEF LibBand, LibDone, NextBusy, libVars
      <3>3. ~NextOldest
        BY <2>2, <2>3, OldestOrder
      <3> QED
        BY <2>2, <3>1, <3>2, <3>3, NoRecovery DEF Next, LibRest
    <2>5. PICK j \in Slot : Accept(j) /\ ((j = hold /\ holdValid) \/ j \in Candidates)
      BY <2>4 DEF NextHold, NextNewest, Candidates, TypeInv, TypeOK
    <2>6. j = i /\ ~InFlight(j)
      BY <2>3, <2>5, AcceptRank
    <2>7. stat[i] = Ready
      BY <2>5, <2>6 DEF Candidates
    <2> QED
      BY <2>2, <2>6, <2>7 DEF OrderInv
  <1> QED
    BY <1>1, TypeInvCorrect, PromptCorrect, NewestCorrect, PTL DEF Spec, NeverBackInTime

=============================================================================
