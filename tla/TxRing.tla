------------------------------- MODULE TxRing -------------------------------
(***************************************************************************)
(* The framebuffer ring of one slice-mode video sender (mtl_rx.c):         *)
(* video_tx_slice_thread (the worker) fills framebuffers and publishes     *)
(* them; libmtl, on its lcore, asks for the next frame, sends it band by   *)
(* band and reports it done.  The two sides share stat and lines_ready     *)
(* without a lock.  After a frame is sent it becomes the HELD frame, which *)
(* is served again whenever the worker has nothing ready.                  *)
(*                                                                         *)
(* libmtl is external: a frame it accepted keeps a reference until its     *)
(* packets leave the card, and the next frame is asked for before that.    *)
(***************************************************************************)
EXTENDS Integers, FiniteSets

CONSTANTS
  N,            \* framebuffers of the ring (sl_fb_cnt)
  B,            \* bands (slices) of a picture; lines_ready counts bands
  Settings      \* the settings and circumstances sessions are started under

(***************************************************************************)
(* newest and advance are the session's serve_newest and advance (0: no    *)
(* throttle).  depth: how many frames libmtl may have handed to the card   *)
(* without having them back.  lossy: a port stop may lose the packets of   *)
(* the frames in flight.  slow: a frame may stay in flight for more than   *)
(* the 2 s of the watchdog.  blank: the black picture of the setup could   *)
(* not be allocated.                                                       *)
(***************************************************************************)
Setting == [newest : BOOLEAN, advance : Nat, depth : Nat \ {0},
            lossy : BOOLEAN, slow : BOOLEAN, blank : BOOLEAN]

ASSUME RingAssumption ==
  /\ N \in Nat /\ N >= 3
  /\ B \in Nat \ {0}
  /\ Settings \subseteq Setting

VARIABLES
  opt,        \* the setting this session was started under
  stat,       \* sl_fb[i].stat
  lines,      \* sl_fb[i].lines_ready, in bands
  newer,      \* <<i, j>>: i was published after j (order of the pub_ns dates, which
              \* only serve_newest reads)
  prod,       \* sl_fb_prod
  cons,       \* sl_fb_cons
  hold,       \* sl_hold_idx
  holdValid,  \* sl_hold_valid
  marker,     \* sl_fb_inflight, NoSlot while sl_fb_inflight_ok = 0
  wedge,      \* sl_wedge_ns: "off", "armed", or "expired" once 2 s old
  wpc,        \* where the worker is in its loop
  cabled,     \* the worker's turn is for a wired source (not the static frame)
  widx,       \* framebuffer the worker wants or has acquired, or resynchronises
  wband,      \* bands the worker has packed in it
  whole,      \* the turn packs the whole picture before publishing it
  building,   \* frame libmtl is building packets from, or NoSlot
  sent,       \* bands of the frame handed to the card
  ord,        \* rank among the frames in flight, 1 = oldest, 0 = not in flight
  released,   \* history: a done gave the held frame back while it was in flight
  lost,       \* frames whose packets were lost: their reference never returns
  reclaiming  \* bobi_get_frame_busy_check is giving frames back

ringVars == <<stat, lines, newer, prod, cons, hold, holdValid, marker>>
workerVars == <<wedge, wpc, cabled, widx, wband, whole>>
libVars == <<building, sent, ord, released, lost, reclaiming>>
vars == <<opt, ringVars, workerVars, libVars>>

Slot == 0..(N - 1)
NoSlot == N
Free == 0
Ready == 1
Held == 2

TypeOK ==
  /\ opt \in Settings
  /\ stat \in [Slot -> {Free, Ready, Held}]
  /\ lines \in [Slot -> 0..B]
  /\ newer \in SUBSET (Slot \X Slot)
  /\ prod \in Slot /\ cons \in Slot /\ hold \in Slot
  /\ holdValid \in BOOLEAN
  /\ marker \in Slot \cup {NoSlot}
  /\ wedge \in {"off", "armed", "expired"}
  /\ wpc \in {"top", "check", "resync", "fetch", "pack", "expose", "publish"}
  /\ cabled \in BOOLEAN /\ whole \in BOOLEAN
  /\ widx \in Slot /\ wband \in 0..B
  /\ building \in Slot \cup {NoSlot}
  /\ sent \in [Slot -> 0..B]
  /\ ord \in [Slot -> 0..opt.depth]
  /\ released \in BOOLEAN
  /\ lost \in SUBSET Slot
  /\ reclaiming \in BOOLEAN

Succ(i) == (i + 1) % N

\* Where a scan from i that steps over HELD framebuffers stops, after one turn
\* of the ring at most.
Skips(i, j) ==
  \E k \in 0..N :
    /\ j = (i + k) % N
    /\ \A m \in 0..(k - 1) : stat[(i + m) % N] = Held
    /\ k = N \/ stat[j] # Held

InFlight(i) == ord[i] > 0 \/ i \in lost

-----------------------------------------------------------------------------
(* The setup: everything free but the last framebuffer, held with a black  *)
(* picture, unless that picture could not be allocated.                    *)

Init ==
  /\ opt \in Settings
  /\ holdValid = ~opt.blank
  /\ hold = IF opt.blank THEN 0 ELSE N - 1
  /\ stat = [i \in Slot |-> IF ~opt.blank /\ i = N - 1 THEN Held ELSE Free]
  /\ lines = [i \in Slot |-> IF ~opt.blank /\ i = N - 1 THEN B ELSE 0]
  /\ newer = {}
  /\ prod = 0 /\ cons = 0 /\ marker = NoSlot
  /\ wedge = "off" /\ wpc = "top" /\ cabled = FALSE
  /\ widx = 0 /\ wband = 0 /\ whole = FALSE
  /\ building = NoSlot /\ sent = [i \in Slot |-> 0]
  /\ ord = [i \in Slot |-> 0] /\ released = FALSE /\ lost = {} /\ reclaiming = FALSE

-----------------------------------------------------------------------------
(* The worker.                                                             *)

\* Head of the loop: look at the wiring, step over the held frame, whose successor
\* is the framebuffer of this turn.  Without a throttle a wired turn may do all that
\* an unwired one does.
WorkerTop ==
  /\ wpc = "top"
  /\ \E j \in Slot : Skips(prod, j) /\ prod' = j
  /\ widx' = prod' /\ wband' = 0 /\ whole' = FALSE
  /\ cabled' \in (IF opt.advance > 0 THEN BOOLEAN ELSE {TRUE})
  /\ wpc' = "check"
  /\ UNCHANGED <<stat, lines, newer, cons, hold, holdValid, marker>>
  /\ UNCHANGED <<wedge, libVars, opt>>

Throttled ==
  /\ cabled /\ opt.advance > 0
  /\ Cardinality({i \in Slot : stat[i] = Ready}) >= opt.advance

\* Enough frames are ready: wait for one to leave.
WorkerThrottle ==
  /\ wpc = "check" /\ Throttled
  /\ wpc' = "top"
  /\ UNCHANGED <<ringVars, wedge, cabled, widx, wband, whole, libVars, opt>>

\* The framebuffer to fill is not free: wait, and arm the watchdog.
WorkerWait ==
  /\ wpc = "check" /\ ~Throttled /\ stat[prod] # Free /\ wedge # "expired"
  /\ wedge' = "armed" /\ wpc' = "top"
  /\ UNCHANGED <<ringVars, cabled, widx, wband, whole, libVars, opt>>

\* The consumer has no ready frame where its scan stops.
Stalled == \A c \in Slot : Skips(cons, c) => stat[c] # Ready

\* libmtl waits for bands of the frame it builds, and the worker adds none.
Blocked == building # NoSlot /\ sent[building] >= lines[building]

\* Nothing can leave the ready state any more: what is ready is lost, held, is
\* what libmtl is blocked on, or waits for a consumer that stands elsewhere.
Stuck ==
  \A i \in Slot : stat[i] = Ready =>
    \/ i \in lost \/ (holdValid /\ i = hold)
    \/ ord[i] = 0 /\ (Stalled \/ Blocked)
    \/ i = building /\ Blocked

\* The armed watchdog turns 2 s old.  That is a hundred periods: unless libmtl
\* is slow, what could be sent has been sent by then.
WatchdogExpires ==
  /\ wedge = "armed"
  /\ opt.slow \/ (stat[prod] = Ready /\ Stuck)
  /\ wedge' = "expired"
  /\ UNCHANGED <<ringVars, wpc, cabled, widx, wband, whole, libVars, opt>>

\* Mutant: the ring is resynchronised at the first wait, not after 2 s.
MutResyncEarly ==
  /\ wpc = "check" /\ ~Throttled /\ stat[prod] # Free
  /\ wpc' = "resync" /\ widx' = 0
  /\ UNCHANGED <<ringVars, wedge, cabled, wband, whole, libVars, opt>>

\* Mutant: the gate before 0.49.0, which waits for a ring without a free frame.
MutResyncAllBusy ==
  /\ wpc = "check" /\ ~Throttled /\ stat[prod] # Free /\ wedge = "expired"
  /\ IF \A i \in Slot : stat[i] # Free
     THEN wpc' = "resync" /\ widx' = 0 /\ UNCHANGED wedge
     ELSE wpc' = "top" /\ wedge' = "armed" /\ UNCHANGED widx
  /\ UNCHANGED <<ringVars, cabled, wband, whole, libVars, opt>>

\* The watchdog has expired: the worker goes through the ring.
WorkerResync ==
  /\ wpc = "check" /\ ~Throttled /\ stat[prod] # Free /\ wedge = "expired"
  /\ wpc' = "resync" /\ widx' = 0
  /\ UNCHANGED <<ringVars, wedge, cabled, wband, whole, libVars, opt>>

\* After the last framebuffer the consumer is sent where the worker stands.
ResyncMoves ==
  IF widx < N - 1
  THEN widx' = widx + 1 /\ UNCHANGED <<cons, wedge, wpc>>
  ELSE cons' = prod /\ wedge' = "armed" /\ wpc' = "top" /\ UNCHANGED widx

\* Mutant: the resynchronisation frees the held frame too.
MutResyncOne ==
  /\ wpc = "resync"
  /\ stat' = [stat EXCEPT ![widx] = Free] /\ lines' = [lines EXCEPT ![widx] = 0]
  /\ ResyncMoves
  /\ UNCHANGED <<newer, prod, hold, holdValid, marker>>
  /\ UNCHANGED <<cabled, wband, whole, libVars, opt>>

\* Framebuffer after framebuffer, everything but the held frame goes back to the
\* worker, while the callbacks run.
ResyncOne ==
  /\ wpc = "resync"
  /\ \/ holdValid /\ widx = hold /\ UNCHANGED <<stat, lines>>
     \/ /\ ~(holdValid /\ widx = hold)
        /\ stat' = [stat EXCEPT ![widx] = Free] /\ lines' = [lines EXCEPT ![widx] = 0]
  /\ ResyncMoves
  /\ UNCHANGED <<newer, prod, hold, holdValid, marker>>
  /\ UNCHANGED <<cabled, wband, whole, libVars, opt>>

\* Mutant: the worker takes its framebuffer without looking at its state.
MutAcquire ==
  /\ wpc = "check" /\ ~Throttled
  /\ wedge' = "off" /\ wpc' = "fetch"
  /\ UNCHANGED <<ringVars, cabled, widx, wband, whole, libVars, opt>>

\* The framebuffer is free: the worker goes for its source.
WorkerAcquire ==
  /\ wpc = "check" /\ ~Throttled /\ stat[prod] = Free
  /\ wedge' = "off" /\ wpc' = "fetch"
  /\ UNCHANGED <<ringVars, cabled, widx, wband, whole, libVars, opt>>

\* No band of a live grain this turn: the static frame, a repetition or the
\* witness is packed whole.
WorkerFetchWhole ==
  /\ wpc = "fetch"
  /\ whole' = TRUE /\ wpc' = "pack"
  /\ UNCHANGED <<ringVars, wedge, cabled, widx, wband, libVars, opt>>

\* A grain: the framebuffer is emptied, the next turn's target moves on.
WorkerFetchGrain ==
  /\ wpc = "fetch" /\ cabled
  /\ lines' = [lines EXCEPT ![widx] = 0]
  /\ prod' = Succ(widx)
  /\ wpc' = "pack"
  /\ UNCHANGED <<stat, newer, cons, hold, holdValid, marker>>
  /\ UNCHANGED <<wedge, cabled, widx, wband, whole, libVars, opt>>

\* Pack: the whole picture, the next band, or, when the source dies after the
\* first band, black over all that is left.
WorkerPack ==
  /\ wpc = "pack"
  /\ wband' \in IF whole THEN {B} ELSE {wband + 1} \cup (IF wband > 0 THEN {B} ELSE {})
  /\ wpc' = "expose"
  /\ UNCHANGED <<ringVars, wedge, cabled, widx, whole, libVars, opt>>

\* Where the worker goes after a band it has exposed.
AfterBand == IF wband = B THEN "top" ELSE "pack"

\* lines_ready follows the content, and precedes the announcement.
WorkerExpose ==
  /\ wpc = "expose"
  /\ lines' = [lines EXCEPT ![widx] = wband]
  /\ wpc' = IF whole \/ wband = 1 THEN "publish" ELSE AfterBand
  /\ UNCHANGED <<stat, newer, prod, cons, hold, holdValid, marker>>
  /\ UNCHANGED <<wedge, cabled, widx, wband, whole, libVars, opt>>

\* sl_mark_pub.
WorkerPublish ==
  /\ wpc = "publish"
  /\ stat' = [stat EXCEPT ![widx] = Ready]
  /\ newer' = IF opt.newest
              THEN {p \in newer : widx \notin {p[1], p[2]}} \cup {<<widx, j>> : j \in Slot \ {widx}}
              ELSE newer
  /\ prod' = IF whole THEN Succ(widx) ELSE prod
  /\ wpc' = AfterBand
  /\ UNCHANGED <<lines, cons, hold, holdValid, marker>>
  /\ UNCHANGED <<wedge, cabled, widx, wband, whole, libVars, opt>>

WorkerRest ==
  \/ WorkerTop \/ WorkerThrottle \/ WorkerWait \/ WorkerResync \/ ResyncOne \/ WorkerAcquire
  \/ WorkerFetchWhole \/ WorkerFetchGrain \/ WorkerPack \/ WorkerExpose \/ WorkerPublish

-----------------------------------------------------------------------------
(* libmtl and the three callbacks.                                         *)

\* libmtl builds one frame at a time, and asks for the next when it is built.
Asks == building = NoSlot /\ ~reclaiming /\ \A i \in Slot : ord[i] < opt.depth

\* libmtl takes a reference on the frame it is given, unless it already has one.
Accept(i) ==
  IF InFlight(i)
  THEN UNCHANGED <<building, sent, ord>>
  ELSE /\ building' = i
       /\ sent' = [sent EXCEPT ![i] = 0]
       /\ \E k \in 1..opt.depth :
            /\ \A j \in Slot : ord[j] < k
            /\ k = 1 \/ \E j \in Slot : ord[j] = k - 1
            /\ ord' = [ord EXCEPT ![i] = k]

\* tx_sl_next_frame: nothing ready and no held frame.
NextBusy ==
  /\ Asks
  /\ \E c \in Slot : Skips(cons, c) /\ stat[c] # Ready /\ ~holdValid /\ cons' = c
  /\ UNCHANGED <<stat, lines, newer, prod, hold, holdValid, marker>>
  /\ UNCHANGED <<workerVars, opt, libVars>>

\* tx_sl_next_frame: nothing ready, the held frame is served again.
NextHold ==
  /\ Asks
  /\ \E c \in Slot : Skips(cons, c) /\ stat[c] # Ready /\ holdValid /\ cons' = c
  /\ Accept(hold)
  /\ UNCHANGED <<stat, lines, newer, prod, hold, holdValid, marker>>
  /\ UNCHANGED <<workerVars, opt, released, lost, reclaiming>>

\* Frames serve_newest may serve: ready, and not the last one served.
Candidates == {i \in Slot : stat[i] = Ready /\ i # marker}

\* Mutant: the older frames are passed over but not given back.
MutNextNewest ==
  /\ Asks /\ opt.newest
  /\ \E c \in Slot : Skips(cons, c) /\ stat[c] = Ready
  /\ \E i \in Candidates :
       /\ \A j \in Candidates : <<j, i>> \notin newer
       /\ marker' = i /\ cons' = Succ(i)
       /\ Accept(i)
  /\ UNCHANGED <<stat, lines, newer, prod, hold, holdValid>>
  /\ UNCHANGED <<workerVars, opt, released, lost, reclaiming>>

\* tx_sl_next_frame with serve_newest: the last published candidate is served,
\* the older ones are given back to the worker without being sent.
NextNewest ==
  /\ Asks /\ opt.newest
  /\ \E c \in Slot : Skips(cons, c) /\ stat[c] = Ready
  /\ \E i \in Candidates :
       /\ \A j \in Candidates : <<j, i>> \notin newer
       /\ stat' = [j \in Slot |-> IF j \in Candidates /\ <<i, j>> \in newer
                                  THEN Free ELSE stat[j]]
       /\ marker' = i /\ cons' = Succ(i)
       /\ Accept(i)
  /\ UNCHANGED <<lines, newer, prod, hold, holdValid>>
  /\ UNCHANGED <<workerVars, opt, released, lost, reclaiming>>

\* tx_sl_next_frame: the oldest ready frame is served.
NextOldest ==
  /\ Asks /\ (~opt.newest \/ Candidates = {})
  /\ \E c \in Slot :
       /\ Skips(cons, c) /\ stat[c] = Ready
       /\ marker' = c /\ cons' = Succ(c)
       /\ Accept(c)
  /\ UNCHANGED <<stat, lines, newer, prod, hold, holdValid>>
  /\ UNCHANGED <<workerVars, opt, released, lost, reclaiming>>

\* tx_sl_lines_ready, then the packets of one more band.
LibBand ==
  /\ building # NoSlot
  /\ sent[building] < lines[building]
  /\ sent' = [sent EXCEPT ![building] = @ + 1]
  /\ building' = IF sent[building] + 1 = B THEN NoSlot ELSE building
  /\ UNCHANGED <<ringVars, workerVars, opt, ord, released, lost, reclaiming>>

\* Mutant: sl_hold_idx moves before the previous held frame is given back.
MutFrameDoneOrder(i) ==
  /\ UNCHANGED released
  /\ \/ /\ holdValid /\ i = hold
        /\ UNCHANGED <<stat, lines, hold, holdValid>>
     \/ /\ ~(holdValid /\ i = hold)
        /\ lines' = [lines EXCEPT ![i] = 0]
        /\ stat' = [stat EXCEPT ![i] = Held]
        /\ hold' = i /\ holdValid' = TRUE

\* Mutant: a frame done without a line becomes the held frame.
MutFrameDoneEmpty(i) ==
  \/ /\ holdValid /\ i = hold
     /\ UNCHANGED <<stat, lines, hold, holdValid, released>>
  \/ /\ ~(holdValid /\ i = hold)
     /\ lines' = [j \in Slot |-> IF holdValid /\ j = hold THEN 0 ELSE lines[j]]
     /\ stat' = [j \in Slot |-> IF j = i THEN Held
                                ELSE IF holdValid /\ j = hold THEN Free ELSE stat[j]]
     /\ hold' = i /\ holdValid' = TRUE
     /\ released' = (released \/ (holdValid /\ ord[hold] > 0))

\* tx_sl_frame_done.
FrameDone(i) ==
  \/ /\ holdValid /\ i = hold          \* a replay of the held frame
     /\ UNCHANGED <<stat, lines, hold, holdValid, released>>
  \/ /\ ~(holdValid /\ i = hold) /\ lines[i] = 0   \* never promote an empty frame
     /\ stat' = [stat EXCEPT ![i] = Free]
     /\ UNCHANGED <<lines, hold, holdValid, released>>
  \/ /\ ~(holdValid /\ i = hold) /\ lines[i] > 0   \* it becomes the held frame
     /\ lines' = [j \in Slot |-> IF holdValid /\ j = hold THEN 0 ELSE lines[j]]
     /\ stat' = [j \in Slot |-> IF j = i THEN Held
                                ELSE IF holdValid /\ j = hold THEN Free ELSE stat[j]]
     /\ hold' = i /\ holdValid' = TRUE
     /\ released' = (released \/ (holdValid /\ ord[hold] > 0))

Release(i) ==
  /\ sent' = [sent EXCEPT ![i] = 0]
  /\ ord' = [j \in Slot |-> IF j = i THEN 0
                         ELSE IF ord[i] > 0 /\ ord[j] > ord[i] THEN ord[j] - 1 ELSE ord[j]]

\* The last packet of the oldest frame left: its reference falls.
LibDone(i) ==
  /\ ~reclaiming
  /\ ord[i] = 1 /\ i # building
  /\ FrameDone(i) /\ Release(i)
  /\ UNCHANGED <<newer, prod, cons, marker, workerVars, opt, building, lost, reclaiming>>

\* A commit of another session stops the port: the packets in flight are lost
\* and their frames keep their reference.
PortStop ==
  /\ opt.lossy /\ ~reclaiming
  /\ \E i \in Slot : ord[i] > 0
  /\ lost' = lost \cup {i \in Slot : ord[i] > 0}
  /\ ord' = [i \in Slot |-> 0]
  /\ sent' = [i \in Slot |-> IF i = building THEN sent[i] ELSE 0]
  /\ UNCHANGED <<ringVars, workerVars, opt, building, released, reclaiming>>

\* bobi_get_frame_busy_check: nothing was served for 2 s although frames are in
\* flight, which then are lost unless libmtl is slow; they are given back one after
\* the other, in the order of the ring.
ReclaimStart ==
  /\ Asks /\ (opt.slow \/ \A i \in Slot : ord[i] = 0)
  /\ \E c \in Slot : Skips(cons, c) /\ stat[c] # Ready /\ ~holdValid
  /\ \E i \in Slot : InFlight(i)
  /\ reclaiming' = TRUE
  /\ UNCHANGED <<ringVars, workerVars, opt, building, sent, ord, released, lost>>

Reclaim(i) ==
  /\ reclaiming /\ InFlight(i) /\ \A j \in 0..(i - 1) : ~InFlight(j)
  /\ FrameDone(i) /\ Release(i)
  /\ lost' = lost \ {i}
  /\ reclaiming' = \E j \in Slot \ {i} : InFlight(j)
  /\ UNCHANGED <<newer, prod, cons, marker, workerVars, opt, building>>

LibRest ==
  \/ NextBusy \/ NextHold \/ NextNewest \/ NextOldest \/ LibBand
  \/ (\E i \in Slot : LibDone(i) \/ Reclaim(i)) \/ ReclaimStart

Next == WorkerRest \/ WatchdogExpires \/ LibRest \/ PortStop

Spec == Init /\ [][Next]_vars

\* The worker thread, the lcore and the clock run; port stops are not owed.
Fairness ==
  /\ WF_vars(WorkerRest) /\ WF_vars(WatchdogExpires)
  /\ WF_vars(NextHold \/ NextNewest \/ NextOldest) /\ WF_vars(LibBand)
  /\ WF_vars(\E i \in Slot : LibDone(i) \/ Reclaim(i)) /\ WF_vars(ReclaimStart)

FairSpec == Spec /\ Fairness

-----------------------------------------------------------------------------
(* Properties.                                                             *)

\* The session starts with a picture to repeat, or meets no port stop.
Lit == ~(opt.lossy /\ opt.blank)

\* The worker never packs over a framebuffer with bands the card may still be
\* reading: "aucune ecriture concurrente" (tx_sl_next_frame).
NoTear == wpc = "pack" => ~(ord[widx] > 0 /\ sent[widx] > wband)

\* A framebuffer in flight is never free: the ring keeps it from the worker
\* until its done callback.
InFlightOwned == \A i \in Slot : ord[i] > 0 => stat[i] # Free

\* No framebuffer in flight loses lines libmtl was told of and has sent.
NoneEmptied == \A i \in Slot : ord[i] > 0 => sent[i] <= lines[i]

\* There is one way only to tear a frame in flight, to free it or to empty it: a
\* done callback that gives back the held frame while its last repetition is still
\* on the card (tx_sl_frame_done).  Until that happens nothing else does it: neither
\* the watchdog, nor serve_newest, nor a port stop.
OneDoor == Lit /\ ~released => NoTear /\ InFlightOwned /\ NoneEmptied

\* Until then the held frame, which every silent epoch sends again, is a whole
\* picture: never empty, never partial (tx_sl_frame_done).
HoldComplete == Lit /\ ~released /\ holdValid => lines[hold] = B

\* Always: a framebuffer marked held is the one the ring knows it holds.  The worker
\* steps over the others for ever, and the watchdog would take them from libmtl.
NoneForgotten == \A i \in Slot : stat[i] = Held => holdValid /\ i = hold

\* The worker holds a framebuffer it has not announced yet.
Unpublished ==
  \/ wpc \in {"fetch", "publish"}
  \/ wpc = "pack" /\ (whole \/ wband = 0)
  \/ wpc = "expose" /\ (whole \/ wband = 1)

\* The worker goes on filling a framebuffer it has announced.
Filling == ~whole /\ ((wpc = "pack" /\ wband > 0) \/ (wpc = "expose" /\ wband > 1))

\* What libmtl has is never free and exposed as far as it is sent; all but what
\* it builds is sent.  What it builds is in flight, or was taken by a port stop.
LibInv ==
  /\ ~reclaiming /\ (lost = {} \/ opt.lossy)
  /\ building # NoSlot =>
       /\ ord[building] > 0 \/ building \in lost
       /\ sent[building] < B
  /\ \A i \in Slot : ord[i] > 0 =>
       /\ i \notin lost /\ stat[i] # Free
       /\ sent[i] <= lines[i] /\ (i # building => sent[i] = B)
       /\ \A j \in Slot : ord[j] = ord[i] => j = i

\* The held frame is the only one, and whole.
HoldInv ==
  /\ holdValid \/ opt.blank
  /\ \A i \in Slot : stat[i] = Held <=> holdValid /\ i = hold
  /\ holdValid => lines[hold] = B

\* What the worker fills is free until it is announced; from then on it is the
\* last published, and not yet exposed to its end.  Whatever else is ready is whole.
WorkerInv ==
  /\ Unpublished => stat[widx] = Free
  /\ wpc = "pack" => wband < B /\ (whole => wband = 0)
  /\ wpc = "expose" => wband > 0 /\ (whole => wband = B)
  /\ wpc = "publish" => wband > 0 /\ lines[widx] = wband /\ (whole => wband = B)
  /\ Filling =>
       /\ stat[widx] = Ready /\ lines[widx] < B
       /\ opt.newest => \A i \in Slot : <<i, widx>> \notin newer
       /\ lines[widx] <= wband
  /\ \A i \in Slot : stat[i] = Ready => lines[i] = B \/ (Filling /\ i = widx)

\* When the watchdog expires libmtl has the held frame at most, and takes no
\* other: it is blocked on a frame it lost, or finds nothing ready, or only what
\* it would refuse.  Giving all the others back takes nothing from it.
WedgeInv ==
  /\ wedge # "off" => wpc \in {"top", "check", "resync"}
  /\ wpc = "resync" => wedge = "expired"
  /\ wedge = "expired" =>
       /\ Blocked \/ Stalled \/ \A i \in Slot : stat[i] = Ready => i \in lost
       /\ \A i \in Slot : ord[i] > 0 => holdValid /\ i = hold

\* The last frame libmtl took is the last one served from the ring, or the held one.
LastInv ==
  \A i \in Slot : ord[i] > 0 /\ (\A j \in Slot : ord[j] <= ord[i])
    => i = marker \/ (holdValid /\ i = hold)

RingInv == LibInv /\ HoldInv /\ WorkerInv /\ WedgeInv /\ (opt.newest => LastInv)

\* libmtl is done with a frame before the watchdog expires, and a setup without
\* its black picture meets no port stop.  serve_newest, which knows of one frame in
\* flight, has one more at most, and none that was lost.
Prompt(s) ==
  /\ ~s.slow /\ ~(s.lossy /\ s.blank)
  /\ s.newest => s.depth <= 2 /\ (s.lossy => s.depth = 1)

\* Why OneDoor holds: the induction of TxRing_proofs.
PromptInv == Prompt(opt) /\ ~released => RingInv

\* The pages of the abstract sender.  A setup without its black picture holds
\* nothing at first; nothing is said of such a session, whose pages stay put.
Owner(i) ==
  IF stat[i] = Held THEN "held"
  ELSE IF stat[i] = Ready THEN "ready"
  ELSE IF Unpublished /\ i = widx THEN "worker" ELSE "free"

AbsOwner ==
  [i \in Slot |-> IF ~opt.blank THEN Owner(i) ELSE IF i = 0 THEN "held" ELSE "free"]
AbsOnAir == IF opt.blank THEN {} ELSE {i \in Slot : ord[i] > 0}

AbsKept == opt.blank \/ ~released

Abstract == INSTANCE Sender
  WITH Page <- Slot, owner <- AbsOwner, onAir <- AbsOnAir, kept <- AbsKept

\* The ring implements the sender, port stops included: until a done gives back a
\* held frame that is on the card, two threads that share stat and lines_ready
\* without a lock never give a page two owners, never take a page on air, and
\* always keep exactly one to send again.
IsSender == Abstract!Spec

\* What libmtl has in flight or may send again.
OnWire(f) == (holdValid /\ f = hold) \/ ord[f] > 0

\* With serve_newest the pictures go out in the order they were published: until
\* such a release, a frame taken for its first emission is not older than the held
\* one, nor than any frame in flight.
NeverBackInTime ==
  [][opt.newest /\ ~released =>
       \A i, f \in Slot :
         building' = i /\ building = NoSlot /\ ~(holdValid /\ i = hold) /\ OnWire(f) /\ f # i
           => <<f, i>> \notin newer]_vars

\* A port stop met a ring that such a release had already upset: the held frame
\* may then be the one the worker waits for, and nothing frees it.
Upset == opt.lossy /\ released

\* Without a throttle, port stops and releases included: whatever the worker
\* publishes leaves the ready state. It is sent, or given back by the watchdog.
ReadyLeaves ==
  opt.advance = 0 /\ Lit
    => \A i \in Slot : stat[i] = Ready ~> stat[i] # Ready \/ Upset

\* Without a throttle, port stops and releases included: the worker keeps
\* publishing, no framebuffer is trapped and no wait is for ever.
WorkerPublishes == opt.advance = 0 /\ Lit => []<>(wpc = "publish" \/ Upset)

\* Whatever a release upsets, the output is never mute for good: again and again
\* the frame to repeat is a whole picture ("sortie muette definitive",
\* tx_sl_frame_done).
NeverMute == Lit => []<>((holdValid /\ lines[hold] = B) \/ Upset)
=============================================================================
