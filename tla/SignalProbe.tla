----------------------------- MODULE SignalProbe -----------------------------
(***************************************************************************)
(* The sampler of the contents of a receiving slot (docker/controller.py,  *)
(* _signal_loop and its probes): a long-lived reader of a video and of an  *)
(* audio flow that their producer may destroy and make again under the     *)
(* same name.  A reader left on a dead generation still reads, always the  *)
(* same grain; it is told apart by its age, closed and opened again, from  *)
(* an instance of its own once the shared one has given the dead           *)
(* generation twice.                                                       *)
(*                                                                         *)
(* A tick of the audio is the unit of time; the video is probed every      *)
(* Every ticks.  An age stops past the limit it is compared with, -1 means *)
(* not set.  Of the verdicts, black, frozen and clipped are kept: silence  *)
(* and gamut are dated as black is.  Every probe is armed.  The state and  *)
(* the actions share no name with those of RxWatchdog, which looks at the  *)
(* same slot: Reception_proofs extends both.                               *)
(***************************************************************************)
EXTENDS Integers, Sequences

CONSTANTS Every,       \* n_video
          Hold,        \* SIGNAL_HOLD_S
          ClipHold,    \* SIGNAL_CLIP_HOLD_S
          Stale,       \* SIGNAL_STALE_MS
          Ring,        \* A_RING: ticks of audio the ring keeps
          Pictures,    \* what a picture may show: "black", "still", "moving"
          MaxGen,      \* bound: generations of the flows
          MaxFailed    \* bound: stops of the producer and reads that fail

ASSUME ProbeAssumption ==
  /\ Every \in Nat \ {0} /\ Ring \in Nat \ {0}
  /\ Hold \in Nat /\ ClipHold \in Nat /\ Stale \in Nat
  /\ Pictures \subseteq {"black", "still", "moving"}
  /\ MaxGen \in Nat \ {0} /\ MaxFailed \in Nat

VARIABLES gen,        \* the generation of the flows that is written
          writing,    \* the producer writes
          idle, gone, \* age of the last write; age of the last new generation
          pic,        \* what the picture shows
          loud,       \* a clipped sample was written since the cursor was set
          pinned,     \* another reader of the process holds a dead generation
          shared,     \* the generation the shared instance gives
          alive,      \* _live[idx], _audio_live[idx]
          bus,        \* _sig_bus
          slept, pc, it,  \* step of the sampler; it % n_video
          vr, ar, own,    \* generations of the readers and of own_inst, 0 for none
          staleV, staleA,
          vseen, aseen,   \* vidx, ahead: "none", "old", or "new" once the flow has moved
          crcs, black, frozen,  \* ages of black_since and frozen_since
          still,          \* age of ahead_t
          lag,            \* samples from acur to the head, or Behind when the head is before it
          clip,           \* age of clip_t
          hole,           \* the last turn of the audio said that samples were not analysed
          vlast, slast,   \* vres_last, sres_last
          vres,           \* the verdict of the video in this tick
          sig,            \* _signal_rx[idx]
          failed      \* stops and failed reads so far

flow      == <<gen, writing, idle, gone, pic, loud, pinned, alive, bus>>
readers   == <<vr, ar, own, staleV, staleA, shared>>
vstate    == <<vseen, crcs, black, frozen, vlast, vres>>
astate    == <<aseen, still, lag, clip, hole, slast>>
probeVars == <<flow, readers, vstate, astate, slept, pc, it, sig, failed>>

(* A verdict is the set of flags that are up.                             *)
Unknown == {"unknown"}
Upto(n, limit) == IF n > limit THEN n ELSE n + 1
Aged(n, limit) == IF n = -1 THEN -1 ELSE Upto(n, limit)
Since(n) == IF n = -1 THEN 0 ELSE n           \* setdefault(key, now)

(* The head of flows made again may be before the cursor, which is kept.   *)
Behind == -2

ProbeInit ==
  /\ gen = 1 /\ writing = TRUE /\ idle = 0 /\ gone = Stale + 1 /\ pic \in Pictures
  /\ loud = FALSE /\ pinned = FALSE /\ shared = 1 /\ alive = TRUE /\ bus = FALSE
  /\ slept = FALSE /\ pc = "sleep" /\ it = 0
  /\ vr = 0 /\ ar = 0 /\ own = 0 /\ staleV = 0 /\ staleA = 0
  /\ vseen = "none" /\ crcs = <<>> /\ black = -1 /\ frozen = -1 /\ vlast = Unknown /\ vres = Unknown
  /\ aseen = "none" /\ still = -1 /\ lag = -1 /\ clip = -1 /\ hole = FALSE /\ slast = Unknown
  /\ sig = <<Unknown, Unknown>> /\ failed = 0

-----------------------------------------------------------------------------
(* The producer, and time                                                  *)

Moves(was, r) == IF was # "none" /\ r = gen /\ writing THEN "new" ELSE was

(* A head before the cursor comes closer, or past it.                      *)
Grown(n) == IF n = Behind THEN {Behind, 0, 1} ELSE {Aged(n, Ring)}

(* A tick while the sampler sleeps, which may sleep for several: the       *)
(* producer, if it writes, shows some picture and may write one sample    *)
(* that is clipped.                                                        *)
Advance ==
  /\ pc = "sleep" /\ slept' = TRUE
  /\ idle' = IF writing THEN 0 ELSE Upto(idle, Stale)
  /\ gone' = Upto(gone, Stale)
  /\ vseen' = Moves(vseen, vr) /\ aseen' = Moves(aseen, ar)
  /\ lag' \in IF writing THEN Grown(lag) ELSE {lag}
  /\ pic' \in IF writing THEN Pictures ELSE {pic}
  /\ loud' \in IF writing /\ lag # -1 THEN {loud, TRUE} ELSE {loud}
  /\ black' = Aged(black, Hold) /\ frozen' = Aged(frozen, Hold)
  /\ still' = Aged(still, Stale) /\ clip' = Aged(clip, ClipHold)
  /\ UNCHANGED <<gen, writing, pinned, alive, bus, readers, crcs, vlast, vres, hole, slast,
                 pc, it, sig, failed>>

(* mtl_rx destroys the flows and makes them again; a read may meet a       *)
(* SIGBUS; what the dead generation still held is lost with it, and the    *)
(* head of the new one is wherever the timestamps of its source put it.    *)
Remake ==
  /\ gen < MaxGen /\ gen' = gen + 1 /\ gone' = 0 /\ idle' = 0 /\ writing' = TRUE
  /\ pinned' \in BOOLEAN /\ bus' \in {bus, TRUE}
  /\ loud' = FALSE /\ lag' \in IF lag = -1 THEN {lag} ELSE {lag, Behind}
  /\ UNCHANGED <<pic, alive, readers, vstate, aseen, still, clip, hole, slast, slept, pc, it, sig,
                 failed>>

Stop ==
  /\ writing /\ writing' = FALSE /\ failed < MaxFailed /\ failed' = failed + 1
  /\ UNCHANGED <<gen, idle, gone, pic, loud, pinned, alive, bus, readers, vstate, astate, slept,
                 pc, it, sig>>

Restart ==
  /\ ~writing /\ writing' = TRUE
  /\ UNCHANGED <<gen, idle, gone, pic, loud, pinned, alive, bus, readers, vstate, astate, slept,
                 pc, it, sig, failed>>

(* The statistics tell the controller that the session receives.          *)
SeeLive ==
  /\ alive # writing /\ alive' = writing
  /\ UNCHANGED <<gen, writing, idle, gone, pic, loud, pinned, bus, readers, vstate, astate, slept,
                 pc, it, sig, failed>>

-----------------------------------------------------------------------------
(* Readers                                                                 *)

MaxOf(a, b) == IF a > b THEN a ELSE b

(* Mutant: always the shared instance.                                    *)
MutInstance == shared

(* _sig_instance: the generation a reader opened now falls on.            *)
Instance == IF MaxOf(staleV, staleA) < 2 THEN shared ELSE IF own # 0 THEN own ELSE gen

(* The instance of its own is made when it is first needed.               *)
OwnAfter == IF MaxOf(staleV, staleA) < 2 THEN own ELSE Instance

(* garbage_collect: a generation no other reader holds is forgotten.      *)
Collected == IF pinned THEN shared ELSE gen

(* _sig_close                                                              *)
Close == vr' = 0 /\ ar' = 0 /\ own' = 0

(* Age of the last write of the generation a reader is on.                *)
WriteAge(r) == IF r = gen THEN idle ELSE gone

Escalate(n) == IF n < 2 THEN n + 1 ELSE n

(* _sig_reopen: both readers are closed, and all they had dated but the   *)
(* cursor of the audio is forgotten.                                      *)
Reopen ==
  /\ Close /\ shared' = Collected
  /\ vseen' = "none" /\ crcs' = <<>> /\ black' = -1 /\ frozen' = -1
  /\ aseen' = "none" /\ still' = -1

(* A read that raises: the readers are closed, nothing is counted.        *)
Raise ==
  /\ failed < MaxFailed /\ failed' = failed + 1
  /\ Close /\ shared' = Collected /\ UNCHANGED <<staleV, staleA>>

(* The state of a slot that is not looked at any more (_sig_drop).        *)
Drop ==
  /\ Close /\ staleV' = 0 /\ staleA' = 0
  /\ vseen' = "none" /\ crcs' = <<>> /\ black' = -1 /\ frozen' = -1 /\ vlast' = Unknown /\ vres' = Unknown
  /\ aseen' = "none" /\ still' = -1 /\ lag' = -1 /\ clip' = -1 /\ slast' = Unknown
  /\ loud' = FALSE /\ hole' = FALSE

-----------------------------------------------------------------------------
(* The sampler                                                             *)

(* A turn: a SIGBUS met since the last one starts everything afresh.      *)
Wake ==
  /\ pc = "sleep" /\ slept /\ slept' = FALSE /\ it' = (it + 1) % Every /\ pc' = "turn"
  /\ bus' = FALSE
  /\ IF bus THEN Drop /\ shared' = Collected
            ELSE UNCHANGED <<loud, readers, vstate, astate>>
  /\ UNCHANGED <<gen, writing, idle, gone, pic, pinned, alive, sig, failed>>

(* A slot without a signal is forgotten.                                  *)
NotLive ==
  /\ pc = "turn" /\ ~alive /\ pc' = "sleep" /\ sig' = <<Unknown, Unknown>>
  /\ Drop
  /\ UNCHANGED <<gen, writing, idle, gone, pic, pinned, alive, bus, shared, slept, it, failed>>

(* Between two probes the last verdict of the video stands.               *)
VideoSkip ==
  /\ pc = "turn" /\ alive /\ it # 0 /\ pc' = "audio" /\ vres' = vlast
  /\ UNCHANGED <<flow, readers, vseen, crcs, black, frozen, vlast, astate, slept, it, sig, failed>>

(* The reader of this probe, opened if there is none, and what it knows.  *)
VReader == IF vr = 0 THEN Instance ELSE vr
VSeen   == IF vr = 0 THEN "none" ELSE vseen

VideoTurn == pc = "turn" /\ alive /\ it = 0 /\ pc' = "audio"

VideoStale ==
  /\ VideoTurn /\ WriteAge(VReader) > Stale
  /\ Reopen /\ staleV' = Escalate(staleV) /\ staleA' = staleA /\ vres' = Unknown
  /\ UNCHANGED <<flow, vlast, lag, clip, hole, slast, slept, it, sig, failed>>

(* A first grain, or no new one: nothing can be said.                     *)
VideoNothing ==
  /\ VideoTurn /\ WriteAge(VReader) <= Stale /\ VSeen # "new"
  /\ vr' = VReader /\ own' = (IF vr = 0 THEN OwnAfter ELSE own)
  /\ vseen' = "old" /\ black' = -1 /\ frozen' = -1 /\ vres' = Unknown
  /\ crcs' = IF vr = 0 THEN <<>> ELSE crcs
  /\ UNCHANGED <<flow, ar, staleV, staleA, shared, vlast, astate, slept, it, sig, failed>>

Same(p) == p # "moving" /\ \E i \in DOMAIN crcs : crcs[i] = p

Flags(b, f) == (IF b >= Hold THEN {"black"} ELSE {}) \cup (IF f >= Hold THEN {"frozen"} ELSE {})

(* Mutant: the date of the black is taken again at each grain.            *)
MutVideoGrain ==
  /\ VideoTurn /\ WriteAge(VReader) <= Stale /\ VSeen = "new" /\ staleV' = 0
  /\ black' = (IF pic = "black" THEN 0 ELSE -1)
  /\ frozen' = (IF Same(pic) THEN Since(frozen) ELSE -1)
  /\ crcs' = SubSeq(Append(crcs, pic), IF Len(crcs) = 2 THEN 2 ELSE 1, Len(crcs) + 1)
  /\ vseen' = "old" /\ vres' = Flags(black', frozen') /\ vlast' = vres'
  /\ UNCHANGED <<flow, vr, ar, own, staleA, shared, astate, slept, it, sig, failed>>

(* A new grain is judged against the two before it; black or frozen is    *)
(* said once it has lasted.                                               *)
VideoGrain ==
  /\ VideoTurn /\ WriteAge(VReader) <= Stale /\ VSeen = "new" /\ staleV' = 0
  /\ black' = (IF pic = "black" THEN Since(black) ELSE -1)
  /\ frozen' = (IF Same(pic) THEN Since(frozen) ELSE -1)
  /\ crcs' = SubSeq(Append(crcs, pic), IF Len(crcs) = 2 THEN 2 ELSE 1, Len(crcs) + 1)
  /\ vseen' = "old" /\ vres' = Flags(black', frozen') /\ vlast' = vres'
  /\ UNCHANGED <<flow, vr, ar, own, staleA, shared, astate, slept, it, sig, failed>>

VideoRaise ==
  /\ VideoTurn /\ Raise /\ vres' = Unknown
  /\ UNCHANGED <<flow, vseen, crcs, black, frozen, vlast, astate, slept, it, sig>>

AReader == IF ar = 0 THEN Instance ELSE ar
ASeen   == IF ar = 0 THEN "none" ELSE aseen

AudioTurn == pc = "audio" /\ pc' = "sleep"
AOpen     == ar' = AReader /\ own' = (IF ar = 0 THEN OwnAfter ELSE own)
Publish(s) == sig' = <<vres, s>>

(* The head does not move, or is seen for the first time.                 *)
AudioStill ==
  /\ AudioTurn /\ ASeen # "new" /\ Publish(slast)
  /\ LET age == IF ar = 0 THEN 0 ELSE Since(still) IN
     \/ /\ age > Stale /\ Reopen /\ staleA' = Escalate(staleA)
     \/ /\ age <= Stale /\ AOpen /\ aseen' = "old" /\ still' = age
        /\ UNCHANGED <<vr, staleA, shared, vseen, crcs, black, frozen>>
  /\ hole' = FALSE
  /\ UNCHANGED <<flow, staleV, vlast, vres, lag, clip, slast, slept, it, failed>>

HeadMoved ==
  /\ AudioTurn /\ ASeen = "new" /\ aseen' = "old" /\ still' = 0 /\ staleA' = 0
  /\ UNCHANGED <<vr, ar, own, staleV, shared, vstate, slept, it>>
  /\ UNCHANGED <<gen, writing, idle, gone, pic, pinned, alive, bus>>

(* Mutant: a cursor the head is before is left where it is.                *)
MutAudioJump ==
  /\ HeadMoved /\ lag \notin 1 .. Ring
  /\ hole' = (lag > Ring) /\ (IF lag = Behind THEN UNCHANGED <<lag, loud>> ELSE lag' = 0 /\ loud' = FALSE)
  /\ Publish(slast) /\ UNCHANGED <<clip, slast, failed>>

(* No cursor yet, a head that is not past it, or one too far for the ring: *)
(* the cursor restarts from the head, and only the last case is said.      *)
AudioJump ==
  /\ HeadMoved /\ lag \notin 1 .. Ring
  /\ hole' = (lag > Ring) /\ lag' = 0 /\ loud' = FALSE
  /\ Publish(slast) /\ UNCHANGED <<clip, slast, failed>>

(* A read that fails leaves the cursor where it is.                       *)
AudioUnread ==
  /\ HeadMoved /\ lag \in 1 .. Ring /\ failed < MaxFailed /\ failed' = failed + 1
  /\ hole' = FALSE /\ Publish(slast) /\ UNCHANGED <<loud, lag, clip, slast>>

(* Everything written since the cursor is read.                           *)
AudioRead ==
  /\ HeadMoved /\ lag \in 1 .. Ring /\ lag' = 0 /\ hole' = FALSE
  /\ clip' = (IF loud THEN 0 ELSE clip)
  /\ loud' = FALSE
  /\ slast' = (IF clip' # -1 /\ clip' < ClipHold THEN {"clip"} ELSE {}) /\ Publish(slast') /\ UNCHANGED failed

AudioRaise ==
  /\ AudioTurn /\ Raise /\ Publish(slast) /\ hole' = FALSE
  /\ UNCHANGED <<flow, vstate, aseen, still, lag, clip, slast, slept, it>>

Producer == Remake \/ Stop
Sampler == \/ Wake \/ NotLive \/ VideoSkip \/ VideoStale \/ VideoNothing \/ VideoGrain \/ VideoRaise
           \/ AudioStill \/ AudioJump \/ AudioUnread \/ AudioRead \/ AudioRaise

ProbeNext == Advance \/ Producer \/ Restart \/ SeeLive \/ Sampler

ProbeSpec == ProbeInit /\ [][ProbeNext]_probeVars

(* Time passes, the sampler turns, statistics come, a producer restarts.  *)
FairProbe ==
  /\ ProbeSpec
  /\ WF_probeVars(Advance) /\ WF_probeVars(Sampler) /\ WF_probeVars(SeeLive) /\ WF_probeVars(Restart)

-----------------------------------------------------------------------------
ProbeTypeOK ==
  /\ gen \in 1 .. MaxGen /\ writing \in BOOLEAN
  /\ idle \in 0 .. Stale + 1 /\ gone \in 0 .. Stale + 1
  /\ pic \in Pictures /\ loud \in BOOLEAN
  /\ pinned \in BOOLEAN /\ alive \in BOOLEAN /\ bus \in BOOLEAN /\ slept \in BOOLEAN
  /\ shared \in 1 .. gen /\ vr \in 0 .. gen /\ ar \in 0 .. gen /\ own \in 0 .. gen
  /\ pc \in {"sleep", "turn", "audio"} /\ it \in 0 .. Every - 1
  /\ staleV \in 0 .. 2 /\ staleA \in 0 .. 2
  /\ vseen \in {"none", "old", "new"} /\ aseen \in {"none", "old", "new"}
  /\ black \in -1 .. Hold + 1 /\ frozen \in -1 .. Hold + 1 /\ still \in -1 .. Stale + 1
  /\ lag \in -2 .. Ring + 1 /\ hole \in BOOLEAN /\ clip \in -1 .. ClipHold + 1
  /\ failed \in 0 .. MaxFailed

(* The flows having been made again for the last time and being written,  *)
(* both readers end on the generation that lives, whatever else in the    *)
(* process still holds the dead one.                                      *)
Reconnects == <>[](alive /\ writing) => <>[](vr = gen /\ ar = gen)

(* A picture that stays black, in flows that live, is said black.         *)
BlackIsSaid == <>[](pic = "black" /\ alive /\ writing) => <>[]("black" \in sig[1])

(* In flows that live, clipped samples that keep coming keep being said,   *)
(* or it is said that samples were not analysed, also when the head of the *)
(* flows came back before the cursor.                                      *)
ClipIsSaid ==
  <>[](alive /\ writing) /\ []<>loud => []<>("clip" \in sig[2] \/ hole)
=============================================================================
