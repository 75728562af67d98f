------------------------------- MODULE Famine -------------------------------
(***************************************************************************)
(* Recovery of senders that no longer get packet buffers                   *)
(* (docker/patch_tx_builder_famine_recovery.py, on libmtl).                *)
(*                                                                         *)
(* Every new transmit queue is a commit of the traffic manager that stops  *)
(* the port, and a port stop may cost a living session its buffers for     *)
(* good.  A builder that starves outside a commit for longer than Thresh   *)
(* asks for a recovery: give the queue back, get a new one, make a new     *)
(* pool.  A guard shared by the sessions of an essence spaces the          *)
(* recoveries; a session whose recovery fails is set inactive, and tried   *)
(* again on the legs that have no queue.                                   *)
(*                                                                         *)
(* A video session recovers from its own builder.  An audio builder runs   *)
(* under the lock of its session while the recovery takes the lock of      *)
(* every session of the manager: it only posts a request, which the        *)
(* tasklet serves at its end.                                              *)
(*                                                                         *)
(* Clocks are ages that stop growing once past the limit they are compared *)
(* with.  A leg of a session and the port it is mapped to have one name;   *)
(* leg 1 is MTL_SESSION_PORT_P.  Each video session has a core of its own. *)
(***************************************************************************)
EXTENDS Integers

CONSTANTS Video, Audio,   \* sessions
          Leg,            \* the legs every session sends on: {1} or {1, 2}
          Hw,             \* hardware queues of a port
          Thresh,         \* FAMINE_THRESH_NS
          Guard,          \* RECOVERY_GUARD_NS
          Failures,       \* what may fail in a recovery: "txq" (mt_txq_get),
                          \* "video" and "audio" (the pools of a session)
          MaxLoss,        \* bound: sessions that lose their buffers
          MaxFail,        \* bound: failures
          MaxCommit,      \* bound: commits of the control thread
          MaxHold         \* bound: times the control thread takes a lock

Mgr   == "mgr"            \* st_tx_audio_sessions_mgr
None  == "none"
Owner == Video \cup {Mgr}
Essence == {"video", "audio"}

(* At the start there is a queue of each port for every holder.            *)
ASSUME FamineAssumption ==
  /\ Video \cap Audio = {} /\ Mgr \notin Video \cup Audio /\ None \notin Video \cup Audio
  /\ Leg = {1} \/ Leg = {1, 2}
  /\ None \notin Hw
  /\ \E q \in [Owner -> Hw] : \A o1, o2 \in Owner : q[o1] = q[o2] => o1 = o2
  /\ Thresh \in Nat /\ Guard \in Nat
  /\ Failures \subseteq {"txq", "video", "audio"}
  /\ MaxLoss \in Nat /\ MaxFail \in Nat /\ MaxCommit \in Nat /\ MaxHold \in Nat

VARIABLES active,    \* s->active
          pool,      \* the mempools of a session still give buffers
          fail,      \* age of bobi_alloc_fail_first_tsc, -1 when it is 0
          since,     \* age of bobi_video_last_recovery_tsc, bobi_audio_last_recovery_tsc
          queue,     \* s->queue, mgr->queue: a hardware queue, None when NULL
          used,      \* tx_queue->active
          burnt,     \* tx_queue->fatal_error
          commit,    \* a commit ordered by the control thread stops the port
          vpc, legs, \* step of a video core, and the legs it has to recover
          apc, cur,  \* step of the audio tasklet, and the session it holds
          todo,      \* sessions left in the loop of the audio tasklet
          port,      \* the port an audio recovery is about
          pending,   \* mgr->bobi_famine_pending
          held,      \* mgr->mutex[] held by the control thread
          budget     \* losses, failures, commits and holds so far

video == <<vpc, legs>>
audio == <<apc, cur, todo, port, pending>>
hw    == <<queue, used, burnt>>
vars  == <<active, pool, fail, since, hw, commit, video, audio, held, budget>>

Session == Video \cup Audio

(* Sessions just created: every queue is got, every pool is full, no      *)
(* recovery has taken place for long.  The queues of a port are alike:    *)
(* which of them a session has does not matter.                           *)
Apart(q) == \A o1, o2 \in Owner : q[o1] = q[o2] => o1 = o2
Start    == CHOOSE q \in [Owner -> Hw] : Apart(q)

Init ==
  /\ active = [s \in Session |-> TRUE] /\ pool = [s \in Session |-> TRUE]
  /\ fail = [s \in Session |-> -1] /\ since = [e \in Essence |-> Guard + 1]
  /\ queue = [o \in Owner |-> [l \in Leg |-> Start[o]]]
  /\ used = [l \in Leg |-> {queue[o][l] : o \in Owner}] /\ burnt = [l \in Leg |-> {}]
  /\ commit = [l \in Leg |-> FALSE]
  /\ vpc = [s \in Video |-> "run"] /\ legs = [s \in Video |-> {}]
  /\ apc = "idle" /\ cur = None /\ todo = {} /\ port = 1
  /\ pending = [l \in Leg |-> FALSE] /\ held = {}
  /\ budget = [loss |-> 0, fail |-> 0, commit |-> 0, hold |-> 0]

(* The legs are taken in order.                                           *)
First(some) == IF 1 \in some THEN 1 ELSE 2

(* inf->resetting: up while a queue is being got on the port.             *)
Resetting(l) ==
  \/ commit[l]
  \/ \E s \in Video : vpc[s] = "get" /\ legs[s] # {} /\ First(legs[s]) = l
  \/ apc = "get" /\ port = l

(* The port stop of a commit may take the buffers of one more session.    *)
PortStop(but, spent) ==
  \/ pool' = but /\ budget' = spent
  \/ \E s \in Session :
       /\ but[s] /\ spent.loss < MaxLoss
       /\ pool' = [but EXCEPT ![s] = FALSE] /\ budget' = [spent EXCEPT !.loss = @ + 1]

MayFail(kind) == kind \in Failures /\ budget.fail < MaxFail
Failed == [budget EXCEPT !.fail = @ + 1]

(* Mutant: a queue given back stays in quarantine (libmtl before the patch).*)
MutPutQueue(o, l) ==
  LET q == queue[o][l] IN
  /\ queue' = [queue EXCEPT ![o][l] = None]
  /\ used' = [used EXCEPT ![l] = @ \ {q}]
  /\ burnt' = [burnt EXCEPT ![l] = @ \cup {q}]

(* mt_txq_fatal_error, mt_txq_put: the queue is marked and returned, and  *)
(* what is returned can be got again.                                     *)
PutQueue(o, l) ==
  LET q == queue[o][l] IN
  /\ queue' = [queue EXCEPT ![o][l] = None]
  /\ used' = [used EXCEPT ![l] = @ \ {q}]
  /\ burnt' = [burnt EXCEPT ![l] = @ \ {q}]

FreeQueues(l) == Hw \ (used[l] \cup burnt[l])

(* mt_txq_get of a queue that is neither active nor marked.               *)
GetQueue(o, l) ==
  \E q \in FreeQueues(l) :
    /\ queue' = [queue EXCEPT ![o][l] = q]
    /\ used' = [used EXCEPT ![l] = @ \cup {q}]
    /\ burnt' = burnt

-----------------------------------------------------------------------------
(* Video                                                                   *)

(* bobi_famine_check: time under a commit is not counted; the tracker is  *)
(* set at the first failure.                                              *)
Track(s) ==
  fail' = [fail EXCEPT ![s] = IF Resetting(1) THEN -1 ELSE IF @ = -1 THEN 0 ELSE @]

Famished(s) == ~Resetting(1) /\ fail[s] > Thresh

(* A burst that leaves proves that every pool gave.                        *)
VideoBurst(s) ==
  /\ vpc[s] = "run" /\ active[s] /\ pool[s] /\ fail[s] # -1
  /\ fail' = [fail EXCEPT ![s] = -1]
  /\ UNCHANGED <<active, pool, since, hw, commit, video, audio, held, budget>>

(* A failed allocation (header, chain or redundant pool), not yet for long *)
(* enough, or within the guard of another recovery.                       *)
VideoStarve(s) ==
  /\ vpc[s] = "run" /\ active[s] /\ ~pool[s]
  /\ ~(Famished(s) /\ since["video"] > Guard)
  /\ Track(s)
  /\ UNCHANGED <<active, pool, since, hw, commit, video, audio, held, budget>>

(* The check passes.  The guard is read here and stamped at the next step: *)
(* another core may pass in between.                                      *)
VideoDecide(s) ==
  /\ vpc[s] = "run" /\ active[s] /\ ~pool[s]
  /\ Famished(s) /\ since["video"] > Guard
  /\ vpc' = [vpc EXCEPT ![s] = "stamp"] /\ legs' = [legs EXCEPT ![s] = Leg]
  /\ UNCHANGED <<active, pool, fail, since, hw, commit, audio, held, budget>>

(* bobi_zombie_retry: an inactive session tries the legs without a queue. *)
VideoZombie(s) ==
  /\ vpc[s] = "run" /\ ~active[s] /\ since["video"] > Guard
  /\ vpc' = [vpc EXCEPT ![s] = "stamp"]
  /\ legs' = [legs EXCEPT ![s] = {l \in Leg : queue[s][l] = None}]
  /\ UNCHANGED <<active, pool, fail, since, hw, commit, audio, held, budget>>

VideoStamp(s) ==
  /\ vpc[s] = "stamp"
  /\ since' = [since EXCEPT !["video"] = 0] /\ fail' = [fail EXCEPT ![s] = -1]
  /\ vpc' = [vpc EXCEPT ![s] = "put"]
  /\ UNCHANGED <<active, pool, hw, commit, legs, audio, held, budget>>

(* st20_tx_queue_fatal_error on the next leg: the queue, if any, is given  *)
(* back, and the get begins.                                              *)
VideoPut(s) ==
  /\ vpc[s] = "put"
  /\ IF legs[s] = {}
     THEN vpc' = [vpc EXCEPT ![s] = "run"] /\ UNCHANGED hw
     ELSE /\ vpc' = [vpc EXCEPT ![s] = "get"]
          /\ IF queue[s][First(legs[s])] = None THEN UNCHANGED hw ELSE PutQueue(s, First(legs[s]))
  /\ UNCHANGED <<active, pool, fail, since, commit, legs, audio, held, budget>>

LegDone(s) ==
  /\ vpc' = [vpc EXCEPT ![s] = "put"]
  /\ legs' = [legs EXCEPT ![s] = @ \ {First(@)}]
  /\ UNCHANGED <<fail, since, commit, audio, held>>

(* A queue and a pool are got: the session is alive again.                *)
VideoRecovered(s) ==
  /\ vpc[s] = "get" /\ GetQueue(s, First(legs[s]))
  /\ PortStop([pool EXCEPT ![s] = TRUE], budget)
  /\ active' = [active EXCEPT ![s] = TRUE] /\ LegDone(s)

(* Mutant: a session without a queue stays active.                          *)
MutVideoNoQueue(s) ==
  /\ vpc[s] = "get" /\ MayFail("txq") /\ budget' = Failed /\ LegDone(s)
  /\ UNCHANGED <<active, pool, hw>>

(* No queue: the session is dead until a retry.                           *)
VideoNoQueue(s) ==
  /\ vpc[s] = "get"
  /\ \/ FreeQueues(First(legs[s])) = {} /\ budget' = budget
     \/ MayFail("txq") /\ budget' = Failed
  /\ active' = [active EXCEPT ![s] = FALSE] /\ LegDone(s)
  /\ UNCHANGED <<pool, hw>>

(* A queue but no pool: the session is dead and keeps its queue.          *)
VideoNoPool(s) ==
  /\ vpc[s] = "get" /\ MayFail("video") /\ GetQueue(s, First(legs[s]))
  /\ PortStop([pool EXCEPT ![s] = FALSE], Failed)
  /\ active' = [active EXCEPT ![s] = FALSE] /\ LegDone(s)

-----------------------------------------------------------------------------
(* Audio: tx_audio_sessions_tasklet                                        *)

AudioBegin ==
  /\ apc = "idle" /\ apc' = "loop" /\ todo' = Audio
  /\ UNCHANGED <<active, pool, fail, since, hw, commit, video, cur, port, pending, held, budget>>

(* tx_audio_session_try_get: a session whose lock is taken is skipped.    *)
AudioTryGet(s) ==
  /\ apc = "loop" /\ cur = None /\ s \in todo
  /\ todo' = todo \ {s}
  /\ IF s \in held THEN UNCHANGED <<apc, cur>> ELSE cur' = s /\ apc' = "build"
  /\ UNCHANGED <<active, pool, fail, since, hw, commit, video, port, pending, held, budget>>

(* The requests of a session: one for the port of each leg.               *)
AllLegs == [l \in Leg |-> TRUE]

(* bobi_famine_check of audio: past the threshold it posts the requests,  *)
(* and keeps the tracker.                                                 *)
AudioStarved(s) == Track(s) /\ pending' = IF Famished(s) THEN AllLegs ELSE pending

(* Mutant: the builder recovers by itself, under its lock (v1 to v3).       *)
MutAudioBuild ==
  /\ apc = "build"
  /\ IF active[cur] /\ ~pool[cur] /\ Famished(cur)
     THEN apc' = "reset" /\ todo' = Audio /\ fail' = fail
     ELSE /\ apc' = "exit" /\ todo' = todo
          /\ IF pool[cur] THEN fail' = [fail EXCEPT ![cur] = -1] ELSE Track(cur)
  /\ UNCHANGED <<active, pool, since, hw, commit, video, cur, port, pending, held, budget>>

(* Mutant: a dead session is skipped (libmtl before the patch).             *)
MutAudioDead ==
  /\ apc = "build" /\ apc' = "exit"
  /\ \/ ~active[cur] /\ pending' = pending /\ fail' = fail
     \/ active[cur] /\ pool[cur] /\ fail' = [fail EXCEPT ![cur] = -1] /\ pending' = pending
     \/ active[cur] /\ ~pool[cur] /\ AudioStarved(cur)
  /\ UNCHANGED <<active, pool, since, hw, commit, video, cur, todo, port, held, budget>>

(* Under the lock of the session: a dead session posts its request again, *)
(* a complete build clears the tracker, a failed allocation is counted    *)
(* and past the threshold posts the request.                              *)
AudioBuild ==
  /\ apc = "build" /\ apc' = "exit"
  /\ \/ ~active[cur] /\ pending' = AllLegs /\ fail' = fail
     \/ active[cur] /\ pool[cur] /\ fail' = [fail EXCEPT ![cur] = -1] /\ pending' = pending
     \/ active[cur] /\ ~pool[cur] /\ AudioStarved(cur)
  /\ UNCHANGED <<active, pool, since, hw, commit, video, cur, todo, port, held, budget>>

(* tx_audio_session_put                                                    *)
AudioPut ==
  /\ apc = "exit" /\ apc' = "loop" /\ cur' = None
  /\ UNCHANGED <<active, pool, fail, since, hw, commit, video, todo, port, pending, held, budget>>

Requests == {l \in Leg : pending[l]}

(* The end of the tasklet, without any lock: nothing is asked, or the     *)
(* guard keeps the requests for a later turn.                             *)
AudioRest ==
  /\ apc = "loop" /\ cur = None /\ todo = {}
  /\ Requests = {} \/ since["audio"] <= Guard
  /\ apc' = "idle"
  /\ UNCHANGED <<active, pool, fail, since, hw, commit, video, cur, todo, port, pending, held, budget>>

(* st_audio_queue_fatal_error gives the queue of the manager back, if any. *)
PutMgr(l) == IF queue[Mgr][l] = None THEN UNCHANGED hw ELSE PutQueue(Mgr, l)

(* One request is served: the clock is read once before the ports, so the *)
(* guard keeps the next port for a later turn.                            *)
AudioConsume ==
  /\ apc = "loop" /\ cur = None /\ todo = {}
  /\ Requests # {} /\ since["audio"] > Guard
  /\ LET l == First(Requests) IN
     /\ since' = [since EXCEPT !["audio"] = 0] /\ pending' = [pending EXCEPT ![l] = FALSE]
     /\ port' = l /\ apc' = "reset" /\ todo' = Audio
     /\ PutMgr(l)
  /\ UNCHANGED <<active, pool, fail, commit, video, cur, held, budget>>

(* tx_audio_session_get waits for the lock of each session in turn; its   *)
(* pools are made again.                                                  *)
AudioReset(s) ==
  /\ apc = "reset" /\ s \in todo /\ s \notin held /\ s # cur
  /\ todo' = todo \ {s}
  /\ \/ /\ active' = [active EXCEPT ![s] = TRUE] /\ pool' = [pool EXCEPT ![s] = TRUE]
        /\ budget' = budget
     \/ /\ MayFail("audio") /\ budget' = Failed
        /\ active' = [active EXCEPT ![s] = FALSE] /\ pool' = [pool EXCEPT ![s] = FALSE]
  /\ UNCHANGED <<fail, since, hw, commit, video, apc, cur, port, pending, held>>

AudioGet ==
  /\ apc = "reset" /\ todo = {} /\ apc' = "get"
  /\ UNCHANGED <<active, pool, fail, since, hw, commit, video, cur, todo, port, pending, held, budget>>

(* The new queue of the manager.                                          *)
AudioGot ==
  /\ apc = "get" /\ apc' = "idle"
  /\ GetQueue(Mgr, port) /\ PortStop(pool, budget)
  /\ UNCHANGED <<active, fail, since, commit, video, cur, todo, port, pending, held>>

(* No queue: the manager is left without one on this port, its sessions   *)
(* as they are, and nothing is asked.                                     *)
AudioNoQueue ==
  /\ apc = "get" /\ apc' = "idle"
  /\ \/ FreeQueues(port) = {} /\ budget' = budget
     \/ MayFail("txq") /\ budget' = Failed
  /\ UNCHANGED <<active, pool, fail, since, hw, commit, video, cur, todo, port, pending, held>>

-----------------------------------------------------------------------------
(* The control thread creates sessions (a commit) and takes session locks *)

CommitBegin(l) ==
  /\ ~commit[l] /\ budget.commit < MaxCommit
  /\ commit' = [commit EXCEPT ![l] = TRUE] /\ budget' = [budget EXCEPT !.commit = @ + 1]
  /\ UNCHANGED <<active, pool, fail, since, hw, video, audio, held>>

CommitEnd(l) ==
  /\ commit[l] /\ commit' = [commit EXCEPT ![l] = FALSE]
  /\ PortStop(pool, budget)
  /\ UNCHANGED <<active, fail, since, hw, video, audio, held>>

Hold(s) ==
  /\ s \notin held /\ s # cur /\ budget.hold < MaxHold
  /\ held' = held \cup {s} /\ budget' = [budget EXCEPT !.hold = @ + 1]
  /\ UNCHANGED <<active, pool, fail, since, hw, commit, video, audio>>

Drop(s) ==
  /\ s \in held /\ held' = held \ {s}
  /\ UNCHANGED <<active, pool, fail, since, hw, commit, video, audio, budget>>

Until(n, limit) == IF n > limit THEN n ELSE n + 1

Tick ==
  /\ fail' = [s \in Session |-> IF fail[s] = -1 THEN -1 ELSE Until(fail[s], Thresh)]
  /\ since' = [e \in Essence |-> Until(since[e], Guard)]
  /\ <<fail, since>>' # <<fail, since>>
  /\ UNCHANGED <<active, pool, hw, commit, video, audio, held, budget>>

(* The buffers of a session were only late: they come back by themselves. *)
Refill(s) ==
  /\ active[s] /\ ~pool[s] /\ (s \in Video => vpc[s] = "run")
  /\ pool' = [pool EXCEPT ![s] = TRUE]
  /\ UNCHANGED <<active, fail, since, hw, commit, video, audio, held, budget>>

VideoStep(s) ==
  \/ VideoBurst(s) \/ VideoStarve(s) \/ VideoDecide(s) \/ VideoZombie(s) \/ VideoStamp(s)
  \/ VideoPut(s) \/ VideoRecovered(s) \/ VideoNoQueue(s) \/ VideoNoPool(s)

AudioStep ==
  \/ AudioBegin \/ AudioBuild \/ AudioPut \/ AudioRest \/ AudioConsume \/ AudioGet \/ AudioGot
  \/ AudioNoQueue
  \/ \E s \in Audio : AudioTryGet(s) \/ AudioReset(s)

Control == \E l \in Leg : CommitBegin(l) \/ CommitEnd(l)
Locks   == \E s \in Audio : Hold(s) \/ Drop(s)

Next == (\E s \in Video : VideoStep(s)) \/ AudioStep \/ Control \/ Locks
        \/ (\E s \in Session : Refill(s)) \/ Tick

Spec == Init /\ [][Next]_vars

(* Every core turns, time passes, a commit ends and a lock is given back. *)
FairSpec ==
  /\ Spec /\ WF_vars(AudioStep) /\ WF_vars(Tick)
  /\ \A s \in Video : WF_vars(VideoStep(s))
  /\ \A l \in Leg : WF_vars(CommitEnd(l))
  /\ \A s \in Audio : WF_vars(Drop(s))

-----------------------------------------------------------------------------
TypeOK ==
  /\ active \in [Session -> BOOLEAN] /\ pool \in [Session -> BOOLEAN]
  /\ fail \in [Session -> -1 .. Thresh + 1] /\ since \in [Essence -> 0 .. Guard + 1]
  /\ queue \in [Owner -> [Leg -> Hw \cup {None}]]
  /\ used \in [Leg -> SUBSET Hw] /\ burnt \in [Leg -> SUBSET Hw]
  /\ commit \in [Leg -> BOOLEAN] /\ pending \in [Leg -> BOOLEAN]
  /\ vpc \in [Video -> {"run", "stamp", "put", "get"}] /\ legs \in [Video -> SUBSET Leg]
  /\ apc \in {"idle", "loop", "build", "exit", "reset", "get"} /\ cur \in Audio \cup {None}
  /\ todo \in SUBSET Audio /\ port \in Leg /\ held \in SUBSET Audio
  /\ budget \in [{"loss", "fail", "commit", "hold"} -> Nat]

(* A hardware queue is taken exactly when one session or the manager holds *)
(* it, and no queue is lost to a recovery: a recovery that left its queue  *)
(* marked, or kept the old one beside the new, would end the pool of a     *)
(* port in minutes (mt_dev_put_tx_queue, lines 1017-1076).                *)
QueuesOwned ==
  \A l \in Leg :
    /\ burnt[l] = {}
    /\ used[l] = {queue[o][l] : o \in Owner} \ {None}
    /\ \A o1, o2 \in Owner : queue[o1][l] = queue[o2][l] /\ queue[o1][l] # None => o1 = o2

(* The core that runs the audio tasklet never waits for a lock of its own: *)
(* st_audio_queue_fatal_error, which takes the lock of every session, runs *)
(* only once the loop over the sessions has given them all back.          *)
NoSelfWait == apc \in {"reset", "get"} => cur = None

LastLeg == IF 2 \in Leg THEN 2 ELSE 1

(* A session that runs has the queue of its last leg: the recoveries, the  *)
(* failures and the retries in whatever order never leave a session active *)
(* that can send nowhere ("s->active=false reste nécessaire pour la sûreté *)
(* (ne pas tenter de tx sur une queue NULL)").  Of two legs the first may  *)
(* be missing: a get that fails there is followed by one that succeeds.    *)
LastLegServed == \A s \in Video : active[s] /\ vpc[s] = "run" => queue[s][LastLeg] # None

(* "jamais d'abandon": losses and failures being finite, every audio       *)
(* session ends active with its buffers, whatever failed in its recovery,  *)
(* although its request waits for the guard, for the locks of the other    *)
(* sessions and behind the request of the other port.                      *)
Revives == <>[](\A s \in Audio : active[s] /\ pool[s])

=============================================================================
