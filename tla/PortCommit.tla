----------------------------- MODULE PortCommit -----------------------------
(***************************************************************************)
(* One port of the card while the rate of a sender changes.  The commit of *)
(* the rate stops and restarts the whole port under the pollers of every   *)
(* other session, so that:                                                 *)
(*   - a burst announces itself, then reads `resetting`                    *)
(*     (docker/patch_rx_resetting_guard.py, patch_tx_burst_rendezvous.py); *)
(*   - the committer raises `resetting`, waits for the announced bursts    *)
(*     80 ms at most, commits, and lowers `resetting` only once            *)
(*     rte_eth_dev_start said the port runs                                *)
(*     (patch_tx_burst_rendezvous.py);                                     *)
(*   - a burst that sent nothing because of `resetting` is no hang         *)
(*     (patch_tx_hang_resetting_guard.py) and keeps its packet             *)
(*     (patch_tx_reset_no_drop.py).                                        *)
(*                                                                         *)
(* libmtl, which these files patch, and the driver are external.  There is *)
(* one committer: libmtl holds the mutex of the port's queues.  The card   *)
(* is healthy: a burst on a running port sends its packet.                 *)
(***************************************************************************)
EXTENDS Integers, FiniteSets

CONSTANTS
  TxPoller, RxPoller,  \* the tasklets that call mt_txq_burst and mt_rxq_burst
  K,           \* packets in the pool of a sender
  Thresh,      \* tx_hang_detect_time_thresh, in ticks
  MaxCommits,  \* bound: commits of the run
  MaxTries,    \* bobi_try: 5 in the code
  SlowBurst,   \* a burst may last more than the 80 ms of the rendezvous
  StartFails,  \* rte_eth_dev_start may fail
  Starved      \* a sender may have nothing to send for longer than a tick

Poller == TxPoller \cup RxPoller

ASSUME PortAssumption ==
  /\ IsFiniteSet(TxPoller) /\ IsFiniteSet(RxPoller)
  /\ TxPoller \cap RxPoller = {}
  /\ K \in Nat \ {0} /\ Thresh \in Nat \ {0}
  /\ MaxCommits \in Nat /\ MaxTries \in Nat \ {0}
  /\ {SlowBurst, StartFails, Starved} \subseteq BOOLEAN

VARIABLES
  resetting,  \* inf->resetting
  inflight,   \* inf->bobi_burst_inflight
  started,    \* the port runs
  cpc,        \* where the committer is in dev_tx_queue_set_rl_rate
  tries,      \* bobi_try
  commits,    \* commits made so far
  pc,         \* where a poller is in its burst
  hand,       \* packets a sender holds: to be sent, or in trs_inflight
  posted,     \* its packets in the descriptors of the card
  pool,       \* its free packets
  age,        \* ticks since last_burst_succ_time_tsc, at most Thresh
  polled      \* the sender ended a burst in this tick

portVars == <<resetting, inflight, started>>
commitVars == <<cpc, tries, commits>>
packetVars == <<hand, posted, pool>>
clockVars == <<age, polled>>
vars == <<portVars, commitVars, pc, packetVars, clockVars>>

\* Between the increment of the counter and its decrement.
Inside == {l \in Poller : pc[l] \in {"check", "skip", "burst", "leave"}}
Bursting == {l \in Poller : pc[l] = "burst"}

TypeOK ==
  /\ resetting \in BOOLEAN /\ started \in BOOLEAN
  /\ inflight \in Nat
  /\ cpc \in {"idle", "wait", "stop", "commit", "start"}
  /\ tries \in 0..MaxTries /\ commits \in 0..MaxCommits
  /\ pc \in [Poller -> {"idle", "check", "skip", "burst", "leave", "fail", "hung"}]
  /\ hand \in [TxPoller -> 0..1]
  /\ posted \in [TxPoller -> 0..K] /\ pool \in [TxPoller -> 0..K]
  /\ age \in [TxPoller -> 0..Thresh] /\ polled \in [TxPoller -> BOOLEAN]

Init ==
  /\ resetting = FALSE /\ inflight = 0 /\ started = TRUE
  /\ cpc = "idle" /\ tries = 0 /\ commits = 0
  /\ pc = [l \in Poller |-> "idle"]
  /\ hand = [l \in TxPoller |-> 0] /\ posted = [l \in TxPoller |-> 0]
  /\ pool = [l \in TxPoller |-> K]
  /\ age = [l \in TxPoller |-> 0] /\ polled = [l \in TxPoller |-> FALSE]

-----------------------------------------------------------------------------
(* The pollers.                                                            *)

Build(l) ==
  /\ pc[l] = "idle" /\ hand[l] = 0 /\ pool[l] > 0
  /\ hand' = [hand EXCEPT ![l] = 1] /\ pool' = [pool EXCEPT ![l] = @ - 1]
  /\ UNCHANGED <<portVars, commitVars, pc, posted, clockVars>>

\* Mutant: the burst is not announced.
MutEnter(l) ==
  /\ pc[l] = "idle" /\ (l \in TxPoller => hand[l] = 1)
  /\ pc' = [pc EXCEPT ![l] = "check"]
  /\ UNCHANGED <<portVars, commitVars, packetVars, clockVars>>

\* Announce the burst...
Enter(l) ==
  /\ pc[l] = "idle" /\ (l \in TxPoller => hand[l] = 1)
  /\ pc' = [pc EXCEPT ![l] = "check"]
  /\ inflight' = inflight + 1
  /\ UNCHANGED <<resetting, started, commitVars, packetVars, clockVars>>

\* ... then read the flag.
Check(l) ==
  /\ pc[l] = "check"
  /\ pc' = [pc EXCEPT ![l] = IF resetting THEN "skip" ELSE "burst"]
  /\ UNCHANGED <<portVars, commitVars, packetVars, clockVars>>

\* The port is off: nothing sent, nothing received.
Skip(l) ==
  /\ pc[l] = "skip"
  /\ inflight' = inflight - 1
  /\ pc' = [pc EXCEPT ![l] = IF l \in TxPoller THEN "fail" ELSE "idle"]
  /\ UNCHANGED <<resetting, started, commitVars, packetVars, clockVars>>

\* entry->burst.  What is written in the ring of a stopped port is neither sent
\* nor given back to the pool.
Burst(l) ==
  /\ pc[l] = "burst"
  /\ pc' = [pc EXCEPT ![l] = "leave"]
  /\ IF l \in TxPoller
     THEN /\ hand' = [hand EXCEPT ![l] = 0]
          /\ posted' = [posted EXCEPT ![l] = IF started THEN @ + 1 ELSE @]
     ELSE UNCHANGED <<hand, posted>>
  /\ UNCHANGED <<portVars, commitVars, pool, clockVars>>

\* The burst sent its packet: its date is the one of the last success.
Leave(l) ==
  /\ pc[l] = "leave"
  /\ inflight' = inflight - 1
  /\ pc' = [pc EXCEPT ![l] = "idle"]
  /\ IF l \in TxPoller
     THEN age' = [age EXCEPT ![l] = 0] /\ polled' = [polled EXCEPT ![l] = TRUE]
     ELSE UNCHANGED clockVars
  /\ UNCHANGED <<resetting, started, commitVars, packetVars>>

\* Mutant: the date is not pushed while the port is reset.
MutBurstFail(l) ==
  /\ pc[l] = "fail"
  /\ polled' = [polled EXCEPT ![l] = TRUE]
  /\ pc' = [pc EXCEPT ![l] = IF age[l] = Thresh THEN "hung" ELSE "idle"]
  /\ UNCHANGED <<age, portVars, commitVars, packetVars>>

\* Mutant: the packets are said to be sent, as before patch_tx_reset_no_drop.
MutBurstFailDrop(l) ==
  /\ pc[l] = "fail"
  /\ polled' = [polled EXCEPT ![l] = TRUE]
  /\ \/ /\ resetting
        /\ age' = [age EXCEPT ![l] = 0]
        /\ hand' = [hand EXCEPT ![l] = 0]
        /\ pc' = [pc EXCEPT ![l] = "idle"]
     \/ /\ ~resetting
        /\ pc' = [pc EXCEPT ![l] = IF age[l] = Thresh THEN "hung" ELSE "idle"]
        /\ UNCHANGED <<age, hand>>
  /\ UNCHANGED <<portVars, commitVars, posted, pool>>

\* video_trs_burst_fail and st_audio_trs_burst_fail: `resetting` is read anew.
BurstFail(l) ==
  /\ pc[l] = "fail"
  /\ polled' = [polled EXCEPT ![l] = TRUE]
  /\ \/ /\ resetting
        /\ age' = [age EXCEPT ![l] = 0]
        /\ pc' = [pc EXCEPT ![l] = "idle"]
     \/ /\ ~resetting
        /\ pc' = [pc EXCEPT ![l] = IF age[l] = Thresh THEN "hung" ELSE "idle"]
        /\ UNCHANGED age
  /\ UNCHANGED <<portVars, commitVars, packetVars>>

\* The card sends a posted packet.
Drain(l) ==
  /\ started /\ posted[l] > 0
  /\ posted' = [posted EXCEPT ![l] = @ - 1] /\ pool' = [pool EXCEPT ![l] = @ + 1]
  /\ UNCHANGED <<portVars, commitVars, pc, hand, clockVars>>

\* A tick is longer than any burst: a sender that has something to send ends
\* one in each.
Tick ==
  /\ \A l \in TxPoller : polled[l] \/ (Starved /\ hand[l] = 0 /\ pc[l] = "idle")
  /\ polled' = [l \in TxPoller |-> FALSE]
  /\ age' = [l \in TxPoller |-> IF age[l] < Thresh THEN age[l] + 1 ELSE age[l]]
  /\ UNCHANGED <<portVars, commitVars, pc, packetVars>>

-----------------------------------------------------------------------------
(* The committer, dev_tx_queue_set_rl_rate.                                *)

Raise ==
  /\ cpc = "idle" /\ commits < MaxCommits
  /\ cpc' = "wait" /\ resetting' = TRUE /\ commits' = commits + 1
  /\ UNCHANGED <<inflight, started, tries, pc, packetVars, clockVars>>

WaitDone ==
  /\ cpc = "wait" /\ inflight = 0
  /\ cpc' = "stop"
  /\ UNCHANGED <<portVars, tries, commits, pc, packetVars, clockVars>>

\* 80 ms passed with the counter above 0 each time it was read; pollers that
\* only skip can keep it there.  Committing anyway.
WaitTimeout ==
  /\ cpc = "wait" /\ inflight > 0
  /\ SlowBurst \/ Bursting = {}
  /\ cpc' = "stop"
  /\ UNCHANGED <<portVars, tries, commits, pc, packetVars, clockVars>>

\* rte_tm_hierarchy_commit: the port is stopped and its rings are freed...
CommitStop ==
  /\ cpc = "stop"
  /\ cpc' = "commit" /\ started' = FALSE
  /\ posted' = [l \in TxPoller |-> 0]
  /\ pool' = [l \in TxPoller |-> pool[l] + posted[l]]
  /\ UNCHANGED <<resetting, inflight, tries, commits, pc, hand, clockVars>>

\* ... and it is started again, which may fail without a word.
CommitStart ==
  /\ cpc = "commit"
  /\ cpc' = "start" /\ tries' = 0
  /\ started' = TRUE \/ (StartFails /\ started' = FALSE)
  /\ UNCHANGED <<resetting, inflight, commits, pc, packetVars, clockVars>>

\* Mutant: the port runs, the flag stays.
MutStartOk ==
  /\ cpc = "start" /\ tries < MaxTries
  /\ started' = TRUE /\ cpc' = "idle"
  /\ UNCHANGED <<resetting, inflight, tries, commits, pc, packetVars, clockVars>>

\* rte_eth_dev_start returns 0: the port runs, started before or now.
StartOk ==
  /\ cpc = "start" /\ tries < MaxTries
  /\ started' = TRUE /\ resetting' = FALSE /\ cpc' = "idle"
  /\ UNCHANGED <<inflight, tries, commits, pc, packetVars, clockVars>>

StartFail ==
  /\ cpc = "start" /\ tries < MaxTries /\ StartFails /\ ~started
  /\ tries' = tries + 1
  /\ UNCHANGED <<portVars, cpc, commits, pc, packetVars, clockVars>>

\* Mutant: the flag is lowered whatever the port answers, as before the guard.
MutGiveUp ==
  /\ cpc = "start" /\ tries = MaxTries
  /\ cpc' = "idle" /\ resetting' = FALSE
  /\ UNCHANGED <<inflight, started, tries, commits, pc, packetVars, clockVars>>

\* Five failures: the flag stays up until the next commit.
GiveUp ==
  /\ cpc = "start" /\ tries = MaxTries
  /\ cpc' = "idle"
  /\ UNCHANGED <<portVars, tries, commits, pc, packetVars, clockVars>>

-----------------------------------------------------------------------------
PollerNext(l) == Enter(l) \/ Check(l) \/ Skip(l) \/ Burst(l) \/ Leave(l)
SenderNext(l) == Build(l) \/ BurstFail(l) \/ Drain(l)
\* Mutant: the rendezvous has no bound.
MutWait == WaitDone
Wait == WaitDone \/ WaitTimeout
Commit == CommitStop \/ CommitStart \/ StartOk \/ StartFail \/ GiveUp

Next ==
  \/ \E l \in Poller : PollerNext(l)
  \/ \E l \in TxPoller : SenderNext(l)
  \/ Tick \/ Raise \/ Wait \/ Commit

Spec == Init /\ [][Next]_vars

\* The lcores and the committer run; the clock passes the 80 ms.
FairSpec ==
  /\ Spec
  /\ \A l \in Poller : WF_vars(PollerNext(l))
  /\ \A l \in TxPoller : WF_vars(Build(l)) /\ WF_vars(BurstFail(l)) /\ WF_vars(Drain(l))
  /\ WF_vars(Wait) /\ WF_vars(Commit)

-----------------------------------------------------------------------------
(* The inductive invariant: the rendezvous.                                *)

\* The counter tells the bursts that are under way.
Announced == inflight = Cardinality(Inside)
\* The flag is up from the start of a commit until the port is known to run.
Flagged == (cpc # "idle" \/ ~started) => resetting
\* A sender in its burst holds a packet.
InHand ==
  \A l \in TxPoller : pc[l] \in {"check", "skip", "burst", "fail"} => hand[l] = 1
\* No packet is counted twice.
Accounted == \A l \in TxPoller : pool[l] + hand[l] + posted[l] <= K

\* The rendezvous of the pollers and the committer, as an inductive invariant:
\* the counter is exact and the flag covers the whole commit.
PortInv == TypeOK /\ Announced /\ Flagged /\ InHand /\ Accounted

\* From the stop of the port to its restart, however late, no poller is between
\* its reading of the flag and its burst.
NoBurstOnStopped ==
  (cpc \in {"stop", "commit", "start"} \/ ~started) => Bursting = {}

\* No packet leaves the sum of the pool, the sender's hand and the card: neither
\* dropped by a burst that sent nothing nor overwritten by the stop.
Conserved == \A l \in TxPoller : pool[l] + hand[l] + posted[l] = K

\* A port the driver could not start stays guarded, however the tries, the
\* timeouts and the next commits follow each other; and outside a commit a port
\* that runs is not, or all its sessions would be silent until the next one.
Guarded == resetting <=> cpc # "idle" \/ ~started

\* A sender with something to send is not declared hung because of the commits
\* of the others (st20_tx_queue_fatal_error would restart them all): each commit
\* can cost it one burst at most, when `resetting` falls between its two
\* readings, so it takes as many commits as the threshold has ticks.
NoFalseHang == \A l \in TxPoller : pc[l] = "hung" => commits >= Thresh

\* Whatever the commits, a packet waiting in a sender's hand is sent in the end,
\* unless the driver could not start the port again.
Resumes == \A l \in TxPoller : hand[l] = 1 ~> (hand[l] = 0 \/ ~started)

\* A commit ends: the pollers cannot keep the committer in its rendezvous.
CommitEnds == cpc # "idle" ~> cpc = "idle"
=============================================================================
