-------------------------- MODULE PortCommit_proofs --------------------------
(***************************************************************************)
(* For every finite set of pollers and any number of commits: the port is  *)
(* guarded whenever it is stopped; and if a burst never lasts longer than  *)
(* the rendezvous waits, none touches a stopped port and no packet is      *)
(* lost; and a commit costs a sender one tick at most (PortCommit).        *)
(***************************************************************************)
EXTENDS PortCommit, FiniteSetTheorems, TLAPS

\* The pollers under way are a finite set, so their number is a number.
LEMMA InsideFinite == IsFiniteSet(Inside) /\ Cardinality(Inside) \in Nat
<1>1. IsFiniteSet(Poller)
  BY PortAssumption, FS_Union DEF Poller
<1>2. Inside \in SUBSET Poller
  BY DEF Inside
<1> QED
  BY <1>1, <1>2, FS_Subset, FS_CardinalityType

\* A poller that announces itself joins those under way.
LEMMA Joins ==
  ASSUME NEW l \in Poller, pc[l] = "idle", DOMAIN pc = Poller,
         pc' = [pc EXCEPT ![l] = "check"]
  PROVE  Cardinality(Inside') = Cardinality(Inside) + 1
<1>1. Inside' = Inside \cup {l} /\ l \notin Inside
  BY DEF Inside
<1> QED
  BY <1>1, InsideFinite, FS_AddElement

\* A poller that ends its burst leaves them: the counter was not 0.
LEMMA Leaves ==
  ASSUME NEW l \in Poller, pc[l] \in {"skip", "leave"}, DOMAIN pc = Poller,
         NEW p \in {"idle", "fail"}, pc' = [pc EXCEPT ![l] = p]
  PROVE  /\ Cardinality(Inside') = Cardinality(Inside) - 1
         /\ Cardinality(Inside) - 1 \in Nat
<1>1. Inside' = Inside \ {l} /\ l \in Inside
  BY DEF Inside
<1>2. IsFiniteSet(Inside')
  BY <1>1, InsideFinite, FS_RemoveElement
<1> QED
  BY <1>1, <1>2, InsideFinite, FS_RemoveElement, FS_CardinalityType

-----------------------------------------------------------------------------

LEMMA InitInv == Init => PortInv /\ NoBurstOnStopped /\ Conserved
<1> SUFFICES ASSUME Init PROVE PortInv /\ NoBurstOnStopped /\ Conserved
  OBVIOUS
<1>1. TypeOK
  <2>1. 0 \in 0..MaxTries /\ 0 \in 0..MaxCommits /\ 0 \in 0..K /\ K \in 0..K /\ 0 \in 0..Thresh /\ 0 \in Nat
    BY PortAssumption
  <2> QED
    <3>1. /\ hand \in [TxPoller -> 0..1] /\ posted \in [TxPoller -> 0..K] /\ pool \in [TxPoller -> 0..K]
          /\ age \in [TxPoller -> 0..Thresh] /\ polled \in [TxPoller -> BOOLEAN]
      BY <2>1 DEF Init
    <3>2. pc \in [Poller -> {"idle", "check", "skip", "burst", "leave", "fail", "hung"}]
      BY DEF Init
    <3>3. resetting \in BOOLEAN /\ started \in BOOLEAN /\ inflight \in Nat
      BY DEF Init
    <3>4. cpc \in {"idle", "wait", "stop", "commit", "start"} /\ tries \in 0..MaxTries /\ commits \in 0..MaxCommits
      BY <2>1 DEF Init
    <3> QED
      BY <3>1, <3>2, <3>3, <3>4 DEF TypeOK
<1>3. Flagged /\ InHand /\ Accounted /\ Conserved
  BY PortAssumption DEF Init, Flagged, InHand, Accounted, Conserved, Poller
<1>2. Inside = {} /\ Bursting = {}
  BY DEF Init, Inside, Bursting
<1> QED
  BY <1>1, <1>2, <1>3, FS_EmptySet DEF PortInv, Announced, NoBurstOnStopped, Init

LEMMA StepInv == PortInv /\ [Next]_vars => PortInv'
<1> SUFFICES ASSUME PortInv, [Next]_vars PROVE PortInv'
  OBVIOUS
<1> USE PortAssumption DEF PortInv, Poller
<1>t. TypeOK /\ DOMAIN pc = Poller
  BY DEF TypeOK
<1>1. ASSUME NEW l \in Poller, Enter(l) PROVE PortInv'
  <2>3. Cardinality(Inside') = Cardinality(Inside) + 1
    BY <1>1, <1>t, Joins DEF Enter
  <2>1. Announced' /\ inflight' \in Nat
    BY <1>1, <1>t, <2>3, InsideFinite DEF Enter, Announced
  <2>2. TypeOK' /\ Flagged' /\ InHand' /\ Accounted'
    BY <1>1, <2>1 DEF Enter, TypeOK, Flagged, InHand, Accounted, packetVars, commitVars, clockVars
  <2> QED
    BY <2>1, <2>2
<1>2. ASSUME NEW l \in Poller, Check(l) PROVE PortInv'
  <2>1. Inside' = Inside
    BY <1>2, <1>t DEF Check, Inside
  <2>2. Announced'
    BY <1>2, <2>1 DEF Check, Announced, portVars
  <2>3. TypeOK' /\ Flagged' /\ InHand' /\ Accounted'
    BY <1>2 DEF Check, TypeOK, Flagged, InHand, Accounted, portVars, packetVars, commitVars, clockVars
  <2> QED
    BY <2>2, <2>3
<1>3. ASSUME NEW l \in Poller, Skip(l) PROVE PortInv'
  <2>1. Announced' /\ inflight' \in Nat
    BY <1>3, <1>t, Leaves DEF Skip, Announced, TypeOK
  <2>2. TypeOK' /\ Flagged' /\ InHand' /\ Accounted'
    BY <1>3, <2>1 DEF Skip, TypeOK, Flagged, InHand, Accounted, packetVars, commitVars, clockVars
  <2> QED
    BY <2>1, <2>2
<1>4. ASSUME NEW l \in Poller, Burst(l) PROVE PortInv'
  <2>1. Inside' = Inside
    BY <1>4, <1>t DEF Burst, Inside
  <2>2. Announced' /\ Flagged'
    BY <1>4, <2>1 DEF Burst, Announced, Flagged, portVars, commitVars
  <2>3. CASE l \in TxPoller
    <3>1. hand[l] = 1 /\ pool[l] \in Nat /\ posted[l] \in Nat /\ pool[l] + 1 + posted[l] <= K
      BY <1>4, <2>3 DEF Burst, InHand, Accounted, TypeOK
    <3>2. posted'[l] \in 0..K /\ pool[l] + posted'[l] <= K
      BY <1>4, <2>3, <3>1 DEF Burst, TypeOK
    <3>3. TypeOK' /\ InHand'
      BY <1>4, <2>3, <3>2 DEF Burst, TypeOK, InHand, portVars, commitVars, clockVars
    <3>4. Accounted'
      BY <1>4, <2>3, <3>2 DEF Burst, Accounted, TypeOK
    <3> QED
      BY <2>2, <3>3, <3>4
  <2>4. CASE l \notin TxPoller
    <3>1. TypeOK' /\ InHand' /\ Accounted'
      BY <1>4, <2>4 DEF Burst, TypeOK, InHand, Accounted, portVars, commitVars, clockVars
    <3> QED
      BY <2>2, <3>1
  <2> QED
    BY <2>3, <2>4
<1>5. ASSUME NEW l \in Poller, Leave(l) PROVE PortInv'
  <2>1. Announced' /\ inflight' \in Nat
    BY <1>5, <1>t, Leaves DEF Leave, Announced, TypeOK
  <2>2. Flagged' /\ InHand' /\ Accounted'
    BY <1>5 DEF Leave, Flagged, InHand, Accounted, packetVars, commitVars
  <2>3. age' \in [TxPoller -> 0..Thresh] /\ polled' \in [TxPoller -> BOOLEAN]
    <3>1. 0 \in 0..Thresh
      OBVIOUS
    <3>2. CASE l \in TxPoller
      BY <1>5, <3>1, <3>2 DEF Leave, TypeOK
    <3>3. CASE l \notin TxPoller
      BY <1>5, <3>3 DEF Leave, TypeOK, clockVars
    <3> QED
      BY <3>2, <3>3
  <2>4. TypeOK'
    BY <1>5, <2>1, <2>3 DEF Leave, TypeOK, packetVars, commitVars
  <2> QED
    BY <2>1, <2>2, <2>4
<1>6. ASSUME NEW l \in TxPoller, Build(l) PROVE PortInv'
  <2>1. Announced' /\ Flagged'
    BY <1>6 DEF Build, Announced, Inside, Flagged, portVars, commitVars
  <2>2. TypeOK' /\ InHand' /\ Accounted'
    BY <1>6 DEF Build, TypeOK, InHand, Accounted, portVars, commitVars, clockVars
  <2> QED
    BY <2>1, <2>2
<1>7. ASSUME NEW l \in TxPoller, BurstFail(l) PROVE PortInv'
  <2>1. Inside' = Inside
    BY <1>7, <1>t DEF BurstFail, Inside
  <2>2. Announced' /\ Flagged'
    BY <1>7, <2>1 DEF BurstFail, Announced, Flagged, portVars, commitVars
  <2>3. TypeOK' /\ InHand' /\ Accounted'
    BY <1>7 DEF BurstFail, TypeOK, InHand, Accounted, portVars, commitVars, packetVars
  <2> QED
    BY <2>2, <2>3
<1>8. ASSUME NEW l \in TxPoller, Drain(l) PROVE PortInv'
  <2>1. Announced' /\ Flagged'
    BY <1>8 DEF Drain, Announced, Inside, Flagged, portVars, commitVars
  <2>2. pool[l] + 1 \in 0..K /\ posted[l] - 1 \in 0..K
    BY <1>8 DEF Drain, TypeOK, Accounted
  <2>3. TypeOK' /\ InHand' /\ Accounted'
    BY <1>8, <2>2 DEF Drain, TypeOK, InHand, Accounted, portVars, commitVars, clockVars
  <2> QED
    BY <2>1, <2>3
<1>9. ASSUME Tick PROVE PortInv'
  <2>1. Announced' /\ Flagged' /\ InHand' /\ Accounted'
    BY <1>9 DEF Tick, Announced, Inside, Flagged, InHand, Accounted, portVars, commitVars, packetVars
  <2>2. TypeOK'
    BY <1>9 DEF Tick, TypeOK, portVars, commitVars, packetVars
  <2> QED
    BY <2>1, <2>2
<1>10. ASSUME Raise \/ Wait PROVE PortInv'
  <2>1. Announced' /\ Flagged' /\ InHand' /\ Accounted'
    BY <1>10 DEF Raise, Wait, WaitDone, WaitTimeout, Announced, Inside, Flagged, InHand, Accounted,
                 portVars, commitVars, packetVars, TypeOK
  <2>3. commits' \in 0..MaxCommits
    BY <1>10 DEF Raise, Wait, WaitDone, WaitTimeout, TypeOK
  <2>4. /\ UNCHANGED <<inflight, started, tries, pc, packetVars, clockVars>>
        /\ resetting' \in BOOLEAN /\ cpc' \in {"wait", "stop"}
    BY <1>10 DEF Raise, Wait, WaitDone, WaitTimeout, TypeOK, portVars
  <2>2. TypeOK'
    BY <2>3, <2>4 DEF TypeOK, packetVars, clockVars
  <2> QED
    BY <2>1, <2>2
<1>11. ASSUME CommitStop PROVE PortInv'
  <2>1. Announced' /\ Flagged' /\ InHand'
    BY <1>11 DEF CommitStop, Announced, Inside, Flagged, InHand
  <2>2. \A l \in TxPoller : pool[l] + posted[l] \in 0..K
    BY DEF TypeOK, Accounted
  <2>3. pool' \in [TxPoller -> 0..K] /\ posted' \in [TxPoller -> 0..K]
    BY <1>11, <2>2 DEF CommitStop
  <2>4. TypeOK'
    BY <1>11, <2>3 DEF CommitStop, TypeOK, clockVars
  <2>5. Accounted'
    BY <1>11 DEF CommitStop, TypeOK, Accounted
  <2> QED
    BY <2>1, <2>4, <2>5
<1>12. ASSUME CommitStart \/ StartOk \/ StartFail \/ GiveUp PROVE PortInv'
  <2>1. Announced' /\ InHand' /\ Accounted'
    BY <1>12 DEF CommitStart, StartOk, StartFail, GiveUp, Announced, Inside, InHand, Accounted,
                 portVars, packetVars
  <2>3. tries' \in 0..MaxTries
    BY <1>12 DEF CommitStart, StartOk, StartFail, GiveUp, TypeOK
  <2>4. /\ UNCHANGED <<inflight, commits, pc, packetVars, clockVars>>
        /\ resetting' \in BOOLEAN /\ started' \in BOOLEAN /\ cpc' \in {"start", "idle"}
    BY <1>12 DEF CommitStart, StartOk, StartFail, GiveUp, TypeOK, portVars
  <2>5. TypeOK'
    BY <2>3, <2>4 DEF TypeOK, packetVars, clockVars
  <2>6. Flagged'
    BY <1>12 DEF CommitStart, StartOk, StartFail, GiveUp, Flagged, portVars
  <2>2. TypeOK' /\ Flagged'
    BY <2>5, <2>6
  <2> QED
    BY <2>1, <2>2
<1>13. ASSUME UNCHANGED vars PROVE PortInv'
  BY <1>13 DEF vars, portVars, commitVars, packetVars, clockVars, TypeOK, Announced, Inside, Flagged, InHand, Accounted
<1> QED
  BY <1>1, <1>2, <1>3, <1>4, <1>5, <1>6, <1>7, <1>8, <1>9, <1>10, <1>11, <1>12, <1>13
  DEF Next, PollerNext, SenderNext, Commit

\* The tries are counted while the port does not start, so that a committer that
\* gives up leaves a port that is stopped.
Tried == cpc = "start" /\ tries > 0 => ~started

\* The flag is lowered by the committer alone, once the port runs.
LEMMA StepGuarded ==
  ASSUME PortInv, Tried, Guarded, [Next]_vars
  PROVE  Tried' /\ Guarded'
<1> USE DEF Tried, Guarded
<1>t. TypeOK /\ MaxTries > 0
  BY PortAssumption DEF PortInv
<1>1. ASSUME NEW l \in Poller, PollerNext(l) PROVE Tried' /\ Guarded'
  BY <1>1 DEF PollerNext, Enter, Check, Skip, Burst, Leave, portVars, commitVars
<1>2. ASSUME NEW l \in TxPoller, SenderNext(l) PROVE Tried' /\ Guarded'
  BY <1>2 DEF SenderNext, Build, BurstFail, Drain, portVars, commitVars
<1>3. CASE Tick \/ Raise \/ Wait
  BY <1>3 DEF Tick, Raise, Wait, WaitDone, WaitTimeout, portVars, commitVars
<1>4. CASE CommitStop \/ CommitStart
  BY <1>4 DEF CommitStop, CommitStart
<1>5. CASE StartOk \/ StartFail \/ GiveUp
  BY <1>5, <1>t DEF StartOk, StartFail, GiveUp, portVars, TypeOK
<1>6. CASE UNCHANGED vars
  BY <1>6 DEF vars, portVars, commitVars
<1> QED
  BY <1>1, <1>2, <1>3, <1>4, <1>5, <1>6 DEF Next, Commit

\* A port that is stopped is guarded and a port that runs outside a commit is not,
\* whatever fails and however slow a burst is.
THEOREM GuardCorrect == Spec => []Guarded
<1>1. Init => Tried /\ Guarded
  BY DEF Init, Tried, Guarded
<1>2. PortInv /\ Tried /\ Guarded /\ [Next]_vars => (PortInv /\ Tried /\ Guarded)'
  BY StepInv, StepGuarded
<1> QED
  BY <1>1, <1>2, InitInv, PTL DEF Spec

\* The pollers, the committer and the port keep their types, and the count of
\* bursts that the committer waits for is that of the pollers that have announced
\* one, whatever fails and however slow a burst is.
THEOREM TypeCorrect == Spec => []PortInv
  BY InitInv, StepInv, PTL DEF Spec

-----------------------------------------------------------------------------

\* A rendezvous that ended leaves no burst, and none starts under the flag.
LEMMA StepQuiet ==
  ASSUME ~SlowBurst, PortInv, NoBurstOnStopped, [Next]_vars
  PROVE  NoBurstOnStopped'
<1> USE DEF Poller
<1>t. DOMAIN pc = Poller
  BY DEF PortInv, TypeOK
<1>f. Flagged /\ (cpc \in {"stop", "commit", "start"} => resetting)
  BY DEF PortInv, Flagged
<1>1. ASSUME NEW l \in Poller, Check(l) PROVE NoBurstOnStopped'
  BY <1>1, <1>t, <1>f DEF Check, NoBurstOnStopped, Bursting, Flagged, portVars, commitVars
<1>2. ASSUME NEW l \in Poller, Enter(l) \/ Skip(l) \/ Burst(l) \/ Leave(l) PROVE NoBurstOnStopped'
  BY <1>2, <1>t DEF Enter, Skip, Burst, Leave, NoBurstOnStopped, Bursting, portVars, commitVars
<1>3. ASSUME NEW l \in TxPoller, SenderNext(l) PROVE NoBurstOnStopped'
  BY <1>3, <1>t DEF SenderNext, Build, BurstFail, Drain, NoBurstOnStopped, Bursting, portVars, commitVars
<1>4. CASE WaitDone
  <2>1. Inside = {}
    BY <1>4, InsideFinite, FS_EmptySet DEF WaitDone, PortInv, Announced
  <2>2. Bursting = {}
    BY <2>1 DEF Inside, Bursting
  <2> QED
    BY <1>4, <2>2 DEF WaitDone, NoBurstOnStopped, Bursting
<1>5. CASE WaitTimeout
  BY <1>5 DEF WaitTimeout, NoBurstOnStopped, Bursting
<1>6. CASE Tick \/ Raise
  BY <1>6 DEF Tick, Raise, NoBurstOnStopped, Bursting, portVars, commitVars
<1>7. CASE Commit
  BY <1>7 DEF Commit, CommitStop, CommitStart, StartOk, StartFail, GiveUp, NoBurstOnStopped, Bursting, portVars
<1>8. CASE UNCHANGED vars
  BY <1>8 DEF vars, portVars, commitVars, NoBurstOnStopped, Bursting
<1> QED
  BY <1>1, <1>2, <1>3, <1>4, <1>5, <1>6, <1>7, <1>8 DEF Next, PollerNext, Wait

\* A packet changes hands, and a burst writes to a port that runs.
LEMMA StepConserved ==
  ASSUME PortInv, NoBurstOnStopped, Conserved, [Next]_vars
  PROVE  Conserved'
<1> USE PortAssumption DEF Poller
<1>t. TypeOK
  BY DEF PortInv
<1>1. ASSUME NEW l \in Poller, Burst(l) PROVE Conserved'
  <2>1. started
    BY <1>1 DEF Burst, NoBurstOnStopped, Bursting
  <2>2. CASE l \in TxPoller
    <3>1. hand[l] = 1
      BY <1>1, <2>2 DEF Burst, PortInv, InHand
    <3> QED
      BY <1>1, <1>t, <2>1, <2>2, <3>1 DEF Burst, Conserved, TypeOK
  <2>3. CASE l \notin TxPoller
    BY <1>1, <2>3 DEF Burst, Conserved
  <2> QED
    BY <2>2, <2>3
<1>2. ASSUME NEW l \in Poller, Enter(l) \/ Check(l) \/ Skip(l) \/ Leave(l) PROVE Conserved'
  BY <1>2 DEF Enter, Check, Skip, Leave, Conserved, packetVars
<1>3. ASSUME NEW l \in TxPoller, SenderNext(l) PROVE Conserved'
  <2>1. ASSUME Build(l) PROVE Conserved'
    BY <2>1, <1>t DEF Build, Conserved, TypeOK
  <2>2. ASSUME BurstFail(l) PROVE Conserved'
    BY <2>2 DEF BurstFail, Conserved, packetVars
  <2>3. ASSUME Drain(l) PROVE Conserved'
    BY <2>3, <1>t DEF Drain, Conserved, TypeOK
  <2> QED
    BY <1>3, <2>1, <2>2, <2>3 DEF SenderNext
<1>4. CASE Tick \/ Raise \/ Wait
  BY <1>4 DEF Tick, Raise, Wait, WaitDone, WaitTimeout, Conserved, packetVars
<1>5. CASE CommitStop
  BY <1>5, <1>t DEF CommitStop, Conserved, TypeOK
<1>6. CASE CommitStart \/ StartOk \/ StartFail \/ GiveUp
  BY <1>6 DEF CommitStart, StartOk, StartFail, GiveUp, Conserved, packetVars
<1>7. CASE UNCHANGED vars
  BY <1>7 DEF vars, packetVars, Conserved
<1> QED
  BY <1>1, <1>2, <1>3, <1>4, <1>5, <1>6, <1>7 DEF Next, PollerNext, Commit

\* If a burst never outlasts the 80 ms of the rendezvous, no burst runs on a
\* stopped port.
THEOREM RendezvousCorrect ==
  ASSUME ~SlowBurst
  PROVE  Spec => []NoBurstOnStopped
<1>1. PortInv /\ NoBurstOnStopped /\ [Next]_vars => (PortInv /\ NoBurstOnStopped)'
  BY StepInv, StepQuiet
<1> QED
  BY <1>1, InitInv, PTL DEF Spec

\* Under the same assumption no commit ever costs a sender one of its packets.
THEOREM ConservedCorrect ==
  ASSUME ~SlowBurst
  PROVE  Spec => []Conserved
<1>1. PortInv /\ NoBurstOnStopped /\ Conserved /\ [Next]_vars
      => (PortInv /\ NoBurstOnStopped /\ Conserved)'
  BY StepInv, StepQuiet, StepConserved
<1> QED
  BY <1>1, InitInv, PTL DEF Spec

-----------------------------------------------------------------------------

\* A commit is between a sender's reading of the flag and its next one.
Caught(l) == resetting \/ pc[l] \in {"skip", "fail"}

\* Ticks since the last success, the one under way included once it was polled.
Waited(l) == age[l] + (IF polled[l] THEN 1 ELSE 0)

\* Why: a sender waits one tick, and one more for each commit that is over.
HangInv ==
  /\ \A l \in TxPoller : Waited(l) <= commits + 1
  /\ \A l \in TxPoller : Caught(l) => commits >= 1 /\ Waited(l) <= commits
  /\ NoFalseHang

\* A commit costs a sender at most one tick: a second one takes a second commit.
LEMMA StepHang == ~Starved /\ PortInv /\ HangInv /\ [Next]_vars => HangInv'
<1> SUFFICES ASSUME ~Starved, PortInv, HangInv, [Next]_vars PROVE HangInv'
  OBVIOUS
<1> USE PortAssumption DEF HangInv, Waited, Caught, NoFalseHang, Poller
<1>t. /\ commits \in Nat /\ DOMAIN pc = Poller
      /\ age \in [TxPoller -> 0..Thresh] /\ polled \in [TxPoller -> BOOLEAN]
  BY DEF PortInv, TypeOK
<1>1. ASSUME NEW l \in Poller, Enter(l) \/ Check(l) \/ Skip(l) \/ Burst(l) PROVE HangInv'
  BY <1>1, <1>t DEF Enter, Check, Skip, Burst, portVars, commitVars, clockVars
<1>2. ASSUME NEW l \in Poller, Leave(l) PROVE HangInv'
  <2>1. CASE l \in TxPoller
    BY <1>2, <1>t, <2>1 DEF Leave, commitVars
  <2>2. CASE l \notin TxPoller
    BY <1>2, <1>t, <2>2 DEF Leave, commitVars, clockVars
  <2> QED
    BY <2>1, <2>2
<1>3. ASSUME NEW l \in TxPoller, BurstFail(l) PROVE HangInv'
  <2>1. commits >= 1 /\ Waited(l) <= commits
    BY <1>3 DEF BurstFail
  <2>2. CASE resetting
    BY <1>3, <1>t, <2>1, <2>2 DEF BurstFail, portVars, commitVars
  <2>3. CASE ~resetting
    BY <1>3, <1>t, <2>1, <2>3 DEF BurstFail, portVars, commitVars
  <2> QED
    BY <2>2, <2>3
<1>4. ASSUME NEW l \in TxPoller, Build(l) \/ Drain(l) PROVE HangInv'
  BY <1>4 DEF Build, Drain, portVars, commitVars, clockVars
<1>5. CASE Tick
  <2>1. \A l \in TxPoller : polled[l]
    BY <1>5 DEF Tick
  <2>2. \A l \in TxPoller : Waited(l)' <= Waited(l)
    BY <1>5, <1>t, <2>1 DEF Tick
  <2>3. UNCHANGED <<resetting, pc, commits>> /\ age' \in [TxPoller -> Nat] /\ polled' \in [TxPoller -> BOOLEAN]
    BY <1>5, <1>t DEF Tick, portVars, commitVars
  <2> QED
    BY <1>t, <2>2, <2>3
<1>6. CASE Raise
  BY <1>6, <1>t DEF Raise, clockVars
<1>7. CASE Wait \/ Commit
  BY <1>7 DEF Wait, WaitDone, WaitTimeout, Commit, CommitStop, CommitStart, StartOk, StartFail,
              GiveUp, portVars, clockVars
<1>8. CASE UNCHANGED vars
  BY <1>8 DEF vars, portVars, commitVars, clockVars
<1> QED
  BY <1>1, <1>2, <1>3, <1>4, <1>5, <1>6, <1>7, <1>8 DEF Next, PollerNext, SenderNext

\* For any number of commits, of pollers and of ticks, and however slow the
\* bursts: it takes as many commits as the threshold has ticks to have a sender
\* that has something to send declared hung.
THEOREM HangCorrect ==
  ASSUME ~Starved
  PROVE  Spec => []NoFalseHang
<1>1. Init => HangInv
  BY DEF Init, HangInv, Waited, Caught, NoFalseHang, Poller
<1>2. PortInv /\ HangInv /\ [Next]_vars => (PortInv /\ HangInv)'
  BY StepInv, StepHang
<1>3. HangInv => NoFalseHang
  BY DEF HangInv
<1> QED
  BY <1>1, <1>2, <1>3, InitInv, PTL DEF Spec
=============================================================================
