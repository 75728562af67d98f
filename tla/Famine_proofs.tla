---------------------------- MODULE Famine_proofs ----------------------------
(***************************************************************************)
(* For every set of sessions, queues and bounds: a hardware queue is taken *)
(* exactly when somebody holds it and none is lost to the recoveries; the  *)
(* core of the audio tasklet never waits for its own lock; and a running   *)
(* session always has the queue of its last leg (Famine).                  *)
(***************************************************************************)
EXTENDS Famine, TLAPS

\* A queue is being got only for a leg that has none.
Getting ==
  /\ \A s \in Video : vpc[s] = "get" => legs[s] # {} /\ queue[s][First(legs[s])] = None
  /\ apc \in {"reset", "get"} => queue[Mgr][port] = None

\* The tasklet holds a session exactly while it builds for it.
Holding == cur # None <=> apc \in {"build", "exit"}

Hardware ==
  /\ queue \in [Owner -> [Leg -> Hw \cup {None}]]
  /\ used \in [Leg -> SUBSET Hw] /\ burnt \in [Leg -> SUBSET Hw]

Inv == TypeOK /\ QueuesOwned /\ Getting /\ Holding

LEMMA FirstIsLeg == ASSUME NEW some \in SUBSET Leg, some # {} PROVE First(some) \in some
BY FamineAssumption DEF First

\* Giving a queue back leaves the others where they were.
LEMMA PutKeeps ==
  ASSUME Hardware, QueuesOwned, NEW o \in Owner, NEW l \in Leg, PutQueue(o, l)
  PROVE  /\ Hardware' /\ QueuesOwned' /\ queue'[o][l] = None
         /\ \A o2 \in Owner \ {o} : queue'[o2] = queue[o2]
         /\ \A m \in Leg : queue[o][m] = None => queue'[o][m] = None
<1>1. Hardware'
  BY DEF Hardware, PutQueue
<1>2. /\ queue'[o][l] = None /\ \A o2 \in Owner \ {o} : queue'[o2] = queue[o2]
      /\ \A m \in Leg \ {l} : queue'[o][m] = queue[o][m]
      /\ \A m \in Leg \ {l} : used'[m] = used[m] /\ burnt'[m] = burnt[m]
      /\ used'[l] = used[l] \ {queue[o][l]} /\ burnt'[l] = burnt[l] \ {queue[o][l]}
  BY DEF Hardware, PutQueue
<1>3. QueuesOwned'
  <2> SUFFICES ASSUME NEW m \in Leg
               PROVE  /\ burnt'[m] = {} /\ used'[m] = {queue'[p][m] : p \in Owner} \ {None}
                      /\ \A o1, o2 \in Owner :
                           queue'[o1][m] = queue'[o2][m] /\ queue'[o1][m] # None => o1 = o2
    BY DEF QueuesOwned
  <2>1. CASE m # l
    BY <2>1, <1>2 DEF QueuesOwned
  <2>2. CASE m = l
    <3>1. burnt'[l] = {} /\ \A o1, o2 \in Owner :
             queue'[o1][l] = queue'[o2][l] /\ queue'[o1][l] # None => o1 = o2
      BY <1>2 DEF QueuesOwned
    <3>2. used'[l] = {queue'[p][l] : p \in Owner} \ {None}
      BY <1>2 DEF QueuesOwned
    <3> QED
      BY <2>2, <3>1, <3>2
  <2> QED
    BY <2>1, <2>2
<1> QED
  BY <1>1, <1>2, <1>3

\* A queue that is got was nobody's.
LEMMA GetKeeps ==
  ASSUME Hardware, QueuesOwned, NEW o \in Owner, NEW l \in Leg, queue[o][l] = None, GetQueue(o, l)
  PROVE  /\ Hardware' /\ QueuesOwned' /\ queue'[o][l] # None
         /\ \A o2 \in Owner \ {o} : queue'[o2] = queue[o2]
         /\ \A m \in Leg \ {l} : queue'[o][m] = queue[o][m]
<1> PICK q \in FreeQueues(l) : /\ queue' = [queue EXCEPT ![o][l] = q]
                               /\ used' = [used EXCEPT ![l] = @ \cup {q}] /\ burnt' = burnt
  BY DEF GetQueue
<1>1. q \in Hw /\ q # None /\ q \notin used[l]
  BY FamineAssumption DEF FreeQueues
<1>2. Hardware'
  BY <1>1 DEF Hardware
<1>3. /\ queue'[o][l] = q /\ \A o2 \in Owner \ {o} : queue'[o2] = queue[o2]
      /\ \A m \in Leg \ {l} : queue'[o][m] = queue[o][m]
      /\ \A m \in Leg \ {l} : used'[m] = used[m]
      /\ used'[l] = used[l] \cup {q}
  BY DEF Hardware
<1>4. QueuesOwned'
  <2> SUFFICES ASSUME NEW m \in Leg
               PROVE  /\ burnt'[m] = {} /\ used'[m] = {queue'[p][m] : p \in Owner} \ {None}
                      /\ \A o1, o2 \in Owner :
                           queue'[o1][m] = queue'[o2][m] /\ queue'[o1][m] # None => o1 = o2
    BY DEF QueuesOwned
  <2>1. CASE m # l
    BY <2>1, <1>3 DEF QueuesOwned
  <2>2. CASE m = l
    <3>1. \A p \in Owner : queue[p][l] # q
      BY <1>1 DEF QueuesOwned
    <3>2. burnt'[l] = {} /\ \A o1, o2 \in Owner :
             queue'[o1][l] = queue'[o2][l] /\ queue'[o1][l] # None => o1 = o2
      BY <1>3, <3>1 DEF QueuesOwned
    <3>3. used'[l] = {queue'[p][l] : p \in Owner} \ {None}
      BY <1>1, <1>3 DEF QueuesOwned
    <3> QED
      BY <2>2, <3>2, <3>3
  <2> QED
    BY <2>1, <2>2
<1> QED
  BY <1>1, <1>2, <1>3, <1>4

-----------------------------------------------------------------------------

\* At the start every holder has a queue of its own.
LEMMA StartApart == Start \in [Owner -> Hw] /\ \A o1, o2 \in Owner : Start[o1] = Start[o2] => o1 = o2
BY FamineAssumption DEF Start, Apart

LEMMA InitInv == Init => Inv
<1> SUFFICES ASSUME Init PROVE Inv
  OBVIOUS
<1>1. Hardware
  BY StartApart DEF Init, Hardware
<1>2. TypeOK
  <2>1. /\ active \in [Session -> BOOLEAN] /\ pool \in [Session -> BOOLEAN]
        /\ fail \in [Session -> -1 .. Thresh + 1] /\ since \in [Essence -> 0 .. Guard + 1]
    BY FamineAssumption DEF Init
  <2>2. /\ commit \in [Leg -> BOOLEAN] /\ pending \in [Leg -> BOOLEAN]
        /\ vpc \in [Video -> {"run", "stamp", "put", "get"}] /\ legs \in [Video -> SUBSET Leg]
        /\ apc = "idle" /\ cur = None /\ todo \in SUBSET Audio /\ port \in Leg /\ held \in SUBSET Audio
        /\ budget \in [{"loss", "fail", "commit", "hold"} -> Nat]
    BY FamineAssumption DEF Init
  <2> QED
    BY <1>1, <2>1, <2>2 DEF TypeOK, Hardware
<1>3. QueuesOwned
  <2> SUFFICES ASSUME NEW l \in Leg
               PROVE  /\ burnt[l] = {} /\ used[l] = {queue[p][l] : p \in Owner} \ {None}
                      /\ \A o1, o2 \in Owner : queue[o1][l] = queue[o2][l] /\ queue[o1][l] # None => o1 = o2
    BY DEF QueuesOwned
  <2>1. \A p \in Owner : queue[p][l] = Start[p] /\ queue[p][l] \in Hw
    BY StartApart DEF Init
  <2>2. burnt[l] = {} /\ used[l] = {queue[p][l] : p \in Owner}
        /\ \A o1, o2 \in Owner : queue[o1][l] = queue[o2][l] => o1 = o2
    BY <2>1, StartApart DEF Init
  <2> QED
    BY <2>1, <2>2, FamineAssumption
<1>4. Getting /\ Holding
  BY DEF Init, Getting, Holding
<1> QED
  BY <1>2, <1>3, <1>4 DEF Inv

\* Trackers and budgets keep their range.
LEMMA TrackType == ASSUME TypeOK, NEW s \in Session, Track(s) PROVE fail' \in [Session -> -1 .. Thresh + 1]
<1>1. -1 \in -1 .. Thresh + 1 /\ 0 \in -1 .. Thresh + 1
  BY FamineAssumption
<1> QED
  BY <1>1 DEF TypeOK, Track

LEMMA StopType ==
  ASSUME NEW but \in [Session -> BOOLEAN], NEW spent \in [{"loss", "fail", "commit", "hold"} -> Nat],
         PortStop(but, spent)
  PROVE  pool' \in [Session -> BOOLEAN] /\ budget' \in [{"loss", "fail", "commit", "hold"} -> Nat]
<1>1. CASE pool' = but /\ budget' = spent
  BY <1>1
<1>2. CASE \E s \in Session : pool' = [but EXCEPT ![s] = FALSE] /\ budget' = [spent EXCEPT !.loss = @ + 1]
  <2>1. spent.loss + 1 \in Nat
    OBVIOUS
  <2> QED
    BY <1>2, <2>1
<1> QED
  BY <1>1, <1>2 DEF PortStop

LEMMA FailedType == TypeOK => Failed \in [{"loss", "fail", "commit", "hold"} -> Nat]
BY DEF TypeOK, Failed

\* A step of a video core.
LEMMA VideoInv ==
  ASSUME Inv, NEW s \in Video, VideoStep(s)
  PROVE  Inv'
<1> USE DEF Inv
<1>h. Hardware
  BY DEF TypeOK, Hardware
<1>o. s \in Owner /\ s # Mgr /\ s \in Session
  BY FamineAssumption DEF Owner, Session
<1>1. CASE VideoBurst(s) \/ VideoStarve(s)
  <2>1. fail' \in [Session -> -1 .. Thresh + 1]
    <3>1. CASE VideoBurst(s)
      <4>1. -1 \in -1 .. Thresh + 1
        BY FamineAssumption
      <4> QED
        BY <4>1, <3>1 DEF VideoBurst, TypeOK
    <3> QED
      BY <1>1, <3>1, <1>o, TrackType DEF VideoStarve
  <2>2. UNCHANGED <<active, pool, since, hw, commit, video, audio, held, budget>>
    BY <1>1 DEF VideoBurst, VideoStarve
  <2> QED
    BY <2>1, <2>2 DEF TypeOK, QueuesOwned, Getting, Holding, hw, video, audio
<1>2. CASE VideoDecide(s) \/ VideoZombie(s)
  <2>1. /\ vpc' = [vpc EXCEPT ![s] = "stamp"]
        /\ legs' \in [Video -> SUBSET Leg]
        /\ UNCHANGED <<active, pool, fail, since, hw, commit, audio, held, budget>>
    BY <1>2 DEF VideoDecide, VideoZombie, TypeOK
  <2>2. Getting'
    <3> SUFFICES ASSUME NEW t \in Video, vpc'[t] = "get"
                 PROVE  legs'[t] # {} /\ queue'[t][First(legs'[t])] = None
      BY <2>1 DEF Getting, hw, audio
    <3>1. t # s
      BY <2>1 DEF TypeOK
    <3>2. legs'[t] = legs[t] /\ vpc[t] = "get"
      BY <1>2, <2>1, <3>1 DEF VideoDecide, VideoZombie, TypeOK
    <3> QED
      BY <2>1, <3>2 DEF Getting, hw
  <2> QED
    BY <2>1, <2>2 DEF TypeOK, QueuesOwned, Holding, hw, audio
<1>3. CASE VideoStamp(s)
  <2>1. since' \in [Essence -> 0 .. Guard + 1] /\ fail' \in [Session -> -1 .. Thresh + 1]
    <3>1. 0 \in 0 .. Guard + 1 /\ -1 \in -1 .. Thresh + 1
      BY FamineAssumption
    <3> QED
      BY <3>1, <1>3 DEF VideoStamp, TypeOK
  <2>2. /\ vpc' = [vpc EXCEPT ![s] = "put"]
        /\ UNCHANGED <<active, pool, hw, commit, legs, audio, held, budget>>
    BY <1>3 DEF VideoStamp
  <2> QED
    BY <2>1, <2>2 DEF TypeOK, QueuesOwned, Getting, Holding, hw, audio
<1>4. CASE VideoPut(s)
  <2>u. UNCHANGED <<active, pool, fail, since, commit, legs, audio, held, budget>>
    BY <1>4 DEF VideoPut
  <2>1. CASE legs[s] = {}
    BY <1>4, <2>1, <2>u DEF VideoPut, TypeOK, QueuesOwned, Getting, Holding, hw, audio
  <2>2. CASE legs[s] # {}
    <3> DEFINE l == First(legs[s])
    <3>1. l \in Leg
      BY <2>2, FirstIsLeg DEF TypeOK
    <3>2. /\ Hardware' /\ QueuesOwned' /\ queue'[s][l] = None
          /\ \A o2 \in Owner \ {s} : queue'[o2] = queue[o2]
      <4>1. CASE queue[s][l] = None
        BY <4>1, <1>4, <2>2, <1>h DEF VideoPut, hw, Hardware, QueuesOwned
      <4>2. CASE queue[s][l] # None
        <5>1. PutQueue(s, l)
          BY <4>2, <1>4, <2>2 DEF VideoPut
        <5> QED
          BY <5>1, <3>1, <1>o, <1>h, PutKeeps
      <4> QED
        BY <4>1, <4>2
    <3>3. vpc' = [vpc EXCEPT ![s] = "get"]
      BY <1>4, <2>2 DEF VideoPut
    <3>4. Getting'
      <4>1. ASSUME NEW t \in Video, vpc'[t] = "get"
            PROVE  legs'[t] # {} /\ queue'[t][First(legs'[t])] = None
        <5>1. CASE t = s
          BY <5>1, <2>2, <2>u, <3>2
        <5>2. CASE t # s
          BY <5>2, <4>1, <3>3, <2>u, <3>2 DEF Getting, TypeOK, Owner
        <5> QED
          BY <5>1, <5>2
      <4>2. queue'[Mgr] = queue[Mgr]
        BY <3>2, <1>o DEF Owner
      <4> QED
        BY <4>1, <4>2, <2>u DEF Getting, audio
    <3> QED
      BY <3>2, <3>3, <3>4, <2>u DEF TypeOK, Hardware, Holding, audio
  <2> QED
    BY <2>1, <2>2
<1>5. CASE VideoRecovered(s) \/ VideoNoQueue(s) \/ VideoNoPool(s)
  <2> DEFINE l == First(legs[s])
  <2>1. vpc[s] = "get" /\ legs[s] # {} /\ l \in Leg /\ queue[s][l] = None
    <3>1. vpc[s] = "get"
      BY <1>5 DEF VideoRecovered, VideoNoQueue, VideoNoPool
    <3>2. legs[s] # {} /\ queue[s][l] = None
      BY <3>1 DEF Getting
    <3> QED
      BY <3>1, <3>2, FirstIsLeg DEF TypeOK
  <2>2. /\ vpc' = [vpc EXCEPT ![s] = "put"] /\ legs' = [legs EXCEPT ![s] = @ \ {l}]
        /\ UNCHANGED <<fail, since, commit, audio, held>>
    BY <1>5 DEF VideoRecovered, VideoNoQueue, VideoNoPool, LegDone
  <2>3. /\ Hardware' /\ QueuesOwned' /\ \A o2 \in Owner \ {s} : queue'[o2] = queue[o2]
    <3>1. CASE VideoNoQueue(s)
      BY <3>1, <1>h DEF VideoNoQueue, hw, Hardware, QueuesOwned
    <3>2. CASE GetQueue(s, l)
      BY <3>2, <2>1, <1>o, <1>h, GetKeeps
    <3> QED
      BY <1>5, <3>1, <3>2 DEF VideoRecovered, VideoNoPool
  <2>4. /\ active' \in [Session -> BOOLEAN] /\ pool' \in [Session -> BOOLEAN]
        /\ budget' \in [{"loss", "fail", "commit", "hold"} -> Nat]
    <3>1. active' \in [Session -> BOOLEAN]
      BY <1>5 DEF VideoRecovered, VideoNoQueue, VideoNoPool, TypeOK
    <3>2. CASE VideoRecovered(s)
      <4>1. [pool EXCEPT ![s] = TRUE] \in [Session -> BOOLEAN]
        BY DEF TypeOK
      <4> QED
        BY <3>1, <3>2, <4>1, StopType DEF VideoRecovered, TypeOK
    <3>3. CASE VideoNoQueue(s)
      BY <3>1, <3>3, FailedType DEF VideoNoQueue, TypeOK
    <3>4. CASE VideoNoPool(s)
      <4>1. [pool EXCEPT ![s] = FALSE] \in [Session -> BOOLEAN]
        BY DEF TypeOK
      <4> QED
        BY <3>1, <3>4, <4>1, StopType, FailedType DEF VideoNoPool
    <3> QED
      BY <1>5, <3>2, <3>3, <3>4
  <2>5. Getting'
    <3>1. ASSUME NEW t \in Video, vpc'[t] = "get"
          PROVE  legs'[t] # {} /\ queue'[t][First(legs'[t])] = None
      <4>1. t # s
        BY <3>1, <2>2 DEF TypeOK
      <4> QED
        BY <4>1, <3>1, <2>2, <2>3 DEF Getting, TypeOK, Owner
    <3>2. queue'[Mgr] = queue[Mgr]
      BY <2>3, <1>o DEF Owner
    <3> QED
      BY <3>1, <3>2, <2>2 DEF Getting, audio
  <2> QED
    BY <2>2, <2>3, <2>4, <2>5 DEF TypeOK, Hardware, Holding, audio
<1> QED
  BY <1>1, <1>2, <1>3, <1>4, <1>5 DEF VideoStep

\* A step of the audio tasklet.
LEMMA AudioInv ==
  ASSUME Inv, AudioStep
  PROVE  Inv'
<1> USE DEF Inv
<1>h. Hardware /\ Mgr \in Owner /\ \A s \in Video : s # Mgr /\ s \in Owner
  BY FamineAssumption DEF TypeOK, Hardware, Owner
<1>1. CASE AudioBegin \/ AudioPut \/ AudioRest \/ AudioGet
  BY <1>1, FamineAssumption DEF AudioBegin, AudioPut, AudioRest, AudioGet, TypeOK, QueuesOwned, Getting,
     Holding, hw, video
<1>2. CASE \E s \in Audio : AudioTryGet(s)
  BY <1>2, FamineAssumption DEF AudioTryGet, TypeOK, QueuesOwned, Getting, Holding, hw, video
<1>3. CASE AudioBuild
  <2>1. cur \in Session
    BY <1>3 DEF AudioBuild, Holding, TypeOK, Session
  <2>2. fail' \in [Session -> -1 .. Thresh + 1]
    <3>1. -1 \in -1 .. Thresh + 1
      BY FamineAssumption
    <3> QED
      BY <1>3, <2>1, <3>1, TrackType DEF AudioBuild, AudioStarved, TypeOK
  <2>3. pending' \in [Leg -> BOOLEAN]
    BY <1>3 DEF AudioBuild, AudioStarved, AllLegs, TypeOK
  <2> QED
    BY <1>3, <2>2, <2>3 DEF AudioBuild, TypeOK, QueuesOwned, Getting, Holding, hw, video
<1>4. CASE AudioConsume
  <2> DEFINE l == First(Requests)
  <2>1. l \in Leg
    BY <1>4, FirstIsLeg DEF AudioConsume, Requests
  <2>2. /\ since' = [since EXCEPT !["audio"] = 0] /\ pending' = [pending EXCEPT ![l] = FALSE]
        /\ port' = l /\ apc' = "reset" /\ todo' = Audio /\ cur = None
        /\ UNCHANGED <<active, pool, fail, commit, video, cur, held, budget>>
    BY <1>4 DEF AudioConsume
  <2>3. /\ Hardware' /\ QueuesOwned' /\ queue'[Mgr][l] = None
        /\ \A o2 \in Owner \ {Mgr} : queue'[o2] = queue[o2]
    <3>1. CASE queue[Mgr][l] = None
      BY <3>1, <1>4, <1>h DEF AudioConsume, PutMgr, hw, Hardware, QueuesOwned
    <3>2. CASE PutQueue(Mgr, l)
      BY <3>2, <2>1, <1>h, PutKeeps
    <3> QED
      BY <1>4, <3>1, <3>2 DEF AudioConsume, PutMgr
  <2>4. since' \in [Essence -> 0 .. Guard + 1]
    <3>1. 0 \in 0 .. Guard + 1
      BY FamineAssumption
    <3> QED
      BY <2>2, <3>1 DEF TypeOK
  <2>5. Getting' /\ Holding'
    BY <2>2, <2>3, <1>h DEF Getting, Holding, video
  <2> QED
    BY <2>1, <2>2, <2>3, <2>4, <2>5 DEF TypeOK, Hardware, video
<1>5. ASSUME NEW s \in Audio, AudioReset(s)
      PROVE  Inv'
  <2>1. /\ active' \in [Session -> BOOLEAN] /\ pool' \in [Session -> BOOLEAN]
        /\ budget' \in [{"loss", "fail", "commit", "hold"} -> Nat]
    BY <1>5, FailedType DEF AudioReset, TypeOK
  <2> QED
    BY <1>5, <2>1 DEF AudioReset, TypeOK, QueuesOwned, Getting, Holding, hw, video
<1>6. CASE AudioGot
  <2>1. /\ Hardware' /\ QueuesOwned' /\ \A o2 \in Owner \ {Mgr} : queue'[o2] = queue[o2]
    BY <1>6, <1>h, GetKeeps DEF AudioGot, Getting, TypeOK
  <2>2. pool' \in [Session -> BOOLEAN] /\ budget' \in [{"loss", "fail", "commit", "hold"} -> Nat]
    BY <1>6, StopType DEF AudioGot, TypeOK
  <2>3. apc' = "idle" /\ UNCHANGED <<active, fail, since, commit, video, cur, todo, port, pending, held>>
    BY <1>6 DEF AudioGot
  <2>4. Getting' /\ Holding'
    BY <1>6, <2>1, <2>3, <1>h DEF Getting, Holding, video, AudioGot
  <2> QED
    BY <2>1, <2>2, <2>3, <2>4 DEF TypeOK, Hardware, video
<1>7. CASE AudioNoQueue
  <2>1. budget' \in [{"loss", "fail", "commit", "hold"} -> Nat]
    BY <1>7, FailedType DEF AudioNoQueue, TypeOK
  <2> QED
    BY <1>7, <2>1, FamineAssumption DEF AudioNoQueue, TypeOK, QueuesOwned, Getting, Holding, hw, video
<1> QED
  BY <1>1, <1>2, <1>3, <1>4, <1>5, <1>6, <1>7 DEF AudioStep

\* The control thread, time, and steps that change nothing.
LEMMA OtherInv ==
  ASSUME Inv, Control \/ Locks \/ (\E s \in Session : Refill(s)) \/ Tick \/ UNCHANGED vars
  PROVE  Inv'
<1> USE DEF Inv
<1>1. ASSUME NEW l \in Leg, CommitBegin(l) \/ CommitEnd(l)
      PROVE  Inv'
  <2>1. pool' \in [Session -> BOOLEAN] /\ budget' \in [{"loss", "fail", "commit", "hold"} -> Nat]
    BY <1>1, StopType DEF CommitBegin, CommitEnd, TypeOK
  <2>2. commit' \in [Leg -> BOOLEAN] /\ UNCHANGED <<active, fail, since, hw, video, audio, held>>
    BY <1>1 DEF CommitBegin, CommitEnd, TypeOK
  <2> QED
    BY <2>1, <2>2 DEF TypeOK, QueuesOwned, Getting, Holding, hw, video, audio
<1>2. ASSUME NEW s \in Audio, Hold(s) \/ Drop(s)
      PROVE  Inv'
  BY <1>2 DEF Hold, Drop, TypeOK, QueuesOwned, Getting, Holding, hw, video, audio
<1>3. ASSUME NEW s \in Session, Refill(s)
      PROVE  Inv'
  BY <1>3 DEF Refill, TypeOK, QueuesOwned, Getting, Holding, hw, video, audio
<1>4. CASE Tick
  <2>1. \A s \in Session : fail'[s] \in -1 .. Thresh + 1
    BY <1>4, FamineAssumption DEF Tick, Until, TypeOK
  <2>2. \A e \in Essence : since'[e] \in 0 .. Guard + 1
    BY <1>4, FamineAssumption DEF Tick, Until, TypeOK
  <2>3. fail' \in [Session -> -1 .. Thresh + 1] /\ since' \in [Essence -> 0 .. Guard + 1]
    BY <1>4, <2>1, <2>2 DEF Tick
  <2> QED
    BY <1>4, <2>3 DEF Tick, TypeOK, QueuesOwned, Getting, Holding, hw, video, audio
<1>5. CASE UNCHANGED vars
  BY <1>5 DEF vars, TypeOK, QueuesOwned, Getting, Holding, hw, video, audio
<1> QED
  BY <1>1, <1>2, <1>3, <1>4, <1>5 DEF Control, Locks

LEMMA InvHolds == Spec => []Inv
<1>1. Inv /\ [Next]_vars => Inv'
  BY VideoInv, AudioInv, OtherInv DEF Next
<1> QED
  BY InitInv, <1>1, PTL DEF Spec

\* The state keeps its type.
THEOREM TypeCorrect == Spec => []TypeOK
<1>1. Inv => TypeOK
  BY DEF Inv
<1> QED
  BY InvHolds, <1>1, PTL

\* No recovery loses a hardware queue, nor shares one.
THEOREM QueuesCorrect == Spec => []QueuesOwned
<1>1. Inv => QueuesOwned
  BY DEF Inv
<1> QED
  BY InvHolds, <1>1, PTL

\* The core of the audio tasklet never waits for itself.
THEOREM NoSelfWaitCorrect == Spec => []NoSelfWait
<1>1. Inv => NoSelfWait
  BY DEF Inv, Holding, NoSelfWait
<1> QED
  BY InvHolds, <1>1, PTL

-----------------------------------------------------------------------------
\* A running session has the queue of its last leg, and so has a core whose
\* recovery does not, or does no more, concern that leg.
Served ==
  \A s \in Video :
    /\ active[s] /\ (vpc[s] = "run" \/ legs[s] = {}) => queue[s][LastLeg] # None
    /\ vpc[s] # "run" /\ legs[s] # {} /\ LastLeg \notin legs[s] => queue[s][LastLeg] # None

LEMMA LastIsLeg ==
  /\ LastLeg \in Leg
  /\ \A some \in SUBSET Leg : some # {} => First(some) # LastLeg \/ some \ {First(some)} = {}
BY FamineAssumption DEF LastLeg, First

\* A step of its own core.
LEMMA ServedOwn ==
  ASSUME Inv, Served, NEW s \in Video, VideoStep(s)
  PROVE  /\ active'[s] /\ (vpc'[s] = "run" \/ legs'[s] = {}) => queue'[s][LastLeg] # None
         /\ vpc'[s] # "run" /\ legs'[s] # {} /\ LastLeg \notin legs'[s] => queue'[s][LastLeg] # None
<1>h. Hardware /\ QueuesOwned /\ s \in Owner /\ s \in Session /\ LastLeg \in Leg
  BY LastIsLeg DEF Inv, TypeOK, Hardware, Owner, Session
<1>s. /\ active[s] /\ (vpc[s] = "run" \/ legs[s] = {}) => queue[s][LastLeg] # None
      /\ vpc[s] # "run" /\ legs[s] # {} /\ LastLeg \notin legs[s] => queue[s][LastLeg] # None
  BY DEF Served
<1>1. CASE VideoBurst(s) \/ VideoStarve(s)
  BY <1>1, <1>s DEF VideoBurst, VideoStarve, video, hw
<1>2. CASE VideoDecide(s)
  BY <1>2, <1>h DEF VideoDecide, hw, Inv, TypeOK
<1>3. CASE VideoZombie(s)
  BY <1>3, <1>h DEF VideoZombie, hw, Inv, TypeOK
<1>4. CASE VideoStamp(s)
  BY <1>4, <1>s DEF VideoStamp, hw, Inv, TypeOK
<1>5. CASE VideoPut(s)
  <2>1. CASE legs[s] = {}
    BY <1>5, <2>1, <1>s DEF VideoPut, hw, Inv, TypeOK
  <2>2. CASE legs[s] # {}
    <3> DEFINE l == First(legs[s])
    <3>1. l \in Leg /\ l \in legs[s]
      BY <2>2, FirstIsLeg DEF Inv, TypeOK
    <3>2. vpc'[s] = "get" /\ legs'[s] = legs[s]
      BY <1>5, <2>2 DEF VideoPut, Inv, TypeOK
    <3>3. LastLeg \notin legs[s] => queue'[s][LastLeg] = queue[s][LastLeg]
      <4>1. CASE queue[s][l] = None
        BY <4>1, <1>5, <2>2 DEF VideoPut, hw
      <4>2. CASE PutQueue(s, l)
        BY <4>2, <3>1, <1>h DEF PutQueue, Hardware
      <4> QED
        BY <4>1, <4>2, <1>5, <2>2 DEF VideoPut
    <3> QED
      BY <2>2, <3>2, <3>3, <1>5, <1>s DEF VideoPut
  <2> QED
    BY <2>1, <2>2
<1>6. CASE VideoRecovered(s) \/ VideoNoQueue(s) \/ VideoNoPool(s)
  <2> DEFINE l == First(legs[s])
  <2>1. vpc[s] = "get" /\ legs[s] # {} /\ l \in Leg /\ queue[s][l] = None
    <3>1. vpc[s] = "get"
      BY <1>6 DEF VideoRecovered, VideoNoQueue, VideoNoPool
    <3>2. legs[s] # {} /\ queue[s][l] = None
      BY <3>1 DEF Inv, Getting
    <3> QED
      BY <3>1, <3>2, FirstIsLeg DEF Inv, TypeOK
  <2>2. vpc'[s] = "put" /\ legs'[s] = legs[s] \ {l}
    BY <1>6 DEF VideoRecovered, VideoNoQueue, VideoNoPool, LegDone, Inv, TypeOK
  <2>3. CASE VideoNoQueue(s)
    <3>1. ~active'[s] /\ queue' = queue
      BY <2>3 DEF VideoNoQueue, hw, Inv, TypeOK, Session
    <3>2. l # LastLeg \/ legs'[s] = {}
      BY <2>1, <2>2, LastIsLeg DEF Inv, TypeOK
    <3> QED
      BY <2>1, <2>2, <3>1, <3>2, <1>s
  <2>4. CASE GetQueue(s, l)
    <3>1. queue'[s][l] # None /\ \A m \in Leg \ {l} : queue'[s][m] = queue[s][m]
      BY <2>1, <2>4, <1>h, GetKeeps
    <3>2. CASE l = LastLeg
      BY <3>1, <3>2
    <3>3. CASE l # LastLeg
      BY <2>1, <2>2, <3>1, <3>3, <1>h, <1>s
    <3> QED
      BY <3>2, <3>3
  <2> QED
    BY <1>6, <2>3, <2>4 DEF VideoRecovered, VideoNoPool
<1> QED
  BY <1>1, <1>2, <1>3, <1>4, <1>5, <1>6 DEF VideoStep

LEMMA ServedKept ==
  ASSUME Inv, Served, [Next]_vars
  PROVE  Served'
<1> SUFFICES ASSUME NEW s \in Video
             PROVE  /\ active'[s] /\ (vpc'[s] = "run" \/ legs'[s] = {}) => queue'[s][LastLeg] # None
                    /\ vpc'[s] # "run" /\ legs'[s] # {} /\ LastLeg \notin legs'[s]
                         => queue'[s][LastLeg] # None
  <2>1. LastLeg' = LastLeg
    BY DEF LastLeg
  <2> QED
    BY <2>1 DEF Served
<1>h. Hardware /\ QueuesOwned /\ Mgr \in Owner /\ s \in Owner /\ s # Mgr /\ s \in Session /\ s \notin Audio
  BY FamineAssumption DEF Inv, TypeOK, Hardware, Owner, Session
<1>1. SUFFICES ASSUME ~VideoStep(s)
               PROVE  active'[s] = active[s] /\ vpc'[s] = vpc[s] /\ legs'[s] = legs[s] /\ queue'[s] = queue[s]
  BY <1>1, ServedOwn DEF Served
<1>3. ASSUME NEW t \in Video, t # s, VideoStep(t)
      PROVE  active'[s] = active[s] /\ vpc'[s] = vpc[s] /\ legs'[s] = legs[s] /\ queue'[s] = queue[s]
  <2>t. t \in Owner /\ t \in Session
    BY DEF Owner, Session
  <2>e. ASSUME LegDone(t), NEW b \in BOOLEAN, active' = [active EXCEPT ![t] = b]
        PROVE  active'[s] = active[s] /\ vpc'[s] = vpc[s] /\ legs'[s] = legs[s]
    BY <2>e, <1>3, <1>h DEF LegDone, Inv, TypeOK
  <2>1. CASE VideoPut(t)
    <3>1. legs[t] # {} => First(legs[t]) \in Leg
      BY FirstIsLeg DEF Inv, TypeOK
    <3>2. queue'[s] = queue[s]
      BY <2>1, <1>3, <3>1, <2>t, <1>h, PutKeeps DEF VideoPut, hw
    <3> QED
      BY <2>1, <1>3, <3>2 DEF VideoPut, Inv, TypeOK
  <2>2. CASE VideoRecovered(t) \/ VideoNoPool(t)
    <3>1. legs[t] # {} /\ First(legs[t]) \in Leg /\ queue[t][First(legs[t])] = None
      BY <2>2, FirstIsLeg DEF VideoRecovered, VideoNoPool, Inv, TypeOK, Getting
    <3>2. queue'[s] = queue[s]
      BY <2>2, <1>3, <3>1, <2>t, <1>h, GetKeeps DEF VideoRecovered, VideoNoPool
    <3> QED
      BY <2>2, <1>3, <3>2, <2>e DEF VideoRecovered, VideoNoPool
  <2>3. CASE VideoNoQueue(t)
    BY <2>3, <1>3, <2>e DEF VideoNoQueue, hw
  <2>4. CASE VideoBurst(t) \/ VideoStarve(t) \/ VideoStamp(t)
    BY <2>4, <1>3 DEF VideoBurst, VideoStarve, VideoStamp, video, hw, Inv, TypeOK
  <2>5. CASE VideoDecide(t) \/ VideoZombie(t)
    BY <2>5, <1>3 DEF VideoDecide, VideoZombie, hw, Inv, TypeOK
  <2> QED
    BY <1>3, <2>1, <2>2, <2>3, <2>4, <2>5 DEF VideoStep
<1>4. CASE AudioStep
  <2>1. queue'[s] = queue[s]
    <3>1. CASE AudioConsume
      <4>1. First(Requests) \in Leg
        BY <3>1, FirstIsLeg DEF AudioConsume, Requests
      <4> QED
        BY <3>1, <4>1, <1>h, PutKeeps DEF AudioConsume, PutMgr, hw
    <3>2. CASE AudioGot
      BY <3>2, <1>h, GetKeeps DEF AudioGot, Inv, Getting, TypeOK
    <3> QED
      BY <1>4, <3>1, <3>2 DEF AudioStep, AudioBegin, AudioTryGet, AudioBuild, AudioPut, AudioRest,
         AudioReset, AudioGet, AudioNoQueue, hw
  <2>2. vpc' = vpc /\ legs' = legs
    BY <1>4 DEF AudioStep, AudioBegin, AudioTryGet, AudioBuild, AudioPut, AudioRest, AudioConsume,
       AudioReset, AudioGet, AudioGot, AudioNoQueue, video
  <2>3. active'[s] = active[s]
    BY <1>4, <1>h DEF AudioStep, AudioBegin, AudioTryGet, AudioBuild, AudioPut, AudioRest, AudioConsume,
       AudioReset, AudioGet, AudioGot, AudioNoQueue, Inv, TypeOK
  <2> QED
    BY <2>1, <2>2, <2>3
<1>5. CASE Control \/ Locks \/ (\E t \in Session : Refill(t)) \/ Tick \/ UNCHANGED vars
  BY <1>5 DEF Control, Locks, CommitBegin, CommitEnd, Hold, Drop, Refill, Tick, vars, video, hw
<1> QED
  BY <1>1, <1>3, <1>4, <1>5 DEF Next

\* A session that runs has the queue of its last leg, whatever failed.
THEOREM LastLegCorrect == Spec => []LastLegServed
<1>1. Init => Served
  <2> SUFFICES ASSUME Init, NEW s \in Video PROVE queue[s][LastLeg] # None
    BY DEF Served
  <2>1. Hardware /\ queue[s][LastLeg] \in Hw
    BY StartApart, LastIsLeg DEF Init, Owner, Hardware
  <2> QED
    BY <2>1, FamineAssumption
<1>2. Inv /\ Served /\ [Next]_vars => Served'
  BY ServedKept
<1>3. Served => LastLegServed
  BY DEF Served, LastLegServed
<1> QED
  BY InvHolds, <1>1, <1>2, <1>3, PTL DEF Spec
=============================================================================
