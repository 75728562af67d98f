----------------------------- MODULE Subscription -----------------------------
(***************************************************************************)
(* Two engines joined by the documents of module Sdp: the outputs of one   *)
(* announce their flows, the slots of the other are subscribed to them     *)
(* (POST /nmos/subscribe writes the document in a file) and its manager,   *)
(* which reads those files at each turn, plans the receiving sessions      *)
(* (docker/controller.py, _manager_loop).  The daemon applies a plan when  *)
(* it meets it (module ConfigSync); until then it writes the flows of the  *)
(* plan before.  A slot may also be taken by a generator (_simu_loop and   *)
(* _simu_audio_loop), which writes the very flow the daemon would.         *)
(***************************************************************************)
EXTENDS Sdp, FiniteSets

CONSTANTS N,          \* N_VIDEO = N_AUDIO = N_ANC: the slots of the receiving engine
          Nodes,      \* the ports an engine may have
          Outs,       \* the settings an output may be given
          Outputs,    \* the slots of the sending engine
          FPS,        \* the rate of a slot nothing is known of
          MaxOps      \* bound: requests, and groups the watchdog leaves out

Slot == 0 .. (N - 1)
Essence == {"video", "audio", "data"}

ASSUME SubscriptionAssumption ==
  /\ N \in Nat \ {0} /\ Nodes \subseteq Node /\ Nodes # {}
  /\ Outputs \subseteq Nat /\ Outs \subseteq Setting /\ FPS \in Nat /\ MaxOps \in Nat

VARIABLES node, rnode,  \* the ports of the sending and of the receiving engine
          out,          \* _tx: the settings of the outputs
          file,         \* nmos_recv_*.sdp: the document of each essence of each slot
          post,         \* the request that is writing one
          gen,          \* _ctl[idx].gen, _sim_tone[idx].enabled
          pin,          \* RX_PINS
          plan,         \* the receiving sessions of the last turn
          live,         \* _live, _audio_live
          running,      \* the sessions the daemon has
          sim,          \* the writers of the generators
          ops           \* requests and bounces so far

ends == <<node, rnode, out>>
vars == <<ends, file, post, gen, pin, plan, live, running, sim, ops>>

None == <<>>
NoPost == [essence |-> "none", slot |-> 0, sdp |-> None]
Generated == {"video", "audio"} \X Slot

-----------------------------------------------------------------------------
(* The sessions the manager plans                                          *)

Heard(i) == IsVideo(file[<<"video", i>>]) /\ ~gen[<<"video", i>>]
Addr(i) == file[<<"video", i>>][1].addr

(* The slots of one address are served by one session, that of the first.  *)
Group(i) == {j \in Slot : Heard(j) /\ Addr(j) = Addr(i)}
Leads(i) == Heard(i) /\ \A j \in Group(i) : i <= j

VideoPlan(left) ==
  {VideoSession(rnode, file[<<"video", i>>], Group(i), IfaceOf(rnode, i, pin[i])) :
     i \in {j \in Slot : Leads(j) /\ Addr(j) \notin left}}

(* Mutant: the generator of a tone does not take the slot from the daemon. *)
MutAudioHeard(i) == IsAudio(file[<<"audio", i>>])

AudioHeard(i) == IsAudio(file[<<"audio", i>>]) /\ ~gen[<<"audio", i>>]

AudioPlan ==
  {AudioSession(rnode, file[<<"audio", i>>], i, IfaceOf(rnode, i, pin[i])) : i \in {j \in Slot : AudioHeard(j)}}

(* _fps_slot: the rate of the planned video of a slot.                     *)
SlotRate(video, i) ==
  IF \E s \in video : i \in s.slots THEN (CHOOSE s \in video : i \in s.slots).fps ELSE FPS

AncPlan(video) ==
  {AncSession(rnode, file[<<"data", i>>], i, IfaceOf(rnode, i, pin[i]), SlotRate(video, i)) :
     i \in {j \in Slot : IsAnc(file[<<"data", j>>])}}

Init ==
  /\ node \in Nodes /\ rnode \in Nodes /\ out \in [Outputs -> Outs]
  /\ file = [s \in Essence \X Slot |-> None] /\ post = NoPost
  /\ gen = [g \in Generated |-> FALSE] /\ pin = [i \in Slot |-> NoPort]
  /\ plan = {} /\ live = [g \in Generated |-> FALSE] /\ running = {}
  /\ sim = [g \in Generated |-> FALSE] /\ ops = 0

-----------------------------------------------------------------------------
(* Requests                                                                *)

Request == ops < MaxOps /\ ops' = ops + 1

(* POST /tx: an output is given other settings.                            *)
Wire ==
  /\ Request /\ \E o \in Outputs, t \in Outs : t # out[o] /\ out' = [out EXCEPT ![o] = t]
  /\ UNCHANGED <<node, rnode, file, post, gen, pin, plan, live, running, sim>>

(* /metrics: what an output announces of each essence it is given.         *)
Announced(o) ==
  (IF out[o].v = NoAddr THEN {} ELSE {<<"video", TxSdp(node, o, out[o])>>})
    \cup (IF out[o].a = NoAddr THEN {} ELSE {<<"audio", AudSdp(node, o, out[o])>>})
    \cup (IF out[o].d = NoAddr THEN {} ELSE {<<"data", AncSdp(node, o, out[o])>>})

(* POST /nmos/subscribe: the file is emptied, then written; a reader in    *)
(* between finds no subscription.                                          *)
Subscribe ==
  /\ post = NoPost /\ Request
  /\ \E i \in Slot, o \in Outputs : \E a \in Announced(o) :
       /\ post' = [essence |-> a[1], slot |-> i, sdp |-> a[2]]
       /\ file' = [file EXCEPT ![<<a[1], i>>] = None]
  /\ UNCHANGED <<ends, gen, pin, plan, live, running, sim>>

Written ==
  /\ post # NoPost /\ post' = NoPost /\ file' = [file EXCEPT ![<<post.essence, post.slot>>] = post.sdp]
  /\ UNCHANGED <<ends, gen, pin, plan, live, running, sim, ops>>

Unsubscribe ==
  /\ post = NoPost /\ Request
  /\ \E e \in Essence, i \in Slot : file[<<e, i>>] # None /\ file' = [file EXCEPT ![<<e, i>>] = None]
  /\ UNCHANGED <<ends, post, gen, pin, plan, live, running, sim>>

(* POST /gen.                                                              *)
Generate ==
  /\ Request /\ \E g \in Generated : gen' = [gen EXCEPT ![g] = ~gen[g]]
  /\ UNCHANGED <<ends, file, post, pin, plan, live, running, sim>>

(* POST /pin.                                                              *)
Pin ==
  /\ Request
  /\ \/ \E i \in Slot, p \in Port \cup {NoPort} : pin' = [pin EXCEPT ![i] = p] /\ out' = out
     \/ \E o \in Outputs, p \in Port \cup {NoPort} : out' = [out EXCEPT ![o].pin = p] /\ pin' = pin
  /\ UNCHANGED <<node, rnode, file, post, gen, plan, live, running, sim>>

-----------------------------------------------------------------------------
(* The manager, the daemon and the generators                              *)

Turn(left) ==
  /\ plan' = VideoPlan(left) \cup AudioPlan \cup AncPlan(VideoPlan(left))
  /\ live' = [g \in Generated |->
                IF g[1] = "video" THEN \E s \in VideoPlan(left) : g[2] \in s.slots
                ELSE IsAudio(file[<<"audio", g[2]>>]) /\ ~gen[<<"audio", g[2]>>]]
  /\ UNCHANGED <<ends, file, post, gen, pin, running, sim>>

(* A turn; the watchdog may leave a group out (module RxWatchdog).         *)
Plan == Turn({}) /\ ops' = ops
Bounce == Request /\ \E i \in Slot : Leads(i) /\ Turn({Addr(i)})

(* The daemon meets the last plan.                                         *)
Apply ==
  /\ running # plan /\ running' = plan
  /\ UNCHANGED <<ends, file, post, gen, pin, plan, live, sim, ops>>

(* A generator opens its writer, or closes it.                             *)
Simulate(g) ==
  /\ sim[g] # (gen[g] /\ ~live[g]) /\ sim' = [sim EXCEPT ![g] = ~sim[g]]
  /\ UNCHANGED <<ends, file, post, gen, pin, plan, live, running, ops>>

Next == \/ Wire \/ Subscribe \/ Written \/ Unsubscribe \/ Generate \/ Pin \/ Plan \/ Bounce \/ Apply
        \/ \E g \in Generated : Simulate(g)

Spec == Init /\ [][Next]_vars

(* The manager turns, the daemon polls, the generators look at their flags *)
(* and a request that began ends.                                          *)
FairSpec ==
  /\ Spec /\ WF_vars(Plan) /\ WF_vars(Apply) /\ WF_vars(Written)
  /\ \A g \in Generated : WF_vars(Simulate(g))

-----------------------------------------------------------------------------
TypeOK ==
  /\ node \in Nodes /\ rnode \in Nodes
  /\ DOMAIN file = Essence \X Slot /\ pin \in [Slot -> Port \cup {NoPort}]
  /\ gen \in [Generated -> BOOLEAN] /\ live \in [Generated -> BOOLEAN] /\ sim \in [Generated -> BOOLEAN]
  /\ \A s \in plan \cup running : s.slots \subseteq Slot
  /\ ops \in 0 .. MaxOps

(* What a receiver listens to, against what is sent.                       *)
SameLegs(rx, tx) ==
  /\ rx.legs[1].addr = tx.legs[1].addr /\ rx.pt = tx.pt
  /\ Len(rx.legs) = 2 /\ Len(tx.legs) = 2 => rx.legs[2].addr = tx.legs[2].addr

(* A slot subscribed to what an output announces now receives what that    *)
(* output sends, on the same addresses and in the same format, however    *)
(* many slots share the flow; the generator apart, it is served.           *)
ReadIsSent ==
  \A i \in Slot, o \in Outputs :
    /\ Heard(i) /\ (\A j \in Group(i) : file[<<"video", j>>] = TxSdp(node, o, out[o])) =>
         \E rx \in VideoPlan({}) : LET tx == TxSession(node, o, out[o]) IN
           i \in rx.slots /\ SameLegs(rx, tx) /\ rx.size = tx.size /\ rx.fps = tx.fps /\ rx.scan = tx.scan
    /\ AudioHeard(i) /\ file[<<"audio", i>>] = AudSdp(node, o, out[o]) =>
         \E rx \in AudioPlan : LET tx == AudioTxSession(node, o, out[o]) IN
           i \in rx.slots /\ SameLegs(rx, tx) /\ rx.ptime = tx.ptime
    /\ IsAnc(file[<<"data", i>>]) /\ file[<<"data", i>>] = AncSdp(node, o, out[o]) =>
         \E rx \in AncPlan({}) : i \in rx.slots /\ SameLegs(rx, AncTxSession(node, o, out[o]))

(* Each section of a document names the port its leg leaves by: a receiver *)
(* that filters on the source would hear nothing otherwise.                *)
AnnouncedIsSent ==
  \A o \in Outputs :
    LET sdp == TxSdp(node, o, out[o]) tx == TxSession(node, o, out[o]) IN
    \A k \in DOMAIN tx.legs : sdp[k].addr = tx.legs[k].addr /\ sdp[k].sip = tx.legs[k].iface

(* The class that is announced is that of the port the output leaves by:   *)
(* holds where every port is of one class; with ports of two classes an    *)
(* output that is not pinned is announced in that of the first.            *)
ClassIsHeld ==
  \A o \in Outputs : TxSdp(node, o, out[o])[1].body.tp =
                       PortProfileEffectif(node, TxSession(node, o, out[o]).legs[1].iface)

(* The ancillary data of a slot keep the rate of its video ("L'ANC d'une   *)
(* entree suit la cadence de SA video"): fails while the video is left to  *)
(* the generator or out of a turn.                                         *)
AncKeepsRate ==
  \A s \in plan : s.kind = "data" =>
    \A i \in s.slots : IsVideo(file[<<"video", i>>]) => s.fps = ParseRate(file[<<"video", i>>])

Writers(e, i) ==
  (IF sim[<<e, i>>] THEN {"generator"} ELSE {})
    \cup (IF \E s \in running : s.kind = e /\ i \in s.slots THEN {"mtl_rx"} ELSE {})

Wanted(e, i) ==
  IF gen[<<e, i>>] THEN {"generator"} ELSE IF file[<<e, i>>] # None THEN {"mtl_rx"} ELSE {}

(* Once the requests stop, the flow of every slot has the one writer that  *)
(* was asked for last, and no other.                                       *)
Settles == <>[](\A g \in Generated : Writers(g[1], g[2]) = Wanted(g[1], g[2]))
=============================================================================
