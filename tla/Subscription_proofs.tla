------------------------- MODULE Subscription_proofs -------------------------
(***************************************************************************)
(* Proofs about the two engines joined by their documents, for any number  *)
(* of slots, any ports and pairs, any settings an output may be given: the *)
(* rate survives its fraction, the slots of a flow have one server and it  *)
(* receives what is sent.  None supposes anything of the order of requests *)
(* and turns.                                                              *)
(***************************************************************************)
EXTENDS Subscription, WellFoundedInduction, TLAPS

-----------------------------------------------------------------------------
(* What the documents say                                                  *)

\* A rate the sender can say is read back as it is sent: the halving of an
\* interlaced rate is not done twice, and the fraction rounds to the hundredth.
LEMMA RateSurvives ==
  ASSUME NEW fps \in Nat \ {0}, NEW scan \in {"i", "p"}, Sayable(fps, scan)
  PROVE  ParseFps(FpsStr(FrameRate(fps, scan)), scan) = FrameRate(fps, scan)
  <1> DEFINE f == FrameRate(fps, scan)
  <1>1. f \in Nat /\ (scan = "i" => f <= 3000)
    BY DEF FrameRate, Sayable
  <1>2. f \in {2398, 2997, 5994} \/ f % 100 = 0
    BY DEF Sayable
  <1> HIDE DEF f
  <1>3. CASE f = 2398
    <2>1. FpsStr(f) = <<24000, 1001>>
      BY <1>3 DEF FpsStr
    <2> QED
      BY <1>3, <2>1 DEF ParseFps, f
  <1>4. CASE f = 2997
    <2>1. FpsStr(f) = <<30000, 1001>>
      BY <1>4 DEF FpsStr
    <2> QED
      BY <1>4, <2>1 DEF ParseFps, f
  <1>5. CASE f = 5994
    <2>1. FpsStr(f) = <<60000, 1001>> /\ scan # "i"
      BY <1>1, <1>5 DEF FpsStr
    <2> QED
      BY <1>5, <2>1 DEF ParseFps, f
  <1>6. CASE f \notin {2398, 2997, 5994} /\ f % 100 = 0
    <2>1. FpsStr(f) = <<f \div 100, 1>>
      BY <1>6 DEF FpsStr
    <2>2. (f \div 100) * 100 = f
      BY <1>1, <1>6
    <2>3. ParseFps(<<f \div 100, 1>>, scan) = f
      BY <1>1, <2>2 DEF ParseFps
    <2> QED
      BY <2>1, <2>3 DEF f
  <1> QED
    BY <1>2, <1>3, <1>4, <1>5, <1>6

\* The first section of a document.
LEMMA FirstSection ==
  ASSUME NEW nd, NEW i, NEW t, NEW a, NEW a2, NEW body
  PROVE  LET s == Sections(nd, i, t, a, a2, body) IN
         s # <<>> /\ s[1].addr = a /\ s[1].body = body /\ SdpLeg2(s) = a2
  BY DEF Sections, SdpLeg2

\* The addresses of the legs are those given, the second only where there is one.
LEMMA LegAddresses ==
  ASSUME NEW nd, NEW p, NEW a, NEW a2
  PROVE  LET l == Legs(nd, p, a, a2) IN
         l[1].addr = a /\ (Len(l) = 2 => l[2].addr = a2)
  BY DEF Legs

-----------------------------------------------------------------------------
(* The slots of a flow                                                     *)

\* A set of slots that is not empty has a first one.
LEMMA FirstSlot ==
  ASSUME NEW S, S \subseteq Nat, S # {}
  PROVE  \E i \in S : \A j \in S : i <= j
  <1> DEFINE Below == OpToRel(<, Nat)
  <1>1. \A i, j \in Nat : j < i => <<j, i>> \in Below
    BY DEF OpToRel
  <1>2. IsWellFoundedOn(Below, Nat)
    BY NatLessThanWellFounded
  <1> HIDE DEF Below
  <1>3. PICK i \in S : \A j \in S : ~ (<<j, i>> \in Below)
    BY <1>2, WFMin, Zenon
  <1>4. \A j \in S : ~ (j < i)
    BY <1>1, <1>3
  <1> QED
    BY <1>4

\* The slots of a flow have one and the same group, and one of them leads it.
LEMMA GroupLed ==
  ASSUME NEW i \in Slot, Heard(i)
  PROVE  \E l \in Group(i) : Leads(l) /\ Group(l) = Group(i) /\ Heard(l) /\ l \in Slot /\ i \in Group(l)
  <1>1. Slot \subseteq Nat
    BY SubscriptionAssumption DEF Slot
  <1>2. i \in Group(i) /\ Group(i) \subseteq Slot
    BY DEF Group
  <1>3. PICK l \in Group(i) : \A j \in Group(i) : l <= j
    BY <1>1, <1>2, FirstSlot
  <1>4. l \in Slot /\ Heard(l) /\ Addr(l) = Addr(i)
    BY <1>3 DEF Group
  <1>5. Group(l) = Group(i)
    BY <1>4 DEF Group
  <1> QED
    BY <1>2, <1>3, <1>4, <1>5 DEF Leads

\* The slots and the kind of each kind of session.
LEMMA SessionSlots ==
  /\ \A nd, d, slots, p : LET s == VideoSession(nd, d, slots, p) IN s.slots = slots /\ s.kind = "video"
  /\ \A nd, d, i, p : LET s == AudioSession(nd, d, i, p) IN s.slots = {i} /\ s.kind = "audio"
  /\ \A nd, d, i, p, fps : LET s == AncSession(nd, d, i, p, fps) IN s.slots = {i} /\ s.kind = "data"
  BY DEF VideoSession, AudioSession, AncSession

\* A slot is in the session of its group and in no other: what the daemon
\* writes in a slot comes from one flow.
LEMMA OneServer ==
  ASSUME NEW left, NEW s \in VideoPlan(left), NEW r \in VideoPlan(left), s.slots \cap r.slots # {}
  PROVE  s = r
  <1>1. PICK i \in Slot : Leads(i) /\ s = VideoSession(rnode, file[<<"video", i>>], Group(i), IfaceOf(rnode, i, pin[i]))
    BY DEF VideoPlan
  <1>2. PICK j \in Slot : Leads(j) /\ r = VideoSession(rnode, file[<<"video", j>>], Group(j), IfaceOf(rnode, j, pin[j]))
    BY DEF VideoPlan
  <1>3. PICK k : k \in Group(i) /\ k \in Group(j)
    BY <1>1, <1>2 DEF VideoSession
  <1>4. Addr(i) = Addr(j) /\ Group(i) = Group(j)
    BY <1>3 DEF Group
  <1>5. i \in Group(j) /\ j \in Group(i)
    BY <1>1, <1>2, <1>4 DEF Group, Leads
  <1>6. i <= j /\ j <= i
    BY <1>1, <1>2, <1>5 DEF Leads
  <1>7. i = j
    BY <1>6, SubscriptionAssumption DEF Slot
  <1> QED
    BY <1>1, <1>2, <1>7

-----------------------------------------------------------------------------
(* Typing                                                                  *)

SubType == TypeOK /\ out \in [Outputs -> Setting]

\* Every session of a plan serves slots of the engine.
LEMMA PlanSlots ==
  ASSUME NEW left, NEW s \in VideoPlan(left) \cup AudioPlan \cup AncPlan(VideoPlan(left))
  PROVE  s.slots \subseteq Slot
  <1>1. CASE s \in VideoPlan(left)
    <2>1. PICK i \in Slot : s = VideoSession(rnode, file[<<"video", i>>], Group(i), IfaceOf(rnode, i, pin[i]))
      BY <1>1 DEF VideoPlan
    <2> QED
      BY <2>1, SessionSlots DEF Group
  <1>2. CASE s \in AudioPlan
    <2>1. PICK i \in Slot : s = AudioSession(rnode, file[<<"audio", i>>], i, IfaceOf(rnode, i, pin[i]))
      BY <1>2 DEF AudioPlan
    <2> QED
      BY <2>1, SessionSlots
  <1>3. CASE s \in AncPlan(VideoPlan(left))
    <2>1. PICK i \in Slot : s = AncSession(rnode, file[<<"data", i>>], i, IfaceOf(rnode, i, pin[i]), SlotRate(VideoPlan(left), i))
      BY <1>3 DEF AncPlan
    <2> QED
      BY <2>1, SessionSlots
  <1> QED
    BY <1>1, <1>2, <1>3

LEMMA InitSub == Init => SubType
  <1> SUFFICES ASSUME Init PROVE SubType
    OBVIOUS
  <1>1. out \in [Outputs -> Setting]
    BY SubscriptionAssumption DEF Init
  <1>2. MaxOps \in Nat
    BY SubscriptionAssumption
  <1> QED
    BY <1>1, <1>2 DEF Init, SubType, TypeOK

\* An output that is pinned keeps a setting an output may have.
LEMMA PinnedSetting ==
  ASSUME NEW t \in Setting, NEW p \in Port \cup {NoPort}
  PROVE  [t EXCEPT !.pin = p] \in Setting
  BY DEF Setting

LEMMA StepSub == SubType /\ [Next]_vars => SubType'
  <1> SUFFICES ASSUME SubType, [Next]_vars PROVE SubType'
    OBVIOUS
  <1>0. MaxOps \in Nat /\ Outs \subseteq Setting
    BY SubscriptionAssumption
  <1>1. CASE Wire
    BY <1>0, <1>1 DEF Wire, Request, SubType, TypeOK
  <1>2. CASE Subscribe
    BY <1>0, <1>2 DEF Subscribe, Request, SubType, TypeOK, ends
  <1>3. CASE Written
    BY <1>0, <1>3 DEF Written, SubType, TypeOK, ends
  <1>4. CASE Unsubscribe
    BY <1>0, <1>4 DEF Unsubscribe, Request, SubType, TypeOK, ends
  <1>5. CASE Generate
    BY <1>0, <1>5 DEF Generate, Request, SubType, TypeOK, ends
  <1>6. CASE Pin
    <2>1. out' \in [Outputs -> Setting]
      BY <1>6, PinnedSetting DEF Pin, SubType
    <2>2. pin' \in [Slot -> Port \cup {NoPort}]
      BY <1>6 DEF Pin, SubType, TypeOK
    <2> QED
      BY <1>0, <1>6, <2>1, <2>2 DEF Pin, Request, SubType, TypeOK
  <1>7. ASSUME NEW left, Turn(left), ops' \in 0 .. MaxOps PROVE SubType'
    <2>1. \A s \in plan' \cup running' : s.slots \subseteq Slot
      BY <1>7, PlanSlots DEF Turn, SubType, TypeOK
    <2>2. live' \in [Generated -> BOOLEAN]
      BY <1>7 DEF Turn, IsAudio
    <2> QED
      BY <1>7, <2>1, <2>2 DEF Turn, SubType, TypeOK, ends
  <1>8. CASE Plan
    BY <1>7, <1>8 DEF Plan, SubType, TypeOK
  <1>9. CASE Bounce
    <2>1. PICK i \in Slot : Turn({Addr(i)})
      BY <1>9 DEF Bounce
    <2>2. ops' \in 0 .. MaxOps
      BY <1>0, <1>9 DEF Bounce, Request, SubType, TypeOK
    <2> QED
      BY <1>7, <2>1, <2>2
  <1>10. CASE Apply
    BY <1>10 DEF Apply, SubType, TypeOK, ends
  <1>11. CASE \E g \in Generated : Simulate(g)
    BY <1>11 DEF Simulate, SubType, TypeOK, ends
  <1>12. CASE UNCHANGED vars
    BY <1>12 DEF vars, ends, SubType, TypeOK
  <1> QED
    BY <1>1, <1>2, <1>3, <1>4, <1>5, <1>6, <1>8, <1>9, <1>10, <1>11, <1>12 DEF Next

LEMMA SubTyped == Spec => []SubType
  BY InitSub, StepSub, PTL DEF Spec

\* Every variable keeps its type, and a session serves slots of the engine.
THEOREM TypeCorrect == Spec => []TypeOK
  <1>1. SubType => TypeOK
    BY DEF SubType
  <1> QED
    BY <1>1, SubTyped, PTL

-----------------------------------------------------------------------------
(* What is announced is what is sent                                       *)

\* The sections of a document name the ports its legs leave by, for any pairs
\* and pins: two functions of the code that each work them out agree.
LEMMA PortsAgree ==
  ASSUME NEW nd, NEW i, NEW t, NEW a, NEW a2, NEW body,
         NEW k \in DOMAIN Legs(nd, IfaceOf(nd, i, t.pin), a, a2)
  PROVE  LET s == Sections(nd, i, t, a, a2, body)
             l == Legs(nd, IfaceOf(nd, i, t.pin), a, a2)
         IN  s[k].addr = l[k].addr /\ s[k].sip = l[k].iface
  <1> DEFINE p == IfaceOf(nd, i, t.pin)
  <1>1. CASE nd.pair[p] # NoPort /\ a2 # NoAddr
    <2>1. k \in {1, 2}
      BY <1>1 DEF Legs
    <2> QED
      BY <1>1, <2>1 DEF Legs, Sections, LegSips
  <1>2. CASE ~ (nd.pair[p] # NoPort /\ a2 # NoAddr)
    <2>1. k = 1
      BY <1>2 DEF Legs
    <2> QED
      BY <1>2, <2>1 DEF Legs, Sections, LegSips
  <1> QED
    BY <1>1, <1>2

\* Each section names the port its leg leaves by, whatever is asked for.
THEOREM AnnouncedCorrect == Spec => []AnnouncedIsSent
  <1>1. AnnouncedIsSent
    <2> SUFFICES ASSUME NEW o \in Outputs, NEW k \in DOMAIN TxSession(node, o, out[o]).legs
                 PROVE  /\ TxSdp(node, o, out[o])[k].addr = TxSession(node, o, out[o]).legs[k].addr
                        /\ TxSdp(node, o, out[o])[k].sip = TxSession(node, o, out[o]).legs[k].iface
      BY DEF AnnouncedIsSent
    <2>1. TxSession(node, o, out[o]).legs = Legs(node, IfaceOf(node, o, out[o].pin), out[o].v, out[o].v2)
      BY DEF TxSession
    <2> QED
      BY <2>1, PortsAgree DEF TxSdp
  <1> QED
    BY <1>1, PTL

-----------------------------------------------------------------------------
(* What is read is what is sent                                            *)

\* A document that was built from two addresses gives them back.
LEMMA AddressesRead ==
  ASSUME NEW nd, NEW i, NEW t, NEW a, NEW a2, NEW body, NEW d, d = Sections(nd, i, t, a, a2, body)
  PROVE  Info(d).addr = a /\ Info(d).addr2 = a2 /\ Info(d).pt = body.pt /\ d[1].body = body
  <1>1. d[1].addr = a /\ SdpLeg2(d) = a2 /\ d[1].body = body
    BY FirstSection
  <1> QED
    BY <1>1 DEF Info

\* Legs that were made of the same addresses carry them, on any ports.
LEMMA LegsAgree ==
  ASSUME NEW nd, NEW rnd, NEW a, NEW a2, NEW p, NEW q, NEW rx, NEW tx, rx.pt = tx.pt,
         rx.legs = Legs(rnd, p, a, a2), tx.legs = Legs(nd, q, a, a2)
  PROVE  SameLegs(rx, tx)
  BY LegAddresses DEF SameLegs

\* The video.
LEMMA VideoRead ==
  ASSUME SubType, NEW i \in Slot, NEW o \in Outputs, Heard(i),
         \A j \in Group(i) : file[<<"video", j>>] = TxSdp(node, o, out[o])
  PROVE  \E rx \in VideoPlan({}) : LET tx == TxSession(node, o, out[o]) IN
           i \in rx.slots /\ SameLegs(rx, tx) /\ rx.size = tx.size /\ rx.fps = tx.fps /\ rx.scan = tx.scan
  <1>1. PICK l \in Group(i) : Leads(l) /\ l \in Slot /\ i \in Group(l)
    BY GroupLed
  <1> DEFINE t == out[o]
             d == TxSdp(node, o, t)
             p == IfaceOf(rnode, l, pin[l])
             rx == VideoSession(rnode, d, Group(l), p)
             tx == TxSession(node, o, t)
             body == [media |-> "video", enc |-> "raw", pt |-> t.pt, size |-> t.size, scan |-> t.scan,
                      rate |-> FpsStr(FrameRate(t.fps, t.scan)), tp |-> TpSdp(node, t.pin)]
  <1>2. rx \in VideoPlan({})
    BY <1>1 DEF VideoPlan
  <1>3. t.fps \in Nat \ {0} /\ t.scan \in {"i", "p"} /\ Sayable(t.fps, t.scan)
    BY DEF SubType, Setting
  <1>4. d = Sections(node, o, t, t.v, t.v2, body)
    BY DEF TxSdp
  <1>5. Info(d).addr = t.v /\ Info(d).addr2 = t.v2 /\ Info(d).pt = t.pt /\ d[1].body = body
    BY <1>4, AddressesRead
  <1>6. ParseSize(d) = t.size /\ ParseScan(d) = t.scan
    BY <1>5 DEF ParseSize, ParseScan
  <1>7. ParseRate(d) = FrameRate(t.fps, t.scan)
    BY <1>3, <1>5, RateSurvives DEF ParseRate
  <1>8. rx.size = ParseSize(d) /\ rx.fps = ParseRate(d) /\ rx.scan = ParseScan(d) /\ rx.pt = Info(d).pt
        /\ rx.slots = Group(l) /\ rx.legs = Legs(rnode, p, Info(d).addr, Info(d).addr2)
    BY DEF VideoSession
  <1>9. tx.size = t.size /\ tx.fps = FrameRate(t.fps, t.scan) /\ tx.scan = t.scan /\ tx.pt = t.pt
        /\ tx.legs = Legs(node, IfaceOf(node, o, t.pin), t.v, t.v2)
    BY DEF TxSession
  <1> HIDE DEF t, d, p, rx, tx, body
  <1>10. SameLegs(rx, tx)
    BY <1>5, <1>8, <1>9, LegsAgree
  <1>11. i \in rx.slots /\ SameLegs(rx, tx) /\ rx.size = tx.size /\ rx.fps = tx.fps /\ rx.scan = tx.scan
    BY <1>1, <1>6, <1>7, <1>8, <1>9, <1>10
  <1> QED
    BY <1>2, <1>11 DEF tx, t

\* The audio, with its packet time.
LEMMA AudioIsRead ==
  ASSUME NEW i \in Slot, NEW o \in Outputs, AudioHeard(i), file[<<"audio", i>>] = AudSdp(node, o, out[o])
  PROVE  \E rx \in AudioPlan : LET tx == AudioTxSession(node, o, out[o]) IN
           i \in rx.slots /\ SameLegs(rx, tx) /\ rx.ptime = tx.ptime
  <1> DEFINE t == out[o]
             d == AudSdp(node, o, t)
             p == IfaceOf(rnode, i, pin[i])
             rx == AudioSession(rnode, d, i, p)
             tx == AudioTxSession(node, o, t)
             body == [media |-> "audio", enc |-> "L24", pt |-> t.apt, ptime |-> TxPtime(t.ptime)]
  <1>1. rx \in AudioPlan
    BY DEF AudioPlan
  <1>2. d = Sections(node, o, t, t.a, t.a2, body)
    BY DEF AudSdp
  <1>3. Info(d).addr = t.a /\ Info(d).addr2 = t.a2 /\ Info(d).pt = t.apt /\ d[1].body = body
    BY <1>2, AddressesRead
  <1>4. ParsePtime(d) = TxPtime(t.ptime)
    BY <1>3 DEF ParsePtime
  <1>5. rx.ptime = ParsePtime(d) /\ rx.pt = Info(d).pt /\ rx.slots = {i}
        /\ rx.legs = Legs(rnode, p, Info(d).addr, Info(d).addr2)
    BY DEF AudioSession
  <1>6. tx.ptime = TxPtime(t.ptime) /\ tx.pt = t.apt /\ tx.legs = Legs(node, IfaceOf(node, o, t.pin), t.a, t.a2)
    BY DEF AudioTxSession
  <1> HIDE DEF t, d, p, rx, tx, body
  <1>7. SameLegs(rx, tx)
    BY <1>3, <1>5, <1>6, LegsAgree
  <1>8. i \in rx.slots /\ SameLegs(rx, tx) /\ rx.ptime = tx.ptime
    BY <1>4, <1>5, <1>6, <1>7
  <1> QED
    BY <1>1, <1>8 DEF tx, t

\* The ancillary data.
LEMMA AncIsRead ==
  ASSUME NEW i \in Slot, NEW o \in Outputs, IsAnc(file[<<"data", i>>]), file[<<"data", i>>] = AncSdp(node, o, out[o])
  PROVE  \E rx \in AncPlan({}) : i \in rx.slots /\ SameLegs(rx, AncTxSession(node, o, out[o]))
  <1> DEFINE t == out[o]
             d == AncSdp(node, o, t)
             p == IfaceOf(rnode, i, pin[i])
             rx == AncSession(rnode, d, i, p, SlotRate({}, i))
             tx == AncTxSession(node, o, t)
             body == [media |-> "video", enc |-> "smpte291", pt |-> t.dpt, tp |-> TpSdp(node, t.pin)]
  <1>1. rx \in AncPlan({})
    BY DEF AncPlan
  <1>2. d = Sections(node, o, t, t.d, t.d2, body)
    BY DEF AncSdp
  <1>3. Info(d).addr = t.d /\ Info(d).addr2 = t.d2 /\ Info(d).pt = t.dpt
    BY <1>2, AddressesRead
  <1>4. rx.pt = Info(d).pt /\ rx.slots = {i} /\ rx.legs = Legs(rnode, p, Info(d).addr, Info(d).addr2)
    BY DEF AncSession
  <1>5. tx.pt = t.dpt /\ tx.legs = Legs(node, IfaceOf(node, o, t.pin), t.d, t.d2)
    BY DEF AncTxSession
  <1> HIDE DEF t, d, p, rx, tx, body
  <1>6. SameLegs(rx, tx)
    BY <1>3, <1>4, <1>5, LegsAgree
  <1>7. i \in rx.slots /\ SameLegs(rx, tx)
    BY <1>4, <1>6
  <1> QED
    BY <1>1, <1>7 DEF tx, t

\* A slot subscribed to what an output announces receives what it sends, in its
\* format and on its addresses, for any ports, pairs, pins and groups.
THEOREM ReadCorrect == Spec => []ReadIsSent
  <1>1. SubType => ReadIsSent
    BY VideoRead, AudioIsRead, AncIsRead DEF ReadIsSent
  <1> QED
    BY <1>1, SubTyped, PTL

-----------------------------------------------------------------------------
(* One server for each slot                                                *)

\* Two sessions of one essence never serve one slot.
OnePerSlot(S) == \A s, r \in S : s.kind = r.kind /\ s.slots \cap r.slots # {} => s = r

\* A turn plans one session at most for each essence of each slot.
LEMMA PlanOnePerSlot ==
  ASSUME NEW left
  PROVE  OnePerSlot(VideoPlan(left) \cup AudioPlan \cup AncPlan(VideoPlan(left)))
  <1> DEFINE V == VideoPlan(left)
  <1> HIDE DEF V
  <1>1. \A s \in V : s.kind = "video"
    <2> TAKE s \in V
    <2>1. PICK i \in Slot : s = VideoSession(rnode, file[<<"video", i>>], Group(i), IfaceOf(rnode, i, pin[i]))
      BY DEF VideoPlan, V
    <2> QED
      BY <2>1, SessionSlots
  <1>2. \A s \in AudioPlan : \E i \in Slot :
          s.kind = "audio" /\ s.slots = {i} /\ s = AudioSession(rnode, file[<<"audio", i>>], i, IfaceOf(rnode, i, pin[i]))
    BY SessionSlots DEF AudioPlan
  <1>3. \A s \in AncPlan(V) : \E i \in Slot :
          s.kind = "data" /\ s.slots = {i}
          /\ s = AncSession(rnode, file[<<"data", i>>], i, IfaceOf(rnode, i, pin[i]), SlotRate(V, i))
    BY SessionSlots DEF AncPlan
  <1> SUFFICES ASSUME NEW s \in V \cup AudioPlan \cup AncPlan(V), NEW r \in V \cup AudioPlan \cup AncPlan(V),
                      s.kind = r.kind, s.slots \cap r.slots # {}
               PROVE  s = r
    BY DEF OnePerSlot, V
  <1>4. CASE s \in V
    <2>1. r \in V
      BY <1>1, <1>2, <1>3, <1>4
    <2> QED
      BY <1>4, <2>1, OneServer DEF V
  <1>5. CASE s \in AudioPlan
    <2>1. r \in AudioPlan
      BY <1>1, <1>2, <1>3, <1>5
    <2> QED
      BY <1>2, <1>5, <2>1
  <1>6. CASE s \in AncPlan(V)
    <2>1. r \in AncPlan(V)
      BY <1>1, <1>2, <1>3, <1>6
    <2> QED
      BY <1>3, <1>6, <2>1
  <1> QED
    BY <1>4, <1>5, <1>6

\* The daemon never has two sessions that write the same flow of a slot: neither
\* the plan nor what was applied of it, whatever is asked for and bounced.
THEOREM OneWriter == Spec => [](OnePerSlot(plan) /\ OnePerSlot(running))
  <1> DEFINE One == OnePerSlot(plan) /\ OnePerSlot(running)
  <1>1. Init => One
    BY DEF Init, OnePerSlot
  <1>2. One /\ [Next]_vars => One'
    <2> SUFFICES ASSUME One, [Next]_vars PROVE One'
      OBVIOUS
    <2>1. CASE \E left : Turn(left)
      BY <2>1, PlanOnePerSlot DEF Turn, OnePerSlot
    <2>2. CASE Apply
      BY <2>2 DEF Apply
    <2>3. CASE UNCHANGED <<plan, running>>
      BY <2>3
    <2>4. (\E left : Turn(left)) \/ Apply \/ UNCHANGED <<plan, running>>
      BY DEF Next, vars, Wire, Subscribe, Written, Unsubscribe, Generate, Pin, Plan, Bounce, Simulate
    <2> QED
      BY <2>1, <2>2, <2>3, <2>4
  <1> QED
    BY <1>1, <1>2, PTL DEF Spec

-----------------------------------------------------------------------------
(* The engine at rest                                                      *)

\* A document is of the essence it was asked for.
Kind(e, d) == IF e = "audio" THEN IsAudio(d) ELSE IF e = "video" THEN IsVideo(d) ELSE IsAnc(d)

FileInv ==
  /\ \A e \in Essence, i \in Slot : file[<<e, i>>] = None \/ Kind(e, file[<<e, i>>])
  /\ post # NoPost => post.essence \in Essence /\ post.slot \in Slot /\ Kind(post.essence, post.sdp)

Served(S, e, i) == \E s \in S : s.kind = e /\ i \in s.slots

\* What the generators are told of the plan is so.
LiveInv == \A g \in Generated : live[g] <=> Served(plan, g[1], g[2])

\* What an output announces of an essence is a document of it.
LEMMA AnnouncedKind ==
  ASSUME NEW o, NEW a \in Announced(o)
  PROVE  a[1] \in Essence /\ Kind(a[1], a[2])
  <1>1. IsVideo(TxSdp(node, o, out[o]))
    BY FirstSection DEF TxSdp, IsVideo
  <1>2. IsAudio(AudSdp(node, o, out[o]))
    BY FirstSection DEF AudSdp, IsAudio
  <1>3. IsAnc(AncSdp(node, o, out[o]))
    BY FirstSection DEF AncSdp, IsAnc, IsVideo
  <1> QED
    BY <1>1, <1>2, <1>3 DEF Announced, Kind, Essence

\* The requests keep the documents where they belong.
LEMMA StepFile == SubType /\ FileInv /\ [Next]_vars => FileInv'
  <1> SUFFICES ASSUME SubType, FileInv, [Next]_vars PROVE FileInv'
    OBVIOUS
  <1>t. DOMAIN file = Essence \X Slot
    BY DEF SubType, TypeOK
  <1>1. CASE Subscribe
    <2>0. PICK i \in Slot, o \in Outputs :
            \E a \in Announced(o) : /\ post' = [essence |-> a[1], slot |-> i, sdp |-> a[2]]
                                   /\ file' = [file EXCEPT ![<<a[1], i>>] = None]
      BY <1>1 DEF Subscribe
    <2>1. PICK a \in Announced(o) : /\ post' = [essence |-> a[1], slot |-> i, sdp |-> a[2]]
                                   /\ file' = [file EXCEPT ![<<a[1], i>>] = None]
      BY <2>0
    <2>2. a[1] \in Essence /\ Kind(a[1], a[2])
      BY AnnouncedKind
    <2>3. \A e \in Essence, j \in Slot : file'[<<e, j>>] \in {None, file[<<e, j>>]}
      BY <1>t, <2>1
    <2> QED
      BY <2>1, <2>2, <2>3 DEF FileInv
  <1>2. CASE Written
    <2>1. post # NoPost /\ post' = NoPost /\ file' = [file EXCEPT ![<<post.essence, post.slot>>] = post.sdp]
      BY <1>2 DEF Written
    <2>2. \A e \in Essence, j \in Slot :
            file'[<<e, j>>] = file[<<e, j>>] \/ (e = post.essence /\ file'[<<e, j>>] = post.sdp)
      BY <1>t, <2>1
    <2> QED
      BY <2>1, <2>2 DEF FileInv
  <1>3. CASE Unsubscribe
    <2>1. /\ post' = post
          /\ \A e \in Essence, j \in Slot : file'[<<e, j>>] \in {None, file[<<e, j>>]}
      BY <1>3, <1>t DEF Unsubscribe
    <2> QED
      BY <2>1 DEF FileInv
  <1>4. CASE UNCHANGED <<file, post>>
    BY <1>4 DEF FileInv
  <1> QED
    BY <1>1, <1>2, <1>3, <1>4 DEF Next, vars, Wire, Generate, Pin, Plan, Bounce, Turn, Apply, Simulate

\* A session of a plan that serves an essence of a slot, and what there is of it.
LEMMA PlanServes ==
  ASSUME NEW left, NEW i \in Slot
  PROVE  LET P == VideoPlan(left) \cup AudioPlan \cup AncPlan(VideoPlan(left)) IN
         /\ Served(P, "video", i) <=> \E s \in VideoPlan(left) : i \in s.slots
         /\ Served(P, "audio", i) <=> AudioHeard(i)
  <1> DEFINE V == VideoPlan(left)
             P == V \cup AudioPlan \cup AncPlan(V)
  <1> HIDE DEF V
  <1>1. \A s \in V : s.kind = "video"
    <2> TAKE s \in V
    <2>1. PICK j \in Slot : s = VideoSession(rnode, file[<<"video", j>>], Group(j), IfaceOf(rnode, j, pin[j]))
      BY DEF VideoPlan, V
    <2> QED
      BY <2>1, SessionSlots
  <1>2. ASSUME NEW s \in AudioPlan PROVE \E j \in Slot : s.kind = "audio" /\ s.slots = {j} /\ AudioHeard(j)
    <2>1. PICK j \in {k \in Slot : AudioHeard(k)} :
            s = AudioSession(rnode, file[<<"audio", j>>], j, IfaceOf(rnode, j, pin[j]))
      BY DEF AudioPlan
    <2> QED
      BY <2>1, SessionSlots
  <1>3. ASSUME NEW s \in AncPlan(V) PROVE s.kind = "data"
    <2>1. PICK j \in Slot : s = AncSession(rnode, file[<<"data", j>>], j, IfaceOf(rnode, j, pin[j]), SlotRate(V, j))
      BY DEF AncPlan
    <2> QED
      BY <2>1, SessionSlots
  <1>4. Served(P, "video", i) <=> \E s \in V : i \in s.slots
    BY <1>1, <1>2, <1>3 DEF Served
  <1>5. Served(P, "audio", i) => AudioHeard(i)
    BY <1>1, <1>2, <1>3 DEF Served
  <1>6. AudioHeard(i) => Served(P, "audio", i)
    <2> SUFFICES ASSUME AudioHeard(i) PROVE Served(P, "audio", i)
      OBVIOUS
    <2> DEFINE s == AudioSession(rnode, file[<<"audio", i>>], i, IfaceOf(rnode, i, pin[i]))
    <2>1. s \in AudioPlan
      BY DEF AudioPlan
    <2>2. s.slots = {i} /\ s.kind = "audio"
      BY SessionSlots
    <2> QED
      BY <2>1, <2>2 DEF Served
  <1> QED
    BY <1>4, <1>5, <1>6 DEF V

\* The flags of a turn are those of its plan.
LEMMA StepLive == LiveInv /\ [Next]_vars => LiveInv'
  <1> SUFFICES ASSUME LiveInv, [Next]_vars PROVE LiveInv'
    OBVIOUS
  <1>1. ASSUME NEW left, Turn(left) PROVE LiveInv'
    <2>1. plan' = VideoPlan(left) \cup AudioPlan \cup AncPlan(VideoPlan(left))
      BY <1>1 DEF Turn
    <2>2. \A i \in Slot : /\ live'[<<"video", i>>] <=> \E s \in VideoPlan(left) : i \in s.slots
                          /\ live'[<<"audio", i>>] <=> AudioHeard(i)
      BY <1>1 DEF Turn, Generated, AudioHeard
    <2>3. \A i \in Slot : /\ live'[<<"video", i>>] <=> Served(plan', "video", i)
                          /\ live'[<<"audio", i>>] <=> Served(plan', "audio", i)
      BY <2>1, <2>2, PlanServes
    <2>4. ASSUME NEW e \in {"video", "audio"}, NEW i \in Slot
          PROVE  live'[<<e, i>>] <=> Served(plan', e, i)
      BY <2>3
    <2>5. \A g \in Generated : \E e \in {"video", "audio"}, i \in Slot : g = <<e, i>>
      BY DEF Generated
    <2>6. ASSUME NEW g \in Generated PROVE live'[g] <=> Served(plan', g[1], g[2])
      BY <2>4, <2>5
    <2> QED
      BY <2>6 DEF LiveInv, Served
  <1>2. CASE UNCHANGED <<plan, live>>
    BY <1>2 DEF LiveInv, Served
  <1>3. (\E left : Turn(left)) \/ UNCHANGED <<plan, live>>
    BY DEF Next, vars, Wire, Subscribe, Written, Unsubscribe, Generate, Pin, Plan, Bounce, Apply, Simulate
  <1> QED
    BY <1>1, <1>2, <1>3

\* Nothing is left to do for the manager, the daemon and the generators.
AtRest ==
  /\ plan = VideoPlan({}) \cup AudioPlan \cup AncPlan(VideoPlan({})) /\ running = plan
  /\ \A g \in Generated : sim[g] = (gen[g] /\ ~live[g])

Rightly == \A g \in Generated : Writers(g[1], g[2]) = Wanted(g[1], g[2])

\* With the plan of the moment the daemon writes what is heard, and it alone.
LEMMA RestServes ==
  ASSUME AtRest, LiveInv, NEW i \in Slot
  PROVE  /\ Served(running, "video", i) <=> Heard(i)
         /\ Served(running, "audio", i) <=> AudioHeard(i)
         /\ live[<<"video", i>>] <=> Heard(i)
         /\ live[<<"audio", i>>] <=> AudioHeard(i)
  <1>1. Heard(i) => \E s \in VideoPlan({}) : i \in s.slots
    <2> SUFFICES ASSUME Heard(i) PROVE \E s \in VideoPlan({}) : i \in s.slots
      OBVIOUS
    <2>1. PICK l \in Group(i) : Leads(l) /\ l \in Slot /\ i \in Group(l)
      BY GroupLed
    <2> DEFINE s == VideoSession(rnode, file[<<"video", l>>], Group(l), IfaceOf(rnode, l, pin[l]))
    <2>2. s \in VideoPlan({}) /\ s.slots = Group(l)
      BY <2>1, SessionSlots DEF VideoPlan
    <2> QED
      BY <2>1, <2>2
  <1>2. ASSUME NEW s \in VideoPlan({}), i \in s.slots PROVE Heard(i)
    <2>1. PICK l \in Slot : s = VideoSession(rnode, file[<<"video", l>>], Group(l), IfaceOf(rnode, l, pin[l]))
      BY DEF VideoPlan
    <2> QED
      BY <1>2, <2>1, SessionSlots DEF Group
  <1>3. /\ Served(running, "video", i) <=> \E s \in VideoPlan({}) : i \in s.slots
        /\ Served(running, "audio", i) <=> AudioHeard(i)
    BY PlanServes DEF AtRest
  <1>4. /\ live[<<"video", i>>] <=> Served(running, "video", i)
        /\ live[<<"audio", i>>] <=> Served(running, "audio", i)
    BY DEF LiveInv, Generated, AtRest
  <1> QED
    BY <1>1, <1>2, <1>3, <1>4

\* Once the manager, the daemon and the generators have nothing left to do, the
\* flow of every slot has the one writer that was asked for last, and no other:
\* what the property Settles says but that they come there.
THEOREM RestCorrect == Spec => [](AtRest => Rightly)
  <1> DEFINE Inv == SubType /\ FileInv /\ LiveInv
  <1>1. Init => Inv
    <2> SUFFICES ASSUME Init PROVE FileInv /\ LiveInv
      BY InitSub
    <2>1. FileInv
      BY DEF Init, FileInv
    <2>2. LiveInv
      BY DEF Init, LiveInv, Served
    <2> QED
      BY <2>1, <2>2
  <1>2. Inv /\ [Next]_vars => Inv'
    BY StepSub, StepFile, StepLive
  <1>3. Inv => (AtRest => Rightly)
    <2> SUFFICES ASSUME Inv, AtRest, NEW e \in {"video", "audio"}, NEW i \in Slot
                 PROVE  Writers(e, i) = Wanted(e, i)
      BY DEF Rightly, Generated
    <2> DEFINE g == <<e, i>>
    <2>1. g \in Generated /\ sim[g] = (gen[g] /\ ~live[g]) /\ gen[g] \in BOOLEAN
      BY DEF Generated, AtRest, SubType, TypeOK
    <2>2. file[g] # None => Kind(e, file[g])
      BY DEF FileInv, Essence
    <2>3. (file[g] = None => ~Kind(e, file[g])) /\ e \in {"video", "audio"}
      BY DEF Kind, IsVideo, IsAudio, None
    <2>4. Served(running, e, i) <=> Kind(e, file[g]) /\ ~gen[g]
      BY RestServes DEF Kind, Heard, AudioHeard
    <2>5. live[g] <=> Kind(e, file[g]) /\ ~gen[g]
      BY RestServes DEF Kind, Heard, AudioHeard
    <2>6. CASE gen[g]
      BY <2>1, <2>4, <2>5, <2>6 DEF Writers, Wanted, Served
    <2>7. CASE ~gen[g]
      BY <2>1, <2>2, <2>3, <2>4, <2>7 DEF Writers, Wanted, Served
    <2> QED
      BY <2>6, <2>7
  <1> QED
    BY <1>1, <1>2, <1>3, PTL DEF Spec

\* The rate of a slot that is heard is that of the document that leads its address.
LEMMA RateOfSlot ==
  ASSUME NEW i \in Slot, Heard(i), \A j \in Group(i) : ParseRate(file[<<"video", j>>]) = ParseRate(file[<<"video", i>>])
  PROVE  SlotRate(VideoPlan({}), i) = ParseRate(file[<<"video", i>>])
  <1> DEFINE V == VideoPlan({})
  <1>1. PICK l \in Group(i) : Leads(l) /\ l \in Slot /\ i \in Group(l)
    BY GroupLed
  <1> DEFINE s == VideoSession(rnode, file[<<"video", l>>], Group(l), IfaceOf(rnode, l, pin[l]))
  <1>2. s \in V /\ i \in s.slots
    BY <1>1, SessionSlots DEF VideoPlan
  <1>3. s.fps = ParseRate(file[<<"video", l>>])
    BY DEF VideoSession
  <1>4. s.fps = ParseRate(file[<<"video", i>>])
    BY <1>1, <1>3
  <1> HIDE DEF s
  <1>5. \A r \in V : i \in r.slots => r = s
    BY <1>2, OneServer
  <1> HIDE DEF V
  <1>6. SlotRate(V, i) = s.fps
    BY <1>2, <1>5 DEF SlotRate
  <1> QED
    BY <1>4, <1>6 DEF V

\* At rest the ancillary data of a slot whose video is received keep the rate of
\* that video, if the documents on its address agree on it: what is left of the
\* comment of _anc_session once the generator and the watchdog are set apart.
THEOREM RateKept ==
  Spec => [](AtRest =>
    \A s \in plan : s.kind = "data" => \A i \in s.slots :
      Heard(i) /\ (\A j \in Group(i) : ParseRate(file[<<"video", j>>]) = ParseRate(file[<<"video", i>>]))
        => s.fps = ParseRate(file[<<"video", i>>]))
  <1> DEFINE Agree(i) == \A j \in Group(i) : ParseRate(file[<<"video", j>>]) = ParseRate(file[<<"video", i>>])
             Kept == AtRest => \A s \in plan : s.kind = "data" => \A i \in s.slots :
                       Heard(i) /\ Agree(i) => s.fps = ParseRate(file[<<"video", i>>])
  <1>1. SubType => Kept
    <2> SUFFICES ASSUME SubType, AtRest, NEW s \in plan, s.kind = "data", NEW i \in s.slots, Heard(i), Agree(i)
                 PROVE  s.fps = ParseRate(file[<<"video", i>>])
      OBVIOUS
    <2> DEFINE V == VideoPlan({})
    <2>1. s \in V \cup AudioPlan \cup AncPlan(V)
      BY DEF AtRest
    <2>2. s \notin V
      <3> SUFFICES ASSUME s \in V PROVE FALSE
        OBVIOUS
      <3>1. PICK k \in Slot : s = VideoSession(rnode, file[<<"video", k>>], Group(k), IfaceOf(rnode, k, pin[k]))
        BY DEF VideoPlan
      <3> QED
        BY <3>1, SessionSlots
    <2>3. s \notin AudioPlan
      <3> SUFFICES ASSUME s \in AudioPlan PROVE FALSE
        OBVIOUS
      <3>1. PICK k \in Slot : s = AudioSession(rnode, file[<<"audio", k>>], k, IfaceOf(rnode, k, pin[k]))
        BY DEF AudioPlan
      <3> QED
        BY <3>1, SessionSlots
    <2>4. PICK k \in Slot :
            s = AncSession(rnode, file[<<"data", k>>], k, IfaceOf(rnode, k, pin[k]), SlotRate(V, k))
      BY <2>1, <2>2, <2>3 DEF AncPlan
    <2>5. s.fps = SlotRate(V, k) /\ s.slots = {k}
      BY <2>4 DEF AncSession
    <2>6. k = i
      BY <2>5
    <2> QED
      BY <2>5, <2>6, RateOfSlot
  <1> QED
    BY <1>1, SubTyped, PTL
=============================================================================
