--------------------------------- MODULE Sdp ---------------------------------
(***************************************************************************)
(* What an output announces and what is made of it: the SDP documents of   *)
(* docker/controller.py, built from the settings of a sender (_tx_sdp,     *)
(* _aud_sdp, _anc_sdp), read back by a receiver (_parse_sdp and its two    *)
(* sisters), and the sessions of mtl_rx that both ends make on their own   *)
(* (_tx_session ... _anc_session).                                         *)
(*                                                                         *)
(* An address is a multicast group with its port.  A document is the       *)
(* sequence of its media sections.  A rate is in hundredths of a frame per *)
(* second, as the code rounds it; a packet time is in microseconds.        *)
(***************************************************************************)
EXTENDS Integers, Sequences

CONSTANTS Iface,      \* IFACES: the sequence of the ports of the node
          PtimeDef    \* A_PTIME_DEF

NoAddr == "none"
NoPort == ""
Port == {Iface[k] : k \in DOMAIN Iface}
Profiles == {"narrow", "narrow_linear", "wide"}

(* The ports of a node: their pairs, those paced by the card, the classes  *)
(* that were asked for, "" where none was, and the ports of the primary    *)
(* network, over which the slots are spread; there is one at least.        *)
Node == [pair : [Port -> Port \cup {NoPort}], hw : [Port -> BOOLEAN],
         profile : [Port -> Profiles \cup {""}], auto : Seq(Port) \ {<<>>}]

ASSUME SdpAssumption ==
  /\ Iface \in Seq(STRING) /\ Iface # <<>> /\ NoPort \notin Port
  /\ PtimeDef \in {125, 250, 333, 1000, 4000}

-----------------------------------------------------------------------------
(* Ports                                                                   *)

AutoIface(node, i) == node.auto[1 + (i % Len(node.auto))]

(* _rx_iface, _tx_iface: the port a slot is pinned on, or its share.       *)
IfaceOf(node, i, pin) == IF pin \in Port THEN pin ELSE AutoIface(node, i)

PortProfile(node, p) == IF node.profile[p] = "" THEN "narrow" ELSE node.profile[p]

(* Without pacing by the card narrow is promised only if it was asked for. *)
PortProfileEffectif(node, p) ==
  IF node.hw[p] \/ node.profile[p] # "" THEN PortProfile(node, p) ELSE "wide"

(* _tp_sdp: no port given stands for the first one.                        *)
TpSdp(node, p) == PortProfileEffectif(node, IF p = NoPort THEN Iface[1] ELSE p)

(* _leg2: the legs of a session, the second on the paired port.            *)
Legs(node, p, a, a2) ==
  IF node.pair[p] # NoPort /\ a2 # NoAddr
  THEN <<[iface |-> p, addr |-> a], [iface |-> node.pair[p], addr |-> a2]>>
  ELSE <<[iface |-> p, addr |-> a]>>

(* Mutant: a slot that is not pinned is taken to leave by the first port.  *)
MutLegSips(node, i, t) ==
  LET p == IF t.pin = NoPort THEN Iface[1] ELSE t.pin IN
  <<p, IF node.pair[p] # NoPort THEN node.pair[p] ELSE p>>

(* _tx_leg_sips: the ports whose addresses the two sections carry.         *)
LegSips(node, i, t) ==
  LET p == IfaceOf(node, i, t.pin) IN
  <<p, IF node.pair[p] # NoPort THEN node.pair[p] ELSE p>>

-----------------------------------------------------------------------------
(* Rates and packet times                                                  *)

(* The rate of an interlaced flow is that of its frames.                   *)
FrameRate(fps, scan) == IF scan = "i" /\ fps > 3000 THEN fps \div 2 ELSE fps

(* _fps_str: exactframerate, as a fraction.                                *)
FpsStr(f) ==
  CASE f \in {2398, 2997, 5994} -> <<((f + 6) \div 100) * 1000, 1001>>
    [] f % 100 = 0              -> <<f \div 100, 1>>
    [] OTHER                    -> <<(f + 150) \div 100, 1001>>

(* The rates whose fraction says them to the hundredth: the table of        *)
(* _fps_str and the whole ones, up to sixty fields when interlaced.        *)
Sayable(fps, scan) ==
  /\ FrameRate(fps, scan) \in {2398, 2997, 5994} \/ FrameRate(fps, scan) % 100 = 0
  /\ scan = "i" => fps <= 6000 /\ (fps > 3000 => fps % 2 = 0)

(* Mutant: the rate of any flow above 30 is taken for that of its fields.  *)
MutParseFps(rate, scan) ==
  LET n == rate[1] * 100
      d == rate[2]
  IN
  IF n > 3000 * d THEN (n + d) \div (2 * d) ELSE (2 * n + d) \div (2 * d)

(* What a receiver makes of it, halved only then rounded.                  *)
ParseFps(rate, scan) ==
  LET n == rate[1] * 100
      d == rate[2]
  IN
  IF scan = "i" /\ n > 3000 * d THEN (n + d) \div (2 * d) ELSE (2 * n + d) \div (2 * d)

Near(v, p) == v - p < 10 /\ p - v < 10

(* _coerce_ptime, _tx_ptime: the first valid time within a hundredth.      *)
TxPtime(v) ==
  LET near == {p \in {125, 250, 333, 1000, 4000} : Near(v, p)} IN
  IF near = {} THEN PtimeDef ELSE CHOOSE p \in near : \A q \in near : p <= q

-----------------------------------------------------------------------------
(* What a sender announces                                                 *)

(* _tx: the settings of an output.                                         *)
Setting ==
  {t \in [v : STRING, v2 : STRING, a : STRING, a2 : STRING, d : STRING, d2 : STRING,
          pt : Nat, apt : Nat, dpt : Nat, size : STRING, fps : Nat \ {0}, scan : {"i", "p"},
          ptime : Nat, pin : Port \cup {NoPort}] : Sayable(t.fps, t.scan)}

(* The section of each address, the second when there is one.              *)
Sections(node, i, t, a, a2, body) ==
  LET sips == LegSips(node, i, t) IN
  IF a2 = NoAddr THEN <<[addr |-> a, sip |-> sips[1], body |-> body]>>
  ELSE <<[addr |-> a, sip |-> sips[1], body |-> body], [addr |-> a2, sip |-> sips[2], body |-> body]>>

TxSdp(node, i, t) ==
  Sections(node, i, t, t.v, t.v2,
    [media |-> "video", enc |-> "raw", pt |-> t.pt, size |-> t.size, scan |-> t.scan,
     rate |-> FpsStr(FrameRate(t.fps, t.scan)), tp |-> TpSdp(node, t.pin)])

AudSdp(node, i, t) ==
  Sections(node, i, t, t.a, t.a2,
    [media |-> "audio", enc |-> "L24", pt |-> t.apt, ptime |-> TxPtime(t.ptime)])

AncSdp(node, i, t) ==
  Sections(node, i, t, t.d, t.d2,
    [media |-> "video", enc |-> "smpte291", pt |-> t.dpt, tp |-> TpSdp(node, t.pin)])

-----------------------------------------------------------------------------
(* What a receiver reads                                                   *)

(* _sdp_leg2: the address of the second section.                           *)
SdpLeg2(s) == IF Len(s) < 2 THEN NoAddr ELSE s[2].addr

Info(s) == [addr |-> s[1].addr, addr2 |-> SdpLeg2(s), pt |-> s[1].body.pt]

(* An empty document, or one without the section looked for, is none.      *)
IsVideo(s) == s # <<>> /\ s[1].body.media = "video"
IsAudio(s) == s # <<>> /\ s[1].body.media = "audio"
IsAnc(s)   == IsVideo(s) /\ s[1].body.enc = "smpte291"

ParseSize(s) == s[1].body.size
ParseScan(s) == s[1].body.scan
ParseRate(s) == ParseFps(s[1].body.rate, s[1].body.scan)
ParsePtime(s) == s[1].body.ptime

-----------------------------------------------------------------------------
(* The sessions of mtl_rx                                                  *)

(* _video_session: one flow for all the slots of a group.                  *)
VideoSession(node, s, slots, p) ==
  LET f == Info(s) IN
  [kind |-> "video", legs |-> Legs(node, p, f.addr, f.addr2), pt |-> f.pt, size |-> ParseSize(s),
   fps |-> ParseRate(s), scan |-> ParseScan(s), slots |-> slots]

AudioSession(node, s, i, p) ==
  LET f == Info(s) IN
  [kind |-> "audio", legs |-> Legs(node, p, f.addr, f.addr2), pt |-> f.pt, ptime |-> ParsePtime(s),
   slots |-> {i}]

(* _anc_session: on the grid of the video of its slot.                     *)
AncSession(node, s, i, p, fps) ==
  LET f == Info(s) IN
  [kind |-> "data", legs |-> Legs(node, p, f.addr, f.addr2), pt |-> f.pt, fps |-> fps, slots |-> {i}]

TxSession(node, i, t) ==
  [kind |-> "video", legs |-> Legs(node, IfaceOf(node, i, t.pin), t.v, t.v2), pt |-> t.pt,
   size |-> t.size, fps |-> FrameRate(t.fps, t.scan), scan |-> t.scan]

AudioTxSession(node, i, t) ==
  [kind |-> "audio", legs |-> Legs(node, IfaceOf(node, i, t.pin), t.a, t.a2), pt |-> t.apt,
   ptime |-> TxPtime(t.ptime)]

AncTxSession(node, i, t) ==
  [kind |-> "data", legs |-> Legs(node, IfaceOf(node, i, t.pin), t.d, t.d2), pt |-> t.dpt, fps |-> t.fps]
=============================================================================
