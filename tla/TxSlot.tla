------------------------------- MODULE TxSlot -------------------------------
(***************************************************************************)
(* What one output of the engine emits.  The agent server and the control  *)
(* server of controller.py, one thread each, change the wiring, the        *)
(* generator, the fallback and the field test of the output, and after     *)
(* each change call _tx_gen_apply, which recomputes from them what the     *)
(* sender reads.  The state of the output is under _tx_lock and that of    *)
(* its generator under _tx_gen_lock; _tx_gen_apply takes and releases them *)
(* in turn, and every such section is a step here.                         *)
(*                                                                         *)
(* The manager turns the output into a session, the generator thread draws *)
(* in its flow, and the sender reads that flow, the wired source or the    *)
(* still frame in a file (TxContent).                                      *)
(***************************************************************************)
EXTENDS Naturals

CONSTANTS
  Source,       \* what the output may be wired to
  Still,        \* patterns that do not move
  Moving,       \* patterns that do (_TXGEN_MOTIFS_DYNAMIQUES), the field test among them
  Push,         \* what a /tx may carry, {} where a field is not in its body
  MaxRequests   \* bound: requests of the run

None == "none"
Gen == "txgen"
Test == "field_test"
Black == "black"
Bars == "bars"
Pattern == Still \cup Moving
Server == {"agent", "control"}
Scan == {"p", "i"}

ASSUME SlotAssumption ==
  /\ Test \in Moving /\ Still \cap Moving = {}
  /\ Source \cap (Pattern \cup {None, Gen}) = {}
  /\ {None, Gen} \cap Pattern = {} /\ {Black, Bars} \subseteq Still
  /\ Push \subseteq [enabled : BOOLEAN, provisioned : SUBSET BOOLEAN, shmIn : SUBSET (Source \cup {None}),
                     scan : SUBSET Scan, other : SUBSET BOOLEAN, user : SUBSET BOOLEAN,
                     pattern : SUBSET Pattern, label : BOOLEAN, fallback : SUBSET (Still \cup {None})]
  /\ MaxRequests \in Nat

VARIABLES
  active,       \* the output is within the budget of senders (ACTIVE_TX_C)
  provisioned,  \* provisioned: its session exists whatever it emits
  cable,     \* cable_shm
  scan,      \* scan
  fallback,  \* fallback_mode
  other,     \* an audio or an ancillary source is wired
  shmIn,     \* shm_in, what the sender reads
  enabled,   \* enabled
  user,      \* user_enabled of the generator
  pattern,   \* pattern of the generator
  genOn,     \* enabled of the generator
  saved,     \* _fieldtest_saved: {} or {the wiring to restore}
  file,      \* the still frame in the file
  at,        \* where each server is
  got,       \* what the server has read of the output, and what it does after publishing
  session,   \* the session of the manager: {} or {what it reads}
  playing,   \* what the generator thread draws in its flow
  alone,     \* history: no other request ran during the last one that recomputed
             \* the output, nor during those since
  requests

slotVars == <<active>>
inputVars == <<provisioned, cable, scan, fallback, other, user, saved, requests>>
outputVars == <<shmIn, enabled, genOn>>
airVars == <<session, playing>>
restVars == <<slotVars, outputVars, airVars, file>>
vars == <<slotVars, inputVars, outputVars, airVars, pattern, file, at, got, alone>>

Read == [cable : Source \cup {None}, scan : Scan, fallback : Still \cup {None},
         user : BOOLEAN, motif : Pattern, then : {"idle", "txFallback"}, push : SUBSET Push]

\* A server between two requests.
Nothing ==
  [cable |-> None, scan |-> "p", fallback |-> None, user |-> FALSE, motif |-> Black,
   then |-> "idle", push |-> {}]

Places ==
  {"idle", "testGen", "txUser", "txPattern", "txFallback", "readTx", "readGen",
   "capTx", "capGen", "wireTx", "wireGen", "fillGen", "askTx", "askGen", "stillTx", "stillGen",
   "moveTx", "dropTx", "dropGen", "pubTx", "pubGen", "remove", "render", "put"}

TypeOK ==
  /\ {active, provisioned} \subseteq BOOLEAN
  /\ cable \in Source \cup {None}
  /\ scan \in Scan /\ fallback \in Still \cup {None}
  /\ shmIn \in Source \cup {None, Gen}
  /\ {other, enabled, user, genOn} \subseteq BOOLEAN
  /\ pattern \in Pattern
  /\ saved \in SUBSET ((Source \cup {None}) \X Scan)
  /\ file \in Pattern \cup {None}
  /\ playing \in Pattern \cup {None}
  /\ session \in SUBSET (Source \cup {None, Gen})
  /\ at \in [Server -> Places]
  /\ got \in [Server -> Read]
  /\ requests \in 0..MaxRequests /\ alone \in BOOLEAN

Init ==
  /\ active \in BOOLEAN /\ provisioned = FALSE
  /\ cable = None /\ scan = "p"
  /\ fallback = Black
  /\ shmIn = None /\ enabled = FALSE /\ other = FALSE
  /\ user = FALSE /\ pattern = Bars /\ genOn = FALSE
  /\ saved = {} /\ file = None /\ playing = None /\ session = {}
  /\ at = [x \in Server |-> "idle"]
  /\ got = [x \in Server |-> Nothing]
  /\ requests = 0 /\ alone = FALSE

-----------------------------------------------------------------------------
(* The requests.  A server answers them one at a time; nothing keeps one   *)
(* of the agent server and one of the control server apart.                *)

Idle == \A x \in Server : at[x] = "idle"
To(x, place) == at' = [at EXCEPT ![x] = place]

Begin(x, place) ==
  /\ at[x] = "idle" /\ requests < MaxRequests
  /\ requests' = requests + 1
  /\ alone' = (Idle /\ (alone \/ place # "pubTx"))
  /\ To(x, place)

\* /input: the output is wired to a video source, or to none.
Input(s, sc) ==
  /\ Begin("control", "readTx")
  /\ cable' = s /\ scan' = sc
  /\ UNCHANGED <<provisioned, fallback, other, user, saved, pattern, got, restVars>>

\* /input for audio or ancillary data.
InputOther(on) ==
  /\ Begin("control", "readTx")
  /\ other' = on
  /\ UNCHANGED <<provisioned, cable, scan, fallback, user, saved, pattern, got, restVars>>

\* /gen_tx: the generator on or off, its pattern perhaps.
GenTx(on, p) ==
  /\ Begin("control", "readTx")
  /\ user' = on /\ pattern' = p
  /\ UNCHANGED <<provisioned, cable, scan, fallback, other, saved, got, restVars>>

\* /ident_tx: the still frame is drawn again, with or without the label.
Ident ==
  /\ Begin("control", "pubTx")
  /\ UNCHANGED <<provisioned, cable, scan, fallback, other, user, saved, pattern>>
  /\ UNCHANGED <<got, restVars>>

\* /fieldtest: the wiring is kept aside and the test pattern takes its place.
TestOn ==
  /\ Begin("control", "testGen")
  /\ saved' = IF saved = {} THEN {<<cable, scan>>} ELSE saved
  /\ cable' = None /\ scan' = "i"
  /\ got' = [got EXCEPT !["control"].user = TRUE]
  /\ UNCHANGED <<provisioned, fallback, other, user, pattern, restVars>>

\* ... and back, over a wiring made since.
TestOff ==
  /\ Begin("control", "testGen")
  /\ saved' = {}
  /\ \/ saved = {} /\ UNCHANGED <<cable, scan>>
     \/ \E s \in saved : cable' = s[1] /\ scan' = s[2]
  /\ got' = [got EXCEPT !["control"].user = FALSE]
  /\ UNCHANGED <<provisioned, fallback, other, user, pattern, restVars>>

TestGen ==
  /\ at["control"] = "testGen"
  /\ user' = got["control"].user
  /\ pattern' = IF user' THEN Test ELSE pattern
  /\ To("control", "readTx")
  /\ UNCHANGED <<provisioned, cable, scan, fallback, other, saved, requests, got, alone, restVars>>

\* What a field becomes: what the body gives for it, or what it was.
Given(field, old) == IF field = {} THEN {old} ELSE field

\* /tx: the orchestrator pushes the output again, first what is under _tx_lock.
Tx(p) ==
  /\ Begin("agent", "txUser")
  /\ enabled' = p.enabled /\ shmIn' \in Given(p.shmIn, shmIn)
  /\ provisioned' \in Given(p.provisioned, provisioned)
  /\ scan' \in Given(p.scan, scan) /\ other' \in Given(p.other, other)
  /\ got' = [got EXCEPT !["agent"].push = {p}]
  /\ UNCHANGED <<cable, fallback, user, saved, slotVars, genOn, airVars, pattern, file>>

TxUser ==
  /\ at["agent"] = "txUser"
  /\ \E p \in got["agent"].push : user' \in Given(p.user, user)
  /\ To("agent", "txPattern")
  /\ UNCHANGED <<provisioned, cable, scan, fallback, other, saved, requests, pattern>>
  /\ UNCHANGED <<got, alone, restVars>>

\* With a label, the still frame is published before the rest of the request.
TxPattern ==
  /\ at["agent"] = "txPattern"
  /\ \E p \in got["agent"].push :
       /\ pattern' \in Given(p.pattern, pattern)
       /\ \/ ~p.label /\ To("agent", "txFallback") /\ got' = got
          \/ p.label /\ To("agent", "pubTx") /\ got' = [got EXCEPT !["agent"].then = "txFallback"]
  /\ UNCHANGED <<inputVars, alone, restVars>>

TxFallback ==
  /\ at["agent"] = "txFallback"
  /\ \E p \in got["agent"].push : fallback' \in Given(p.fallback, fallback)
  /\ To("agent", "readTx") /\ got' = [got EXCEPT !["agent"].push = {}]
  /\ UNCHANGED <<provisioned, cable, scan, other, user, saved, requests, pattern>>
  /\ UNCHANGED <<alone, restVars>>

Request ==
  \/ \E s \in Source \cup {None}, sc \in Scan : Input(s, sc)
  \/ \E on \in BOOLEAN : InputOther(on)
  \/ \E on \in BOOLEAN, p \in Pattern : GenTx(on, p)
  \/ TestOn \/ TestOff \/ Ident
  \/ \E p \in Push : Tx(p)

-----------------------------------------------------------------------------
(* _tx_gen_apply, section by section.                                      *)

\* The wiring and the fallback, under _tx_lock.
ReadTx(x) ==
  /\ at[x] = "readTx"
  /\ \/ ~active /\ To(x, "capTx") /\ UNCHANGED got
     \/ /\ active /\ To(x, "readGen")
        /\ got' = [got EXCEPT ![x].cable = cable, ![x].fallback = fallback]
  /\ UNCHANGED <<slotVars, inputVars, outputVars, airVars, pattern, file, alone>>

\* Mutant: the generator goes before the wiring.
MutReadGen(x) ==
  /\ at[x] = "readGen"
  /\ got' = [got EXCEPT ![x].user = user]
  /\ To(x, IF user THEN "fillGen" ELSE IF got[x].cable # None THEN "wireTx"
           ELSE IF got[x].fallback # None THEN "fillGen" ELSE "dropTx")
  /\ UNCHANGED <<slotVars, inputVars, outputVars, airVars, pattern, file, alone>>

\* The operator's generator, under _tx_gen_lock, and the priority: wiring,
\* generator, fallback, nothing.
ReadGen(x) ==
  /\ at[x] = "readGen"
  /\ got' = [got EXCEPT ![x].user = user]
  /\ To(x, IF got[x].cable # None THEN "wireTx"
           ELSE IF user \/ got[x].fallback # None THEN "fillGen" ELSE "dropTx")
  /\ UNCHANGED <<slotVars, inputVars, outputVars, airVars, pattern, file, alone>>

\* A section that writes the output under _tx_lock.
Write(x, from, to, shm, on) ==
  /\ at[x] = from
  /\ shmIn' = shm /\ enabled' = on
  /\ To(x, to)
  /\ UNCHANGED <<slotVars, inputVars, genOn, airVars, pattern, file, got, alone>>

\* A section that switches the generator thread under _tx_gen_lock.
Switch(x, from, to, on) ==
  /\ at[x] = from
  /\ genOn' = on
  /\ To(x, to)
  /\ UNCHANGED <<slotVars, inputVars, shmIn, enabled, airVars, pattern, file, got, alone>>

\* The output has no picture to give; audio and ancillary data keep it enabled.
Drop(x) ==
  \/ Write(x, "dropTx", "dropGen", None, other)
  \/ Switch(x, "dropGen", "pubTx", FALSE)

\* Over the budget, nothing is emitted.
Cap(x) ==
  \/ Write(x, "capTx", "capGen", None, FALSE)
  \/ Switch(x, "capGen", "pubTx", FALSE)

Wire(x) ==
  \/ Write(x, "wireTx", "wireGen", got[x].cable, TRUE)
  \/ Switch(x, "wireGen", "pubTx", FALSE)

\* Mutant: the fallback takes whatever pattern the generator had.
MutFill(x) ==
  /\ at[x] = "fillGen"
  /\ genOn' = TRUE /\ pattern' = pattern
  /\ To(x, "askTx")
  /\ UNCHANGED <<slotVars, inputVars, shmIn, enabled, airVars, file, got, alone>>

\* The fallback imposes its pattern on the generator.
Fill(x) ==
  /\ at[x] = "fillGen"
  /\ genOn' = TRUE
  /\ pattern' = IF got[x].user THEN pattern ELSE got[x].fallback
  /\ To(x, "askTx")
  /\ UNCHANGED <<slotVars, inputVars, shmIn, enabled, airVars, file, got, alone>>

\* A still frame needs no producer; a pattern that moves has the generator.
FillOut(x) ==
  \/ Write(x, "stillTx", "stillGen", None, TRUE)
  \/ Switch(x, "stillGen", "pubTx", FALSE)
  \/ Write(x, "moveTx", "pubTx", Gen, TRUE)

\* _tx_static_applicable: whether a still frame will do, asked once by
\* _tx_gen_apply and once by _publier_trame_statique.
AskTx(x, from, to) ==
  /\ at[x] = from
  /\ got' = [got EXCEPT ![x].cable = cable, ![x].scan = scan, ![x].fallback = fallback]
  /\ To(x, to)
  /\ UNCHANGED <<slotVars, inputVars, outputVars, airVars, pattern, file, alone>>

Applicable(r, u, p) ==
  /\ active /\ r.cable = None /\ r.scan = "p"
  /\ u \/ r.fallback # None
  /\ (IF u THEN p ELSE r.fallback) \notin Moving

AskGen(x, from, yes, no) ==
  /\ at[x] = from
  /\ To(x, IF Applicable(got[x], user, pattern) THEN yes ELSE no)
  /\ UNCHANGED <<slotVars, inputVars, outputVars, airVars, pattern, file, got, alone>>

Ask(x) ==
  \/ AskTx(x, "askTx", "askGen") \/ AskGen(x, "askGen", "stillTx", "moveTx")
  \/ AskTx(x, "pubTx", "pubGen") \/ AskGen(x, "pubGen", "render", "remove")

\* _publier_trame_statique: the file is removed, or its pattern read under
\* _tx_gen_lock, drawn and put in place by a rename.
Remove(x) ==
  /\ at[x] = "remove"
  /\ file' = None
  /\ To(x, got[x].then) /\ got' = [got EXCEPT ![x] = [Nothing EXCEPT !.push = got[x].push]]
  /\ UNCHANGED <<slotVars, inputVars, outputVars, airVars, pattern, alone>>

Render(x) ==
  /\ at[x] = "render"
  /\ got' = [got EXCEPT ![x].motif = pattern]
  /\ To(x, "put")
  /\ UNCHANGED <<slotVars, inputVars, outputVars, airVars, pattern, file, alone>>

Put(x) ==
  /\ at[x] = "put"
  /\ file' = got[x].motif
  /\ To(x, got[x].then) /\ got' = [got EXCEPT ![x] = [Nothing EXCEPT !.push = got[x].push]]
  /\ UNCHANGED <<slotVars, inputVars, outputVars, airVars, pattern, alone>>

Apply(x) ==
  \/ ReadTx(x) \/ ReadGen(x) \/ Cap(x) \/ Wire(x) \/ Fill(x) \/ FillOut(x) \/ Drop(x)
  \/ Ask(x) \/ Remove(x) \/ Render(x) \/ Put(x)

Handler ==
  \/ TestGen \/ TxUser \/ TxPattern \/ TxFallback
  \/ \E x \in Server : Apply(x)

-----------------------------------------------------------------------------
(* What comes of it.                                                       *)

\* Mutant: a provisioned output without anything to read has no session.
MutManager ==
  /\ session' = IF active /\ (provisioned \/ enabled) /\ shmIn # None THEN {shmIn} ELSE {}
  /\ UNCHANGED <<slotVars, inputVars, outputVars, playing, pattern, file, at, got, alone>>

\* The turn of the manager: a session for a provisioned output, or for one that
\* is enabled and has something to read.
Manager ==
  /\ session' = IF active /\ (provisioned \/ (enabled /\ shmIn # None)) THEN {shmIn} ELSE {}
  /\ UNCHANGED <<slotVars, inputVars, outputVars, playing, pattern, file, at, got, alone>>

\* The generator thread draws while it is on.
Generator ==
  /\ playing' = IF genOn THEN pattern ELSE None
  /\ UNCHANGED <<slotVars, inputVars, outputVars, session, pattern, file, at, got, alone>>

Next == Request \/ Handler \/ Manager \/ Generator

Spec == Init /\ [][Next]_vars

\* The servers finish what they began; the manager and the generator are loops.
FairSpec ==
  Spec /\ WF_vars(Manager) /\ WF_vars(Generator)
       /\ WF_vars(TestGen) /\ WF_vars(TxUser) /\ WF_vars(TxPattern) /\ WF_vars(TxFallback)
       /\ \A x \in Server : WF_vars(Apply(x))

-----------------------------------------------------------------------------
(* Properties.                                                             *)

\* "cablage reel > gen > fallback > rien" (_tx_gen_apply): what the output is to
\* show.
Promise ==
  CASE ~active -> None
    [] active /\ cable # None -> cable
    [] active /\ cable = None /\ user -> pattern
    [] active /\ cable = None /\ ~user -> fallback

\* What the sender shows.
OnAir == IF \E s \in session : s = Gen THEN playing
         ELSE IF \E s \in session : s \in Source THEN CHOOSE s \in session : TRUE
         ELSE IF session = {} THEN None ELSE file

\* A recomputation that no other request overlapped puts the output right, whatever
\* overlapping requests made of it before: once the servers are at rest, the sender
\* reads the wired source, the generator with its thread on, or the still frame in
\* the file; and there is neither a file nor a generator that should not be.
Settled ==
  Idle /\ alone =>
    LET moves == Promise \in Moving \/ (Promise \in Still /\ scan = "i")
    IN /\ shmIn = IF Promise \in Source THEN Promise ELSE IF moves THEN Gen ELSE None
       /\ genOn = moves
       /\ genOn => pattern = Promise
       /\ file = IF Promise \in Still /\ ~moves THEN Promise ELSE None
       /\ enabled = (active /\ (Promise # None \/ other))

\* The first of the priorities alone: at rest, a wired output reads its wiring.
WiredIsRead == Idle /\ active /\ cable # None => shmIn = cable

\* "cablage prime toujours sur gen" (/input): nothing but another wiring, the
\* field test or a /tx that names shm_in takes a wired source that is on the
\* output away from it; no recomputation does, when no request overlaps it.
WiringHolds ==
  [][\A s \in Source :
       alone /\ active /\ shmIn = s /\ cable = s /\ cable' = s /\ requests' = requests =>
         shmIn' = s]_vars

\* Whatever the requests, once one that recomputes the output has run alone the
\* output comes to show what it is to show.
ComesOnAir == <>[](provisioned /\ Idle /\ alone) => <>[](OnAir = Promise)
=============================================================================
