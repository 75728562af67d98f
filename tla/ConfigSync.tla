------------------------------ MODULE ConfigSync ------------------------------
(***************************************************************************)
(* How the senders an operator asks for reach the wire: the manager thread *)
(* of controller.py computes the sessions, rewrites the configuration file *)
(* and keeps the mtl_rx daemon alive; the daemon polls the date of the     *)
(* file and reconciles its live sessions with it.  The two share nothing   *)
(* but that file, which is rewritten in place, and the exit of the daemon. *)
(* The transmit queues are reserved once, when the daemon starts: a demand *)
(* above the reserve makes the manager start it again.                     *)
(***************************************************************************)
EXTENDS Integers, FiniteSets

CONSTANTS
  S,           \* sender slots of the node, in the order they are emitted
  Source,      \* what a slot may be wired to
  Always,      \* slots that may be wired all along
  Cap,         \* sessions the rate limiter of the card can carry (RL_TX_QUEUES_CAP)
  Floor,       \* queues reserved whatever the demand (active budget of the port)
  Headroom,    \* queues reserved above the demand
  KeepClock,   \* an engine without sessions still starts the daemon, for its clock
  MaxChanges,  \* bound: changes an operator makes
  MaxCrashes   \* bound: exits of the daemon nobody asked for

Slot == 0..(S - 1)
Off == "off"

ASSUME ConfigAssumption ==
  /\ S \in Nat \ {0} /\ Cap \in Nat \ {0} /\ Floor \in Nat /\ Headroom \in Nat
  /\ Off \notin Source /\ Source # {}
  /\ Always \subseteq Slot
  /\ \A s \in Always : s < Cap
  /\ KeepClock \in BOOLEAN
  /\ MaxChanges \in Nat /\ MaxCrashes \in Nat

VARIABLES
  want,      \* what the slots are wired to (_tx, under _tx_lock)
  mpc,       \* where the manager is in its loop
  plan,      \* the sessions of this turn
  sig,       \* _cur_sig: {} before the first write, {the sessions last written} after
  alloc,     \* _tx_queues_alloc, as last written
  reserved,  \* _ports_reserved: what the manager believes the daemon reserved
  settled,   \* the file has not changed for _RELAUNCH_SETTLE_S
  child,     \* _mtl_proc is not None
  file,      \* the file: its sessions and queues, not readable while it is written
  seen,      \* the date of the file is cfg_mt
  dpc,       \* where the daemon is
  queues,    \* the transmit queues it gave to mtl_init
  target,    \* the sessions it is reconciling to
  live,      \* reg: its sessions and the source of each
  always,    \* the slots that are wired all along
  crossed,   \* history: a write fell within the start of this daemon, before it
             \* took its queues ("queues") or after, before it took the date
             \* of the file ("date", until a later write is seen)
  changes, crashes

managerVars == <<mpc, plan, sig, alloc, reserved, settled, child>>
daemonVars == <<dpc, queues, target, live>>
vars == <<want, managerVars, file, seen, daemonVars, always, crossed, changes, crashes>>

Config == [Slot -> Source \cup {Off}]
Empty == [s \in Slot |-> Off]
Torn == [ok |-> FALSE, sessions |-> Empty, queues |-> 0]
Size(c) == Cardinality({s \in Slot : c[s] # Off})
Larger(a, b) == IF a > b THEN a ELSE b
Smaller(a, b) == IF a < b THEN a ELSE b

\* Mutant: the sessions beyond the capacity of the card are written all the same.
MutEmitted(c) == c

\* _emit_tx: the sessions beyond the capacity of the card are dropped.
Emitted(c) ==
  [s \in Slot |-> IF Cardinality({j \in Slot : j < s /\ c[j] # Off}) < Cap THEN c[s] ELSE Off]

\* The queues a configuration reserves.
Reserve(c) == Larger(1, Smaller(Larger(Size(c), Floor) + Headroom, Cap))

TypeOK ==
  /\ want \in Config /\ plan \in Config /\ sig \in SUBSET Config
  /\ mpc \in {"plan", "truncate", "dump", "stamp", "life"}
  /\ alloc \in Nat /\ reserved \in Nat /\ queues \in Nat
  /\ settled \in BOOLEAN /\ child \in BOOLEAN /\ seen \in BOOLEAN
  /\ file \in [ok : BOOLEAN, sessions : Config, queues : Nat]
  /\ dpc \in {"off", "boot", "read0", "free0", "create0", "stat0",
              "poll", "read", "free", "create"}
  /\ target \in Config /\ live \in Config
  /\ always \in SUBSET Always /\ crossed \subseteq {"queues", "date"}
  /\ changes \in 0..MaxChanges /\ crashes \in 0..MaxCrashes

Init ==
  /\ always \in SUBSET Always
  /\ want \in {c \in Config : \A s \in always : c[s] # Off}
  /\ mpc = "plan" /\ plan = Empty /\ sig = {}
  /\ alloc = 0 /\ reserved = 0 /\ settled = FALSE /\ child = FALSE
  /\ file = Torn /\ seen = FALSE
  /\ dpc = "off" /\ queues = 0 /\ target = Empty /\ live = Empty
  /\ crossed = {} /\ changes = 0 /\ crashes = 0

\* An operator wires, unwires or rewires a slot.
Change ==
  /\ changes < MaxChanges
  /\ \E s \in Slot :
       \E w \in (IF s \in always THEN Source ELSE Source \cup {Off}) \ {want[s]} :
         want' = [want EXCEPT ![s] = w]
  /\ changes' = changes + 1
  /\ UNCHANGED <<managerVars, file, seen, daemonVars, always, crossed, crashes>>

-----------------------------------------------------------------------------
(* The manager.                                                            *)

\* What a write of the file falls within, of the start of the daemon.
Starting ==
  CASE dpc = "boot" -> {"queues"}
    [] dpc \in {"read0", "free0", "create0", "stat0"} -> {"date"}
    [] OTHER -> {}

Plan ==
  /\ mpc = "plan"
  /\ plan' = Emitted(want)
  /\ mpc' = IF plan' \notin sig THEN "truncate" ELSE "life"
  /\ UNCHANGED <<want, sig, alloc, reserved, settled, child, file, seen, daemonVars>>
  /\ UNCHANGED <<always, crossed, changes, crashes>>

\* _write_config: open(.., "w") empties the file in place...
Truncate ==
  /\ mpc = "truncate"
  /\ alloc' = Reserve(plan)
  /\ file' = Torn /\ seen' = FALSE
  /\ mpc' = "dump" /\ crossed' = crossed \cup Starting
  /\ UNCHANGED <<want, plan, sig, reserved, settled, child, daemonVars, always, changes, crashes>>

\* ... json.dump fills it...
Dump ==
  /\ mpc = "dump"
  /\ file' = [ok |-> TRUE, sessions |-> plan, queues |-> alloc] /\ seen' = FALSE
  /\ mpc' = "stamp" /\ crossed' = crossed \cup Starting
  /\ UNCHANGED <<want, plan, sig, alloc, reserved, settled, child, daemonVars>>
  /\ UNCHANGED <<always, changes, crashes>>

\* ... and os.utime gives it a date of its own.
Stamp ==
  /\ mpc = "stamp"
  /\ seen' = FALSE
  /\ sig' = {plan} /\ settled' = FALSE
  /\ mpc' = "life" /\ crossed' = crossed \cup Starting
  /\ UNCHANGED <<want, plan, alloc, reserved, child, file, daemonVars, always, changes, crashes>>

\* _RELAUNCH_SETTLE_S have passed since the last change.
Settle ==
  /\ ~settled
  /\ settled' = TRUE
  /\ UNCHANGED <<want, mpc, plan, sig, alloc, reserved, child, file, seen, daemonVars>>
  /\ UNCHANGED <<always, crossed, changes, crashes>>

\* _launch_mtl: end the daemon that may still run, start another.
Launch ==
  /\ child' = TRUE /\ reserved' = alloc
  /\ dpc' = "boot" /\ queues' = 0 /\ target' = Empty /\ live' = Empty /\ seen' = FALSE
  /\ crossed' = {}
  /\ UNCHANGED <<want, plan, sig, alloc, settled, file, always, changes, crashes>>

Dead == child /\ dpc = "off"

Needed == plan # Empty \/ KeepClock

\* Mutant: the demand is compared with what was written last.
MutOverBudget == child /\ ~Dead /\ reserved > 0 /\ Size(plan) > alloc

\* _ports_need_relaunch.
OverBudget == child /\ ~Dead /\ reserved > 0 /\ Size(plan) > reserved

\* The first launch, and the one after a crash.
LifeLaunch ==
  /\ mpc = "life" /\ (~child \/ Dead) /\ Needed
  /\ Launch /\ mpc' = "plan"

\* The queues are too few: start the daemon again for a larger reserve.
LifeBudget ==
  /\ mpc = "life" /\ OverBudget /\ settled /\ plan # Empty
  /\ Launch /\ mpc' = "plan"

\* The daemon died and there is nothing to serve: forget it.
LifeForget ==
  /\ mpc = "life" /\ Dead /\ ~Needed
  /\ child' = FALSE /\ mpc' = "plan"
  /\ UNCHANGED <<want, plan, sig, alloc, reserved, settled, file, seen, daemonVars>>
  /\ UNCHANGED <<always, crossed, changes, crashes>>

LifeIdle ==
  /\ mpc = "life"
  /\ IF child THEN ~Dead /\ ~(OverBudget /\ settled /\ plan # Empty) ELSE ~Needed
  /\ mpc' = "plan"
  /\ UNCHANGED <<want, plan, sig, alloc, reserved, settled, child, file, seen, daemonVars>>
  /\ UNCHANGED <<always, crossed, changes, crashes>>

Manager ==
  \/ Plan \/ Truncate \/ Dump \/ Stamp
  \/ LifeLaunch \/ LifeBudget \/ LifeForget \/ LifeIdle

-----------------------------------------------------------------------------
(* The daemon.                                                             *)

Stay == UNCHANGED <<want, managerVars, always, crossed, changes, crashes>>

\* main: read the ports, then mtl_init; a file that cannot be read ends it.
Boot ==
  /\ dpc = "boot"
  /\ IF file.ok
     THEN dpc' = "read0" /\ queues' = file.queues
     ELSE dpc' = "off" /\ queues' = queues
  /\ Stay /\ UNCHANGED <<file, seen, target, live>>

\* Mutant: a file that cannot be read counts as one without sessions.
MutRead(pc, none, next) ==
  /\ dpc = pc
  /\ dpc' = next /\ target' = file.sessions
  /\ Stay /\ UNCHANGED <<file, seen, queues, live>>

\* reconcile: a file that cannot be read changes nothing.
Read(pc, none, next) ==
  /\ dpc = pc
  /\ IF file.ok
     THEN dpc' = next /\ target' = file.sessions
     ELSE dpc' = none /\ target' = target
  /\ Stay /\ UNCHANGED <<file, seen, queues, live>>

\* Mutant: a live session keeps the source it has.
MutMatch(pc, next) ==
  /\ dpc = pc /\ dpc' = next
  /\ live' = [s \in Slot |-> IF target[s] # Off THEN live[s] ELSE Off]
  /\ Stay /\ UNCHANGED <<file, seen, queues, target>>

\* reconcile, passes 1 and 2: a live session that stays gets its source, the
\* others are freed.
Match(pc, next) ==
  /\ dpc = pc /\ dpc' = next
  /\ live' = [s \in Slot |-> IF live[s] # Off THEN target[s] ELSE Off]
  /\ Stay /\ UNCHANGED <<file, seen, queues, target>>

Missing == {s \in Slot : target[s] # Off /\ live[s] = Off}

\* reconcile, pass 3: create the sessions that are missing, one by one.
Create(pc, next) ==
  /\ dpc = pc
  /\ \/ /\ \E s \in Missing : live' = [live EXCEPT ![s] = target[s]]
        /\ dpc' = pc
     \/ Missing = {} /\ dpc' = next /\ live' = live
  /\ Stay /\ UNCHANGED <<file, seen, queues, target>>

\* After the first reconcile, the date of the file is taken.
Stat0 ==
  /\ dpc = "stat0"
  /\ seen' = TRUE /\ dpc' = "poll"
  /\ Stay /\ UNCHANGED <<file, queues, target, live>>

\* The date of the file changed: remember it, then reconcile.
Poll ==
  /\ dpc = "poll" /\ ~seen
  /\ seen' = TRUE /\ dpc' = "read" /\ crossed' = crossed \ {"date"}
  /\ UNCHANGED <<want, managerVars, file, queues, target, live, always, changes, crashes>>

Daemon ==
  \/ Boot \/ Read("read0", "stat0", "free0") \/ Match("free0", "create0")
  \/ Create("create0", "stat0") \/ Stat0
  \/ Poll \/ Read("read", "poll", "free") \/ Match("free", "create") \/ Create("create", "poll")

\* The daemon exits: a crash, or the backstop on a transmit queue that died.
Crash ==
  /\ crashes < MaxCrashes /\ dpc # "off"
  /\ dpc' = "off" /\ live' = Empty
  /\ crashes' = crashes + 1
  /\ UNCHANGED <<want, managerVars, file, seen, queues, target, always, crossed, changes>>

Next == Change \/ Manager \/ Settle \/ Daemon \/ Crash

Spec == Init /\ [][Next]_vars

\* The manager thread, the daemon and the clock run.
FairSpec == Spec /\ WF_vars(Manager) /\ WF_vars(Daemon) /\ WF_vars(Settle)

-----------------------------------------------------------------------------
(* Properties.                                                             *)

\* Why: every copy of the configuration on its way to the daemon, and what the
\* daemon makes of it, holds the senders that are wired all along.
KeptInv ==
  \A s \in always :
    /\ want[s] # Off
    /\ mpc \in {"truncate", "dump", "stamp"} => plan[s] # Off
    /\ file.ok => file.sessions[s] # Off
    /\ dpc \in {"free0", "create0", "free", "create"} => target[s] # Off

\* Once the operator is done, the senders on the wire are those asked for, each
\* with its source, within the capacity of the card.
Converges == <>[](live = Emitted(want))

\* Whatever was written while a daemon started, and whenever it exited: once
\* the operator is done, the senders on the wire are those asked for, unless
\* the last write of the file fell within the start of the daemon.  A write
\* that such a start missed is made up for by the next one.
Catches == <>[](live = Emitted(want) \/ "date" \in crossed)

\* A sender that was asked for all along is never taken down by a rewrite of
\* the file: only a daemon that ends takes it down.
WantedStays ==
  [][\A s \in always : live[s] # Off => live'[s] # Off \/ dpc' \in {"off", "boot"}]_vars

\* The daemon is not started again for ever in search of queues.
RelaunchesStop == <>[][~LifeBudget]_vars

\* In the end there is a queue for every sender asked for, unless a write fell
\* between the launch of the daemon and its mtl_init: the manager then compares
\* the demand with a number of queues that is not the real one.
QueuesSuffice == <>[](Size(Emitted(want)) <= queues \/ "queues" \in crossed)
=============================================================================
