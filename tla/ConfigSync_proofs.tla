--------------------------- MODULE ConfigSync_proofs ---------------------------
(***************************************************************************)
(* For every number of slots, sources, capacity and reserve: the state     *)
(* keeps its type, a rewrite of the configuration never takes down a       *)
(* sender that is wired all along, the manager knows the queues the daemon *)
(* got, a restart for more of them gets enough, and a manager and a daemon *)
(* at rest agree with the operator (ConfigSync).                           *)
(***************************************************************************)
EXTENDS ConfigSync, FiniteSetTheorems, TLAPS

\* The set of slots is finite, so a demand is a number.
LEMMA SizeNat == \A c \in Config : Size(c) \in Nat
<1> TAKE c \in Config
<1>1. IsFiniteSet(Slot)
  BY FS_Interval, ConfigAssumption DEF Slot
<1>2. IsFiniteSet({s \in Slot : c[s] # Off})
  BY <1>1, FS_Subset
<1> QED
  BY <1>2, FS_CardinalityType DEF Size

\* The reserve of a configuration is a number of queues.
LEMMA ReserveNat == \A c \in Config : Reserve(c) \in Nat
BY SizeNat, ConfigAssumption DEF Reserve, Larger, Smaller

\* What is emitted of a wiring is a configuration.
LEMMA EmittedType == \A c \in Config : Emitted(c) \in Config
BY DEF Emitted, Config

\* A slot whose rank is below the capacity is always emitted: at most its rank
\* slots come before it.
LEMMA EmittedKeeps ==
  ASSUME NEW c \in Config, NEW s \in Always, c[s] # Off
  PROVE  Emitted(c)[s] # Off
<1> DEFINE Before == {j \in Slot : j < s /\ c[j] # Off}
<1>1. s \in Slot /\ s \in Nat /\ s < Cap
  BY ConfigAssumption DEF Slot
<1>2. IsFiniteSet(0..(s - 1)) /\ Cardinality(0..(s - 1)) = s
  BY <1>1, FS_Interval
<1>3. Before \subseteq 0..(s - 1)
  BY <1>1, ConfigAssumption DEF Slot
<1>4. Cardinality(Before) <= s /\ Cardinality(Before) \in Nat
  BY <1>2, <1>3, FS_Subset, FS_CardinalityType
<1>5. Cardinality(Before) < Cap
  BY <1>1, <1>4, ConfigAssumption
<1> QED
  BY <1>1, <1>5 DEF Emitted

\* A change leaves a wiring, in which the slots wired all along are wired.
LEMMA ChangeWired ==
  ASSUME TypeOK, Change
  PROVE  /\ want' \in Config
         /\ \A s \in always : want[s] # Off => want'[s] # Off
<1>1. PICK s \in Slot, w \in Source \cup {Off} :
        /\ s \in always => w \in Source
        /\ want' = [want EXCEPT ![s] = w]
  BY DEF Change
<1>2. w \in Source => w # Off
  BY ConfigAssumption
<1>3. always \subseteq Slot
  BY ConfigAssumption DEF TypeOK
<1> QED
  BY <1>1, <1>2, <1>3 DEF TypeOK, Config

LEMMA EmptyType == Empty \in Config
BY DEF Empty, Config

-----------------------------------------------------------------------------

LEMMA InitType == Init => TypeOK
<1> SUFFICES ASSUME Init PROVE TypeOK
  OBVIOUS
<1>1. file \in [ok : BOOLEAN, sessions : Config, queues : Nat]
  BY EmptyType DEF Init, Torn
<1>2. 0 \in 0..MaxChanges /\ 0 \in 0..MaxCrashes
  BY ConfigAssumption
<1> QED
  BY <1>1, <1>2, EmptyType DEF Init, TypeOK

\* A write falls within a part of a start that has a name.
LEMMA StartingType == Starting \subseteq {"queues", "date"}
BY DEF Starting

\* Every step of the manager keeps the types.
LEMMA ManagerType == TypeOK /\ Manager => TypeOK'
<1> SUFFICES ASSUME TypeOK, Manager PROVE TypeOK'
  OBVIOUS
<1> USE DEF TypeOK, daemonVars
<1>1. CASE Plan
  BY <1>1, EmittedType DEF Plan
<1>2. CASE Truncate
  BY <1>2, ReserveNat, EmptyType, StartingType DEF Truncate, Torn
<1>3. CASE Dump
  BY <1>3, StartingType DEF Dump
<1>4. CASE Stamp
  BY <1>4, StartingType DEF Stamp
<1>5. CASE LifeLaunch \/ LifeBudget
  <2>1. Launch /\ mpc' = "plan"
    BY <1>5 DEF LifeLaunch, LifeBudget
  <2> QED
    BY <2>1, EmptyType DEF Launch
<1>6. CASE LifeForget \/ LifeIdle
  BY <1>6 DEF LifeForget, LifeIdle
<1> QED
  BY <1>1, <1>2, <1>3, <1>4, <1>5, <1>6 DEF Manager

\* Every step of the daemon keeps the types.
LEMMA DaemonType == TypeOK /\ Daemon => TypeOK'
<1> SUFFICES ASSUME TypeOK, Daemon PROVE TypeOK'
  OBVIOUS
<1> USE DEF TypeOK, Stay, managerVars
<1>1. CASE Boot
  BY <1>1 DEF Boot
<1>2. CASE Read("read0", "stat0", "free0") \/ Read("read", "poll", "free")
  BY <1>2 DEF Read
<1>3. CASE Match("free0", "create0") \/ Match("free", "create")
  <2>1. live' \in Config
    BY <1>3 DEF Match, Config
  <2> QED
    BY <1>3, <2>1 DEF Match
<1>4. CASE Create("create0", "stat0") \/ Create("create", "poll")
  <2>1. live' \in Config
    BY <1>4 DEF Create, Config, Missing
  <2> QED
    BY <1>4, <2>1 DEF Create
<1>5. CASE Stat0 \/ Poll
  BY <1>5 DEF Stat0, Poll
<1> QED
  BY <1>1, <1>2, <1>3, <1>4, <1>5 DEF Daemon

\* Every step keeps the types.
LEMMA NextType == TypeOK /\ [Next]_vars => TypeOK'
<1> SUFFICES ASSUME TypeOK, [Next]_vars PROVE TypeOK'
  OBVIOUS
<1>1. CASE Change
  <2>1. want' \in Config
    BY <1>1, ChangeWired
  <2> QED
    BY <1>1, <2>1, ConfigAssumption DEF Change, TypeOK, managerVars, daemonVars
<1>2. CASE Settle
  BY <1>2 DEF Settle, TypeOK, daemonVars
<1>3. CASE Crash
  BY <1>3, EmptyType, ConfigAssumption DEF Crash, TypeOK, managerVars
<1>4. CASE UNCHANGED vars
  BY <1>4 DEF vars, managerVars, daemonVars, TypeOK
<1> QED
  BY <1>1, <1>2, <1>3, <1>4, ManagerType, DaemonType DEF Next

\* The manager, the file and the daemon keep the types of their state.
THEOREM TypeCorrect == Spec => []TypeOK
BY InitType, NextType, PTL DEF Spec

-----------------------------------------------------------------------------

LEMMA InitKept == Init => KeptInv
BY DEF Init, KeptInv, Torn

\* The manager writes what it planned, and it plans what is wired all along.
LEMMA ManagerKept == TypeOK /\ KeptInv /\ Manager => KeptInv'
<1> SUFFICES ASSUME TypeOK, KeptInv, Manager PROVE KeptInv'
  OBVIOUS
<1> USE DEF KeptInv, daemonVars
<1>1. CASE Plan
  BY <1>1, EmittedKeeps DEF Plan, TypeOK
<1>2. CASE Truncate
  BY <1>2 DEF Truncate, Torn
<1>3. CASE Dump
  BY <1>3 DEF Dump
<1>4. CASE Stamp
  BY <1>4 DEF Stamp
<1>5. CASE LifeLaunch \/ LifeBudget
  BY <1>5 DEF LifeLaunch, LifeBudget, Launch
<1>6. CASE LifeForget \/ LifeIdle
  BY <1>6 DEF LifeForget, LifeIdle
<1> QED
  BY <1>1, <1>2, <1>3, <1>4, <1>5, <1>6 DEF Manager

\* The daemon only reconciles to a file it could read.
LEMMA DaemonKept == KeptInv /\ Daemon => KeptInv'
<1> SUFFICES ASSUME KeptInv, Daemon PROVE KeptInv'
  OBVIOUS
<1> USE DEF KeptInv, Stay, managerVars
<1>1. CASE Boot
  BY <1>1 DEF Boot
<1>2. CASE Read("read0", "stat0", "free0") \/ Read("read", "poll", "free")
  BY <1>2 DEF Read
<1>3. CASE Match("free0", "create0") \/ Match("free", "create")
  BY <1>3 DEF Match
<1>4. CASE Create("create0", "stat0") \/ Create("create", "poll")
  BY <1>4 DEF Create
<1>5. CASE Stat0 \/ Poll
  BY <1>5 DEF Stat0, Poll
<1> QED
  BY <1>1, <1>2, <1>3, <1>4, <1>5 DEF Daemon

LEMMA NextKept == TypeOK /\ KeptInv /\ [Next]_vars => KeptInv'
<1> SUFFICES ASSUME TypeOK, KeptInv, [Next]_vars PROVE KeptInv'
  OBVIOUS
<1>1. CASE Change
  <2>1. \A s \in always : want[s] # Off => want'[s] # Off
    BY <1>1, ChangeWired
  <2> QED
    BY <1>1, <2>1 DEF Change, KeptInv, managerVars, daemonVars
<1>2. CASE Settle
  BY <1>2 DEF Settle, KeptInv, daemonVars
<1>3. CASE Crash
  BY <1>3 DEF Crash, KeptInv, managerVars
<1>4. CASE UNCHANGED vars
  BY <1>4 DEF vars, managerVars, daemonVars, KeptInv
<1> QED
  BY <1>1, <1>2, <1>3, <1>4, ManagerKept, DaemonKept DEF Next

\* Only the end of the daemon takes down a sender wired all along.
LEMMA KeptStep ==
  ASSUME TypeOK, KeptInv, [Next]_vars, NEW s \in always, live[s] # Off
  PROVE  live'[s] # Off \/ dpc' \in {"off", "boot"}
<1>0. s \in Slot
  BY ConfigAssumption DEF TypeOK
<1>1. CASE Manager
  BY <1>1 DEF Manager, Plan, Truncate, Dump, Stamp, LifeLaunch, LifeBudget, Launch,
              LifeForget, LifeIdle, daemonVars
<1>2. CASE Match("free0", "create0") \/ Match("free", "create")
  BY <1>0, <1>2 DEF Match, KeptInv
<1>3. CASE Create("create0", "stat0") \/ Create("create", "poll")
  BY <1>0, <1>3 DEF Create, Missing, TypeOK, Config
<1>4. CASE Boot \/ Stat0 \/ Poll
  BY <1>4 DEF Boot, Stat0, Poll
<1>5. CASE Read("read0", "stat0", "free0") \/ Read("read", "poll", "free")
  BY <1>5 DEF Read
<1>6. CASE Change \/ Settle \/ Crash \/ UNCHANGED vars
  BY <1>6 DEF Change, Settle, Crash, daemonVars, vars
<1> QED
  BY <1>1, <1>2, <1>3, <1>4, <1>5, <1>6 DEF Next, Daemon

\* The rewrites of the file, torn reads included, never cost a sender that is
\* wired all along its session.
THEOREM KeptCorrect == Spec => WantedStays
<1>1. TypeOK /\ KeptInv /\ [Next]_vars
        => \A s \in always : live[s] # Off => live'[s] # Off \/ dpc' \in {"off", "boot"}
  BY KeptStep
<1> QED
  BY <1>1, InitKept, NextKept, TypeCorrect, PTL DEF Spec, WantedStays

-----------------------------------------------------------------------------

\* What the manager believes reserved is what mtl_init got, unless a write fell
\* between the launch and mtl_init.
ReserveIsReal ==
  dpc \notin {"off", "boot"} => "queues" \in crossed \/ reserved = queues

\* Why: the file holds the reserve written last, and a daemon that starts is
\* believed to have it until a write falls within its start.
ReserveInv ==
  /\ file.ok => file.queues = alloc
  /\ "queues" \notin crossed /\ dpc = "boot" => reserved = alloc
  /\ ReserveIsReal

\* The daemon gets the reserve the manager noted at the launch, or that of a
\* write that came in between.
LEMMA ReserveStep == ReserveInv /\ [Next]_vars => ReserveInv'
<1> SUFFICES ASSUME ReserveInv, [Next]_vars PROVE ReserveInv'
  OBVIOUS
<1> USE DEF ReserveInv, ReserveIsReal
<1>1. CASE Plan \/ Stamp \/ LifeForget \/ LifeIdle
  BY <1>1 DEF Plan, Stamp, LifeForget, LifeIdle, daemonVars
<1>2. CASE Truncate
  BY <1>2 DEF Truncate, Starting, Torn, daemonVars
<1>3. CASE Dump
  BY <1>3 DEF Dump, daemonVars
<1>4. CASE LifeLaunch \/ LifeBudget
  BY <1>4 DEF LifeLaunch, LifeBudget, Launch
<1>5. CASE Boot
  BY <1>5 DEF Boot, Stay, managerVars
<1>6. CASE Read("read0", "stat0", "free0") \/ Read("read", "poll", "free")
  BY <1>6 DEF Read, Stay, managerVars
<1>7. CASE Match("free0", "create0") \/ Match("free", "create")
  BY <1>7 DEF Match, Stay, managerVars
<1>8. CASE Create("create0", "stat0") \/ Create("create", "poll")
  BY <1>8 DEF Create, Stay, managerVars
<1>9. CASE Stat0 \/ Poll
  BY <1>9 DEF Stat0, Poll, Stay, managerVars
<1>10. CASE Change \/ Settle \/ Crash \/ UNCHANGED vars
  BY <1>10 DEF Change, Settle, Crash, vars, managerVars, daemonVars
<1> QED
  BY <1>1, <1>2, <1>3, <1>4, <1>5, <1>6, <1>7, <1>8, <1>9, <1>10 DEF Next, Manager, Daemon

\* A demand is compared with the real number of queues, unless a write fell
\* between the launch of the daemon and its mtl_init.
THEOREM ReserveCorrect == Spec => []ReserveIsReal
<1>1. Init => ReserveInv
  BY DEF Init, ReserveInv, ReserveIsReal, Torn
<1>2. ReserveInv /\ [Next]_vars => ReserveInv'
  BY ReserveStep
<1>3. ReserveInv => ReserveIsReal
  BY DEF ReserveInv
<1> QED
  BY <1>1, <1>2, <1>3, PTL DEF Spec
-----------------------------------------------------------------------------

\* The sessions that are emitted fit the card: the slots kept have as many
\* different ranks below the capacity.
LEMMA EmittedFits == \A c \in Config : Size(Emitted(c)) <= Cap
<1> TAKE c \in Config
<1> DEFINE Before(s) == {j \in Slot : j < s /\ c[j] # Off}
           Kept == {s \in Slot : Emitted(c)[s] # Off}
           rank == [s \in Kept |-> Cardinality(Before(s))]
<1>1. IsFiniteSet(Slot)
  BY FS_Interval, ConfigAssumption DEF Slot
<1>2. \A s \in Slot : IsFiniteSet(Before(s)) /\ Cardinality(Before(s)) \in Nat
  BY <1>1, FS_Subset, FS_CardinalityType
<1>3. \A s \in Kept : s \in Slot /\ c[s] # Off /\ Cardinality(Before(s)) < Cap
  BY DEF Emitted
<1>4. ASSUME NEW s \in Kept, NEW t \in Kept, s < t
      PROVE  rank[s] < rank[t]
  <2>1. s \in Slot /\ t \in Slot /\ s \in Int /\ t \in Int /\ c[s] # Off
    <3> HIDE DEF Kept, Before
    <3> QED
      BY <1>3, ConfigAssumption DEF Slot
  <2>2. Before(s) \subseteq Before(t)
    BY <1>4, <2>1 DEF Slot
  <2>3. s \in Before(t) /\ s \notin Before(s)
    BY <1>4, <2>1
  <2>4. Before(s) # Before(t)
    BY <2>3
  <2>5. Cardinality(Before(s)) < Cardinality(Before(t))
    BY <1>2, <2>1, <2>2, <2>4, FS_Subset
  <2> QED
    BY <2>5
<1>5. IsFiniteSet(0..(Cap - 1)) /\ Cardinality(0..(Cap - 1)) = Cap
  BY FS_Interval, ConfigAssumption
<1>6. rank \in Injection(Kept, 0..(Cap - 1))
  <2>0. \A s \in Kept : Cardinality(Before(s)) \in 0..(Cap - 1)
    <3> HIDE DEF Kept, Before
    <3> QED
      BY <1>2, <1>3, ConfigAssumption
  <2>1. rank \in [Kept -> 0..(Cap - 1)]
    BY <2>0
  <2>3. \A s, t \in Kept : s < t => rank[s] < rank[t]
    BY <1>4
  <2>4. \A s \in Kept : s \in Int
    BY <1>3, ConfigAssumption DEF Slot
  <2> HIDE DEF Kept, rank
  <2>2. ASSUME NEW s \in Kept, NEW t \in Kept, rank[s] = rank[t]
        PROVE  s = t
    <3>1. rank[s] \in Int /\ rank[t] \in Int
      BY <2>1
    <3>2. ~(s < t) /\ ~(t < s)
      BY <2>2, <2>3, <3>1
    <3> QED
      BY <2>4, <3>2
  <2> QED
    BY <2>1, <2>2 DEF Injection, IsInjective
<1>7. Cardinality(Kept) <= Cardinality(0..(Cap - 1))
  BY <1>5, <1>6, FS_Injection
<1> QED
  BY <1>5, <1>7 DEF Size

\* A demand that fits the card fits the queues reserved for it.
LEMMA ReserveFits ==
  ASSUME NEW c \in Config, Size(c) <= Cap
  PROVE  Size(c) <= Reserve(c) /\ Reserve(c) >= 1
BY SizeNat, ConfigAssumption DEF Reserve, Larger, Smaller

LEMMA EmptyFits == Size(Empty) <= Cap
<1>1. {s \in Slot : Empty[s] # Off} = {}
  BY DEF Empty
<1> QED
  BY <1>1, FS_EmptySet, ConfigAssumption DEF Size

\* The file and the reserve are those of p, written last.
Written(p) ==
  /\ sig = {p} /\ alloc = Reserve(p)
  /\ file = [ok |-> TRUE, sessions |-> p, queues |-> alloc]

\* Why: outside a rewrite the file holds what was written last, with its
\* reserve; when the life of the daemon is looked at, that is the plan of the
\* turn; and a daemon runs only after a launch.
FileInv ==
  /\ Size(plan) <= Cap
  /\ mpc \in {"dump", "stamp"} => alloc = Reserve(plan)
  /\ mpc = "stamp" => file = [ok |-> TRUE, sessions |-> plan, queues |-> alloc]
  /\ mpc \in {"plan", "truncate"} => (sig = {} /\ ~child) \/ \E p \in Config : Written(p)
  /\ mpc = "life" => Written(plan)
  /\ child => reserved >= 1
  /\ dpc # "off" => child

LEMMA InitFile == Init => FileInv
BY EmptyFits DEF Init, FileInv

\* Every step of the manager keeps the invariant of the file.
LEMMA ManagerFile == TypeOK /\ FileInv /\ Manager => FileInv'
<1> SUFFICES ASSUME TypeOK, FileInv, Manager PROVE FileInv'
  OBVIOUS
<1>0. plan \in Config /\ want \in Config
  BY DEF TypeOK
<1>1. CASE Plan
  <2>1. Size(plan') <= Cap
    BY <1>0, <1>1, EmittedFits DEF Plan
  <2>2. mpc' \in {"truncate", "life"} /\ (mpc' = "life" => sig = {plan'} /\ Written(plan'))
    <3>1. ASSUME plan' \in sig
          PROVE  Written(plan')
      <4>1. PICK p \in Config : Written(p)
        BY <1>1, <3>1 DEF Plan, FileInv
      <4> QED
        BY <3>1, <4>1 DEF Written
    <3> QED
      BY <1>1, <3>1 DEF Plan, Written
  <2>3. UNCHANGED <<sig, alloc, reserved, child, file, dpc>>
    BY <1>1 DEF Plan, daemonVars
  <2> QED
    BY <1>1, <2>1, <2>2, <2>3 DEF FileInv, Plan, Written
<1>2. CASE Truncate
  BY <1>2 DEF Truncate, FileInv, daemonVars
<1>3. CASE Dump
  BY <1>3 DEF Dump, FileInv, daemonVars
<1>4. CASE Stamp
  BY <1>4 DEF Stamp, FileInv, Written, daemonVars
<1>5. CASE LifeLaunch \/ LifeBudget
  <2>1. mpc = "life" /\ Launch /\ mpc' = "plan"
    BY <1>5 DEF LifeLaunch, LifeBudget
  <2>2. Written(plan) /\ Size(plan) <= Cap
    BY <2>1 DEF FileInv
  <2>3. alloc >= 1
    BY <1>0, <2>2, ReserveFits DEF Written
  <2>4. Written(plan)' /\ plan' \in Config
    BY <1>0, <2>1, <2>2 DEF Launch, Written
  <2> QED
    BY <2>1, <2>2, <2>3, <2>4 DEF Launch, FileInv, Written
<1>6. CASE LifeForget
  <2>1. mpc = "life" /\ mpc' = "plan" /\ child' = FALSE /\ dpc = "off"
    BY <1>6 DEF LifeForget, Dead
  <2>2. UNCHANGED <<plan, sig, alloc, reserved, file, dpc>>
    BY <1>6 DEF LifeForget, daemonVars
  <2> QED
    BY <1>0, <2>1, <2>2 DEF FileInv, Written
<1>7. CASE LifeIdle
  <2>1. mpc = "life" /\ mpc' = "plan"
    BY <1>7 DEF LifeIdle
  <2>2. UNCHANGED <<plan, sig, alloc, reserved, child, file, dpc>>
    BY <1>7 DEF LifeIdle, daemonVars
  <2> QED
    BY <1>0, <2>1, <2>2 DEF FileInv, Written
<1> QED
  BY <1>1, <1>2, <1>3, <1>4, <1>5, <1>6, <1>7 DEF Manager

LEMMA NextFile == TypeOK /\ FileInv /\ [Next]_vars => FileInv'
<1> SUFFICES ASSUME TypeOK, FileInv, [Next]_vars PROVE FileInv'
  OBVIOUS
<1>1. CASE Daemon
  <2>1. UNCHANGED <<mpc, plan, sig, alloc, reserved, child, file>> /\ dpc # "off"
    BY <1>1 DEF Daemon, Boot, Read, Match, Create, Stat0, Poll, Stay, managerVars
  <2> QED
    BY <2>1 DEF FileInv, Written
<1>2. CASE Change \/ Settle \/ Crash \/ UNCHANGED vars
  <2>1. UNCHANGED <<mpc, plan, sig, alloc, reserved, child, file>>
        /\ (dpc' = dpc \/ dpc' = "off")
    BY <1>2 DEF Change, Settle, Crash, vars, managerVars, daemonVars
  <2> QED
    BY <2>1 DEF FileInv, Written
<1> QED
  BY <1>1, <1>2, ManagerFile DEF Next

\* A launch for want of queues raises the reserve, to what the plan demands.
LEMMA BudgetStep ==
  ASSUME TypeOK, FileInv, LifeBudget
  PROVE  reserved < reserved' /\ ~OverBudget'
<1>1. plan \in Config /\ reserved \in Nat
  BY DEF TypeOK
<1>2. Written(plan) /\ Size(plan) <= Cap /\ Size(plan) > reserved
  BY DEF LifeBudget, FileInv, OverBudget
<1>3. reserved' = Reserve(plan) /\ plan' = plan
  BY <1>2 DEF LifeBudget, Launch, Written
<1>4. Size(plan) <= Reserve(plan) /\ Reserve(plan) \in Nat /\ Size(plan) \in Nat
  BY <1>1, <1>2, ReserveFits, ReserveNat, SizeNat
<1>5. Size(plan)' = Size(plan)
  BY <1>3 DEF Size
<1>6. ~(Size(plan)' > reserved')
  BY <1>3, <1>4, <1>5
<1> QED
  BY <1>1, <1>2, <1>3, <1>4, <1>6 DEF OverBudget

\* The daemon is started again for want of queues only to get more of them, and
\* then has enough for the sessions of the turn: no launch answers the last.
THEOREM RelaunchGains == Spec => [][LifeBudget => reserved < reserved' /\ ~OverBudget']_vars
<1>1. TypeOK /\ FileInv /\ [Next]_vars
        => (LifeBudget => reserved < reserved' /\ ~OverBudget')
  BY BudgetStep
<1> QED
  BY <1>1, InitFile, NextFile, TypeCorrect, PTL DEF Spec

-----------------------------------------------------------------------------

\* Why: what the daemon reconciles to is the file, unless the file has a date
\* the daemon does not know, and what it has is part of that.
DaemonInv ==
  /\ dpc \in {"create0", "create"} => \A s \in Slot : live[s] # Off => live[s] = target[s]
  /\ file.ok =>
       /\ dpc \in {"free0", "create0"} => "date" \in crossed \/ target = file.sessions
       /\ dpc \in {"free", "create"} /\ seen => target = file.sessions
       /\ dpc = "stat0" => "date" \in crossed \/ live = file.sessions
       /\ dpc = "poll" /\ seen => "date" \in crossed \/ live = file.sessions

LEMMA InitDaemon == Init => DaemonInv
BY DEF Init, DaemonInv

\* A rewrite gives the file a date that the daemon does not know, or it falls
\* within the start of the daemon.
LEMMA ManagerDaemon == FileInv /\ DaemonInv /\ Manager => DaemonInv'
<1> SUFFICES ASSUME FileInv, DaemonInv, Manager PROVE DaemonInv'
  OBVIOUS
<1> USE DEF DaemonInv, daemonVars
<1>1. CASE Plan
  BY <1>1 DEF Plan
<1>2. CASE Truncate
  BY <1>2 DEF Truncate, Torn
<1>3. CASE Dump
  BY <1>3 DEF Dump, Starting
<1>4. CASE Stamp
  BY <1>4 DEF Stamp, Starting
<1>5. CASE LifeLaunch \/ LifeBudget
  BY <1>5 DEF LifeLaunch, LifeBudget, Launch
<1>6. CASE LifeForget \/ LifeIdle
  BY <1>6 DEF LifeForget, LifeIdle
<1> QED
  BY <1>1, <1>2, <1>3, <1>4, <1>5, <1>6 DEF Manager

\* A daemon that lacks no session of its target has its target.
LEMMA CreateEnds ==
  ASSUME TypeOK, Missing = {}, \A s \in Slot : live[s] # Off => live[s] = target[s]
  PROVE  live = target
<1>1. \A s \in Slot : live[s] = target[s]
  BY DEF Missing
<1>2. live \in [Slot -> Source \cup {Off}] /\ target \in [Slot -> Source \cup {Off}]
  BY DEF TypeOK, Config
<1> QED
  BY <1>1, <1>2

\* The daemon comes to what the file holds.
LEMMA DaemonDaemon == TypeOK /\ DaemonInv /\ Daemon => DaemonInv'
<1> SUFFICES ASSUME TypeOK, DaemonInv, Daemon PROVE DaemonInv'
  OBVIOUS
<1>1. CASE Boot
  BY <1>1 DEF Boot, DaemonInv, Stay
<1>2. CASE Read("read0", "stat0", "free0") \/ Read("read", "poll", "free")
  BY <1>2 DEF Read, DaemonInv, Stay
<1>3. CASE Match("free0", "create0") \/ Match("free", "create")
  <2>1. \A s \in Slot : live'[s] # Off => live'[s] = target'[s]
    BY <1>3 DEF Match
  <2> QED
    BY <1>3, <2>1 DEF Match, DaemonInv, Stay
<1>4. CASE Create("create0", "stat0") \/ Create("create", "poll")
  <2>1. dpc \in {"create0", "create"} /\ UNCHANGED <<file, seen, target, crossed>>
    BY <1>4 DEF Create, Stay
  <2>2. \A s \in Slot : live[s] # Off => live[s] = target[s]
    BY <2>1 DEF DaemonInv
  <2>3. CASE Missing = {} /\ live' = live
    <3>1. live' = target
      BY <2>2, <2>3, CreateEnds
    <3> QED
      BY <1>4, <2>1, <2>2, <2>3, <3>1 DEF Create, DaemonInv
  <2>4. CASE dpc' = dpc /\ \E s \in Missing : live' = [live EXCEPT ![s] = target[s]]
    <3>1. \A s \in Slot : live'[s] # Off => live'[s] = target'[s]
      BY <2>1, <2>2, <2>4 DEF Missing, TypeOK, Config
    <3> QED
      BY <2>1, <2>4, <3>1 DEF DaemonInv
  <2> QED
    BY <1>4, <2>3, <2>4 DEF Create
<1>5. CASE Stat0 \/ Poll
  BY <1>5 DEF Stat0, Poll, DaemonInv, Stay
<1> QED
  BY <1>1, <1>2, <1>3, <1>4, <1>5 DEF Daemon

LEMMA NextDaemon ==
  TypeOK /\ FileInv /\ DaemonInv /\ [Next]_vars => DaemonInv'
<1> SUFFICES ASSUME TypeOK, FileInv, DaemonInv, [Next]_vars PROVE DaemonInv'
  OBVIOUS
<1>1. CASE Change \/ Settle \/ UNCHANGED vars
  BY <1>1 DEF Change, Settle, vars, managerVars, daemonVars, DaemonInv
<1>2. CASE Crash
  BY <1>2 DEF Crash, DaemonInv
<1> QED
  BY <1>1, <1>2, ManagerDaemon, DaemonDaemon DEF Next

\* The manager has nothing to write for the wiring as it is, and the daemon has
\* seen the date of the file.
AtRest == mpc = "life" /\ plan = Emitted(want) /\ dpc = "poll" /\ seen

\* The daemon has the sessions asked for and no other, each with its source,
\* unless a write fell within its start after its mtl_init and none was seen
\* since; it has a queue for each, unless the manager is about to start it again
\* for more or a write fell between its launch and its mtl_init.
Served ==
  /\ "date" \in crossed \/ live = Emitted(want)
  /\ "queues" \in crossed \/ OverBudget \/ Size(Emitted(want)) <= queues

\* A manager and a daemon that have nothing left to do for each other agree with
\* the operator: no write of the file is read half, and only one that falls
\* within the start of the daemon is missed, until the next.
THEOREM RestCorrect == Spec => [](AtRest => Served)
<1>1. TypeOK /\ FileInv /\ DaemonInv /\ ReserveIsReal => (AtRest => Served)
  <2> SUFFICES ASSUME TypeOK, FileInv, DaemonInv, ReserveIsReal, AtRest PROVE Served
    OBVIOUS
  <2>1. Written(plan) /\ child /\ reserved >= 1 /\ dpc = "poll" /\ seen
    BY DEF AtRest, FileInv
  <2>2. ("date" \in crossed \/ live = plan) /\ ("queues" \in crossed \/ reserved = queues)
    BY <2>1 DEF DaemonInv, Written, ReserveIsReal
  <2>3. Size(plan) \in Nat /\ reserved \in Nat
    BY SizeNat DEF TypeOK
  <2>4. OverBudget \/ Size(plan) <= reserved
    BY <2>1, <2>3 DEF OverBudget, Dead
  <2> QED
    BY <2>2, <2>4 DEF AtRest, Served
<1>2. Init => DaemonInv
  BY InitDaemon
<1>3. TypeOK /\ FileInv /\ DaemonInv /\ [Next]_vars => DaemonInv'
  BY NextDaemon
<1>4. Spec => []ReserveIsReal
  BY ReserveCorrect
<1> QED
  BY <1>1, <1>2, <1>3, <1>4, InitFile, NextFile, TypeCorrect, PTL DEF Spec
=============================================================================
