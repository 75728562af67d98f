-------------------------- MODULE Reception_proofs --------------------------
(***************************************************************************)
(* The receiving side of the controller.  Of its watchdog: it keeps its    *)
(* types, a slot that does not recover is left alone for the delay         *)
(* announced, and no longer, for any groups, slots and delays.  Of its     *)
(* signal probes: they keep their types, for any periods, delays and ring. *)
(***************************************************************************)
EXTENDS RxWatchdog, SignalProbe, TLAPS

\* The older an age gets, it stays an age.
LEMMA OlderAge ==
  ASSUME NEW a \in Age \cup {Absent}
  PROVE  /\ Older(a) \in Age \cup {Absent}
         /\ a \in Age => Older(a) \in Age
  BY WatchdogAssumption DEF Older, Age, Absent

\* What a turn makes of the anchor, the progress, the delay and the tries of an
\* entry has the type of its field.
LEMMA EntryTypes ==
  ASSUME TypeOK, NEW g \in Group, NEW i \in Slot
  PROVE  /\ NewAnchor(g, i) \in Age \cup {Absent}
         /\ NewProg(g, i) \in Age \cup {Absent}
         /\ Delay(g) \in Stall..MaxDelay
         /\ Tries(g) \in 0..MaxTries
<1>1. 0 \in Age /\ Stall \in Stall..MaxDelay /\ 0 \in 0..MaxTries
  BY WatchdogAssumption DEF Age
<1>2. Anchor(g, i) \in Age \cup {Absent} /\ Prog(g, i) \in Age \cup {Absent}
  BY DEF TypeOK, Anchor, Prog
<1>3. NewAnchor(g, i) \in Age \cup {Absent} /\ NewProg(g, i) \in Age \cup {Absent}
  BY <1>1, <1>2 DEF NewAnchor, NewProg
<1>4. Delay(g) \in Stall..MaxDelay /\ Tries(g) \in 0..MaxTries
  BY <1>1 DEF TypeOK, Delay, Tries
<1>5. QED
  BY <1>3, <1>4

\* The next delay and the next number of tries stay in their bounds.
LEMMA Backoff ==
  ASSUME NEW d \in Stall..MaxDelay, NEW k \in 0..MaxTries
  PROVE  /\ Twice(d) \in Stall..MaxDelay /\ Twice(d) \in 0..MaxDelay
         /\ OneMore(k) \in 0..MaxTries
  BY WatchdogAssumption DEF Twice, OneMore

LEMMA InitType == Init => TypeOK
<1> SUFFICES ASSUME Init PROVE TypeOK
  OBVIOUS
<1>1. /\ 0 \in Age /\ MaxDelay \in Age /\ Stall \in Stall..MaxDelay
      /\ 0 \in 0..MaxTries /\ 0 \in 0..Bounce /\ 0 \in 0..MaxDelay
      /\ Grace + 1 \in 0..(Grace + 1) /\ 0 \in 0..MaxFaults
  BY WatchdogAssumption DEF Age
<1>2. {sub, emitted, live, had} \subseteq Targets
  BY DEF Init, Targets
<1>3. bounced \in [Group \X Slot -> [age : Age, delay : 0..MaxDelay]]
  BY <1>1 DEF Init
<1>4. QED
  BY <1>1, <1>2, <1>3 DEF Init, TypeOK

LEMMA TurnType == TypeOK /\ Turn => TypeOK'
<1> SUFFICES ASSUME TypeOK, Turn PROVE TypeOK'
  OBVIOUS
<1>0. /\ 0 \in Age /\ MaxDelay \in Age /\ Stall \in Stall..MaxDelay
      /\ 0 \in 0..MaxTries /\ 0 \in 0..Bounce /\ 0 \in 0..MaxDelay /\ Bounce \in 0..Bounce
  BY WatchdogAssumption DEF Age
<1>1. UNCHANGED <<sub, live, hears, blank, sends, pos, launched, faults>>
  BY DEF Turn, daemonVars
<1>2. known' \in SUBSET Group
  BY DEF TypeOK, Turn, Wanted, Targets
<1>3. seen' \in SUBSET (Group \X Slot) /\ listed' \in SUBSET (Group \X Slot)
  BY DEF TypeOK, Turn
<1>4. anchor' \in [Group \X Slot -> Age \cup {Absent}]
  <2>1. \A p \in Group \X Slot : NewAnchor(p[1], p[2]) \in Age \cup {Absent}
    BY EntryTypes
  <2>2. QED
    BY <2>1, <1>0 DEF TypeOK, Turn
<1>5. prog' \in [Group \X Slot -> Age \cup {Absent}]
  <2>1. \A p \in Group \X Slot : NewProg(p[1], p[2]) \in Age \cup {Absent}
    BY EntryTypes
  <2>2. QED
    BY <2>1 DEF TypeOK, Turn
<1>6. \A g \in Group : /\ Delay(g) \in Stall..MaxDelay /\ Tries(g) \in 0..MaxTries
                       /\ Twice(Delay(g)) \in Stall..MaxDelay
                       /\ Twice(Delay(g)) \in 0..MaxDelay
                       /\ OneMore(Tries(g)) \in 0..MaxTries
  <2> TAKE g \in Group
  <2>1. Delay(g) \in Stall..MaxDelay /\ Tries(g) \in 0..MaxTries
    BY <1>0 DEF TypeOK, Delay, Tries
  <2>2. QED
    BY <2>1, Backoff
<1>7. delay' \in [Group -> Stall..MaxDelay]
  BY <1>0, <1>6 DEF Turn
<1>8. tries' \in [Group -> 0..MaxTries]
  BY <1>0, <1>6 DEF Turn
<1>9. omit' \in [Group -> 0..Bounce]
  BY <1>0 DEF Turn, TypeOK
<1>10. emitted' \in Targets /\ had' \in Targets
  BY DEF Turn, TypeOK, Targets
<1>11. turned' \in BOOLEAN
  BY DEF Turn, TypeOK
<1>12. bounced' \in [Group \X Slot -> [age : Age, delay : 0..MaxDelay]]
  BY <1>0, <1>6 DEF Turn, TypeOK
<1>13. QED
  BY <1>1, <1>2, <1>3, <1>4, <1>5, <1>7, <1>8, <1>9, <1>10, <1>11, <1>12 DEF TypeOK

LEMMA TickType == TypeOK /\ Tick => TypeOK'
<1> SUFFICES ASSUME TypeOK, Tick PROVE TypeOK'
  OBVIOUS
<1>1. UNCHANGED <<sub, known, seen, listed, delay, tries, emitted, live, hears, blank, sends,
                  pos, had, faults>>
  BY DEF Tick, daemonVars
<1>2. /\ anchor' \in [Group \X Slot -> Age \cup {Absent}]
      /\ prog' \in [Group \X Slot -> Age \cup {Absent}]
  BY OlderAge DEF Tick, TypeOK
<1>3. bounced' \in [Group \X Slot -> [age : Age, delay : 0..MaxDelay]]
  <2> SUFFICES ASSUME NEW p \in Group \X Slot
               PROVE  [bounced[p] EXCEPT !.age = Older(bounced[p].age)]
                        \in [age : Age, delay : 0..MaxDelay]
    BY DEF Tick
  <2>1. bounced[p] \in [age : Age, delay : 0..MaxDelay]
    BY DEF TypeOK
  <2>2. Older(bounced[p].age) \in Age
    BY <2>1, OlderAge
  <2>3. QED
    BY <2>1, <2>2
<1>4. omit' \in [Group -> 0..Bounce]
  <2>1. \A n \in 0..Bounce : n # 0 => n - 1 \in 0..Bounce
    BY WatchdogAssumption
  <2>2. \A g \in Group : omit[g] \in 0..Bounce
    BY DEF TypeOK
  <2>3. QED
    BY <2>1, <2>2 DEF Tick
<1>5. launched' \in 0..(Grace + 1) /\ turned' \in BOOLEAN
  <2>1. \A n \in 0..(Grace + 1) : ~(n > Grace) => n + 1 \in 0..(Grace + 1)
    BY WatchdogAssumption
  <2>2. launched \in 0..(Grace + 1)
    BY DEF TypeOK
  <2>3. QED
    BY <2>1, <2>2 DEF Tick, DaemonOk
<1>6. QED
  BY <1>1, <1>2, <1>3, <1>4, <1>5 DEF TypeOK

LEMMA NextType == TypeOK /\ [Next]_vars => TypeOK'
<1> SUFFICES ASSUME TypeOK, [Next]_vars PROVE TypeOK'
  OBVIOUS
<1>1. CASE Turn
  BY <1>1, TurnType
<1>2. CASE Tick
  BY <1>2, TickType
<1>3. CASE Crash
  BY <1>3, WatchdogAssumption DEF Crash, TypeOK, Targets, entryVars, historyVars
<1>4. ASSUME NEW good \in SUBSET Slot, Reconcile(good) PROVE TypeOK'
  <2>1. Changed \in SUBSET Slot /\ Created \in SUBSET Slot
    BY DEF Changed, Created
  <2>2. QED
    BY <1>4, <2>1 DEF Reconcile, TypeOK, entryVars, historyVars
<1>5. ASSUME NEW i \in Slot, Frame(i) PROVE TypeOK'
  BY <1>5 DEF Frame, TypeOK
<1>6. ASSUME NEW i \in Slot, NoFrame(i) PROVE TypeOK'
  BY <1>6 DEF NoFrame, TypeOK, entryVars, historyVars
<1>7. ASSUME NEW i \in Slot, Deafen(i) PROVE TypeOK'
  BY <1>7 DEF Deafen, TypeOK, entryVars, historyVars
<1>8. ASSUME NEW i \in Slot, NEW g \in Group \cup {None}, Subscribe(i, g) PROVE TypeOK'
  <2>1. sub' \in Targets
    BY <1>8 DEF Subscribe, TypeOK, Targets
  <2>2. faults' \in 0..MaxFaults
    BY <1>8, WatchdogAssumption DEF Subscribe, TypeOK
  <2>3. QED
    BY <1>8, <2>1, <2>2 DEF Subscribe, TypeOK, entryVars, daemonVars
<1>9. ASSUME NEW g \in Group, Sender(g) PROVE TypeOK'
  BY <1>9 DEF Sender, TypeOK, entryVars, daemonVars, historyVars
<1>10. CASE UNCHANGED vars
  BY <1>10 DEF vars, TypeOK, entryVars, daemonVars, historyVars
<1>11. QED
  BY <1>1, <1>2, <1>3, <1>4, <1>5, <1>6, <1>7, <1>8, <1>9, <1>10 DEF Next

\* Every part of the watchdog keeps its type.
THEOREM TypeCorrect == Spec => []TypeOK
<1>1. QED
  BY InitType, NextType, PTL DEF Spec

-----------------------------------------------------------------------------
\* Why a slot is left alone for the delay that was announced to it: its anchor was
\* set then or later, and the delay of its group never shrinks but when all the
\* slots of the group recover, which calls the announcement off.
SpacedInv ==
  \A g \in Group, i \in Slot :
    /\ g \in known => anchor[<<g, i>>] <= bounced[<<g, i>>].age /\ bounced[<<g, i>>].delay <= delay[g]
    /\ g \notin known => bounced[<<g, i>>].delay = 0

LEMMA InitSpaced == Init => SpacedInv
  BY DEF Init, SpacedInv

\* In the numbers: what a turn finds of an entry, and what was announced.
LEMMA EntryNumbers ==
  ASSUME TypeOK, NEW g \in Group, NEW i \in Slot
  PROVE  /\ NewAnchor(g, i) \in Int /\ Delay(g) \in Nat /\ Delay(g) >= Stall /\ Delay(g) <= MaxDelay
         /\ Delay(g) <= Twice(Delay(g)) /\ Twice(Delay(g)) \in Nat
         /\ bounced[<<g, i>>].age \in 0..MaxDelay /\ bounced[<<g, i>>].delay \in 0..MaxDelay
         /\ Stall \in Nat /\ Stall > 0 /\ MaxDelay \in Nat
<1>1. NewAnchor(g, i) \in Age \cup {Absent} /\ Delay(g) \in Stall..MaxDelay
  BY EntryTypes
<1>2. bounced[<<g, i>>] \in [age : Age, delay : 0..MaxDelay]
  BY DEF TypeOK
<1>3. QED
  BY <1>1, <1>2, WatchdogAssumption DEF Age, Absent, Twice

\* What a turn takes for the anchor of a slot is no older than its last bounce,
\* and the delay it goes by is no shorter than the one announced.
LEMMA TurnFinds ==
  ASSUME TypeOK, SpacedInv, NEW g \in Group, NEW i \in Slot
  PROVE  NewAnchor(g, i) <= bounced[<<g, i>>].age /\ bounced[<<g, i>>].delay <= Delay(g)
<1>0. bounced[<<g, i>>].age >= 0 /\ bounced[<<g, i>>].age \in Int /\ Delay(g) \in Nat
  BY EntryNumbers
<1>1. Anchor(g, i) <= bounced[<<g, i>>].age
  BY <1>0 DEF SpacedInv, Anchor, Absent
<1>2. NewAnchor(g, i) \in {Absent, 0, Anchor(g, i)}
  BY DEF NewAnchor
<1>3. bounced[<<g, i>>].delay <= Delay(g)
  BY <1>0 DEF SpacedInv, Delay
<1>4. QED
  BY <1>0, <1>1, <1>2, <1>3 DEF Absent

LEMMA TurnSpaced == TypeOK /\ SpacedInv /\ Turn => SpacedInv'
<1> SUFFICES ASSUME TypeOK, SpacedInv, Turn, NEW g \in Group, NEW i \in Slot
             PROVE  /\ g \in known' => anchor'[<<g, i>>] <= bounced'[<<g, i>>].age
                                       /\ bounced'[<<g, i>>].delay <= delay'[g]
                    /\ g \notin known' => bounced'[<<g, i>>].delay = 0
  BY DEF SpacedInv
<1> DEFINE p == <<g, i>>
<1>1. p \in Group \X Slot /\ p[1] = g /\ p[2] = i /\ known' = Wanted
  BY DEF Turn
<1>2. bounced'[p] = IF Bounces(g) /\ i \in Stalled(g) THEN [age |-> 0, delay |-> Twice(Delay(g))]
                    ELSE IF g \notin Wanted \/ Recovers(g) THEN [age |-> MaxDelay, delay |-> 0]
                    ELSE bounced[p]
  BY <1>1 DEF Turn
<1>3. anchor'[p] = IF g \in Wanted /\ ~Looks(g) THEN anchor[p]
                   ELSE IF ~Looks(g) THEN Absent
                   ELSE IF Bounces(g) /\ i \in Stalled(g) THEN 0 ELSE NewAnchor(g, i)
  BY <1>1 DEF Turn
<1>4. delay'[g] = IF Bounces(g) THEN Twice(Delay(g))
                  ELSE IF g \notin Wanted \/ Recovers(g) THEN Stall ELSE Delay(g)
  BY DEF Turn
<1>5. NewAnchor(g, i) <= bounced[p].age /\ bounced[p].delay <= Delay(g)
  BY TurnFinds
<1>6. /\ NewAnchor(g, i) \in Int /\ Delay(g) \in Nat /\ Delay(g) <= MaxDelay
      /\ Delay(g) <= Twice(Delay(g)) /\ Twice(Delay(g)) \in Nat
      /\ bounced[p].age \in 0..MaxDelay /\ bounced[p].delay \in 0..MaxDelay
      /\ Stall \in Nat /\ MaxDelay \in Nat
  BY EntryNumbers
<1>7. Bounces(g) => Looks(g) /\ g \in Wanted
  BY DEF Bounces, Looks
<1> HIDE DEF p
<1>8. CASE Bounces(g) /\ i \in Stalled(g)
  BY <1>1, <1>2, <1>3, <1>4, <1>6, <1>7, <1>8 DEF p
<1>9. CASE ~(Bounces(g) /\ i \in Stalled(g)) /\ (g \notin Wanted \/ Recovers(g))
  <2>1. bounced'[p].age = MaxDelay /\ bounced'[p].delay = 0
    BY <1>2, <1>9
  <2>2. ~Bounces(g) /\ delay'[g] = Stall
    BY <1>4, <1>9 DEF Bounces, Recovers, Looks
  <2>3. g \in Wanted => anchor'[p] = NewAnchor(g, i)
    BY <1>3, <1>9, <2>2 DEF Recovers
  <2>4. QED
    BY <1>1, <1>5, <1>6, <2>1, <2>2, <2>3 DEF p
<1>10. CASE ~(Bounces(g) /\ i \in Stalled(g)) /\ g \in Wanted /\ ~Recovers(g)
  <2>1. bounced'[p] = bounced[p]
    BY <1>2, <1>10
  <2>2. delay'[g] >= Delay(g)
    BY <1>4, <1>6, <1>10
  <2>3. anchor'[p] <= bounced[p].age
    <3>1. CASE Looks(g)
      BY <1>3, <1>5, <1>10, <3>1
    <3>2. CASE ~Looks(g)
      BY <1>3, <1>10, <3>2 DEF Looks, Omitted, SpacedInv, p
    <3>3. QED
      BY <3>1, <3>2
  <2>4. delay'[g] \in Nat
    BY <1>4, <1>6
  <2>5. QED
    BY <1>1, <1>5, <1>6, <1>10, <2>1, <2>2, <2>3, <2>4 DEF p
<1>11. QED
  BY <1>8, <1>9, <1>10

\* The anchor and the bounce of a slot grow old together.
LEMMA TickSpaced == TypeOK /\ SpacedInv /\ Tick => SpacedInv'
<1> SUFFICES ASSUME TypeOK, SpacedInv, Tick, NEW g \in Group, NEW i \in Slot
             PROVE  /\ g \in known' => anchor'[<<g, i>>] <= bounced'[<<g, i>>].age
                                       /\ bounced'[<<g, i>>].delay <= delay'[g]
                    /\ g \notin known' => bounced'[<<g, i>>].delay = 0
  BY DEF SpacedInv
<1>1. <<g, i>> \in Group \X Slot /\ bounced[<<g, i>>] \in [age : Age, delay : 0..MaxDelay]
      /\ anchor[<<g, i>>] \in Age \cup {Absent}
  BY DEF TypeOK
<1>2. /\ bounced'[<<g, i>>] = [bounced[<<g, i>>] EXCEPT !.age = Older(bounced[<<g, i>>].age)]
      /\ anchor'[<<g, i>>] = Older(anchor[<<g, i>>]) /\ UNCHANGED <<known, delay>>
  BY <1>1 DEF Tick
<1>3. bounced'[<<g, i>>].age = Older(bounced[<<g, i>>].age)
      /\ bounced'[<<g, i>>].delay = bounced[<<g, i>>].delay
  BY <1>1, <1>2
<1>4. \A a \in Age \cup {Absent}, b \in Age : a <= b => Older(a) <= Older(b)
  BY WatchdogAssumption DEF Age, Absent, Older
<1>5. g \in known => anchor'[<<g, i>>] <= bounced'[<<g, i>>].age
  BY <1>1, <1>2, <1>3, <1>4 DEF SpacedInv
<1>6. QED
  BY <1>2, <1>3, <1>5 DEF SpacedInv

\* A step that is neither a turn nor a tick changes no entry and no announcement.
LEMMA OtherSteps ==
  ASSUME [Next]_vars, ~Turn, ~Tick
  PROVE  UNCHANGED <<known, anchor, prog, delay, omit, bounced>>
  BY DEF Next, vars, Crash, Reconcile, Frame, NoFrame, Deafen, Subscribe, Sender, entryVars, historyVars

LEMMA NextSpaced == TypeOK /\ SpacedInv /\ [Next]_vars => SpacedInv'
<1> SUFFICES ASSUME TypeOK, SpacedInv, [Next]_vars, ~Turn, ~Tick PROVE SpacedInv'
  BY TurnSpaced, TickSpaced
<1>1. QED
  BY OtherSteps DEF SpacedInv

\* A slot that does not recover is left alone for the delay its last bounce
\* announced, whatever the other slots of its group, the daemon, the network and
\* the operator do, for any delays.
THEOREM SpacedCorrect == Spec => Spaced
<1> DEFINE Alone == \A g \in Group : omit'[g] > omit[g] =>
                      \A i \in Stalled(g) : bounced[<<g, i>>].age >= bounced[<<g, i>>].delay
<1>1. Init => TypeOK /\ SpacedInv
  BY InitType, InitSpaced
<1>2. TypeOK /\ SpacedInv /\ [Next]_vars => (TypeOK /\ SpacedInv)'
  BY NextType, NextSpaced
<1>3. TypeOK /\ SpacedInv /\ [Next]_vars => [Alone]_vars
  <2> SUFFICES ASSUME TypeOK, SpacedInv, [Next]_vars, NEW g \in Group, omit'[g] > omit[g], NEW i \in Stalled(g)
               PROVE  bounced[<<g, i>>].age >= bounced[<<g, i>>].delay
    OBVIOUS
  <2>1. i \in Slot /\ NewAnchor(g, i) >= Delay(g)
    BY DEF Stalled, Of
  <2>2. NewAnchor(g, i) <= bounced[<<g, i>>].age /\ bounced[<<g, i>>].delay <= Delay(g)
    BY <2>1, TurnFinds
  <2>3. NewAnchor(g, i) \in Int /\ Delay(g) \in Nat
        /\ bounced[<<g, i>>].age \in 0..MaxDelay /\ bounced[<<g, i>>].delay \in 0..MaxDelay
    BY <2>1, EntryNumbers
  <2>4. MaxDelay \in Nat
    BY WatchdogAssumption
  <2>5. QED
    BY <2>1, <2>2, <2>3, <2>4
<1>4. QED
  BY <1>1, <1>2, <1>3, PTL DEF Spec, Spaced

-----------------------------------------------------------------------------
\* The other bound on a bounce, from above.  After a turn, a group that is wanted
\* is in the middle of a bounce, or given up, or each of its slots has an anchor
\* younger than the delay the group goes by.
HadWanted == {had[i] : i \in Slot} \ {None}

Due(g) ==
  \/ omit[g] > 0
  \/ tries[g] >= ColdMax /\ \A i \in Slot : had[i] = g => prog[<<g, i>>] = Absent
  \/ \A i \in Slot : had[i] = g => anchor[<<g, i>>] # Absent /\ anchor[<<g, i>>] < delay[g]

DueInv == turned /\ DaemonOk => \A g \in HadWanted : g \in known /\ Due(g)

\* An entry that knows of progress has an anchor, which is no older: a group whose
\* delay comes back to the first one has no slot that this makes late.
ProgInv ==
  \A g \in Group, i \in Slot :
    prog[<<g, i>>] # Absent => anchor[<<g, i>>] # Absent /\ anchor[<<g, i>>] <= prog[<<g, i>>]

\* When a tick ends with the daemon settled, no slot of a group is left waiting
\* beyond its delay, unless its group is being bounced, or was given up.
Prompt ==
  [][turned /\ ~turned' /\ DaemonOk => \A g \in Wanted :
       \/ Omitted(g)
       \/ tries[g] >= ColdMax /\ \A i \in Of(g) : prog[<<g, i>>] = Absent
       \/ Stalled(g) = {}]_vars

\* What a turn takes for the progress of a slot is no younger than its anchor.
LEMMA EntryOrder ==
  ASSUME TypeOK, ProgInv, NEW g \in Group, NEW i \in Slot, NewProg(g, i) # Absent
  PROVE  NewAnchor(g, i) # Absent /\ NewAnchor(g, i) <= NewProg(g, i)
<1>1. ~Forgotten(g, i)
  BY DEF NewProg
<1>2. CASE Moved(g, i)
  BY <1>1, <1>2 DEF NewAnchor, NewProg, Absent
<1>3. CASE ~Moved(g, i)
  <2>1. NewProg(g, i) = prog[<<g, i>>] /\ g \in known
    BY <1>1, <1>3 DEF NewProg, Prog
  <2>2. anchor[<<g, i>>] # Absent /\ anchor[<<g, i>>] <= prog[<<g, i>>]
    BY <2>1 DEF ProgInv
  <2>3. NewAnchor(g, i) = anchor[<<g, i>>]
    BY <1>1, <1>3, <2>1, <2>2 DEF NewAnchor, Anchor
  <2>4. QED
    BY <2>1, <2>2, <2>3
<1>4. QED
  BY <1>2, <1>3

LEMMA NextProg == TypeOK /\ ProgInv /\ [Next]_vars => ProgInv'
<1> SUFFICES ASSUME TypeOK, ProgInv, [Next]_vars, NEW g \in Group, NEW i \in Slot,
                    prog'[<<g, i>>] # Absent
             PROVE  anchor'[<<g, i>>] # Absent /\ anchor'[<<g, i>>] <= prog'[<<g, i>>]
  BY DEF ProgInv
<1> DEFINE p == <<g, i>>
<1>1. /\ p \in Group \X Slot /\ p[1] = g /\ p[2] = i
      /\ anchor[p] \in Age \cup {Absent} /\ prog[p] \in Age \cup {Absent}
      /\ prog[p] # Absent => anchor[p] # Absent /\ anchor[p] <= prog[p]
  BY DEF TypeOK, ProgInv
<1> HIDE DEF p
<1>2. CASE Turn
  <2>1. /\ anchor'[p] = IF g \in Wanted /\ ~Looks(g) THEN anchor[p]
                        ELSE IF ~Looks(g) THEN Absent
                        ELSE IF Bounces(g) /\ i \in Stalled(g) THEN 0 ELSE NewAnchor(g, i)
        /\ prog'[p] = IF g \in Wanted /\ ~Looks(g) THEN prog[p]
                      ELSE IF ~Looks(g) THEN Absent ELSE NewProg(g, i)
    BY <1>1, <1>2 DEF Turn
  <2>2. CASE ~Looks(g)
    BY <1>1, <2>1, <2>2 DEF p
  <2>3. CASE Looks(g)
    <3>1. NewProg(g, i) # Absent /\ prog'[p] = NewProg(g, i)
      BY <2>1, <2>3 DEF p
    <3>2. NewAnchor(g, i) # Absent /\ NewAnchor(g, i) <= NewProg(g, i)
      BY <3>1, EntryOrder
    <3>3. NewProg(g, i) >= 0
      BY <3>1, EntryTypes, WatchdogAssumption DEF Age
    <3>4. QED
      BY <2>1, <2>3, <3>1, <3>2, <3>3 DEF p, Absent
  <2>4. QED
    BY <2>2, <2>3
<1>3. CASE Tick
  <2>1. anchor'[p] = Older(anchor[p]) /\ prog'[p] = Older(prog[p])
    BY <1>1, <1>3 DEF Tick
  <2>2. prog[p] # Absent
    BY <2>1 DEF Older, p
  <2>3. \A a \in Age, b \in Age : a <= b => Older(a) # Absent /\ Older(a) <= Older(b)
    BY WatchdogAssumption DEF Age, Absent, Older
  <2>4. QED
    BY <1>1, <2>1, <2>2, <2>3 DEF p
<1>4. CASE ~Turn /\ ~Tick
  BY <1>1, <1>4, OtherSteps DEF p
<1>5. QED
  BY <1>2, <1>3, <1>4

LEMMA TurnDue == TypeOK /\ ProgInv /\ Turn => DueInv'
<1> SUFFICES ASSUME TypeOK, ProgInv, Turn, launched > Grace, NEW g \in Wanted
             PROVE  g \in known' /\ Due(g)'
  BY DEF DueInv, HadWanted, Wanted, DaemonOk, Turn
<1>1. g \in Group /\ g \in known' /\ had' = sub
  BY DEF Turn, Wanted, TypeOK, Targets
<1>2. /\ delay'[g] = IF Bounces(g) THEN Twice(Delay(g)) ELSE IF Recovers(g) THEN Stall ELSE Delay(g)
      /\ tries'[g] = IF Bounces(g) THEN OneMore(Tries(g)) ELSE IF Recovers(g) THEN 0 ELSE Tries(g)
      /\ omit'[g] = IF Bounces(g) THEN Bounce ELSE IF g \in known THEN omit[g] ELSE 0
  BY <1>1 DEF Turn
<1>3. CASE Bounces(g) \/ ~Looks(g)
  <2>1. ~Looks(g) => g \in known /\ omit[g] > 0 /\ ~Bounces(g)
    BY DEF Looks, Omitted, Bounces
  <2>2. omit'[g] > 0
    BY <1>2, <1>3, <2>1, WatchdogAssumption
  <2>3. QED
    BY <1>1, <2>2 DEF Due
<1>4. ASSUME Looks(g), ~Bounces(g), NEW i \in Slot, sub[i] = g
      PROVE  i \in Of(g) /\ anchor'[<<g, i>>] = NewAnchor(g, i) /\ prog'[<<g, i>>] = NewProg(g, i)
  BY <1>1, <1>4 DEF Turn, Of
<1>5. CASE Looks(g) /\ ~Bounces(g) /\ Stalled(g) = {}
  <2>1. ASSUME NEW i \in Slot, sub[i] = g
        PROVE  NewAnchor(g, i) # Absent /\ NewAnchor(g, i) < delay'[g]
    <3>1. i \in Of(g) /\ ~Forgotten(g, i)
      BY <2>1 DEF Of, Forgotten
    <3>2. NewAnchor(g, i) # Absent
      BY <2>1, <3>1 DEF NewAnchor, Absent
    <3>3. NewAnchor(g, i) < Delay(g)
      <4>1. ~(NewAnchor(g, i) >= Delay(g))
        BY <1>5, <3>1 DEF Stalled
      <4>2. NewAnchor(g, i) \in Int /\ Delay(g) \in Int
        BY <1>1, EntryTypes, WatchdogAssumption DEF Age, Absent
      <4>3. QED
        BY <4>1, <4>2
    <3>4. CASE Recovers(g)
      <4>1. NewProg(g, i) # Absent /\ NewProg(g, i) < Stall
        BY <3>1, <3>4 DEF Recovers
      <4>2. NewAnchor(g, i) <= NewProg(g, i)
        BY <1>1, <4>1, EntryOrder
      <4>3. NewAnchor(g, i) \in Int /\ NewProg(g, i) \in Int /\ Stall \in Int
        BY <1>1, EntryTypes, WatchdogAssumption DEF Age, Absent
      <4>4. delay'[g] = Stall
        BY <1>2, <1>5, <3>4
      <4>5. QED
        BY <3>2, <4>1, <4>2, <4>3, <4>4
    <3>5. CASE ~Recovers(g)
      BY <1>2, <1>5, <3>2, <3>3, <3>5
    <3>6. QED
      BY <3>4, <3>5
  <2>2. \A i \in Slot : had'[i] = g => anchor'[<<g, i>>] # Absent /\ anchor'[<<g, i>>] < delay'[g]
    BY <1>1, <1>4, <1>5, <2>1
  <2>3. QED
    BY <1>1, <2>2 DEF Due
<1>6. CASE Looks(g) /\ ~Bounces(g) /\ Stalled(g) # {}
  <2>1. GivenUp(g) /\ ~Recovers(g)
    BY <1>6 DEF Bounces, DaemonOk, Recovers
  <2>2. tries'[g] >= ColdMax
    BY <1>2, <1>6, <2>1 DEF GivenUp
  <2>3. \A i \in Slot : had'[i] = g => prog'[<<g, i>>] = Absent
    BY <1>1, <1>4, <1>6, <2>1 DEF GivenUp, Cold
  <2>4. QED
    BY <1>1, <2>2, <2>3 DEF Due
<1>7. QED
  BY <1>3, <1>5, <1>6

LEMMA NextDue == TypeOK /\ ProgInv /\ DueInv /\ [Next]_vars => DueInv'
<1> SUFFICES ASSUME DueInv, [Next]_vars, ~Turn PROVE DueInv'
  BY TurnDue
<1>1. CASE Tick
  BY <1>1 DEF Tick, DueInv
<1>2. CASE Crash
  BY <1>2, WatchdogAssumption DEF Crash, DueInv, DaemonOk
<1>3. CASE ~Tick /\ ~Crash
  <2>1. UNCHANGED <<known, anchor, prog, delay, omit, tries, had, turned, launched>>
    BY <1>3 DEF Next, vars, Reconcile, Frame, NoFrame, Deafen, Subscribe, Sender, entryVars, historyVars
  <2>2. QED
    BY <2>1 DEF DueInv, DaemonOk, HadWanted, Due
<1>4. QED
  BY <1>1, <1>2, <1>3

\* A slot that gets no picture is not left waiting: once its delay is over, its
\* group is bounced, unless it never received and its tries are used up.  With
\* SpacedCorrect, the watchdog bounces a group neither sooner nor later than it
\* says, for any groups, slots and delays.
THEOREM PromptCorrect == Spec => Prompt
<1> DEFINE Left == turned /\ ~turned' /\ DaemonOk => \A g \in Wanted :
                     \/ Omitted(g)
                     \/ tries[g] >= ColdMax /\ \A i \in Of(g) : prog[<<g, i>>] = Absent
                     \/ Stalled(g) = {}
<1> DEFINE IInv == TypeOK /\ ProgInv /\ DueInv
<1>1. Init => IInv
  <2>1. Init => ProgInv /\ DueInv
    BY DEF Init, ProgInv, DueInv
  <2>2. QED
    BY <2>1, InitType
<1>2. IInv /\ [Next]_vars => IInv'
  BY NextType, NextProg, NextDue
<1>3. IInv /\ [Next]_vars => [Left]_vars
  <2> SUFFICES ASSUME TypeOK, DueInv, [Next]_vars, turned, ~turned', DaemonOk, NEW g \in Wanted
               PROVE  \/ Omitted(g)
                      \/ tries[g] >= ColdMax /\ \A i \in Of(g) : prog[<<g, i>>] = Absent
                      \/ Stalled(g) = {}
    OBVIOUS
  <2>1. Tick
    BY DEF Next, vars, Turn, Crash, Reconcile, Frame, NoFrame, Deafen, Subscribe, Sender
  <2>2. had = sub /\ g \in Group
    BY <2>1 DEF Tick, Wanted, TypeOK, Targets
  <2>3. g \in known /\ Due(g)
    BY <2>2 DEF DueInv, HadWanted, Wanted
  <2>4. CASE omit[g] > 0
    BY <2>3, <2>4 DEF Omitted
  <2>5. CASE tries[g] >= ColdMax /\ \A i \in Slot : had[i] = g => prog[<<g, i>>] = Absent
    BY <2>2, <2>5 DEF Of
  <2>6. CASE \A i \in Slot : had[i] = g => anchor[<<g, i>>] # Absent /\ anchor[<<g, i>>] < delay[g]
    <3> SUFFICES ASSUME NEW i \in Of(g) PROVE ~(NewAnchor(g, i) >= Delay(g))
      BY DEF Stalled
    <3>1. i \in Slot /\ sub[i] = g
      BY DEF Of
    <3>2. anchor[<<g, i>>] # Absent /\ anchor[<<g, i>>] < delay[g] /\ Delay(g) = delay[g]
      BY <2>2, <2>3, <2>6, <3>1 DEF Delay
    <3>3. NewAnchor(g, i) \in {0, anchor[<<g, i>>]}
      BY <2>3, <3>1 DEF NewAnchor, Forgotten, Anchor
    <3>4. 0 < Delay(g) /\ Delay(g) \in Int
      BY <2>2, <3>1, EntryTypes, WatchdogAssumption
    <3>5. anchor[<<g, i>>] \in Int
      BY <2>2, <3>1, WatchdogAssumption DEF TypeOK, Age, Absent
    <3>6. QED
      BY <3>2, <3>3, <3>4, <3>5
  <2>7. QED
    BY <2>3, <2>4, <2>5, <2>6 DEF Due
<1>4. QED
  BY <1>1, <1>2, <1>3, PTL DEF Spec, Prompt

-----------------------------------------------------------------------------
(* The signal probes, which a slot has beside its watchdog.                *)

\* The type of the probes, in two parts: numbers and names, and the Boolean flags.
ProbeNumbers ==
  /\ gen \in 1 .. MaxGen
  /\ idle \in 0 .. Stale + 1 /\ gone \in 0 .. Stale + 1 /\ pic \in Pictures
  /\ shared \in 1 .. gen /\ vr \in 0 .. gen /\ ar \in 0 .. gen /\ own \in 0 .. gen
  /\ pc \in {"sleep", "turn", "audio"} /\ it \in 0 .. Every - 1
  /\ staleV \in 0 .. 2 /\ staleA \in 0 .. 2
  /\ vseen \in {"none", "old", "new"} /\ aseen \in {"none", "old", "new"}
  /\ black \in -1 .. Hold + 1 /\ frozen \in -1 .. Hold + 1 /\ still \in -1 .. Stale + 1
  /\ lag \in -2 .. Ring + 1 /\ clip \in -1 .. ClipHold + 1
  /\ failed \in 0 .. MaxFailed

ProbeFlags ==
  /\ writing \in BOOLEAN /\ loud \in BOOLEAN /\ pinned \in BOOLEAN
  /\ alive \in BOOLEAN /\ bus \in BOOLEAN /\ slept \in BOOLEAN /\ hole \in BOOLEAN

\* Each action keeps the dates within their limits, and a reader on a generation
\* there has been.
LEMMA ProbeStep ==
  ASSUME ProbeNumbers, ProbeNext
  PROVE  ProbeNumbers'
  <1> USE ProbeAssumption DEF ProbeNumbers, flow, readers, vstate, astate
  <1>1. CASE Remake
    BY <1>1 DEF Remake, Behind
  <1>2. CASE Stop
    BY <1>2 DEF Stop
  <1>3. CASE Restart
    BY <1>3 DEF Restart
  <1>4. CASE SeeLive
    BY <1>4 DEF SeeLive
  <1>5. CASE Wake
    <2>1. it' \in 0 .. Every - 1 /\ pc' = "turn" /\ UNCHANGED <<gen, idle, gone, pic, failed>>
      BY <1>5 DEF Wake
    <2>2. CASE bus
      BY <1>5, <2>1, <2>2 DEF Wake, Drop, Close, Collected
    <2>3. CASE ~bus
      BY <1>5, <2>1, <2>3 DEF Wake
    <2> QED
      BY <2>2, <2>3
  <1>6. CASE NotLive
    BY <1>6 DEF NotLive, Drop, Close
  <1>7. CASE VideoSkip
    BY <1>7 DEF VideoSkip
  <1>8. CASE VideoStale
    BY <1>8 DEF VideoStale, VideoTurn, Reopen, Close, Collected, Escalate
  <1>9. CASE VideoNothing
    BY <1>9 DEF VideoNothing, VideoTurn, VReader, OwnAfter, Instance, MaxOf
  <1>10. CASE VideoGrain
    BY <1>10 DEF VideoGrain, VideoTurn, Since
  <1>11. CASE VideoRaise
    BY <1>11 DEF VideoRaise, VideoTurn, Raise, Close, Collected
  <1>12. CASE AudioStill
    BY <1>12 DEF AudioStill, AudioTurn, Publish, Reopen, Close, Collected, Escalate, Since, AOpen, AReader, OwnAfter, Instance, MaxOf
  <1>13. CASE AudioJump
    BY <1>13 DEF AudioJump, HeadMoved, AudioTurn
  <1>14. CASE AudioUnread
    BY <1>14 DEF AudioUnread, HeadMoved, AudioTurn
  <1>15. CASE AudioRead
    BY <1>15 DEF AudioRead, HeadMoved, AudioTurn
  <1>16. CASE AudioRaise
    BY <1>16 DEF AudioRaise, AudioTurn, Raise, Close, Collected
  <1>17. CASE Advance
    BY <1>17 DEF Advance, Moves, Aged, Upto, Grown, Behind
  <1> QED
    BY <1>1, <1>2, <1>3, <1>4, <1>5, <1>6, <1>7, <1>8, <1>9, <1>10, <1>11, <1>12, <1>13, <1>14, <1>15, <1>16, <1>17 DEF ProbeNext, Producer, Sampler

\* Each action sets a flag to a truth value.
LEMMA ProbeFlagsStep ==
  ASSUME ProbeFlags, ProbeNext
  PROVE  ProbeFlags'
  <1> USE DEF ProbeNext, Producer, Sampler, Remake, Stop, Restart,
              SeeLive, Wake, NotLive, VideoSkip, VideoStale,
              VideoNothing, VideoGrain, VideoRaise, AudioStill, AudioJump,
              AudioUnread, AudioRead, AudioRaise, Advance, HeadMoved, flow
  <1>1. writing' \in {TRUE, FALSE, writing}
    OBVIOUS
  <1>2. alive' \in {writing, alive}
    OBVIOUS
  <1>3. bus' \in {TRUE, FALSE, bus}
    OBVIOUS
  <1>4. slept' \in {TRUE, FALSE, slept}
    OBVIOUS
  <1>5. pinned' \in {TRUE, FALSE, pinned}
    OBVIOUS
  <1>6. loud' \in {TRUE, FALSE, loud}
    BY DEF Drop
  <1>7. hole' = TRUE \/ hole' = FALSE \/ hole' = hole
    BY DEF Drop, astate
  <1> HIDE DEF ProbeNext
  <1> QED
    BY <1>1, <1>2, <1>3, <1>4, <1>5, <1>6, <1>7 DEF ProbeFlags

\* Every reader of the probes is on a generation there has been, or on none; the
\* dates, the cursor of the audio and the count of the stale reads stay within the
\* limits they are compared with, whatever the periods, delays and rings are.
THEOREM ProbeTypeCorrect == ProbeSpec => []ProbeTypeOK
  <1> DEFINE Typed == ProbeNumbers /\ ProbeFlags
  <1>1. ProbeInit => Typed
    <2> SUFFICES ASSUME ProbeInit PROVE Typed
      OBVIOUS
    <2>1. ProbeNumbers
      BY ProbeAssumption DEF ProbeInit, ProbeNumbers
    <2>2. ProbeFlags
      BY DEF ProbeInit, ProbeFlags
    <2> QED
      BY <2>1, <2>2
  <1>2. Typed /\ [ProbeNext]_probeVars => Typed'
    <2>1. ASSUME Typed, UNCHANGED probeVars PROVE Typed'
      <3>1. ProbeNumbers'
        BY <2>1 DEF ProbeNumbers, probeVars, flow, readers, vstate, astate
      <3>2. ProbeFlags'
        BY <2>1 DEF ProbeFlags, probeVars, flow, astate
      <3> QED
        BY <3>1, <3>2
    <2> QED
      BY <2>1, ProbeStep, ProbeFlagsStep
  <1>3. Typed => ProbeTypeOK
    BY DEF ProbeNumbers, ProbeFlags, ProbeTypeOK
  <1>4. QED
    BY <1>1, <1>2, <1>3, PTL DEF ProbeSpec
=============================================================================
