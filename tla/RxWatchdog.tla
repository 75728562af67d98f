------------------------------ MODULE RxWatchdog ------------------------------
(***************************************************************************)
(* The watchdog of the receivers, in the manager thread of controller.py:  *)
(* a multicast group whose slots get no picture for a while is left out of *)
(* the configuration for a moment, so that the daemon frees its session    *)
(* and creates it again.  Creating a session may stop the port, so a group *)
(* that never received anything is given up after ColdMax tries, and the   *)
(* others are retried less and less often.                                 *)
(*                                                                         *)
(* The manager knows of pictures only through metrics[i].frame_index,      *)
(* which another thread copies from the statistics of the daemon.  Of that *)
(* number the watchdog asks whether it is positive and whether it is the   *)
(* one it saw last: pos and seen hold just that.  Dates are replaced by    *)
(* ages, in ticks.                                                         *)
(***************************************************************************)
EXTENDS Integers, FiniteSets

CONSTANTS
  Group,       \* multicast groups
  Slot,        \* video slots
  Stall,       \* _WD_STALL_S
  Bounce,      \* _WD_BOUNCE_S
  MaxDelay,    \* _WD_MAX_S
  Grace,       \* _WD_GRACE_S
  ColdMax,     \* _WD_COLD_MAX_N
  MaxTries,    \* bound: tries counted
  MaxFaults    \* bound: exits of the daemon and changes of subscription

None == "none"
Absent == -1

ASSUME WatchdogAssumption ==
  /\ None \notin Group
  /\ {Stall, Bounce, MaxDelay} \subseteq Nat \ {0} /\ Stall <= MaxDelay
  /\ Grace \in Nat /\ ColdMax \in Nat /\ MaxTries \in Nat /\ ColdMax < MaxTries
  /\ MaxFaults \in Nat

VARIABLES
  sub,       \* the group of the SDP of each slot
  known,     \* keys of _wd_state
  seen,      \* <<g, i>>: the entry of g has i in "fi", with the frame_index of metrics[i]
  listed,    \* <<g, i>>: the entry of g has i in "fi"
  anchor,    \* age of the "anchor" of i in the entry of g
  prog,      \* age of its "prog"
  delay,     \* "delay" of the entry of g
  omit,      \* ticks left before its "until"
  tries,     \* its "n"
  emitted,   \* the sessions in the configuration: the group each slot is a target of
  live,      \* the sessions of the daemon
  hears,     \* slots whose session gets the packets of its group
  sends,     \* groups with a sender
  pos,       \* slots whose metrics hold a positive frame_index
  launched,  \* age of _last_launch
  blank,     \* slots whose new session has no picture and no statistics yet
  turned,    \* the manager has taken a turn in this tick
  faults,    \* bound: exits and changes of subscription so far
  had,       \* history: the subscriptions of the last turn
  bounced    \* history: age of the last bounce for each slot, and the delay it announced

entryVars == <<seen, listed, anchor, prog, delay, omit, tries>>
historyVars == <<had, bounced>>
daemonVars == <<live, hears, blank>>
vars == <<sub, known, entryVars, emitted, daemonVars, sends, pos, launched, turned, faults, historyVars>>

Age == 0..MaxDelay
Targets == [Slot -> Group \cup {None}]

TypeOK ==
  /\ {sub, emitted, live, had} \subseteq Targets
  /\ known \in SUBSET Group /\ sends \in SUBSET Group
  /\ seen \in SUBSET (Group \X Slot) /\ listed \in SUBSET (Group \X Slot)
  /\ anchor \in [Group \X Slot -> Age \cup {Absent}]
  /\ prog \in [Group \X Slot -> Age \cup {Absent}]
  /\ delay \in [Group -> Stall..MaxDelay]
  /\ omit \in [Group -> 0..Bounce]
  /\ tries \in [Group -> 0..MaxTries]
  /\ {hears, pos, blank} \subseteq SUBSET Slot /\ turned \in BOOLEAN
  /\ launched \in 0..(Grace + 1) /\ faults \in 0..MaxFaults
  /\ bounced \in [Group \X Slot -> [age : Age, delay : 0..MaxDelay]]

\* A manager that starts, with the subscriptions it finds.
Init ==
  /\ sub \in Targets /\ emitted = [i \in Slot |-> None] /\ live = emitted
  /\ known = {} /\ seen = {} /\ listed = {}
  /\ anchor = [p \in Group \X Slot |-> Absent] /\ prog = anchor
  /\ delay = [g \in Group |-> Stall]
  /\ omit = [g \in Group |-> 0] /\ tries = omit
  /\ hears = {} /\ blank = {} /\ sends \in SUBSET Group /\ pos = {}
  /\ launched = Grace + 1 /\ turned = FALSE /\ faults = 0
  /\ had = emitted
  /\ bounced = [p \in Group \X Slot |-> [age |-> MaxDelay, delay |-> 0]]

-----------------------------------------------------------------------------
(* One turn of the manager: the watchdog part of _manager_loop.            *)

Wanted == {sub[i] : i \in Slot} \ {None}
Of(g) == {i \in Slot : sub[i] = g}

\* The entry of g is new this turn, or was there.
Anchor(g, i) == IF g \in known THEN anchor[<<g, i>>] ELSE Absent
Prog(g, i) == IF g \in known THEN prog[<<g, i>>] ELSE Absent

\* Mutant: the delay of the first try for all of them.
MutDelay(g) == Stall

Delay(g) == IF g \in known THEN delay[g] ELSE Stall

Tries(g) == IF g \in known THEN tries[g] ELSE 0

\* The group is in the middle of a bounce: this turn does not look at it.
Omitted(g) == g \in known /\ omit[g] > 0

\* A slot that has left the group is forgotten, if it ever was in "fi".
Forgotten(g, i) == sub[i] # g /\ g \in known /\ <<g, i>> \in listed

\* The frame index is positive and is not the one seen last.
Moved(g, i) == sub[i] = g /\ i \in pos /\ (g \notin known \/ <<g, i>> \notin seen)

NewAnchor(g, i) ==
  IF Forgotten(g, i) THEN Absent
  ELSE IF Moved(g, i) \/ (sub[i] = g /\ Anchor(g, i) = Absent) THEN 0
  ELSE Anchor(g, i)

NewProg(g, i) ==
  IF Forgotten(g, i) THEN Absent ELSE IF Moved(g, i) THEN 0 ELSE Prog(g, i)

\* Mutant: one slot that gets pictures hides the others.
MutStalled(g) == IF \E i \in Of(g) : NewAnchor(g, i) < Delay(g) THEN {} ELSE Of(g)

Stalled(g) == {i \in Of(g) : NewAnchor(g, i) >= Delay(g)}

\* None of its slots ever progressed, as far as the entry tells.
Cold(g) == \A i \in Of(g) : NewProg(g, i) = Absent

DaemonOk == launched > Grace

GivenUp(g) == Cold(g) /\ Tries(g) >= ColdMax

Looks(g) == g \in Wanted /\ ~Omitted(g)
Bounces(g) == Looks(g) /\ Stalled(g) # {} /\ DaemonOk /\ ~GivenUp(g)

\* All the slots have progressed lately: the backoff starts again.
Recovers(g) ==
  /\ Looks(g) /\ Stalled(g) = {}
  /\ \A i \in Of(g) : NewProg(g, i) # Absent /\ NewProg(g, i) < Stall

Twice(d) == IF 2 * d > MaxDelay THEN MaxDelay ELSE 2 * d

OneMore(k) == IF k < MaxTries THEN k + 1 ELSE k

Turn ==
  /\ known' = Wanted
  /\ LET P == Group \X Slot
         looked == {p \in P : Looks(p[1])}
         kept == {p \in P : p[1] \in Wanted /\ ~Looks(p[1])}
         moved == {p \in looked : Moved(p[1], p[2])}
         stays == {p \in looked : p[1] \in known /\ ~Forgotten(p[1], p[2])}
     IN /\ seen' = (seen \cap (kept \cup stays)) \cup moved
        /\ listed' = (listed \cap (kept \cup stays)) \cup moved
        /\ anchor' = [p \in P |->
             IF p \in kept THEN anchor[p]
             ELSE IF p \notin looked THEN Absent
             ELSE IF Bounces(p[1]) /\ p[2] \in Stalled(p[1]) THEN 0
             ELSE NewAnchor(p[1], p[2])]
        /\ prog' = [p \in P |->
             IF p \in kept THEN prog[p]
             ELSE IF p \notin looked THEN Absent
             ELSE NewProg(p[1], p[2])]
  /\ delay' = [g \in Group |->
       IF Bounces(g) THEN Twice(Delay(g))
       ELSE IF g \notin Wanted \/ Recovers(g) THEN Stall
       ELSE Delay(g)]
  /\ tries' = [g \in Group |->
       IF Bounces(g) THEN OneMore(Tries(g))
       ELSE IF g \notin Wanted \/ Recovers(g) THEN 0
       ELSE Tries(g)]
  /\ omit' = [g \in Group |->
       IF Bounces(g) THEN Bounce ELSE IF g \in Wanted /\ g \in known THEN omit[g] ELSE 0]
  /\ emitted' = [i \in Slot |->
       IF sub[i] # None /\ Looks(sub[i]) /\ ~Bounces(sub[i]) THEN sub[i] ELSE None]
  /\ had' = sub /\ turned' = TRUE
  /\ bounced' = [p \in Group \X Slot |->
       IF Bounces(p[1]) /\ p[2] \in Stalled(p[1]) THEN [age |-> 0, delay |-> Twice(Delay(p[1]))]
       ELSE IF p[1] \notin Wanted \/ Recovers(p[1]) THEN [age |-> MaxDelay, delay |-> 0]
       ELSE bounced[p]]
  /\ UNCHANGED <<sub, daemonVars, sends, pos, launched, faults>>

-----------------------------------------------------------------------------
(* The daemon, the network and the operator.                               *)

\* The daemon reconciles: a session whose group or slots changed is created
\* again, and may or may not get its packets.
Names(i) == {emitted[i], live[i]} \ {None}
Changed ==
  {i \in Slot : \E j \in Slot : emitted[j] # live[j] /\ (i = j \/ Names(i) \cap Names(j) # {})}
Created == {i \in Changed : emitted[i] # None}

Reconcile(good) ==
  /\ emitted # live
  /\ live' = emitted
  /\ hears' = (hears \ Changed) \cup (good \cap Created)
  /\ blank' = (blank \ Changed) \cup Created
  /\ UNCHANGED <<sub, known, entryVars, emitted, sends, pos, launched, turned, faults, historyVars>>

\* The manager copies the statistics of a slot that it has in the configuration
\* (_live): of a session that has given no picture yet, the index is zero.
Receives(i) == live[i] # None /\ emitted[i] = live[i] /\ i \in hears /\ live[i] \in sends

Frame(i) ==
  /\ Receives(i)
  /\ pos' = pos \cup {i} /\ seen' = {p \in seen : p[2] # i}
  /\ blank' = blank \ {i}
  /\ UNCHANGED <<sub, known, listed, anchor, prog, delay, omit, tries, emitted, live, hears,
                 sends, launched, turned, faults, had, bounced>>

NoFrame(i) ==
  /\ i \in blank /\ emitted[i] # None
  /\ blank' = blank \ {i} /\ pos' = pos \ {i}
  /\ UNCHANGED <<sub, known, entryVars, emitted, live, hears, sends, launched, turned, faults,
                 historyVars>>

\* The session of a slot stops getting its packets; a sender stops or starts.
Deafen(i) ==
  /\ i \in hears /\ hears' = hears \ {i}
  /\ UNCHANGED <<sub, known, entryVars, emitted, live, blank, sends, pos, launched, turned, faults,
                 historyVars>>

Sender(g) ==
  /\ sends' = (sends \ {g}) \cup ({g} \ sends)
  /\ UNCHANGED <<sub, known, entryVars, emitted, daemonVars, pos, launched, turned, faults, historyVars>>

\* An operator subscribes a slot elsewhere, or unsubscribes it.  Its metrics stay.
Subscribe(i, g) ==
  /\ faults < MaxFaults /\ faults' = faults + 1 /\ sub[i] # g
  /\ sub' = [sub EXCEPT ![i] = g]
  /\ UNCHANGED <<known, entryVars, emitted, daemonVars, sends, pos, launched, turned, had, bounced>>

\* The daemon exits and is launched again; it creates its sessions within Grace.
Crash ==
  /\ faults < MaxFaults /\ faults' = faults + 1 /\ DaemonOk
  /\ launched' = 0
  /\ live' = [i \in Slot |-> None] /\ hears' = {} /\ blank' = {}
  /\ UNCHANGED <<sub, known, entryVars, emitted, sends, pos, turned, historyVars>>

\* A tick is longer than a turn of the manager, a poll of the daemon, the period
\* of its statistics and that of the pictures.
Older(a) == IF a = Absent \/ a = MaxDelay THEN a ELSE a + 1

Tick ==
  /\ turned /\ turned' = FALSE
  /\ had = sub /\ (emitted = live \/ ~DaemonOk) /\ blank = {}
  /\ \A i \in Slot : Receives(i) => Moved(sub[i], i) \/ prog[<<sub[i], i>>] = 0
  /\ anchor' = [p \in Group \X Slot |-> Older(anchor[p])]
  /\ prog' = [p \in Group \X Slot |-> Older(prog[p])]
  /\ omit' = [g \in Group |-> IF omit[g] = 0 THEN 0 ELSE omit[g] - 1]
  /\ launched' = IF DaemonOk THEN launched ELSE launched + 1
  /\ bounced' = [p \in Group \X Slot |-> [bounced[p] EXCEPT !.age = Older(bounced[p].age)]]
  /\ UNCHANGED <<sub, known, seen, listed, delay, tries, emitted, daemonVars, sends, pos, faults,
                 had>>

Next ==
  \/ Turn \/ Tick \/ Crash
  \/ \E good \in SUBSET Slot : Reconcile(good)
  \/ \E i \in Slot : Frame(i) \/ NoFrame(i) \/ Deafen(i)
  \/ \E i \in Slot, g \in Group \cup {None} : Subscribe(i, g)
  \/ \E g \in Group : Sender(g)

Spec == Init /\ [][Next]_vars

\* The threads of the manager, the daemon and the clock go on, and of sessions
\* created again and again some get their packets.
Fairness ==
  /\ WF_vars(Turn) /\ WF_vars(Tick)
  /\ WF_vars(\E good \in SUBSET Slot : Reconcile(good)) /\ SF_vars(Created # {} /\ Reconcile(Slot))
  /\ \A i \in Slot : WF_vars(Frame(i)) /\ WF_vars(NoFrame(i))

FairSpec == Spec /\ Fairness

-----------------------------------------------------------------------------
(* Properties.                                                             *)

\* "Prochain essai dans ...": a slot that does not recover is left alone for the
\* delay its last bounce announced, whatever the other slots of its group do.
Spaced ==
  [][\A g \in Group : omit'[g] > omit[g] =>
       \A i \in Stalled(g) : bounced[<<g, i>>].age >= bounced[<<g, i>>].delay]_vars

\* While its source goes on, a slot that lost its packets gets them back, also
\* in a group whose other slots never lost them.  Only a group given up may go
\* without, and then "la session reste en place et recevra si ca arrive".
Heals ==
  \A i \in Slot :
    /\ <>[](DaemonOk /\ sub[i] \in sends) /\ <>[][sub' = sub]_vars
    /\ <>[][hears \subseteq hears' \/ emitted # live]_vars
    =>
      <>[](i \in hears \/ (GivenUp(sub[i]) /\ live[i] = sub[i]))
=============================================================================
