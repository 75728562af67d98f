--------------------------- MODULE TxContent_proofs ---------------------------
(***************************************************************************)
(* What TLAPS proves of TxContent, for a ring of any size and any source:  *)
(* its typing, and that once a slate was read after an unwiring, a slate   *)
(* on air is the slate in memory.                                          *)
(***************************************************************************)
EXTENDS TxContent, SequenceTheorems, TLAPS

USE DEF Slot, NoSlot, Sides

\* What a turn without a fresh picture does to the variables of a publication:
\* it means a repetition or the witness, and never touches the slate stamps.
LEMMA RepeatOrWitnessEffect ==
  ASSUME NEW i, NEW force, RepeatOrWitness(i, force)
  PROVE  /\ out'.as # "slate"
         /\ sfOk' = sfOk
BY DEF RepeatOrWitness, Repeat, Witness, Publish

-----------------------------------------------------------------------------
(* Typing.                                                                 *)

LEMMA TargetSlot == TypeOK => Target \in Slot /\ \A i \in Slot : Succ(i) \in Slot
<1>1. \A i \in Slot : Succ(i) \in Slot
  BY ContentAssumption, SMT DEF Succ
<1> QED
  BY <1>1 DEF Target, TypeOK

LEMMA TypeInit == Init => TypeOK
<1> SUFFICES ASSUME Init PROVE TypeOK
  OBVIOUS
<1> USE ContentAssumption DEF Init, Kinds
<1>1. 0 \in Slot /\ N - 1 \in Slot /\ N \in Slot \cup {NoSlot}
  OBVIOUS
<1>2. Fallback + 1 \in 0..(Fallback + 1) /\ 0 \in 0..(Stale + 1)
  OBVIOUS
<1>3. pix \in [Slot -> {"other"} \cup Sides]
  OBVIOUS
<1>4. queue \in Seq(Slot) /\ out \in [slot : Slot, as : Kinds]
  BY <1>1
<1> QED
  BY <1>1, <1>2, <1>3, <1>4 DEF TypeOK

\* The variables of a framebuffer and of its publication keep their types.
PageType ==
  /\ prod \in Slot /\ hold \in Slot /\ queue \in Seq(Slot)
  /\ pix \in [Slot -> {"other"} \cup Sides]
  /\ current \in SUBSET Slot /\ sfOk \in SUBSET Slot
  /\ repOk \in SUBSET Slot /\ witOk \in SUBSET Slot
  /\ carrier \in Slot \cup {NoSlot}
  /\ side \in Sides /\ toggleDue \in BOOLEAN
  /\ out \in [slot : Slot, as : Kinds]

LEMMA PublishType ==
  ASSUME TypeOK, NEW i \in Slot, NEW as \in Kinds, Publish(i, as)
  PROVE  /\ prod' \in Slot /\ hold' \in Slot /\ queue' \in Seq(Slot)
         /\ out' \in [slot : Slot, as : Kinds]
<1>1. Append(queue, i) \in Seq(Slot)
  BY AppendProperties DEF TypeOK
<1>2. [slot |-> i, as |-> as] \in [slot : Slot, as : Kinds]
  OBVIOUS
<1> QED
  BY <1>1, <1>2, TargetSlot DEF TypeOK, Publish

LEMMA RepeatOrWitnessType ==
  ASSUME TypeOK, NEW i \in Slot, NEW force, RepeatOrWitness(i, force)
  PROVE  PageType'
<1>1. CASE CanRepeat(force) /\ Repeat(i)
  <2>1. prod' \in Slot /\ hold' \in Slot /\ queue' \in Seq(Slot)
          /\ out' \in [slot : Slot, as : Kinds]
    BY <1>1, PublishType DEF Repeat, Kinds
  <2>2. pix[carrier] \in {"other"} \cup Sides
    BY <1>1 DEF TypeOK, CanRepeat
  <2> QED
    BY <1>1, <2>1, <2>2 DEF TypeOK, PageType, Repeat, witnessVars, pixelVars
<1>2. CASE Witness(i)
  <2>1. prod' \in Slot /\ hold' \in Slot /\ queue' \in Seq(Slot)
          /\ out' \in [slot : Slot, as : Kinds]
    BY <1>2, PublishType DEF Witness, Kinds
  <2>2. side' \in Sides
    <3>1. \E x \in Sides : x # side
      OBVIOUS
    <3>2. (CHOOSE x \in Sides : x # side) \in Sides
      BY <3>1
    <3> QED
      BY <1>2, <3>2 DEF Witness, TypeOK
  <2>3. \A w : Paint(i, w) /\ w \in Sides => current' \in SUBSET Slot /\
           pix' \in [Slot -> {"other"} \cup Sides]
    BY DEF Paint, TypeOK
  <2>4. current' \in SUBSET Slot /\
           pix' \in [Slot -> {"other"} \cup Sides]
    <3>1. CASE UNCHANGED pixelVars
      BY <3>1 DEF TypeOK, pixelVars
    <3>2. CASE Paint(i, side')
      BY <3>2, <2>2, <2>3
    <3> QED
      BY <1>2, <3>1, <3>2 DEF Witness
  <2> QED
    BY <1>2, <2>1, <2>2, <2>4 DEF TypeOK, PageType, Witness
<1> QED
  BY <1>1, <1>2 DEF RepeatOrWitness

LEMMA LookType ==
  ASSUME TypeOK, NEW same, Look(same)
  PROVE  /\ reader' \in {"none", "old", "now"} /\ primed' \in BOOLEAN
         /\ freshAge' \in 0..(Fallback + 1) /\ idxAge' \in 0..(Stale + 1)
<1>1. Opened \in {"none", "old", "now"}
  BY DEF TypeOK, Opened
<1>2. 0 \in 0..(Fallback + 1) /\ 0 \in 0..(Stale + 1)
  BY ContentAssumption
<1>3. CASE ~Primed \/ ~same
  BY <1>1, <1>2, <1>3 DEF Look
<1>4. CASE ~(~Primed \/ ~same)
  BY <1>1, <1>4 DEF TypeOK, Look
<1> QED
  BY <1>3, <1>4

LEMMA NoLookType ==
  ASSUME TypeOK, NEW r \in {"none", "old", "now"}, NoLook(r)
  PROVE  /\ reader' \in {"none", "old", "now"} /\ primed' \in BOOLEAN
         /\ freshAge' \in 0..(Fallback + 1) /\ idxAge' \in 0..(Stale + 1)
BY DEF TypeOK, NoLook, Primed

\* The rest of the variables of a turn.
ReadType ==
  /\ reader \in {"none", "old", "now"} /\ primed \in BOOLEAN
  /\ freshAge \in 0..(Fallback + 1) /\ idxAge \in 0..(Stale + 1)
  /\ grain \in BOOLEAN

LEMMA WiredType == ASSUME TypeOK, Wired PROVE PageType' /\ ReadType'
<1>0. Target \in Slot
  BY TargetSlot
<1>1. CASE NoReader \/ Deleted \/ NoGrain
  <2>1. \E force : RepeatOrWitness(Target, force)
    BY <1>1 DEF NoReader, Deleted, NoGrain
  <2>2. NoLook("none") \/ NoLook("now")
    BY <1>1 DEF NoReader, Deleted, NoGrain
  <2>3. grain' \in BOOLEAN
    BY <1>1 DEF NoReader, Deleted, NoGrain, TypeOK
  <2>4. PageType'
    BY <1>0, <2>1, RepeatOrWitnessType
  <2> QED
    BY <2>2, <2>3, <2>4, NoLookType DEF ReadType
<1>2. CASE Picture \/ Partial \/ Replay
  <2> DEFINE Kept == sfOk' = sfOk /\ witOk' = witOk /\ UNCHANGED witnessVars
  <2>1. \E as \in Kinds : Publish(Target, as)
    BY <1>2 DEF Picture, Partial, Replay, Kinds
  <2>2. Paint(Target, "other")
    BY <1>2 DEF Picture, Partial, Replay
  <2>3. NoteFresh(Target) \/ UNCHANGED <<carrier, repOk>>
    BY <1>2 DEF Picture, Partial, Replay, stampVars
  <2>4. Kept
    BY <1>2 DEF Picture, Partial, Replay, stampVars
  <2>5. \E same : Look(same)
    BY <1>2 DEF Picture, Partial, Replay
  <2>6. grain' \in BOOLEAN
    BY <1>2 DEF Picture, Partial, Replay, TypeOK
  <2>7. ReadType'
    BY <2>5, <2>6, LookType DEF ReadType
  <2>8. PageType'
    <3>1. prod' \in Slot /\ hold' \in Slot /\ queue' \in Seq(Slot)
            /\ out' \in [slot : Slot, as : Kinds]
      BY <1>0, <2>1, PublishType
    <3>2. current' \in SUBSET Slot /\
            pix' \in [Slot -> {"other"} \cup Sides]
      BY <1>0, <2>2 DEF Paint, TypeOK
    <3>3. repOk' \in SUBSET Slot /\ carrier' \in Slot \cup {NoSlot}
      BY <1>0, <2>3 DEF NoteFresh, TypeOK
    <3> QED
      BY <2>4, <3>1, <3>2, <3>3 DEF TypeOK, PageType, witnessVars
  <2> QED
    BY <2>7, <2>8
<1> QED
  BY <1>1, <1>2 DEF Wired

LEMMA StillType ==
  ASSUME TypeOK, Still
  PROVE  PageType' /\ {bufHave', bufDate', bufNow', readHere'} \subseteq BOOLEAN
<1>0. Target \in Slot
  BY TargetSlot
<1>1. CASE Slate
  <2>1. prod' \in Slot /\ hold' \in Slot /\ queue' \in Seq(Slot)
          /\ out' \in [slot : Slot, as : Kinds]
    BY <1>0, <1>1, PublishType DEF Slate, Kinds
  <2>2. sfOk' \in SUBSET Slot /\ current' \in SUBSET Slot
    BY <1>0, <1>1 DEF Slate, Stamped, TypeOK
  <2>3. pix' \in [Slot -> {"other"} \cup Sides]
    BY <1>0, <1>1 DEF Slate, TypeOK
  <2>4. repOk' \in SUBSET Slot /\ carrier' \in Slot \cup {NoSlot}
    BY <1>0, <1>1 DEF Slate, NoteFresh, TypeOK
  <2>5. {bufHave', bufDate', bufNow', readHere'} \subseteq BOOLEAN
    BY <1>1 DEF Slate, Load, Reads, TypeOK
  <2> QED
    BY <1>1, <2>1, <2>2, <2>3, <2>4, <2>5 DEF TypeOK, PageType, Slate, witnessVars
<1>2. CASE NoSlate
  BY <1>0, <1>2, RepeatOrWitnessType DEF NoSlate, TypeOK
<1> QED
  BY <1>1, <1>2 DEF Still

LEMMA TypeStep == ASSUME TypeOK, [Next]_vars PROVE TypeOK'
<1>1. CASE WorkerTurn
  <2>1. PageType'
    BY <1>1, WiredType, StillType DEF WorkerTurn
  <2>2. ReadType'
    BY <1>1, WiredType DEF WorkerTurn, Still, TypeOK, ReadType
  <2>3. {bufHave', bufDate', bufNow', readHere'} \subseteq BOOLEAN
    BY <1>1, StillType DEF WorkerTurn, TypeOK
  <2> QED
    BY <1>1, <2>1, <2>2, <2>3 DEF WorkerTurn, TypeOK, PageType, ReadType
<1>2. CASE Take
  <2>1. /\ UNCHANGED <<prod, queue, hold, sfOk, repOk, witOk, carrier, pix, current, side>>
        /\ UNCHANGED <<toggleDue, primed, freshAge, idxAge, file, bufHave, bufDate, bufNow>>
        /\ UNCHANGED <<out, source, grain, want, pending, ticked, setup, moves>>
        /\ cable' = want /\ reader' = "none" /\ readHere' = FALSE
    BY <1>2 DEF Take, ringVars, stampVars, pixelVars, witnessVars
  <2>2. cable' \in BOOLEAN /\ readHere' \in BOOLEAN /\ reader' \in {"none", "old", "now"}
    <3>1. want \in BOOLEAN
      BY DEF TypeOK
    <3>2. cable' = want /\ reader' = "none" /\ readHere' = FALSE
      BY <2>1
    <3> QED
      BY <3>1, <3>2, Zenon
  <2> QED
    BY <2>1, <2>2 DEF TypeOK
<1>3. CASE Reopen
  <2>1. Opened \in {"none", "old", "now"}
    BY DEF TypeOK, Opened
  <2>2. /\ reader' \in {"none", "old", "now"} /\ primed' \in BOOLEAN
        /\ freshAge' \in 0..(Fallback + 1) /\ idxAge' \in 0..(Stale + 1)
    BY <1>3, <2>1, NoLookType DEF Reopen
  <2> QED
    BY <1>3, <2>2 DEF TypeOK, Reopen, ringVars, stampVars, pixelVars, witnessVars, fileVars
<1>4. CASE Sent
  <2>1. hold' \in Slot /\ queue' \in Seq(Slot)
    BY <1>4, HeadTailProperties DEF Sent, TypeOK
  <2> QED
    BY <1>4, <2>1 DEF TypeOK, Sent, stampVars, pixelVars, witnessVars, readVars, fileVars
<1>5. CASE Wire \/ Unwire \/ RemoveSlate \/ PublishSlate \/ NewGrain
  <2> USE DEF TypeOK, workerVars, ringVars, stampVars, pixelVars, witnessVars, readVars
  <2>1. CASE Wire
    <3>1. /\ UNCHANGED <<workerVars, source, grain, file, bufDate, bufNow, readHere, ticked, setup>>
          /\ want' \in BOOLEAN /\ pending' \in BOOLEAN /\ moves' \in Nat
      BY <2>1 DEF Wire, Does
    <3> QED
      BY <3>1
  <2>2. CASE Unwire
    <3>0. moves' = moves + 1
      BY <2>2 DEF Unwire, Does
    <3>1. /\ UNCHANGED <<workerVars, source, grain, file, bufDate, bufNow, readHere, ticked, setup>>
          /\ want' \in BOOLEAN /\ pending' \in BOOLEAN /\ moves' \in Nat
      <4>1. want' = FALSE /\ pending' = TRUE
        BY <2>2 DEF Unwire
      <4>2. want' \in BOOLEAN /\ pending' \in BOOLEAN
        BY <4>1, Zenon
      <4>3. UNCHANGED <<workerVars, source, grain, file, bufDate, bufNow, readHere, ticked, setup>>
        <5> HIDE DEF TypeOK, workerVars
        <5> QED
          BY <2>2 DEF Unwire
      <4> QED
        BY <3>0, <4>2, <4>3
    <3> QED
      BY <3>1
  <2>3. CASE PublishSlate
    <3>1. moves' \in Nat
      BY <2>3 DEF PublishSlate, Does
    <3>2. /\ UNCHANGED <<workerVars, source, grain, want, readHere, setup>>
          /\ file' \in BOOLEAN /\ bufNow' \in BOOLEAN /\ bufDate' \in BOOLEAN
          /\ ticked' \in BOOLEAN /\ pending' \in BOOLEAN
      <4> HIDE DEF TypeOK, workerVars
      <4> QED
        BY <2>3 DEF PublishSlate
    <3> QED
      BY <3>1, <3>2
  <2>5. CASE RemoveSlate
    <3>1. /\ UNCHANGED <<workerVars, source, grain, want, bufDate, bufNow, readHere, ticked>>
          /\ UNCHANGED <<setup, moves>>
          /\ file' \in BOOLEAN /\ pending' \in BOOLEAN
      BY <2>5 DEF RemoveSlate
    <3> QED
      BY <3>1
  <2>4. CASE NewGrain
    BY <2>4 DEF NewGrain
  <2> QED
    BY <1>5, <2>1, <2>2, <2>3, <2>4, <2>5
<1>6. CASE SourceMoves
  <2>0. setup.sources \subseteq {"gone", "empty", "live", "stuck"}
    BY ContentAssumption DEF TypeOK
  <2>1. source' \in {"gone", "empty", "live", "stuck"}
    BY <1>6, <2>0 DEF SourceMoves
  <2>2. reader' \in {"none", "old", "now"} /\ grain' \in BOOLEAN
    BY <1>6 DEF SourceMoves, TypeOK
  <2> QED
    BY <1>6, <2>1, <2>2 DEF TypeOK, SourceMoves, ringVars, stampVars, pixelVars, witnessVars,
                            fileVars
<1>7. CASE Tick
  <2>1. freshAge' \in 0..(Fallback + 1) /\ idxAge' \in 0..(Stale + 1)
    BY <1>7, ContentAssumption DEF Tick, TypeOK
  <2> QED
    BY <1>7, <2>1 DEF TypeOK, Tick, ringVars, stampVars, pixelVars, fileVars
<1>8. CASE UNCHANGED vars
  BY <1>8 DEF TypeOK, vars, workerVars, ringVars, stampVars, pixelVars, witnessVars, readVars
<1> QED
  BY <1>1, <1>2, <1>3, <1>4, <1>5, <1>6, <1>7, <1>8 DEF Next

\* Typing, for every ring, every delay and every set of changes and sources.
THEOREM TypeCorrect == Spec => []TypeOK
BY TypeInit, TypeStep, PTL DEF Spec

-----------------------------------------------------------------------------
(* The slate.  A read starts a new generation, so no framebuffer packed     *)
(* before it is believed; until the next wiring nothing else is packed.    *)

\* Why: once the slate was read after an unwiring it is in memory, and a stamp
\* that says it is in a framebuffer is right.
SlateInv ==
  /\ SlateIsSlate
  /\ readHere => bufHave
  /\ readHere /\ ~cable => sfOk \subseteq current

LEMMA SlateInit == Init => SlateInv
BY DEF Init, SlateInv, SlateIsSlate

\* A wired turn publishes no slate, and the stamps of a wired sender are not
\* relied on.
LEMMA SlateWired ==
  ASSUME SlateInv, Wired, UNCHANGED <<cable, bufHave, readHere>>
  PROVE  SlateInv'
<1>1. cable
  BY DEF Wired, NoReader, Deleted, NoGrain, Picture, Partial, Replay, WiredTurn
<1>2. out'.as # "slate"
  <2>1. CASE NoReader \/ Deleted \/ NoGrain
    <3>1. \E force : RepeatOrWitness(Target, force)
      BY <2>1 DEF NoReader, Deleted, NoGrain
    <3> QED
      BY <3>1, RepeatOrWitnessEffect
  <2>2. CASE Picture \/ Partial \/ Replay
    <3>1. Publish(Target, "picture") \/ Publish(Target, "partial") \/ Publish(Target, "replay")
      BY <2>2 DEF Picture, Partial, Replay
    <3> QED
      BY <3>1 DEF Publish
  <2> QED
    BY <2>1, <2>2 DEF Wired
<1> QED
  BY <1>1, <1>2 DEF SlateInv, SlateIsSlate

\* A still turn reads the file when it has another date, and packs the slate
\* where the stamp is not good; once it was read there is always a slate.
LEMMA SlateStill ==
  ASSUME TypeOK, SlateInv, Still, UNCHANGED cable
  PROVE  SlateInv'
<1>0. ~cable
  BY DEF Still, Slate, NoSlate, StillTurn
<1>1. CASE NoSlate
  <2>1. ~bufHave /\ bufHave' = bufHave /\ readHere' = readHere
    BY <1>1 DEF NoSlate, Loaded, TypeOK
  <2> QED
    BY <2>1 DEF SlateInv, SlateIsSlate
<1>2. CASE Slate
  <2> DEFINE kept == IF Reads THEN {} ELSE current
  <2>1. readHere' => bufHave' /\ Stamped \subseteq kept
    BY <1>0, <1>2 DEF SlateInv, Stamped, Slate, Load, TypeOK
  <2>2. sfOk' = Stamped \cup {Target} /\ out' = [slot |-> Target, as |-> "slate"]
    BY <1>2 DEF Slate, Publish
  <2>3. readHere' => sfOk' \subseteq current' /\ out'.slot \in current'
    <3>1. CASE Target \in Stamped
      <4>1. current' = kept
        BY <1>2, <3>1 DEF Slate
      <4> QED
        BY <2>1, <2>2, <3>1, <4>1
    <3>2. CASE Target \notin Stamped
      <4>1. current' = kept \cup {Target}
        BY <1>2, <3>2 DEF Slate
      <4> QED
        BY <2>1, <2>2, <4>1
    <3> QED
      BY <3>1, <3>2
  <2> QED
    BY <2>1, <2>3 DEF SlateInv, SlateIsSlate
<1> QED
  BY <1>1, <1>2 DEF Still

\* The operator, the daemon and the others never touch the framebuffers.
LEMMA SlateStep ==
  ASSUME TypeOK, SlateInv, [Next]_vars
  PROVE  SlateInv'
<1>1. CASE WorkerTurn
  BY <1>1, SlateWired, SlateStill DEF WorkerTurn
<1>2. CASE Take
  <2>1. ~readHere'
    BY <1>2 DEF Take
  <2> QED
    BY <2>1 DEF SlateInv, SlateIsSlate
<1>3. CASE ~WorkerTurn /\ ~Take
  <2>1. UNCHANGED <<out, current, sfOk, bufHave, readHere, cable>>
    BY <1>3 DEF Next, Reopen, Sent, Wire, Unwire, RemoveSlate, PublishSlate, SourceMoves,
                NewGrain, Tick, vars, workerVars, fileVars, stampVars, pixelVars
  <2> QED
    BY <2>1 DEF SlateInv, SlateIsSlate
<1> QED
  BY <1>1, <1>2, <1>3

\* From the first turn that reads a slate after an unwiring to the next wiring,
\* a slate on air is the slate in memory, whatever the operator publishes and
\* whenever: the stamps of the framebuffers do not lie to the worker.
THEOREM SlateCorrect == Spec => []SlateIsSlate
<1>1. TypeOK /\ SlateInv /\ [Next]_vars => SlateInv'
  BY SlateStep
<1>2. SlateInv => SlateIsSlate
  BY DEF SlateInv
<1> QED
  BY <1>1, <1>2, SlateInit, TypeCorrect, PTL DEF Spec
=============================================================================
