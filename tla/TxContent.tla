------------------------------ MODULE TxContent ------------------------------
(***************************************************************************)
(* What goes on air from one slice-mode video sender: every turn of        *)
(* video_tx_slice_thread that has a free framebuffer publishes one picture *)
(* in it, which is a grain of the wired source, the same grain again, a    *)
(* copy of the last real picture, the moving witness, or the still frame   *)
(* (slate) the controller left in a file.  Framebuffers keep their pixels, *)
(* so each carries three stamps that say its pixels are still good and     *)
(* need no new packing.                                                    *)
(*                                                                         *)
(* The ring itself is TxRing: here libmtl sends the framebuffers in the    *)
(* order they were published, one at a time, and a publication is atomic.  *)
(* The generation numbers are replaced by what the code asks of them: the  *)
(* set of framebuffers whose stamp is the current generation.  Time runs   *)
(* in half seconds.                                                        *)
(***************************************************************************)
EXTENDS Integers, Sequences

CONSTANTS
  N,            \* framebuffers of the ring (sl_fb_cnt)
  Stale,        \* half seconds before a source that does not move is reopened
  Fallback,     \* half seconds before a source that gives nothing new is dead
  Setups        \* bound: the states a source goes through, what the operator does,
                \* among "wire", "unwire" and "slate", and how often

ASSUME ContentAssumption ==
  /\ N \in Nat /\ N >= 3
  /\ Stale \in Nat /\ Fallback \in Nat /\ Stale < Fallback
  /\ Setups \subseteq [sources : SUBSET {"gone", "empty", "live", "stuck"},
                       changes : SUBSET {"wire", "unwire", "slate"}, moves : Nat]

VARIABLES
  prod,       \* sl_fb_prod
  queue,      \* framebuffers published and not yet sent (stat = 1), oldest first
  hold,       \* sl_hold_idx, the framebuffer with stat = 2
  pix,        \* the side of the square in a framebuffer that shows the witness
  current,    \* framebuffers whose pixels are the slate in sf_buf
  sfOk,       \* framebuffers with sf_stamp = sf_gen
  repOk,      \* framebuffers with rep_stamp = sl_content_gen
  witOk,      \* framebuffers with wit_stamp = sl_witness_gen
  carrier,    \* sl_carrier_idx, NoSlot while sl_carrier_valid = 0
  side,       \* sl_witness_cur
  toggleDue,  \* SL_FALLBACK_TOGGLE_NS have passed since sl_witness_switch_ns
  cable,      \* shm_path names a source, as the worker took it
  reader,     \* the flow reader: none, on the current flow, or on a deleted one
  primed,     \* tx_src_idx_init
  freshAge,   \* age of last_fresh_ns, in half seconds
  idxAge,     \* age of tx_src_idx_ns
  source,     \* the flow: gone, empty (no grain yet), live, or stuck on a grain
  grain,      \* the flow has a grain the worker has not read
  want,       \* the controller wires the sender to the source (cable_shm)
  pending,    \* _tx_gen_apply has changed the tables, and not the slate file yet
  file,       \* the slate file exists
  bufHave,    \* sf_buf is loaded
  bufDate,    \* the date and size of the file are those of sf_buf
  bufNow,     \* sf_buf is what the controller last published
  readHere,   \* history: sf_buf was read since the worker was last unwired
  ticked,     \* the date of the clock is past that of the last publication
  setup,      \* the bounds of this behaviour
  moves,      \* what the operator did so far
  out         \* the last publication: its framebuffer, and what the worker meant by it

ringVars == <<prod, queue, hold>>
stampVars == <<sfOk, repOk, witOk, carrier>>
pixelVars == <<pix, current>>
witnessVars == <<side, toggleDue>>
readVars == <<reader, primed, freshAge, idxAge>>
fileVars == <<file, bufHave, bufDate, bufNow, readHere>>
workerVars == <<ringVars, stampVars, pixelVars, witnessVars, readVars, cable, bufHave, out>>
vars == <<workerVars, source, grain, want, pending, file, bufDate, bufNow, readHere, ticked,
          setup, moves>>

Slot == 0..(N - 1)
NoSlot == N
Kinds == {"picture", "partial", "replay", "repeat", "witness", "slate"}
Sides == {"left", "right"}

TypeOK ==
  /\ prod \in Slot /\ hold \in Slot
  /\ queue \in Seq(Slot)
  /\ pix \in [Slot -> {"other"} \cup Sides]
  /\ current \in SUBSET Slot /\ sfOk \in SUBSET Slot
  /\ repOk \in SUBSET Slot /\ witOk \in SUBSET Slot
  /\ carrier \in Slot \cup {NoSlot}
  /\ side \in Sides /\ toggleDue \in BOOLEAN
  /\ cable \in BOOLEAN
  /\ reader \in {"none", "old", "now"} /\ primed \in BOOLEAN
  /\ freshAge \in 0..(Fallback + 1) /\ idxAge \in 0..(Stale + 1)
  /\ source \in {"gone", "empty", "live", "stuck"} /\ grain \in BOOLEAN
  /\ want \in BOOLEAN /\ pending \in BOOLEAN
  /\ file \in BOOLEAN /\ bufHave \in BOOLEAN
  /\ bufDate \in BOOLEAN /\ bufNow \in BOOLEAN
  /\ readHere \in BOOLEAN /\ ticked \in BOOLEAN
  /\ setup \in Setups /\ moves \in Nat
  /\ out \in [slot : Slot, as : Kinds]

\* setup_video_slice_tx on a sender that is not wired: the ring is empty but
\* for the black frame held from the start, and every stamp and generation is 0.
Init ==
  /\ prod = 0 /\ queue = <<>> /\ hold = N - 1
  /\ pix = [i \in Slot |-> "other"] /\ current = {}
  /\ sfOk = Slot /\ repOk = Slot /\ witOk = Slot
  /\ carrier = NoSlot
  /\ side = "left" /\ toggleDue = TRUE
  /\ cable = FALSE /\ reader = "none" /\ primed = FALSE
  /\ freshAge = Fallback + 1 /\ idxAge = 0
  /\ setup \in Setups /\ moves = 0
  /\ source \in {"gone", "live"} \cap setup.sources /\ grain = (source = "live")
  /\ want = FALSE /\ pending = FALSE
  /\ file = FALSE /\ bufHave = FALSE /\ bufDate = FALSE /\ bufNow = FALSE
  /\ readHere = FALSE /\ ticked = TRUE
  /\ out = [slot |-> N - 1, as |-> "witness"]

-----------------------------------------------------------------------------
(* The framebuffers.                                                       *)

Queued == {queue[k] : k \in 1..Len(queue)}
IsFree(i) == i \notin Queued /\ i # hold

Succ(i) == (i + 1) % N

\* The worker's next framebuffer: it steps over the held one.
Target == IF prod = hold THEN Succ(prod) ELSE prod

\* sl_mark_pub, and the index past it.
Publish(i, as) ==
  /\ prod' = Succ(i)
  /\ queue' = Append(queue, i)
  /\ out' = [slot |-> i, as |-> as]
  /\ UNCHANGED hold

\* sl_note_fresh_pack: i carries the last real picture.
NoteFresh(i) == carrier' = i /\ repOk' = {i}

\* i gets new pixels that are not the slate: the witness, or others.
Paint(i, what) ==
  /\ pix' = [pix EXCEPT ![i] = what]
  /\ current' = current \ {i}

-----------------------------------------------------------------------------
(* Publishing without a fresh picture: sl_publish_repeat_or_witness.       *)

\* Mutant: a dead source does not force the witness.
MutCanRepeat(force) == carrier # NoSlot /\ IsFree(carrier)

CanRepeat(force) == ~force /\ carrier # NoSlot /\ IsFree(carrier)

\* The last real picture again, copied from its carrier unless the stamp of i
\* says it is there.
Repeat(i) ==
  /\ Publish(i, "repeat")
  /\ IF i \in repOk THEN UNCHANGED pixelVars
     ELSE /\ pix' = [pix EXCEPT ![i] = pix[carrier]]
          /\ current' = IF carrier \in current THEN current \cup {i} ELSE current \ {i}
  /\ repOk' = repOk \cup {i}
  /\ UNCHANGED <<sfOk, witOk, carrier, witnessVars>>

\* The witness, whose square changes side every half second; its stamp saves a
\* packing as well.
Witness(i) ==
  LET turn == IF toggleDue THEN CHOOSE x \in Sides : x # side ELSE side
      good == IF toggleDue THEN {} ELSE witOk
  IN /\ Publish(i, "witness")
     /\ side' = turn /\ toggleDue' = FALSE
     /\ IF i \in good THEN UNCHANGED pixelVars ELSE Paint(i, turn)
     /\ witOk' = good \cup {i}
     /\ UNCHANGED <<sfOk, repOk, carrier>>

RepeatOrWitness(i, force) ==
  \/ CanRepeat(force) /\ Repeat(i)
  \/ ~CanRepeat(force) /\ Witness(i)

-----------------------------------------------------------------------------
(* The wired source.                                                       *)

\* No new grain for SL_FALLBACK_AFTER_NS.
Dead == cable /\ freshAge > Fallback

\* open_reader, tried at the top of every wired turn without a reader; the index
\* of the last look is then forgotten.
Opened == IF reader = "none" /\ source # "gone" THEN "now" ELSE reader
Primed == primed /\ reader = Opened

\* Mutant: a reader that does not move is never reopened.
MutLook(same) ==
  IF ~Primed \/ ~same
  THEN /\ reader' = Opened /\ primed' = TRUE
       /\ freshAge' = 0 /\ idxAge' = 0
  ELSE reader' = Opened /\ UNCHANGED <<primed, freshAge, idxAge>>

\* tx_reopen_if_stale after a read of the flow: same says the index it read is
\* the one of the last look.
Look(same) ==
  IF ~Primed \/ ~same
  THEN /\ reader' = Opened /\ primed' = TRUE
       /\ freshAge' = 0 /\ idxAge' = 0
  ELSE /\ reader' = IF idxAge > Stale THEN "none" ELSE Opened
       /\ UNCHANGED <<primed, freshAge, idxAge>>

\* The reader is as open_reader left it, or dropped; nothing was read.
NoLook(r) ==
  /\ reader' = r /\ primed' = Primed
  /\ UNCHANGED <<freshAge, idxAge>>

\* A turn of the worker with a framebuffer, for the source or for the slate.
WiredTurn == cable /\ IsFree(Target)
StillTurn == ~cable /\ IsFree(Target)

\* The flow cannot be opened, or it was deleted under the reader, or it has no
\* grain yet: an error of mxlFlowReaderGetRuntimeInfo or of the first slice.
NoReader ==
  /\ WiredTurn /\ Opened = "none"
  /\ NoLook("none")
  /\ RepeatOrWitness(Target, Dead)
  /\ UNCHANGED grain

Deleted ==
  /\ WiredTurn /\ Opened = "old"
  /\ NoLook("none")
  /\ RepeatOrWitness(Target, Dead)
  /\ UNCHANGED grain

NoGrain ==
  /\ WiredTurn /\ Opened = "now" /\ source = "empty"
  /\ NoLook("now")
  /\ RepeatOrWitness(Target, Dead)
  /\ UNCHANGED grain

\* The grain the worker aims at is there: it is a new one, or the reader has
\* just been opened and aims at the head, new or not.
HasGrains == Opened = "old" \/ (Opened = "now" /\ source # "empty")
HeadReady == HasGrains /\ (~Primed \/ (Opened = "now" /\ grain))

\* All the slices of the grain come: a picture of the source.
Picture ==
  /\ WiredTurn /\ HeadReady
  /\ Publish(Target, "picture") /\ Paint(Target, "other") /\ NoteFresh(Target)
  /\ Look(FALSE)
  /\ grain' = FALSE
  /\ UNCHANGED <<sfOk, witOk, witnessVars>>

\* A slice of a new grain does not come in a period: the rest of the picture is
\* black, and the picture is not noted.
Partial ==
  /\ WiredTurn /\ HeadReady /\ grain
  /\ Publish(Target, "partial") /\ Paint(Target, "other")
  /\ Look(FALSE)
  /\ grain' = FALSE
  /\ UNCHANGED <<stampVars, witnessVars>>

\* No new grain in a period: the last complete one is packed again.
Replay ==
  /\ WiredTurn /\ HasGrains /\ ~HeadReady
  /\ Publish(Target, "replay") /\ Paint(Target, "other") /\ NoteFresh(Target)
  /\ Look(TRUE)
  /\ UNCHANGED <<grain, sfOk, witOk, witnessVars>>

Wired == NoReader \/ Deleted \/ NoGrain \/ Picture \/ Partial \/ Replay

-----------------------------------------------------------------------------
(* The slate.                                                              *)

\* Mutant: the date is not looked at.
MutReads == file /\ ~bufHave

\* load_static_frame reads the file when its date or its size is another.
Reads == file /\ ~(bufHave /\ bufDate)

\* It can be shown: read now, or kept from an earlier read.
Loaded == Reads \/ bufHave

Load ==
  /\ bufHave' = (Reads \/ bufHave)
  /\ bufDate' = (Reads \/ bufDate)
  /\ bufNow' = (Reads \/ bufNow)
  /\ readHere' = (Reads \/ readHere)

\* Mutant: a read does not start a new generation.
MutStamped == sfOk

\* Framebuffers whose stamp says the slate to show is there: a read starts a new
\* generation.
Stamped == IF Reads THEN {} ELSE sfOk

\* The slate goes out, packed where the stamp does not say it is there.
Slate ==
  LET i == Target
      same == IF Reads THEN {} ELSE current
  IN /\ StillTurn /\ Loaded
     /\ Load
     /\ Publish(i, "slate")
     /\ sfOk' = Stamped \cup {i}
     /\ IF i \in Stamped
        THEN current' = same /\ UNCHANGED <<pix, carrier, repOk>>
        ELSE /\ pix' = [pix EXCEPT ![i] = "other"]
             /\ current' = same \cup {i}
             /\ NoteFresh(i)
     /\ UNCHANGED <<witOk, witnessVars>>

NoSlate ==
  /\ StillTurn /\ ~Loaded
  /\ RepeatOrWitness(Target, FALSE)
  /\ UNCHANGED <<bufHave, bufDate, bufNow, readHere>>

\* An unwired worker has no reader.
Still == (Slate \/ NoSlate) /\ reader' = "none" /\ UNCHANGED <<primed, freshAge, idxAge>>

-----------------------------------------------------------------------------
WorkerTurn ==
  /\ \/ Wired /\ UNCHANGED <<bufHave, bufDate, bufNow, readHere>>
     \/ Still /\ UNCHANGED grain
  /\ UNCHANGED <<cable, source, want, pending, file, ticked, setup, moves>>

\* The new wiring reaches the worker (tx_set_source, tx_take_source): it drops
\* its reader.
Take ==
  /\ cable # want
  /\ cable' = want /\ reader' = "none" /\ readHere' = FALSE
  /\ UNCHANGED <<ringVars, stampVars, pixelVars, witnessVars, primed, freshAge, idxAge, file,
                 bufHave, bufDate, bufNow, out, source, grain, want, pending, ticked, setup, moves>>

\* A turn without a free framebuffer still tries to open the flow.
Reopen ==
  /\ cable /\ reader # Opened /\ ~IsFree(Target)
  /\ NoLook(Opened)
  /\ UNCHANGED <<ringVars, stampVars, pixelVars, witnessVars, cable, fileVars, out,
                 source, grain, want, pending, ticked, setup, moves>>

\* libmtl has sent the oldest framebuffer: it is held, the former one is free.
Sent ==
  /\ queue # <<>>
  /\ hold' = Head(queue) /\ queue' = Tail(queue)
  /\ UNCHANGED <<prod, stampVars, pixelVars, witnessVars, readVars, cable, fileVars, out,
                 source, grain, want, pending, ticked, setup, moves>>

-----------------------------------------------------------------------------
(* The controller, the producer of the source, and the clock.              *)

\* The operator does this, within the bounds.
Does(what) ==
  /\ what \in setup.changes /\ moves < setup.moves
  /\ moves' = moves + 1

\* _tx_gen_apply changes the tables, from which the manager and the daemon may
\* go on at once, and the slate file at its end.
Wire ==
  /\ Does("wire") /\ ~want /\ ~pending
  /\ want' = TRUE /\ pending' = TRUE
  /\ UNCHANGED <<workerVars, source, grain, file, bufDate, bufNow, readHere, ticked, setup>>

Unwire ==
  /\ Does("unwire") /\ want /\ ~pending
  /\ want' = FALSE /\ pending' = TRUE
  /\ UNCHANGED <<workerVars, source, grain, file, bufDate, bufNow, readHere, ticked, setup>>

\* _publier_trame_statique of a wired sender: the file is removed.
RemoveSlate ==
  /\ want /\ pending
  /\ file' = FALSE /\ pending' = FALSE
  /\ UNCHANGED <<workerVars, source, grain, want, bufDate, bufNow, readHere, ticked, setup, moves>>

\* _publier_trame_statique at the end of _tx_gen_apply, or for a new pattern at
\* any moment.  The date of the file is in whole seconds.
PublishSlate ==
  /\ ~want
  /\ IF pending THEN UNCHANGED moves ELSE Does("slate")
  /\ file' = TRUE /\ bufNow' = FALSE
  /\ bufDate' = (bufDate /\ ~ticked)
  /\ ticked' = FALSE /\ pending' = FALSE
  /\ UNCHANGED <<workerVars, source, grain, want, readHere, setup>>

\* A producer that restarts deletes its flow and creates it again: a reader
\* stays on the deleted one.  One that dies before its first whole grain is left
\* out.
SourceMoves ==
  /\ source' \in setup.sources \cap
       CASE source = "gone" -> {"empty"}
         [] source = "empty" -> {"live"}
         [] source = "live" -> {"gone", "stuck"}
         [] source = "stuck" -> {"gone", "live"}
  /\ grain' = (source' = "live" \/ (source' = "stuck" /\ grain))
  /\ reader' = IF source' = "gone" /\ reader = "now" THEN "old" ELSE reader
  /\ UNCHANGED <<ringVars, stampVars, pixelVars, witnessVars, primed, freshAge, idxAge, cable,
                 fileVars, out, want, pending, ticked, setup, moves>>

NewGrain ==
  /\ source = "live" /\ ~grain
  /\ grain' = TRUE
  /\ UNCHANGED <<workerVars, source, want, pending, file, bufDate, bufNow, readHere, ticked, setup, moves>>

\* Half a second passes.
Tick ==
  /\ freshAge' = IF freshAge > Fallback THEN freshAge ELSE freshAge + 1
  /\ idxAge' = IF idxAge > Stale THEN idxAge ELSE idxAge + 1
  /\ toggleDue' = TRUE /\ ticked' = TRUE
  /\ UNCHANGED <<ringVars, stampVars, pixelVars, side, reader, primed, cable, fileVars, out,
                 source, grain, want, pending, setup, moves>>

Next ==
  \/ WorkerTurn \/ Take \/ Reopen \/ Sent
  \/ Wire \/ Unwire \/ RemoveSlate \/ PublishSlate
  \/ SourceMoves \/ NewGrain \/ Tick

Spec == Init /\ [][Next]_vars

\* The worker thread, the lcore, the daemon and the clock run, and a handler
\* that changed the tables goes on to the file; operators and producers are free.
Fairness ==
  /\ WF_vars(WorkerTurn) /\ WF_vars(Take) /\ WF_vars(Sent) /\ WF_vars(Tick)
  /\ WF_vars(NewGrain) /\ WF_vars(RemoveSlate) /\ WF_vars(pending /\ PublishSlate)

FairSpec == Spec /\ Fairness

-----------------------------------------------------------------------------
(* Properties.                                                             *)

\* From the first turn that reads a slate after an unwiring to the next wiring,
\* what goes out as the slate is the slate in memory, and nothing the framebuffer
\* carried before, however often the file is published.  Between the unwiring
\* and that turn the stamps of an earlier slate are still believed.
SlateIsSlate == readHere /\ out.as = "slate" => out.slot \in current

\* A source that stops moving for good gives way to the witness.
FrozenShowsWitness == <>[](cable /\ source = "stuck") => []<>(out.as = "witness")

\* A source that is gone for good gives way to the witness, and the witness on
\* air keeps moving.
GoneShowsWitness ==
  <>[](cable /\ source = "gone") =>
    <>[](out.as = "witness") /\ []<>(pix[hold] = "left") /\ []<>(pix[hold] = "right")

\* A source that comes back is on air again whatever happened to its flow: its
\* new grains go out, read from the current flow.
Reconnects ==
  <>[](cable /\ source = "live") =>
    []<>(reader = "now" /\ out.as \in {"picture", "partial"})

\* An unwired sender comes to load whatever slate is published, unless its date
\* and size are those of the one it has, and once that stays the same, to have
\* nothing else on air.
SlateComes ==
  /\ <>[](~cable /\ file) => []<>(bufNow \/ bufDate)
  /\ <>[](~cable /\ file /\ bufNow) => <>[](hold \in current)
=============================================================================
