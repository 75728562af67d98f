# 2110_io in TLA+

Models, model checks and proofs of the ST 2110 input/output plugin: a
controller in Python (`src/docker/controller.py`), the `mtl_rx` daemon in C
(`src/mtl_rx.c`) and the patches it applies to libmtl (`src/docker/patch_*.py`).

## 1. The system

An *engine* is a container on a node with network cards. It receives and emits
uncompressed video, audio and ancillary data, and exchanges pictures with the
other processes of the node through MXL flows in shared memory.

| Part | State it keeps | Operations | Talks to |
|---|---|---|---|
| Orchestrator (not in the repository) | the wiring of the plant | posts to the agent and control servers | the two servers, `/metrics` |
| Agent server `:8081` (`AgentHandler`) | `_tx`, `_tx_gen`, `_tx_tone`, `RX_PINS`, SDP files, the NMOS document | `/nmos`, `/nmos/subscribe`, `/pin`, `/tx` | the manager, through that state |
| Control server `:8082` (`ControlHandler`) | the same, `_ctl`, `_fieldtest_saved`, `_sig_probes` | `/input`, `/fieldtest`, `/gen`, `/probes`, `/ident`, `/gen_tx`, `/ident_tx`, `/tone_tx` | the manager, the generators |
| Manager (`_manager_loop`) | the signature last written, the reserve, the watchdog `_wd_state`, the child process | every half second: sessions from SDP files and `_tx`, watchdog, file, life of the daemon | `mtl_rx`, through one file and its exit |
| Generators and simulators | their writers | draw patterns and tones in flows | readers of the flows |
| Signal probes | one reader per flow | black, freeze, gamut, loudness | `/metrics` |
| `mtl_rx` main loop (`main`, `reconcile`, `write_stats`) | the table of sessions, the date of the file | reconcile with the file, statistics, exit when a sender is frozen | the threads of the sessions, the files of the controller |
| Sender threads | a ring of framebuffers, the reader of the source, the fallback | pack pictures, publish framebuffers, repeat, show a witness | callbacks of libmtl on its lcores |
| Receiver threads | frames in flight, the writers of the flows | convert lines or frames, commit grains | callbacks of libmtl |
| Patches of libmtl | a flag per port, trackers per session | rate commits, hang detection, reclaim of frames, recovery of pools | the driver |

What is hard in it:

* threads of `mtl_rx` and callbacks on the lcores of libmtl share a ring without
  a lock, and libmtl may have several frames in flight;
* the manager and the daemon share one file, rewritten in place and watched by
  its date, and each believes something of what the other did;
* a change of one session stops the port under all the others;
* timers decide between a hiccup and a death: of a source, of a sender, of a
  group of receivers;
* the daemon may die at any point and is launched again.

What makes each part correct, in a sentence each: nothing that is being sent is
rewritten, and a sender always has something whole to send (ring); what is on
air is what the operator asked for, or a witness that the source is dead
(content); the daemon comes to run the sessions asked for, with the queues they
need, and never takes down one that was not concerned (configuration); no burst
runs on a stopped port and no packet is lost to a commit (port); a group that
hears nothing is retried, with patience, and a group that hears is left alone
(watchdog); a session whose pools ran dry comes back, and no queue of the card is
lost on the way (famine); what is announced is what is sent, and a flow has one
writer (subscriptions); a verdict on a signal is given, on the flow that lives
(probes).

`PROJECT.json` lists every part under `components`, with the reason where it is
not modelled, and under `hazards` what can go wrong at which line.

## 2. The modules

Each component has a module with its state, one action per operation and its
properties, and a module `<name>_proofs` that extends it with the theorems
(`Reception_proofs` for `RxWatchdog` and `SignalProbe` together, which look at the same slots;
for that the two share no name). A
configuration `<module>_<question>.cfg` is one run. The settings of the code
and the assumptions on what is outside are constants, so that a run and a
theorem say which of them they need.

### TxRing: the ring of a slice-mode sender

`video_tx_slice_thread` packs pictures band by band in framebuffers; libmtl
asks for the next frame (`tx_sl_next_frame`), asks how many lines it may send
(`tx_sl_lines_ready`) and gives a frame back (`tx_sl_frame_done`). `stat`,
`lines`, `prod`, `cons`, `hold`, `holdValid`, `marker` are the fields of
`struct sess`. The worker is one process with a program counter `wpc`: `top`
(throttle, choice of the source), `check` (is the next framebuffer free, else
wait, else the watchdog of 2 s gives trapped ones back), `fetch`, `pack`,
`expose` and `publish`. A callback is one step: the worker and a callback
interleave at every store that the other reads (`stat`, `lines_ready`), and a
callback itself runs to its end, which hides only the few instructions between
two of its own stores. The dates `pub_ns` are replaced by their order (`newer`).

libmtl is external: `Accept` takes a reference, `LibDone` drops it when the
packets left the card, a `PortStop` may lose them, and `Reclaim` is
`bobi_get_frame_busy_check`, patched in, one frame at a time. The settings of a session
(`newest`, `advance`) and its circumstances (`depth`, how many frames may be on the card
when the next is asked for; port stops that lose frames; a frame that stays in flight
beyond the watchdog; no memory for the black picture of the setup) are the variable
`opt`, chosen at the start among the constant `Settings`; `MCTxRing` names the six of
the run. The watchdog goes through the ring one framebuffer at a time (`ResyncOne`)
while the callbacks run.

With two frames on the card the code has a hole, which the run `TxRing_overlap` shows: the
held frame is served again while the previous one is still on the card, whose done
callback then gives the held one back. `released` remembers that this happened. The
properties of `TxRing_sessions` say what is left: until then nothing else tears, frees or
empties a frame in flight; and after it, whatever it upset, the ring goes on.

### TxContent: what is on air

The same worker one level up: a turn publishes one whole framebuffer, and the
question is what its pixels show: a picture of the source, a partial one, the
last real picture again, the moving witness, or the still frame the controller
left in a file (*slate*). `sf_stamp`, `rep_stamp` and `wit_stamp` are replaced
by the sets of framebuffers whose stamp is current (`sfOk`, `repOk`, `witOk`);
time runs in half seconds. The operator wires, unwires and publishes slates
(`_tx_gen_apply`, `_publier_trame_statique`): the tables change first, and the file
follows at any later moment (`want`, `pending`, `file`), while the worker goes on. What an
operator does, how often, and what the source goes through is the variable `setup`,
chosen among the constant `Setups`, which `MCTxContent` gives. `readHere` remembers that the
slate was read since the unwiring.

### ConfigSync: from the wiring to the daemon

The manager is the sequence of `_manager_loop`: `Plan` (the sessions of the
turn, under the lock), `Truncate` and `Dump` (`_write_config` rewrites the file
in place), `Stamp`, and the life of the daemon (`LifeLaunch`, `LifeBudget`,
`LifeForget`, `LifeIdle`). The daemon is `Boot` (reads the ports, reserves the
queues), `Read`, `Match`, `Create` (`reconcile`), `Stat0` and `Poll` (the date of
the file). A sender that asks for more queues than reserved has to be served by
another launch. `Crash` is an exit nobody asked for. `crossed` remembers that a write fell
within the start of the daemon, before its `mtl_init` (`"queues"`) or before it takes
the date of the file (`"date"`).

### TxSlot: what an output emits

The agent server and the control server, a thread each, change the wiring, the
generator, the fallback and the field test of an output, then call
`_tx_gen_apply`, which takes and releases `_tx_lock` and `_tx_gen_lock` in turn.
Every section under a lock is a step, and `at[x]` says which one server `x` is
about to take: `ReadTx`, `ReadGen` (the priority), then `Cap`, `Wire`, `Fill` and
`FillOut`, or `Drop`, then `_tx_static_applicable` (`AskTx`, `AskGen`) and
`_publier_trame_statique` (`Remove`, or `Render` and `Put`). `got[x]` is what the
server has read. A `/tx` is four sections before it comes to `_tx_gen_apply`, a
`/fieldtest` two; what a `/tx` may carry, fields left out included, is the constant `Push`
(`MCTxSlot`). `alone` says that no other request ran during the last one that recomputed the
output, nor since. `Manager` and `Generator` are the two loops that act on the
result. The module joins the others at both ends: its `session` is one slot of
`ConfigSync`'s `want`, its `file` the slate of `TxContent`.

### PortCommit: a rate commit under the pollers

libmtl changes the rate of a queue by stopping and restarting the port. The
pollers announce a burst, read `resetting`, burst, and take the announcement
back; the committer raises `resetting`, waits for the announced bursts, 80 ms at
most, commits, and lowers `resetting` only if the port runs again. The module
composes four patches that rely on one another: the flag, the count, the hang
detector that must not fire for a closed port, and the packet kept for later.

### RxWatchdog: subscriptions that hear nothing

Every turn of the manager looks at the frame index of each slot of a group
(slots with the same source share a session). A group silent for `Stall` is
*bounced*: left out of one configuration, so that the daemon joins again. The
delay then doubles, up to `MaxDelay`, and a group that never gave a picture
is given up after `ColdMax` bounces. `anchor`, `prog`, `delay`, `tries`, `seen`,
`omit` are the fields of `_wd_state`; the daemon writes the index of each slot
(`pos`), and what a session hears changes at any time.

The properties follow the slots and the subscriptions.

### Sender and the refinement

`Sender` is what a sender promises: a framebuffer belongs to the worker, to the
queue of what is announced, to the wire or to nobody; it is announced when
packed, served when announced, and given back when it was served or lost; it takes the
place of the held one only if that one is not on the wire (the second half of `Done`).
`Release` is the hole of the ring: a page done while the held one is on air, after which
`kept` is down and nothing is promised. `TxRing` maps its own state to it (`AbsOwner`,
`AbsOnAir`, `AbsKept`) and `IsSender` says that every behaviour of the ring is one of
`Sender`. (A session that had no black picture maps to a sender that never moves:
nothing is said of it here.) What the refinement is worth is `Promise`, an invariant of
`Sender` alone, which `PromiseKept` carries over to the ring: until the release there is one
held framebuffer at any time, the worker fills one at a time, and whatever is on the wire
is ready or held.

### Famine: pools that run dry

`patch_tx_builder_famine_recovery.py` makes a builder that gets no buffer for a
while recover its session: queues given back and got again, pools made again.
`VideoStarve` and `VideoDecide` are the detection (`bobi_famine_check`, with its guard
of 10 s shared by all sessions of an essence, `since`); `VideoPut`, `VideoNoQueue`, `VideoNoPool` and
`VideoRecovered` the steps of `st20_tx_queue_fatal_error`, `VideoZombie` the retry of a
session left inactive. The audio half recovers the manager of all audio sessions, and
asks for it by a flag (`pending`) consumed outside the lock of the session that starved
(`AudioBuild`, `AudioConsume`, `PutMgr`, `AudioReset`, and `AudioGot` or `AudioNoQueue`). `PutQueue` is `mt_dev_put_tx_queue` with the
flag it now clears. The get of a queue, the failures and the commits that stop a port
are external.

### SignalProbe: the readers of a receiving slot

`_signal_loop` keeps a reader of the video and one of the audio of each slot. A flow
made again under its name leaves them on a dead *generation*; the code
notices by dates, closes, collects and opens again, after two failures in an instance
of its own. `VideoTurn` and `AudioTurn` are the two probes, one action per outcome;
the dates of black and freeze and the cursor of the audio are their state.
The producer (`Advance`, `Remake`, `Stop`, `Restart`) and the other reader of the
global instance are external.

### Sdp, Subscription: from an output to a slot

`Sdp` holds the pure functions: ports, pairs and shares, classes, legs, rates and
packet times, the documents that are announced (`TxSdp`, `AudSdp`, `AncSdp`) and
read back, and the sessions both ends make of the same settings. A document is a
sequence of sections and an address a model value. `Subscription` joins two engines:
requests (`Wire`, `Subscribe` and `Written`, `Unsubscribe`, `Generate`, `Pin`) and the
turn of the manager that groups the slots of one address and plans the sessions.
`MCSubscription` gives the nodes and the outputs of the run.

The modules meet where the parts do: the plan of `Subscription` is the `want` of
`ConfigSync` and the subscriptions of `RxWatchdog` (whose bounce is the action
`Bounce`), and its `out` is what `TxSlot` settles.

## 3. The runs

| Run | Result | What it shows |
|---|---|---|
| `TxRing_sessions` | passes | A ring of three framebuffers under six settings, four of them with two frames on the card: until a done callback gives back a held frame that is still on the card no frame in flight is torn, freed or emptied, the held frame is whole, the ring implements the abstract sender and serve_newest never goes back in time; and always, such releases included, no framebuffer is forgotten as held, the worker never stops publishing, whatever it publishes leaves the ring and the frame to repeat comes back whole (`OneDoor`, `HoldComplete`, `NoneForgotten`, `IsSender`, `NeverBackInTime`, `NeverMute`, `WorkerPublishes`, `ReadyLeaves`) |
| `TxRing_overlap` | violated | With the default settings and two frames on the card, nothing else going wrong, the worker packs over a frame libmtl is sending: the held frame was served again while the previous one was on the card, whose done callback then gave the held one back (`NoTear`) |
| `ConfigSync_sync` | passes | Two changes of the wiring and a crash, at any moment, the start of the daemon included: no reconcile takes down a sender wired all along, the daemon is not started again for ever, and the senders on the wire end up being those asked for, each with its source and a queue, unless the very last write fell within the start of the daemon (`WantedStays`, `RelaunchesStop`, `Catches`, `QueuesSuffice`) |
| `ConfigSync_boot` | violated | A rewrite that falls between the first reconcile of the daemon and the date it takes of the file afterwards is never seen (`Converges`) |
| `PortCommit_commit` | passes | Two senders and a receiver polling while two commits stop the port and the driver may fail to start it again: a stopped port stays guarded, no burst on it, no packet lost, no sender declared hung before as many commits as the threshold has ticks, and every commit ends (`Guarded`, `NoBurstOnStopped`, `Conserved`, `NoFalseHang`, `Resumes`, `CommitEnds`) |
| `TxContent_air` | passes | A sender wired, unwired and given new slates at any moment, the file following the tables late, and a wired source that goes away and comes back: once read, the slate is all that goes out as the slate, and it comes to be all there is on air; a source gone for good gives way to the moving witness, and one back for good is on air again (`SlateIsSlate`, `SlateComes`, `GoneShowsWitness`, `Reconnects`) |
| `RxWatchdog_heal` | passes | Two receivers of one group lose their packets one without the other, and the daemon may die or a subscription change: each gets its packets back unless the group is given up with its session in place, and a slot just bounced for is left alone for the delay announced (`Spaced`, `Heals`) |
| `TxSlot_serial` | passes | An output wired, generated, tested and pushed again by two servers whose requests may overlap: a recomputation that no other request overlapped puts the output right whatever was made of it before, with the generator and the still frame that go with what it reads, and takes no wired source away; and what is on air then comes to be what was asked for (`Settled`, `WiringHolds`, `ComesOnAir`) |
| `TxSlot_race` | violated | A /tx of the orchestrator and an /input of the operator recompute the same output together: the wired output is left reading nothing (`WiredIsRead`) |
| `Famine_recover` | passes | Two video and two audio sessions with two legs, one queue per port for each and for the manager, two losses of buffers that may come back late or never, two failures of a queue (a session's or the manager's) or of a pool, a commit and a hold of a lock: no hardware queue is lost or shared, the audio core never waits for itself, a running session has the queue of its last leg, and every audio session ends active with its buffers (`QueuesOwned`, `NoSelfWait`, `LastLegServed`, `Revives`) |
| `SignalProbe_rx` | passes | A receiving slot whose flows are made again under their name, with a head that may be before the cursor of the audio, while another reader holds the dead generation, stop, raise SIGBUS and fail to be read: clipped samples that keep coming keep being said, or it is said that samples were not analysed; both readers end on the living generation, and a picture that stays black is said black (`ClipIsSaid`, `Reconnects`, `BlackIsSaid`) |
| `Subscription_join` | passes | Two engines, two slots and three requests: a slot subscribed to what an output announces receives what it sends, in its format and on its addresses; the source each section names is the port its leg leaves by; and once the requests stop the flow of each slot has the one writer asked for last (`ReadIsSent`, `AnnouncedIsSent`, `Settles`) |

A run that ends in a violation states what a comment of the code promises, and
shows a behaviour of the code that breaks it; `findings` in `PROJECT.json`
quotes the comment and tells the behaviour. Every property of a passing run has
a mutant in `mutants`: a plausible bug in one definition that violates it.

Where the code does not keep what it says, the runs have the case in them and the properties
say what holds nevertheless. These are the limits of the code that TLC found, in those
runs or with other values of their constants:

* `TxRing`, two frames on the card: after a release (`TxRing_overlap`) `NoTear`,
  `InFlightOwned`, `NoneEmptied` and `HoldComplete` fail, and a frame may come back without a
  line: the counter `sl_hold_empty_kept`, which "doit rester à 0 depuis 0.82.0"
  (`mtl_rx.c:775`), climbs; `NeverMute` is what its guard is worth. With a throttle a release
  may stop the worker for good, because the throttle is looked at before the watchdog
  (`mtl_rx.c:2425`): `ReadyLeaves` and `WorkerPublishes` are about the sessions without one.
  After a port stop and a release the held framebuffer may be the very one the worker waits
  for, and neither frees it (`Upset`, in the same two properties and in `NeverMute`).
* `TxRing`, `serve_newest`: the code excludes the last frame it served from what it gives back,
  and no other. With more than two frames on the card, or one lost to a port stop, an
  older frame still in flight is freed as out of date: `Prompt` sets these sessions
  aside in the theorems, and no session of the run is one. Without `serve_newest` the ring may
  send a picture after a later one (it goes round the ring, not by date).
* `TxRing`, a session with port stops and without its black picture: only `NoneForgotten` is
  said of it (`Lit` excludes it from the others). A lost framebuffer that is still ready is packed again, `bobi_get_frame_busy_check`
  gives back every lost frame, that one included, and its done callback makes it the held
  one, which goes out with the lines of its last life while it is packed.
* `PortCommit`, `Starved = TRUE`: a sender idle for a second whose burst is skipped at
  the end of a commit is taken for hung, because `resetting` is read twice.
* `ConfigSync`: a write that lowers the demand between the launch of the daemon and its reading
  of the ports leaves the manager with a reserve that `mtl_init` did not get, against
  `controller.py:3225-3227`, and later senders without a queue until a larger demand or a
  crash starts it again. `QueuesSuffice` says so (`"queues" \in crossed`). And a write between the first reconcile
  and the date taken after it is missed (`ConfigSync_boot`); `Catches` says that the next
  write makes up for it.
* `TxContent`: between an unwiring and the first turn that reads the file, the stamps of an
  earlier slate are still believed, and a framebuffer that a picture was packed over goes
  out as the slate, although a slot that is unwired "doit trouver son repli déjà en place"
  (`mtl_rx.c:3475`)
  (`readHere` in `SlateIsSlate`). Two files of the same second and size have the same
  stamp, and the second is never read (`mtl_rx.c:1043`; `bufDate` in `SlateComes`).
* `TxSlot`: a wiring made while the field test is on is lost when the test ends: the wiring
  saved when it was turned on is put back (`controller.py:2164`). Nothing in the code
  keeps the newer one, so no property is stated.
* `RxWatchdog`: a slot moved to a dead group brings an old frame index with it, which
  passes for a picture of the new group, and the group is bounced without the cap on groups
  that never gave one, although `controller.py:2525-2528` says of that cap that it is for a
  group "qui n'a JAMAIS rien reçu". No bound on the cold bounces is stated. The delay announced is
  kept for the slot that asked, not for the group (slots that fall silent at
  different times each have it bounced). And with a longest delay that does not
  exceed the slots of a group times a bounce (`MaxDelay = 2`), two slots out of phase keep their group left out for
  ever; with the values of the code (300 s against 2 s) no engine has
  slots enough for it.
* `TxContent`: a flow that opens but does not move (`"stuck"` among the sources of a setup) is read again at
  every reopening, each of which counts as a new grain: the witness never comes
  (`FrozenShowsWitness` fails; `mtl_rx.c:1725`, against `mtl_rx.c:743-745`).
* `TxContent`: a partial picture may be packed over the
  framebuffer that carries the last whole one (`carrier`), or over one whose `rep_stamp` is current,
  and changes neither; when the source is lost before its next picture, the repetition sends
  the half-black one again until the witness comes (`mtl_rx.c:2706-2732`, against
  `mtl_rx.c:2729-2730`); no property says that a repetition is whole. In the same way a picture leaves
  `wit_stamp` as it is, and may stand for the witness until the square moves.
* `Famine` (`famine` is `patch_tx_builder_famine_recovery.py`): a video session whose pool could not
  be made again is inactive with its queue, the retry looks only at legs without one
  (`famine:417`), and so it is never retried, while each vain try stamps the guard
  the other sessions wait for, which may wait for ever; the comments of `famine:532` and
  `famine:562` say "jamais définitif". When the get of the queue of the audio manager fails
  (`AudioNoQueue`) its sessions have their pools and look healthy, the request is
  gone, and nobody asks again (against `famine:111`, "retry indéfini"). `Revives` therefore speaks of the
  audio sessions, and of their buffers. With two legs, the leg whose queue cannot be got sets the session inactive and the next
  one sets it active again, with a queue that is NULL on the first (`famine:595`); the
  last leg always has its queue (`LastLegServed`).
* `SignalProbe`: flows made again whose head is before the cursor of the audio restart the cursor without
  a message (`controller.py:1413` tests both, 1417 only the lag), against the comment of
  `controller.py:1415` ("On le DIT"). `ClipIsSaid` has the case (`Behind`).
* `Subscription`: with `Mixed` among the `Nodes`, `ClassIsHeld` fails: the class announced is that of the
  first port when the output is not pinned, and the session leaves by its share of the
  ports (`controller.py:2853-2857` says that the two can no longer differ). `AncKeepsRate` fails when the generator or the watchdog takes the video of a slot
  away: its ancillary session falls back on the default rate, against the comment
  of `_anc_session`; `RateKept` proves what is left of it. The generator and the daemon may both write for
  the time of a hand-over; only that it settles is stated.

### Bounds, and why they are enough

* `TxRing`: 3 framebuffers (the code uses 3 to 8) and 2 bands. A held frame, one
  in flight and one being packed need 3; two bands make a picture that is part
  way through. Four of the six sessions of `MCTxRing` have two frames on the card (with the
  default settings; with `serve_newest` and a throttle of 2; with port stops; without the black picture),
  two have one (port stops with `serve_newest`; port stops without the black picture).
* `TxContent`: 3 framebuffers; a source is reopened at the next tick and given up after one
  more (the code: 1 and 2 s; the order of the two and their ends are what matters). Three
  `Setups`: a wired source that goes, is there without a picture, and comes back; an operator who wires, unwires and publishes
  three times on a sender without source; and twice on one whose source is there.
* `ConfigSync`: 3 slots, 2 sources, a card that carries 2 sessions, one reserved
  queue: a demand over the reserve, a demand over the card, and a slot wired all
  along next to one that moves (`always` is chosen at the start: the first slot, or
  none, so that an engine may also come to have nothing to send). Two changes, of a
  slot each, and a crash; one change and no crash in `_boot`.
* `TxSlot`: one source, the two still patterns of the fallback and the moving one of the
  field test. Three requests, a `/tx` carrying one of the three pushes of `MCTxSlot`: two that overlap, then one that
  runs alone. An output is independent of the others: each has its own entry in every
  table.
* `PortCommit`: 2 senders and a receiver, a pool of 2 packets, 2 commits, 2 tries
  (the code: 5). `Thresh` is 3 ticks where the code has 1 s: a tick is longer
  than any burst and a burst that straddles the end of a commit costs its sender one
  tick. `NoFalseHang` says so for any number of commits: a hang takes `Thresh` of them. With
  2 commits and a threshold of 3 it says that there is none; with as many commits as
  ticks there can be one (`resetting` falls between its two readings, each time).
* `RxWatchdog`: 1 group of 2 slots and one fault (an exit of the daemon or a change of
  subscription): the slots may fall silent one without the other, leave the group and come
  back. A stall of 2 ticks, a first bounce of 1, a longest delay of 3 and 1 cold bounce (the code:
  15 s, 2 s, 300 s and 2). A tick is longer than a turn of the manager, a poll of the
  daemon, a period of its statistics and a picture; the daemon has its sessions
  within `Grace` of a launch.
* `Famine`: 2 video sessions and 2 audio ones with two legs, on each port a queue for each video session
  and one for the audio manager: every queue is in use, so that one lost is one
  too few. Two losses of buffers, two failures (a second one may meet the retry of the
  first), a commit and a hold of a lock.
* `SignalProbe`: one slot, since a slot has its own readers and dates; the flows are made
  again, stop and fail a bounded number of times, the ring of the audio is as short as
  lets a head jump over it, and a head may also come back before the cursor.
* `Subscription`: two ports, paired and paced by the card or neither, 2 slots that may
  share an address, one output of three settings (the rate of the fields, 59.94, 23.98, one and
  two legs, a packet time that is not a valid one), 3 requests: a subscription needs one, a
  change of the output, of the generator or of a pin before and after it the others.

### Fairness, and why the code has it

* `TxRing`: the worker loops for ever (weak fairness of its steps), the lcore of
  libmtl polls for ever (next frame and band), a frame handed to the card leaves
  it or is reclaimed, and the clock passes the date of the watchdog. Nothing is
  assumed of a port stop, nor that libmtl loses frames.
* `TxContent`: the worker, its taking of a new source, the sending of a ready
  frame, the clock; a live source gives new grains, and a slate whose publication
  was begun is published in the end (the same handler does both), at no given moment.
* `ConfigSync`: the manager and the daemon are loops, and time passes (`Settle`).
  Changes and crashes are bounded and not fair.
* `TxSlot`: a server finishes the request it began, the manager and the generator
  thread are loops; requests come or not.
* `PortCommit`: the pollers are tasklets called for ever, the committer is a
  thread, the card drains a running port, and the 80 ms pass.
* `RxWatchdog`: the turn, the clock, the reconcile of the daemon, its
  statistics; strong fairness of a reconcile that creates every session it lacks,
  because a creation that fails by chance does not fail for ever.

* `Famine`: the tasklets are called for ever, the committer ends its commit, a lock held
  elsewhere is given back, and time passes. Losses and failures are bounded, and nothing is
  assumed of buffers that are only late (`Refill`).
* `SignalProbe`: the loop turns for ever and a flow that lives advances.
* `Subscription`: the manager turns, the daemon polls, a generator looks at its flags
  and a request that began ends.

## 4. The proofs

TLAPS checks the theorems below for every value of the constants that satisfies
the assumption of the module (`RingAssumption`, `ContentAssumption`,
`ConfigAssumption`, `PortAssumption`, `WatchdogAssumption`,
`FamineAssumption`, `ProbeAssumption`, `SlotAssumption`, `SdpAssumption`, `SubscriptionAssumption`).

| Theorem | What it says |
|---|---|
| `TxRing_proofs!TypeCorrect` | The state of the ring keeps its type, for every size of the ring, number of bands and setting |
| `TxRing_proofs!PromptCorrect` | The inductive invariant of the ring: while libmtl is done with a frame before the watchdog expires, with any number of frames on the card (two with serve_newest), libmtl, the held frame, the worker and its watchdog agree on who owns each framebuffer, port stops that lose frames included, until a done callback gives back a held frame that is on the card |
| `TxRing_proofs!OneDoorCorrect` | Under the same assumption that release is the only way a frame in flight is ever packed over, freed or emptied: the watchdog, serve_newest, a port stop and the done callbacks never do it otherwise, for every size of the ring, number of bands, setting and number of frames on the card |
| `TxRing_proofs!HeldCorrect` | Under the same assumption the frame kept for a repetition is whole, until that release |
| `TxRing_proofs!ForgottenCorrect` | Without any assumption, slow frames, lost frames and releases included: a framebuffer marked held is the one the ring knows it holds, so that none is stepped over for ever |
| `TxRing_proofs!SenderRefined` | Under the same assumption the ring implements the abstract sender: each framebuffer has one owner, it is announced only when packed, served only when announced, and given back only by the end of its transmission, by serve_newest or the watchdog while it is not on the card, or by that release, after which nothing is promised |
| `TxRing_proofs!PromiseKept` | What that abstract sender promises holds of the ring until the release: always one held frame and only one, one framebuffer at most with the worker, and whatever is on air ready or held, for every size of the ring, number of bands and setting |
| `TxRing_proofs!InOrderCorrect` | With serve_newest, under the same assumption and with two frames on the card, a picture is never sent for the first time after a later one, watchdog, throttle and port stops included, until that release |
| `ConfigSync_proofs!TypeCorrect` | The manager, the file and the daemon keep the types of their state, for every number of slots, capacity and reserve |
| `ConfigSync_proofs!KeptCorrect` | No rewrite of the configuration, torn reads included, takes down a sender that is wired all along, for every number of slots, sources and changes |
| `ConfigSync_proofs!RestCorrect` | On every behaviour, writes during a start of the daemon included: a manager with nothing to write and a daemon that has seen the date of the file agree with the operator, the live senders being those asked for within the capacity of the card, each with its source. The one exception is a write that fell within the start of this daemon when none was seen since; the queues suffice, or a restart for more is due, unless a write fell between the launch and mtl_init |
| `ConfigSync_proofs!RelaunchGains` | A restart for want of queues gets strictly more of them and enough for the plan, for every number of slots, capacity and reserve: no restart answers the last one |
| `PortCommit_proofs!GuardCorrect` | Whatever fails and however slow a burst is, the flag of the port is up during a commit and while the port is stopped, and only then: for every finite set of pollers and number of commits |
| `PortCommit_proofs!TypeCorrect` | The pollers, the committer and the port keep their types, and the count the committer waits for is that of the announced bursts, for every finite set of pollers and number of commits |
| `PortCommit_proofs!RendezvousCorrect` | If no burst outlasts the wait of the rendezvous, none ever runs on a stopped port |
| `PortCommit_proofs!ConservedCorrect` | Under the same assumption every packet of a sender stays in its pool, its hand or the card |
| `PortCommit_proofs!HangCorrect` | A sender that has something to send is declared hung only after as many commits as the threshold has ticks: for every number of pollers, commits and ticks, however slow the bursts |
| `TxContent_proofs!TypeCorrect` | The worker, its framebuffers and the slate file keep the types of their state, for every ring, delay, source and set of changes |
| `TxContent_proofs!SlateCorrect` | From the first turn that reads a slate after an unwiring to the next wiring, what goes out as the slate is the slate in memory, whatever the operator publishes and whenever, late files and several files in one second included; for every ring and delay |
| `Reception_proofs!TypeCorrect` | The entries of the watchdog keep the types of their fields, for every set of groups and slots and all delays |
| `Reception_proofs!SpacedCorrect` | A slot that stays silent is not bounced again before the delay its last bounce announced, whatever its group, the daemon and the operator do, for all delays |
| `Reception_proofs!PromptCorrect` | When a tick ends with the daemon settled, a group one of whose slots has been silent for its delay is being bounced, or never received and has used up its tries: no slot is left waiting, whatever the network, the daemon and the operator do, for all groups, slots and delays |
| `TxSlot_proofs!TypeCorrect` | The wiring, the generator, the file and the servers keep the types of their state, for every set of sources, patterns and pushes and any number of requests |
| `TxSlot_proofs!SettledCorrect` | Once the servers are at rest after a recomputation that no other request overlapped, the output reads what the priority says, the wiring, the generator with its thread on, or the still frame in the file, whatever overlapping requests left behind |
| `TxSlot_proofs!HoldsCorrect` | No recomputation takes a wired source off the output while no other request overlaps it, whatever the requests before did |
| `Famine_proofs!QueuesCorrect` | No recovery loses a hardware queue, nor gives one to two holders, for every set of sessions, queues, legs and failures |
| `Famine_proofs!NoSelfWaitCorrect` | The core of the audio tasklet holds no session lock when it takes the lock of every session |
| `Famine_proofs!LastLegCorrect` | A session that runs has the queue of its last leg (its only one, if it has one), whatever fails and in whatever order |
| `Famine_proofs!TypeCorrect` | The state of the recovery keeps its type, for every value of the constants |
| `Reception_proofs!ProbeTypeCorrect` | The probes keep their types: each reader is on a generation there has been, and the dates, the cursor and the counts stay within what they are compared with, for all periods, delays and rings |
| `Subscription_proofs!TypeCorrect` | The documents, the plan and what the daemon has keep their types, and a session serves slots of the engine, for any nodes, settings and number of requests |
| `Subscription_proofs!AnnouncedCorrect` | Each section of what an output announces carries the address and the port of the leg it stands for, for any ports, pairs, pins and settings |
| `Subscription_proofs!ReadCorrect` | A slot subscribed to what an output announces is planned on its addresses and in its format, in the group it shares with other slots too: the rate survives its fraction and the packet time its rounding, for any nodes, slots and settings whose rate the fraction can say |
| `Subscription_proofs!OneWriter` | No plan, and no configuration the daemon applied, has two sessions for the same flow of a slot, whatever is subscribed, pinned, generated and bounced |
| `Subscription_proofs!RestCorrect` | With a plan of the moment, applied, and the generators as their flags say, the flow of every slot has the writer that was asked for last and no other: the part of Settles that is not liveness, for any nodes, settings and number of requests |
| `Subscription_proofs!RateKept` | At rest the ancillary session of a slot whose video is received has the rate of that video, when the documents of its address agree on it: what the comment of _anc_session promises, apart from the generator and the watchdog |

Each module proves its types first, then an inductive invariant that TLC found to hold on
the instances of the runs.

* `RingInv` (under `Prompt`, until a done gives back a held frame that is on the card:
  `PromptInv`). `Prompt` says that libmtl is done with a frame before the watchdog expires,
  and that a session that meets port stops had its black picture; with `serve_newest` it also has two
  frames on the card at most, one when frames may be lost. Otherwise any number of them may be
  on the card. That nothing in flight is rewritten needs to know
  who owns each framebuffer at every point of the worker and of libmtl: the one
  being packed is free and is neither built nor in flight (`WorkerInv`), the ones
  in flight are not free, complete unless being built, and of different ranks (`LibInv`), exactly one is held, it is
  `hold` and it has all its bands (`HoldInv`); a watchdog that expires finds
  nothing in flight but the held frame, and a libmtl that takes no other until the end of
  its round (`WedgeInv`); with `serve_newest` the last frame taken is the last served or the
  held one (`LastInv`), so that what is given back as out of date is not on the card. The
  one step that does not keep the invariant is the release; `OptKept` and `ReleasedBy` say
  that it is a done callback. The reclaim patched into libmtl never runs in such a
  session: with a held frame to serve, `tx_sl_next_frame` does not come to ask for it. That
  is why a lossy session needs its black picture (see the limits in section 3).
* `NoneForgotten` is inductive by itself, after a release too: whatever makes a framebuffer
  held makes it `hold`, and gives back the one before.
* `IsSender` (every setting is `Prompt`) rests on the same invariant until the release: each
  action of the ring is an action of `Sender` or
  a stutter on `AbsOwner` and `AbsOnAir`, action by action. The release is `Release` of
  `Sender`, and what comes after it is free there (`kept` is down). `Promise` is inductive over the
  actions of `Sender`, and does not follow without the guard of `Done` on the held page.
* `SlateInv` supposes nothing of the operator. A read of the file starts a new generation of
  stamps, so from the first one after an unwiring (`readHere`) a framebuffer whose stamp is
  current was packed from the slate in memory; a wired turn publishes no slate.
* `OrderInv` (with `serve_newest`, under `Prompt`, until the release): the frame served last is
  the held one, in flight or lost; when it is the held one nothing else is in flight; and of
  what is ready and not in flight, nothing was published before a frame on the wire.
  That is why the candidates that `tx_sl_next_frame` filters by its marker are all the
  ready frames, and why the one it takes is later than the one before.
* `KeptInv`: a sender wired all along is in the plan, in the file when the file is
  readable, in the target of the daemon, and was not cut by the cap of the card.
* `ReserveInv`: the file, when it can be read, holds the reserve the
  manager wrote last, and a daemon between its launch and its reading of the ports is
  believed to have that one, unless a write fell in between (`"queues" \in crossed`).
* `FileInv`: outside a rewrite the file is what was written last, with the reserve computed
  for it, and is the plan of the turn when the manager looks at the daemon. `EmittedFits` (the
  slots that are emitted have as many different ranks below the capacity) makes that
  reserve enough for the plan, hence `RelaunchGains`: what is left of `RelaunchesStop` for TLC is that the
  operator and the clock come to rest.
* `DaemonInv`: what the daemon reconciles to, or has, is the file, unless the
  date of the file is one it has not seen, or a write fell between its reading of the file
  and its first look at that date (`"date" \in crossed`). With the two invariants above it gives
  `RestCorrect`, the part of `Catches` and `QueuesSuffice` that is not liveness, with the same
  two exceptions; a poll that sees a new date ends the second one. The run
  `ConfigSync_boot` shows it: the date is taken after the first
  reconcile (`Stat0`), so a rewrite in between is lost.
* `PortInv`: a stopped port has its flag up, whatever failed; with it,
  `NoBurstOnStopped` and `Conserved` are inductive as long as no burst outlasts the
  80 ms. `Guarded` says more, that the flag is down when the port runs outside a commit;
  it needs `Tried`: while the tries of a restart are counted the port is stopped, so the
  committer that gives up leaves the flag on a port that does not run.
* `HangInv`: since its last success a sender has waited one tick, and one more for each
  commit that is over; a commit under way, or not yet noticed by the sender, is one it
  has not paid for.
* `SlotInv` (while `alone`: no other request ran since the one that recomputes began): the place of the server in `_tx_gen_apply` tells which of
  the priorities holds (`AtChoice`), what of the output is written already (`AtWrite`) and,
  from the publication on, that the output is right but for the file (`AtPublish`): what a
  server read of the output is still so, for the other server is at rest. Overlapping requests
  may leave anything behind: the next one that runs alone reads and writes it all again.
* `SpacedInv`: the anchor of a slot is not older than its last bounce, and the delay it was
  told is at most that of its group, which shrinks only when all the slots of the group
  recover; an entry that is forgotten takes both with it.
* `DueInv`: after a turn, a wanted group is being bounced, or given up, or each of its slots has
  an anchor younger than its delay. A delay that comes back to `Stall` would break it, were it
  not that an anchor is never older than the progress of the same slot (`ProgInv`). With
  `SpacedCorrect`, `PromptCorrect` frames the watchdog: it bounces neither before the delay
  announced nor after; what is left of `Heals` for TLC is that the session made again hears.
* `Subscription`: no theorem supposes anything of the order of requests and turns. `RateSurvives` is
  arithmetic: the fraction written for a rate rounds to it, and the halving of an interlaced
  one is not done twice. `GroupLed` is a least-element argument (well-founded induction on the slots): the
  slots of one address have a first one, whose document makes the session; with it
  `PlanSlots` says whose document a planned session came from, and `OneWriter` that the
  groups are disjoint. `ReadIsSent` supposes settings the fraction can say
  (`Sayable`, in `Setting`): the rates of the table of `_fps_str`, the whole ones, and at most sixty
  fields when interlaced. Another rate, 119.88 say, is written over 1001 without the
  factor 1000, and the two ends disagree on it.
* `RestCorrect`: the files of an essence hold documents of that essence, those in the middle of
  a subscription included (`FileInv`), and what the generators are told is what is
  planned (`LiveInv`). `PlanServes` says which slots a plan serves; at rest (`AtRest`) the daemon then
  writes the slots that are heard, a generator the others that asked for it, and nobody
  both. What is left of `Settles` for TLC is that the engine comes to rest. `RateKept` rests on
  `GroupLed` too: the ancillary session takes the rate of the video session that serves its
  slot, which is the one of the first document of its address.
* `Famine`: a queue has an owner or is free, and the steps of a recovery hold the queue
  they have not given back; the core of the audio holds no lock where it takes
  the lock of all. A core whose recovery does not concern the last leg, or has done with it, has
  the queue of that leg (`Served`), so a session set active by the last get can send there.

Liveness (`RelaunchesStop` included, which says that a step is taken no more) and `ENABLED` are
model-checked only, and so is `ClipIsSaid`; every invariant the passing runs check has its theorem, with the
assumption or the exception it names. The inductive invariants and the types above were model-checked before they
were proved; what the theorems state beyond the properties of the runs (`RelaunchGains`,
`OneWriter`, `Promise`, `Prompt`, `AtRest => Served`, `AtRest => Rightly`, the rate kept) was too, on the
constants of the runs of their modules, with `Mixed` added for the last.

## 5. What is not modelled, and the plan

Abstractions kept on purpose: a callback of libmtl is one step; the healthy
card sends what a burst gives it; there is one committer (libmtl holds a lock);
sessions of all essences are one kind in `ConfigSync`; session creation succeeds
there; the pixels, the ident overlay, the interlaced fields and the throttle are
left out of `TxContent`; a generated slot, a watchdog set to 0 and the sleep of
the manager after a crash are left out of `RxWatchdog`. In `TxSlot` the size of the picture, the
tones and the label itself are left out, and so is an exception in the middle of a
request. In `SignalProbe` silence and gamut, dated as black is, are left out, all
probes are armed, and the probes of the outputs, which run the same code, are not
told apart. Things read there that no property states: the last flags are
never cleared, so that stale ones may be published again; the reopening of one essence closes
the reader of the other and drops its dates; the log of samples not analysed
counts those beyond the ring although all are passed over. In `Sdp` the depth, the order of fields,
the flow definitions and the clock lines are left out; two legs are announced
whether or not the port has a pair, a rate outside the table is written over
1001 without the factor 1000, and slots whose documents differ on one address get the
format of the first.

Not modelled, in the order of the plan:

1. `RxSlice`: the table of frames in flight of the slice receiver, shared by
   callbacks and worker, and the pool of libmtl (`mtl_rx.c:1413`: a frame is given back
   before the entry that names it is cleared).
2. `TxSource`: the hand-over of the source name by a counter (`mtl_rx.c:1694`), the latest
   picture or field, the whole-frame sender.
3. `Backstop`: statistics rewritten in place, signs of life and their signed age (`mtl_rx.c:4175`), exit and relaunch, and
   sessions whose creation fails and is not tried again until the file changes
   (`mtl_rx.c:3525`).
4. Pure parts as operators against reference definitions: field parity and
   weave, the ancillary codec, the gap filling of the audio (`mtl_rx.c:1431`), the timestamps.

Out of scope: the hooks of the orchestrator and the legacy script, which keep no state
of their own in this repository; the patches of libmtl and of the driver that set a
field or export a value; the page of the browser, the image and the benches.
