# Verification of the SoundTouch zone service

This directory holds TLA+ models of `soundtouch_zonemaster`, the TLC runs that
check them on small instances, and TLAPS proofs of the results that matter most
for every value of the constants. The source is named below by its path under
`src/soundtouch_zonemaster/`; `PROJECT.json` maps every definition to the lines
it models.

## 1. The system

The program plays the master of a zone of Bose SoundTouch speakers ("boxes")
that live on a house network. It is a Python service: asyncio coroutines on one
event loop, one extra thread for the database, and four listeners the boxes
connect to (the speaker's HTTP API on 8090, a clock on UDP 40005, transport
control on 40002, audio data on 40003). It decides by itself which boxes belong
to the zone, makes them its slaves, streams an internet radio station or an MPD
queue to all of them in step, follows the numbers and keys people press at the
boxes, and gives every box back when it ends.

The service is one object built from a chain of classes (`ServiceState`,
`ChannelBook`, `SpeakerBook`, `VolumeGuard`, `ZoneReconcile`, `PreferenceBook`,
`Dialling`, `KeyReading`, `ZoneService`) that share their fields. Four things run
beside one another on the loop: the *pass* (one at a time, behind `_lock`), the
*reader* of the boxes' frames, the *dialling loop* (behind the same lock) and the
*registry poll*; fades, channel starts and the writer of house steps are tasks
they leave running. Nothing on the loop is preempted: what can go wrong
is what runs between two `await`s of another coroutine, plus calls to boxes that
fail, answers that are lost, and the end or the death of the process. Outside
it, commands of the same program and the tools that install a new release open
the same database, and the service manager starts the service again.

### 1.1 Inventory

| Component | State it keeps | Operations | Talks to | What makes it correct |
|---|---|---|---|---|
| Zone master (`adapters/soundtouch/zone_master.py`) | station, generation of `play()`, sources per `url_id`, live transports per box, who was left behind, `_switch_lock`, slaves | `play`, `serve_transport`, `put_back`, `stop_station`, `add_slave`, `release_slave`, `dissolve` | boxes over transports and HTTP; the pass | the last press plays; at most one sequence on the transports at a time; a box is never sent to a station the zone has left; every call returns |
| Connections (`connections.py`, `ipc.py`, `wire.py`) | per channel: box, cursor in the ring | transport and data channels, chunks, waits | zone master, source | a box gets its bytes without a gap; who is owed bytes gets them |
| Stream source, locations (`source.py`, `orion.py`) | ring, fetch task, the registry's adapter and who is asking for it | start, fetch, redial, read, stop; look up, forget, close | station's server, registry, data channels | a stop returns; no fetch outlives it; an adapter that moved is found |
| Placement (`placement.py`, `domain/timeline.py`, `domain/frames.py`) | per stream: t0, a rate, a frame timeline, a slot per box | join by cohort, by frames, by bytes, by a restart; reports | transports, source | all boxes render the same frame at the same time |
| The pass and the service's life (`zone_service/zone.py`, `service.py`) | `_on`, `_joined`, `_refused`, `master`, `_wanted`, `_out_of_multiroom` | take in, let go, bind, dissolve, stop | policy, master, boxes, store | whoever holds our zone document is on the list the dissolve goes to; no pass anybody wanted is lost; a stop frees everybody |
| Membership rule (`domain/membership.py`) | per box: last seen, source, wake, press | `observe`, `woke`, `seen`, `restore`, `target_members` | frames, poll, database | a box playing something of its own is left alone |
| Channel starts and MPD (`zone.py`, `dialling.py`, `adapters/mpd/client.py`, `domain/playorder.py`) | `_channel`, `_on_air`, `_starts_asked`, `_mpd_starts`, `_mpd_channel`, `_positions`; the connection; MPD's queue | book, dispatch, start, step, remember, come back, stand down | `ZoneMaster.play`, MPD, store | the station playing and the number on record are those of the last start; a channel comes back to its own place |
| Volume guard (`zone_service/volume.py`) | `_muted`, `_owed_volume`, `_fading`, `_house_steps` | mute, fade, put back, house step | boxes, store | no box is left silent; a box returns to its level; no step is taken twice |
| House store worker (`adapters/files/store_worker.py`) | job queue, thread, `_writes_out` | open, save, close | database, service | a save answered well is durable; records never go backwards; a close returns and says what is lost |
| House database and files (`house_db.py`, `house_store.py`, `house_switch.py`, `migrations/`, `atomicfile.py`) | revision, rows, writer's lock (a file or a PostgreSQL session) | open, migrate, seed, flip, set a preference, import, export | service, commands, tools | one writer; a schema holds still under whoever serves it; a flip is one moment; a file is whole |
| Speaker book, observers, seeding (`speakers.py`, `observer.py`, `channels.py`, `registry.py`) | boxes known, observers, the round out, the order boxes were switched on in | poll, round, reconnect, seed the channel list | registry, boxes, store | an old answer does not outlive a newer frame; a lost frame is made up for; reply speed decides nothing |
| Presses, held keys, numbers, calibration (`domain/presses.py`, `longpress.py`, `dialling.py`, `calibration.py`, `zone_service/keys.py`) | selections and touches per box, keys down, digits and steps under way, the gesture | press, release, hold, complete | reader, dialling loop | one press is one event; no echo is one; a number completes once and whole |
| Echoes (`zone_service/state.py`) | calls of ours whose frame is still to come | owe, recognise | reader | our own key is not taken for a person's, nor theirs for ours |
| Preferences, channel list (`domain/preferences.py`, `channellist.py`) | five values with their sources; numbers and the rotation | set, read, watch; seed, step | commands, database, dialling | the row wins where it can be read; a step goes to the neighbour |
| Alarm rules (`domain/alarm.py`, `house_alarms.py`) | alarms, a row per day that was answered, the pause | due, missed, ring, snooze, off, tick, give back | no caller yet | every wake that was due is answered once; what was changed is given back |
| Deploy and install (`tools/deploy_service.py`, `install_service.py`, `service_venv.py`) | the steps done, the stamp of the switch it set | back up, switch off, drain, stop, install, start, settle, put the switch back | service manager, database, house | the house is handed back only to code that proved itself; a person's word stands |
| Clock, CLI, configuration, logging, documents, generated protobuf, research | | | | not part of the behaviour checked (section 8) |

### 1.2 What is hard in it

* State read before an `await` and used after it: who belongs (asked three times
  in a pass), the level of a box, the note of a mute, the number on air, the
  sources being stopped, a box's answer beside its frames.
* Presses that overtake one another: `play()` takes up to ten seconds to get its
  first bytes, and a start first speaks to MPD.
* Locks that cover different halves: the pass's `_lock`, `_mpd_starts`,
  `_switch_lock`, the seeding lock, and what runs outside all of them.
* Frames that say the same thing whether a person or the service did it, in an
  order each kind of box has for itself.
* Calls that were obeyed and whose answer is lost; a refused box; a store that
  refuses one note while the other boxes are being joined.
* A stop landing between any two steps, a process that dies, a new one that finds
  what the old one wrote down; a migration, a seed or a deployment cut short.
* A wall clock with an hour that does not exist and one that comes twice.

The entries under "hazards" in `PROJECT.json` list these at their lines, with
the properties that would catch each going wrong, or why none does.

## 2. Modules

A step of a model is what the code does between two suspension points: one
action per handler segment that runs without awaiting, one per statement or
transaction in the database. A call to a box, to MPD or to the service manager
is sent in one step and answered (or not) in a later one.

```
 StationSwitch <-implements- ZoneMaster (P)          Belonging <-implements- Membership (P: in SpeakerBookProofs)
    ^ extends                                           ^ extends               ^ extends
 ChannelStarts (P) -> MpdQueue                       ZonePass (P)            SpeakerBook (P) -> ChannelList, HousePreferences

 HouseRecord <-implements- StoreWorker (P)           HouseSwitch <-implements- HouseDatabase (P) -> AtomicFile
                                                        ^ extends
 KeyReading -> Presses, KeyGestures                  Deploy (P)

 VolumeGuard (P)      Placement
 StreamFeed (P: in ZoneMasterProofs)                 Alarms (P: in StoreWorkerProofs)
```

(P): the module `<Name>Proofs`, or the one named, EXTENDS it and holds its theorems
(section 7): a stream with the zone that plays it, the alarms with the record their rows are in.

**StationSwitch** - what `ZoneMaster.play` promises its caller: each call takes a
number in the order asked, is answered that it plays or that a newer one does,
and the station is only ever replaced by a newer one's or stopped.

**ZoneMaster** - `play` (`Play`, `FirstBytes`, `Overtaken`, `Install`, `Switched`,
`SwitchBroke`, `SwitchDone`, `Announced`), a transport channel from connection to
close (`Connect`, `Refused`, `PlanJoin`, `JoinSent`, `HangUp`, `TransportClosed`),
the repair of a box left behind (`PutBack` ... `PutBackSent`) and `stop_station`
(`StopStation`, `StopOne`, `StationStopped`). `holder` and `waiters` are
`_switch_lock` with its FIFO queue; `generation`, `station`, `sources` and `live`
are the fields of the class. A box may open a second channel before its first is
closed, as the real ones do. `Switch == INSTANCE StationSwitch` is the refinement.

**ChannelStarts / MpdQueue** - how a number becomes what the zone plays: `Dial`,
`Book`, `Dispatch` are the dialling loop, `Enter` to `Returned` one start (token,
`_mpd_starts`, the old channel's place, loading the new one, `play`, `_on_air`),
`TakeIn`/`StartInline` the start a pass makes itself, `StepInside` a key that
steps inside MPD, `StandDown` the end. It EXTENDS StationSwitch, so that the
master's answer is any answer ZoneMaster may give. MpdQueue is MPD as the code
uses it: the one connection (closed when quiet, replaced, one answer behind after
a clash), the queue, the order of a directory's files (`PlayOrder`, `RunStarts`,
`DirectoryJump`) and the place remembered by name (`FoundIn`). One master's life.

**HouseRecord / StoreWorker** - the record as an atomic register of saves, and
the worker with its queue, its thread, its awaiters that may be cancelled, the
open that is refused or cancelled, the close that waits only so long, and a
process that dies at any moment and is started again (`MaxLives`). A write is one
transaction. Reads change nothing and are left out.

**VolumeGuard** - one box and its level: the pass that notes, saves, mutes, joins
and fades; the fade; the put-back of a box that is not taken in, also with the
switch off; the house steps and their writer; stop, crash and the next run's
restore. Saves are queued in order and may be refused.

**Belonging / Membership** - the rule for who belongs, first without time (what
was heard, whether it is fresh, whether a wake is standing; time passing can only
take those two away), then with the code's moments (`last_seen`, `woke_at`,
`UNREACHABLE_TIMEOUT`, the wake window, events that arrive up to `MaxLag` late).
Sources are reduced to standby, ours, internet radio, the zone, and anything else.

**ZonePass** - EXTENDS Belonging, and adds the whole pass: `Asked`, `Believe`,
`WrittenDown`, `Bind`, `LetGo`/`Released`/`OnItsOwn`, `TakeIn`, `Fetched`,
`TakenIn`, `BackedUp`; per box `Muted`, `InfoAnswered`, `Joins`, `Refuses`,
`Unsaved`; the stand-down `Dissolve`, `Told`, `Dissolved`; and `Stop`, `End`.
Around it: people at the boxes (`PowerOn`, `PowerOff`, `ToOther`, `Digit`,
`InOrOut`), the reader (`Read`, `PressRead`, `NumberDue`, `Booked`), the switch,
the list of consoles, the ends of waits, and the poll. `bound` is the world's
side of the story: which boxes really hold a zone document that names us.

**Presses / KeyGestures / KeyReading** - Presses pairs what one box has said
(selections, touches) into presses (`domain/presses.py`); KeyGestures keeps keys
down, digits, steps, thumbs, the calibrating gesture and its rounds; both are
operators of the moment, as the classes are. KeyReading runs them: persons follow
a script of presses (`PressPreset`, `PressKey`), the boxes' frames arrive in the
order of their kind, the reader (`ReadSelection` ... `ReadKeyRelease`) never
waits, and the worker (`Announce`, `Settle`, `Turn`, `Finish`, `HoldTaken`,
`NumbersTaken`, `JumpsTaken`, `Dials`, `TurnEnds`) wakes at the earliest deadline
and waits for the pass's lock where the code does. `did` and `read` remember what
was pressed and what it was read as.

**SpeakerBook** - EXTENDS Membership with the registry read (`ReadBegins`,
`ReadIsTaken`, `ReadFails`), the round of questions (`RoundOpens`, `QuestionsGoOut`,
`BoxAnswers`, `AnswerIsTaken`, `RoundEnds`), observers that drop and connect, the reader, and
the seeding of the channel list by two tasks around one lock (`SeedIsCalled`,
`SeedEnters`, `PresetsRead`, `SeedEnds`). A channel may be cut, and an answer may
overtake frames, at any moment. ChannelList gives the numbers, the
rotation and its neighbours; HousePreferences which value of a preference wins
and what the poll's watch takes over.

**Placement** - one stream and the boxes on it. `JoinCohort`, `StartPlan` to
`PlanInFrames`, `PlanInBytes` and `Restart` are the ways into it; `Heard` is
`on_slave_state`; the ring, the frame index and the two timelines are operators
on what was reported. The boxes render by the rules the docstrings measured.

**StreamFeed** - `FetchIsTold` to `StreamBreaks` are the fetch task with its
lookup at the registry, `Again` and `BackoffOver` its redial, `StopSource`,
`Wakes`, `StopReturns` the stop; `Request`, `Served`, `Unanswered`, `TimesOut`
the data loop of a box against the ring. The ring holds bytes, a byte being the
number at which it came in: `RingAppend` drops the oldest, `ReadRing` reads by the
ring's own start, and what a connection was given is kept (`given`).

**HouseSwitch / HouseDatabase / AtomicFile** - what a set of the switch promises
whoever makes it, and the database it is a row of: opening, the writer's lock of
either engine (`Acquire`, `LockFirst`, `LockToMigrate`, `SessionDrops`), the check
of the revision, migration and seed in one transaction, the verbs (`SetPreference`,
`ImportChannels`, the switch), refusal, death, and `PowerFails`. AtomicFile is
`write_atomic` step by step, with what a power cut may bring back.

**Deploy** - EXTENDS HouseSwitch: the steps of `deploy_service.py`, each command
with the moment it takes effect and the moment its answer is read, either of which
may fail; the unit as the service manager runs it, with its restarts, and the
readings of it that may come back empty; a pass that takes and frees a box by the
switch as it last read it, however old that is; and a person who sets the switch. Time is counted in polls.

**Alarms** - the rules with their rows, under the caller their docstrings are
written for (it does not exist yet and is marked external): it reads the whole
book each time, writes what was missed, rings, ticks, resumes after a crash.

The MC modules only give values to constants a `.cfg` cannot write (functions,
negative numbers, symmetry sets, scripts).

## 3. The plan

Built in this order: ZoneMaster (what every box hears depends on it) and its
contract; ChannelStarts on top of that contract; StoreWorker and its record;
VolumeGuard, the damage the service can do to a room; Belonging and Membership;
ZonePass, which composes the rule with the joins and the dissolve; then KeyReading,
Placement, StreamFeed, HouseDatabase, Deploy, Alarms and SpeakerBook.

The eleven modules marked (P) in section 2 have their proofs. What is left worth
proving is `NoStepTwice` of VolumeGuard with steps down, for which the module must
first tell a step owed from before a pass from one made during it (section 6).

KeyReading and Placement are folds of sequences, and Placement's are of products
and quotients too; they stay with TLC. So does the place a channel comes back to
(`PlaceIsItsOwn`), which rests on the order of a directory's files.

## 4. The runs

`tlc -config <Name>.cfg <module>` in this directory runs each of them.

| Run | Module, configuration | Shows | Bounds |
|---|---|---|---|
| zone_master | MCZoneMaster, `ZoneMaster.cfg` | NoStaleTarget; it implements StationSwitch; a box left behind ends up on the station | one box with two channels, two presses |
| channel_starts | MCChannelStarts, `ChannelStarts.cfg` | the last start plays; no book gets another's place while the house is on; a directory comes back to the file it was left in; every start ends | two presses, one radio channel, one directory, one stored playlist; one trouble with MPD or one failed save, one switch-off or stop |
| store_worker | MCStoreWorker, `StoreWorker.cfg` | an answered save is durable; it implements HouseRecord; a queued write is answered | three saves, two runs |
| volume_guard | MCVolumeGuard, `VolumeGuard.cfg` | the box comes back to its level; no step twice; no mute stands for ever | three levels, a fade of two steps, two joins, two failed calls, one step up, one step down owed from before, two runs; crash, stop, unsaved |
| zone_pass | ZonePass, `ZonePass.cfg` | a stop frees everybody; nobody is missed; a box that belongs gets in; off frees | two boxes, one a console, one a member of the last run; one act, one flip, one fault of nine kinds |
| key_reading | MCKeyReading, `KeyReading.cfg` | no echo is a press; no press is lost; a press that wakes does not dial; no number is torn | one box, scripts of three or four keys in five mixes, one or two echoes; windows in the code's order, of two to six ticks |
| placement | MCPlacement, `Placement.cfg` | boxes that play are in sync; bytes are a frame off at most | two boxes, two streams (frames of one size, frames of two), 19 ticks |
| stream_feed | MCStreamFeed, `StreamFeed.cfg` | a box gets the station's bytes in order, none missing or twice; who is owed is served; a stop returns | one box, a ring of three, four bytes, one move of the adapter |
| house_database | MCHouseDatabase, `HouseDatabase.cfg` | the schema holds still; seeded with its schema; files are whole; it implements HouseSwitch | three processes of two releases, three jobs, both engines |
| deploy | MCDeploy, `Deploy.cfg` | a person's word stands; only proved code gets the house; nobody is cut off but by a slow pass | two words of a person, two exits of the service, two failures, every kind of wheel |
| alarms | MCAlarms, `Alarms.cfg` | every wake is answered; everything is given back; none rings twice | two alarms, two and a half days with both clock changes, two edits, one crash |
| speaker_book | MCSpeakerBook, `SpeakerBook.cfg` | reply speed decides nothing; no wake is lost that the code can tell; AUX is left alone; seeded from the first switched on | two boxes, one a console; two registry reads, two happenings and one cut channel, three frames |

Why these bounds are enough. What races in ZoneMaster are two presses, a joining
channel and a put-back, and the second channel of one box makes a sequence to
several receivers overlap; two boxes with three channels (`TwoBoxes`) pass too, in
more time. In ChannelStarts two presses are the least in which a start is
overtaken both in its MPD half and in its call, and with a start the pass makes
inline there is a third; two books are the least in which a place can be another's.
Three saves let one be running, one queued and one cancelled; two runs let the
second find what the first left. Two joins are the least in which a note of the
first meets the mute of the second, with a step down owed from an earlier run.
In ZonePass a second box matters because passes gather several joins and one may
fail while another is under way; one of them is in the zone from the first pass on,
so that the one act can take it out again. With three acts, nobody remembered and
the faults refused, busy and unsaved the invariants hold as well (15 million states). A number has two digits
at most here, and three keys are the least in which a press can be torn from its
number on either side. Two boxes are the least in which one joins what another
plays; a restart needs both to have gone quiet. A database needs three processes
for one that serves, one that seeds and one that flips. Two days and a half hold
a day gone by, today and the next wake, which is as far as the rules look.

Memory of a bound: `MaxNow = 0` in speaker_book takes the clock out of Membership;
its windows are covered by the theorems of section 7. In channel_starts the case of
a directory emptied altogether while it is loaded (`NotThere`, nothing on disk) is
not reached.

Deadlock is checked in zone_master, channel_starts, store_worker, volume_guard,
zone_pass, key_reading and placement: there an action marks the states in which
the bounds leave nothing to do, and every other stop would be reported. The other
five end by their bounds.

The mutants in `PROJECT.json` are the other half of the evidence: each is a small
change of one definition that a slip in the code would make (a lock not taken, a
list not written, a token drawn too late, a note saved after the mute), with the
operator for it kept beside the definition, and each makes its property fail.

Formulas that stand in the modules and are in no run held on the same instances
when they were written, and are kept for whoever changes the code: `TypeOK` of
every module (`FeedTypeOK` of StreamFeed); `OneSequenceAtATime`, `OnlyJoinedAreSwitched`, `LiveIsRegistered`,
`Placed`, `EveryCallReturns` (ZoneMaster); `NothingIsLostToIdling`
(ChannelStarts); `WritesFindItOpen`, `EndedIsClosed`, `LostIsCounted`,
`CloseReturns` (StoreWorker); `SilenceIsNoted`, `SilenceIsWrittenDown`
(VolumeGuard); `NeverToldTwice`, `StopEnds` (ZonePass);
`OneActionPerKey`, `GestureIsSpent`, `NeverSpins` (KeyReading); `PlayIsAhead`,
`NeverRestarted` (Placement); `DataLoopsEnd`, `StationIsFound` (StreamFeed);
`HouseAsItWasFound`, `WhatItSaysIsTrue`, `DeployEnds` (Deploy); `AllowedIsReadFor`,
`StepsGoToTheNeighbour`, `NumbersAreThePreferredOnes` (SpeakerBook);
and, proved since: `WakeLastsItsWindow`, `ImplementsBelonging` (Membership),
`BoundIsListed` (ZonePass), `NothingIsLeftHeld`, `CalibrationIsKept` (HouseDatabase),
`NoNeedlessWait` (StreamFeed), `RingsWhenOwed`, `SilentPastItsLimit` (Alarms).

The inductive invariants of section 7 were checked as invariants before they were
proved: of ZonePass with two acts and two of all faults (over 15 million states);
of ChannelStarts on its run (868,075); of VolumeGuard with two and with three steps
up, crash, stop and failures (1,377,138 and 2,210,842), what it adds for a quiet box
on 679,060; of HouseDatabase with `LateSeeds` off and on (1,241,826 and 1,244,674);
of Deploy with answers lost (1,479,163); of SpeakerBook on its run (2,839,023); of StreamFeed
on its run (150,660); of Alarms, with `RungHasItsRow`, on its run (311,244).

## 5. Fairness

* ZoneMaster: a call of `play()`, a channel's handler and the pass take their next
  step when they can, because the loop runs every ready coroutine and each of
  their waits is bounded or a lock that is handed over in order. Presses,
  connections, hang-ups and the emptying of the zone may never come.
* ChannelStarts: starts, the dialling loop and the pass run; MPD and the master
  answer or time out (`MPD_TIMEOUT_S`, the bound on the first bytes).
* StoreWorker: the loop runs and the close's own bound runs out. The thread gets
  no fairness, because a database call may hang for ever: `CloseReturns` holds
  without it, and `EveryWriteIsAnswered` has it as its hypothesis.
* VolumeGuard: every task that can run does, passes come again with every poll, a
  failed save ends the service and the service manager starts it again.
* ZonePass: calls are bounded, frames are read, the poll comes round. A completed
  number gets strong fairness, since `asyncio.Lock` is first come, first served:
  it cannot be passed over by one pass after another.
* StreamFeed: the fetch task, the background read and the data loops take their
  next step, and a station or a registry that was asked answers or times out, as
  both are asked under a time limit. Whether the station ever sends a byte is not
  assumed.
* Deploy (for `DeployEnds`): commands end, polls go round.
* KeyReading, Placement, HouseDatabase, Alarms and SpeakerBook state safety only.
  Time in KeyReading passes only when every frame of the moment was read and the
  worker has nothing to do or waits for the lock.

StationSwitch's own fairness (`AnswerFairness`) is stated for its users; that
ZoneMaster provides it is `EveryCallReturns`, checked and not proved.

## 6. What does not hold

Where a comment or a docstring says more than the code does, the sentence is
stated as a property of its own, and the passing runs leave out what it needs:
`Faults`, `Disturbed`, `LateSeeds`, `FoundOn`, `AnswersLost`, `EarlyJoins` and
`TurnsAreKept` name such cases. Three properties except what they cannot hold for, and
say so where they stand: `NoWakeIsLost` the boxes in `unheard`, `NobodyIsCutOff` those in
`late`, `OnlyProvedIsHandedBack` a count of restarts that was not read. To see the
counterexample, change the run's configuration as the middle column says and put
the property in (with `SPECIFICATION Spec` for an invariant), or take the
configuration named there.

| Claim refuted | With | What happens |
|---|---|---|
| StoppedMeansNotFetching; `zone_master.py` 484 | `ZoneMaster.cfg` | A source added while `stop_station` awaits the others is dropped from the dict and never stopped. |
| InstalledIsServed; `zone.py` 429 | `ZoneMaster.cfg` | A `play()` that outlives `stop_station` installs a station without a source. |
| LastDialledPlays; "the last press is the one that plays" (`zone_master.py` 309) | `ChannelStarts.cfg` | Dial 2, and dial 1 again within its wait for the first bytes: 1 is "already playing" (`dialling.py` 442), since `_on_air` is written late. The zone ends on 2. |
| OnAirIsTheRunningStation; `zone.py` 520, `state.py` 202 | `ChannelStarts.cfg` | Two winners return in the other order and write each its own number. |
| OneSpeakerOnMpd; `zone.py` 608 | `ChannelStarts.cfg` | A dispatched start and a step inside the channel hold different locks and speak on one connection; the clash leaves it one answer behind. |
| NothingStartsOnADissolvedZone; `zone.py` 743 | `ChannelStarts.cfg` | A stand-down by the switch ends no start. |
| FailureIsHeard; `store_worker.py` 43 | `StoreWorker.cfg`, `MaxSaves` 2, `MaxLives` 1 | An awaiter cancelled between `_settle` and its turn neither raises the failure nor has it said. |
| ComesBackToItsLevel; "faded back to the level it was on" (`volume.py` 5) | VolumeGuard*, `Faults` {"return"}, `MaxJoins` 2 | `_turn_it_down` (99) overwrites the note of a box whose fade still climbs with the level half way up. |
| SilenceIsNoted; `volume.py` 7 | VolumeGuard*, `Faults` {"lost"}, `MaxFails` 1 | The mute was obeyed, its answer lost: the note is popped, the box silent. |
| TheNoteIsPutBack; `volume.py` 274 | VolumeGuard*, `Moves` Up, `MaxSteps` 1 | A step up during the put-back moves a note that is then dropped. |
| AStopLeavesNoBoxSilent; `zone.py` 402 | VolumeGuard*, `Faults` {"stop"} | A stop cancels a take-in between mute and join; the box is at zero until the next start. |
| JoinedIsInTheZone; "POWER on brings it back" (`membership.py` 5) | ZonePass*, no faults, `MaxActs` 3 | A box off and on again while a pass waits has left the zone by itself, and still belongs when next asked: it is never told again. |
| MusicOutlastsAJoin; `zone.py` 344 | ZonePass*, {"left"}, `MaxActs` 2 | Two calls lie between the second question and the document; a box put on AUX there is taken over. |
| MusicOutlastsTheEnd; `zone.py` 7 | ZonePass*, no faults, `MaxActs` 2 | A box on AUX is still listed when the house stands down, and is sent into standby. |
| `bound \subseteq slaves`; `service.py` 48 | ZonePass*, {"lost"}, `MaxActs` 2 | A document obeyed and its answer lost: the box is in the zone and off the list. |
| the same; `membership.py` 201 | ZonePass*, {"late"}, `Remembered` {b1} | A member of the last run whose first frame, read while it is being taken in, names its own station is dropped with `slave_left` when it already holds the document. |
| the same; `zone_master.py` 459 | ZonePass*, {"console"}, `Consoles` {b2}, `MaxFlips` 1 | A console no longer allowed is dropped with `slave_left`, which sends it nothing. |
| no box bound at the end; `service.py` 48 | ZonePass*, {"unsaved"}, `MaxActs` 2 | One box's StoreError ends `gather` and the service; another box's join goes on past the dissolve. |
| NeverToldTwice; `zone_master.py` 436 | ZonePass*, {"backIn"}, `MaxActs` 3 | Who quits is decided before the write, how (`_out_of_multiroom`) after it. |
| NobodyWaitsForAClosedNumber; `zone.py` 330 | ZonePass*, no faults, `MaxActs` 2 | A number that names no channel asks for no pass. |
| TheRetryIsAskedFor; `zone.py` 105 | ZonePass*, {"refused"} | The end of a refusal's quiet period is reported by nobody; the poll makes up for it. |
| NoEchoIsAPress; `presses.py` 46 | `KeyReadingEcho.cfg` | At a slave, an echo still to be confirmed adopts the touches of a key pressed within CONFIRM_WINDOW: the echo is dialled and the press dropped. |
| NoPressIsLost; `volume.py` 68 | `KeyReading.cfg`, `Scripts` SlaveVolume, `Disturbed` TRUE | One volume write and two presses at a slave: a press is lost. |
| NeverRestarted; `placement.py` 189 | `PlacementEarly.cfg` | A box that joins before the first has reported a rate restarts a stream somebody plays. |
| ImplementsHouseSwitch; `service_venv.py` 288 | `HouseDatabaseSeed.cfg` | On PostgreSQL a late seed reads the switch before it locks the row, and writes over what a person set in between. |
| ImportNeverEmpties; `channel_file.py` 126 | `HouseDatabase.cfg` | An import of a path where nothing is empties the list. |
| OnlyProvedIsHandedBack; "a failure after the stop" (`deploy_service.py` 826) | `DeployInactive.cfg` | A unit that was not active is never stopped, so a later failure turns the house on over code nobody proved. |
| HouseAsItWasFound; `deploy_service.py` 723 | `Deploy.cfg`, `FoundOn` {"activating"} | The unit between two restarts counts as not active, with the same end. |
| HouseAsItWasFound; `deploy_service.py` 631 | `Deploy.cfg`, `AnswersLost` TRUE | The switch-off was obeyed and its answer lost: the house is left off and nothing says so. |
| OnlyProvedIsHandedBack with `Window` for `d.window` and without `d.base = Unread`; `deploy_service.py` 699 | `Deploy.cfg` | `unit_property` (563) asks no exit code: a count that cannot be read at the start and at the settle looks like no restart, a delay that cannot be read leaves the least window. The switch goes on over a unit that restarts in between. |
| NobodyAtAllIsCutOff; `deploy_service.py` 648 | `Deploy.cfg` | The drain reads an empty zone while a pass that read the switch before takes a box in; the stop cuts it off. |
| EveryWakeIsKnown; "dropping the answer is already the whole of it" (`speakers.py` 286) | `SpeakerBook.cfg` | A question goes out, the box says STANDBY, its channel is cut, it is switched on, unheard, and answers radio. The frame read since it was asked counts as the newer word, though the answer is (257): it is dropped, and the wake with it, until the box next says something other than radio. |
| SeededFromTheFirst; `channels.py` 82 | `SpeakerBook.cfg`, `TurnsAreKept` FALSE | A pass that waited for the seeding lock does not ask again whether a round is out. |

VolumeGuard*: `VolumeGuard.cfg` with `Top` 3, `Moves` {}, `MaxSteps` 0, `MaxLives` 1,
`OwedBefore` {0}, `MaxJoins` 1, `MaxFails` 0, `Faults` {} but for what is named.
ZonePass*: `ZonePass.cfg` with `Consoles` {}, `Remembered` {}, `MaxFlips` 0 and the faults named.

Met on the way and in no formula:

* VolumeGuard, `NoStepTwice` beyond steps up (the theorem's hypothesis OnlyUp).
  With a step down owed from before and a step up made while a pass has taken the
  first into its hand (`MaxSteps` 2), level and debt add up to more than is due until
  the pass owes its step again. With "return" and a save that fails, or a crash, at
  the take-in's note, the cancelled old fade writes the new note, the step in it, while the
  database still says the step is owed: the next run takes it twice.
* VolumeGuard, steps down. A join pops an owed step down from memory before the
  box has taken it; a save made for a house step in between writes the state
  without it, and a crash then loses it. The writer of house steps starts from a
  report that may be older than the mute. A rescue that fails is followed in the
  same pass by a take-in that reads the box's level and overwrites the note.
* ChannelStarts. A stored playlist that got shorter than the index remembered for
  it refuses the seek at every start from then on. A stop in the middle of a step
  leaves an answer unread, so that the stand-down's own question may be answered
  by it.
* HouseDatabase. A revision that becomes newer between `_current` and `_upgrade`
  ends in alembic's error rather than in a StoreError; `switch` on an empty file
  makes the schema without a seed row; reads of several statements on PostgreSQL
  may see two states.
* SpeakerBook. `NoWakeIsLost` is one-sided: a wake can be known that was none. A box
  that answers STANDBY, is put on AUX and then on internet radio before its answer is
  taken is read as woken (`speakers.py` 282 reads the answer again with the newest
  frame only). A frame sent before an answer and read after it may be read as a wake. A
  box switched on while its channel was cut, asked, and switched off again before the
  answer is taken, is awake from the answer to its own frame.
* Deploy. An interrupt while `_recover` runs ends with nothing said.
* Alarms. Deleting an alarm that rings drops the row with the volumes before it:
  where the caller is down then, the box stays loud.

## 7. What is proved

Eleven modules in eight files of proofs, checked by TLAPS, for all values of the constants that meet the
assumptions named here. The two contracts are used from both sides: ZoneMaster and
HouseDatabase implement StationSwitch and HouseSwitch, and ChannelStarts and
Deploy take only steps these allow their users (`DrivesTheMasterAsItAllows`,
`TheyOnlySetTheSwitch`).

*ZoneMaster.* Assumptions: `MaxPlays` is a positive natural, every channel is
some box's. `TypeCorrect` is by induction on the steps. `Excluded`,
`NeverStale` and `LastPressPlays` follow from one inductive invariant,

    IInv == TypeOK /\ OwnChannels /\ Exclusion /\ NoStaleTarget /\ station <= generation

NoStaleTarget alone is not inductive: that no press moves the zone during a
join's wait needs that the join holds `_switch_lock` (`Exclusion`, which names
the holder of every sequence under way), and handing the lock over needs that a
put-back moves its own box's channels only (`OwnChannels`, since a box's
transports are kept in one tuple per address). That a newer station's number is
larger needs `station <= generation`. `Implements` maps each step to a step of
StationSwitch or a stutter, with `asked <- generation`.

*StoreWorker.* Assumptions: `MaxSaves` and `MaxLives` are naturals. The invariant
is about the queue. `InOrder`: the jobs queued, and the one running, are in the order the
saves were asked for and all behind what is durable - so no write can take the
record back. `SavesOnTheirWay`, `Answered`: a save in the queue has no answer yet,
a save answered well is durable. `Phases`, `WithinASession`, `CloseToCome`,
`OpenAlone`, `Ended`: what may be in the queue given where the open and the close
stand, which is what makes a write find its session open and a thread that has
ended hold none. `Counted`: `_writes_out` is the number of writes not settled,
from which the loss a close reports bounds what the exit can lose. From it:
`OkIsKept`, `WritesAreInASession`, `EndedHoldsNothing`, `LossIsCounted`,
`NeverFallsBack`, and `Implements` (HouseRecord).

*Membership.* Assumption: an event's delay (`MaxLag`) fits in both windows; with a
longer delay a frame could be read when it no longer counts, and Belonging would
be wrong about it. `LeftAlone` (a box on AUX) needs the stronger `OtherHasNoClaim`:
such a box has neither a wake on record, counting or not, nor a membership from
before, unless somebody dialled on it. `WindowIsKept` shows for each event that it
leaves a wake that counts counting (`AwaitingStep`). `TimeIsAllItAdds` maps each
event to the event of the same name of Belonging, field by field of what is kept
of an entry (`Kept`), and a tick to `TimePasses`: the boxes whose wake or whose
freshness has just run out are its witnesses, and `OnlyWanes` is why nothing else
changes.

*SpeakerBook.* Assumptions: `BookAssumption`, that the registry lists each box once and
in one order, and Membership's. The reads, the frames and what happens to the boxes are
not bounded. `ReplySpeedDecidesNothing` compares neighbours by their ranks; what makes it
inductive is where an answer is put. While a round is out the list has three parts
(`InThreeParts`): who stood there before, the answers placed, the frames read since; so the
place counted from where the round opened is behind the answers listed earlier (`SlotIs`,
`CountedByPlace`) and ahead of every frame. `SeededFromTheFirst` needs that one task at most
holds the lock and that the box it asks stood, when asked, first of all not asked yet
(`OneSeeds`), and it goes on doing so, since while it is asked a box is only put behind
it. A pass that waited for the lock does not ask again whether a round is out, hence the hypothesis
`TurnsAreKept` (section 6): whoever waited runs before the reader does. For
`NoWakeIsLost`, `Told` says of each box, at every moment, that what is known of it, with
the answer on its way and the frames still unread taken in the order the code will take
them, comes to what it said. A stale answer is the case that needs care: that the entry
is then what the newest frame made of it is `StaleIsKnown`. Answers and cut channels
overtake frames as they like. Excepted by the property is a box in `unheard`: it answered
otherwise than the newest frame said that was read since it was asked, or is still unread -
it was switched over while nobody listened - and has not named anything but the radio in
a frame since. There the wake is lost (section 6).

*ZonePass.* Assumption: `PassAssumption`, the types of the constants. The faults
are not assumed away: `BoundIsListed` and `AStopFreesEveryBox` say in themselves
which of those that have happened (`LeftBehind`) they except, and section 6 shows
each of them at work; refusals, busy ports and the rest may happen any number of times.
`AStopFreesEveryBox` is not inductive, for it speaks of the end only. `Listed` carries
it there: whoever holds our document is on the list while a master is held, and every
stand-down either has them still to tell or has told them. A box must not leave, or
be dropped, behind the list's back while its own call is out, and that is what most of
the invariant is about: which calls may be out in which phase (`PassPhases`,
`CallPhases`), that the last frame of a box is what it plays (`LastWord`,
`InTurn`), and from these that a box held by the pass goes on belonging
(`HeldStays`). `NobodyIsMissed` comes from `NobodyDropped`: unless another pass is
asked for, whoever belongs is in this one's hands or has a frame on its way.

*ChannelStarts.* Assumptions: those of the module's constants. Every step is first shown to have one of eight
effects on the starts, their tokens and their calls (`StepHasEffect`); the rest of
the argument never mentions MPD. `LastStartPlays` needs `InOrder` (tokens are drawn
in the order of the starts, which is what a start that draws its own before its
first `await` gives), `NewestCalls` (the start that holds the newest token holds the newest call
of `play`, and does not give up) and `WonIsOn` (the newest call, once won, is on
the zone or was stopped).

*VolumeGuard.* Hypothesis `OnlyUp`: the house is only turned up, nothing is owed from
a run before, and no box leaves and comes back while its fade runs. These are the
cases of section 6; the run has a step down owed from before, so that there TLC
checks more than is proved. Crashes, stops, refused saves, lost answers and any number of
runs are in. `NoStepTwice` is `vol + owed <= due`; what is inductive is that the same
holds of every level a later step may write to the box or owe again: the last report, the note,
what a fade is about to send (`FadeIsDue`), what the pass has taken into its hand (`TakenUp`),
what the house's writer carries (`InHand`), and every state of the record that a crash
may bring back, the durable one and those queued (`SaveIsDue`). That the last are never
ahead of memory needs the order of saves and takings (`Fresh`, `OneSave`), and that only
one fade at a time speaks to the box (`OneFade`). `ComesBackToItsLevel` adds, while
no call failed and nobody turned, that a box off its level is noted in memory and in
every save that could be read back (`Remembered`, `Lent`).

*HouseDatabase.* Assumptions: no process is called like the holder of a free lock, and
a file cut short is not one of the whole documents. `SchemaHoldsStill` follows from
who may be where with which lock (`WriterIsWhoNeedsIt`): a process that serves,
imports or migrates holds the writer's lock, so nobody else moves the revision
(`HeldSchemaStays`). `SeededWithItsSchema` and `CalibrationIsKept` are `SchemaAndRows`,
which each migration keeps because revision and rows are one transaction. `FileIsWhole`
follows the temporary file from step to step (`ExportIsWhole`). `TheSwitchIsARegister`
maps each set, seed and migration to one step of HouseSwitch or a stutter: the
transaction that writes has read what it writes over (`TxnIsWhoWrites`). It is
proved for SQLite with seeds at any moment, and for PostgreSQL where no seed comes late
(`SafeSeeds`); with one it is false (section 6).

*Deploy.* Assumption: `DeployAssumption`. `TheirWordStands` and `NobodyIsCutOff` have no further
hypothesis: they hold with answers lost, slow passes and every unit found. The invariant of the first is
about stamps: as long as the row carries the stamp of the deploy's own switch-off,
nobody has said anything else since (`OwnStamp`), so that a put-back conditional on that stamp
cannot write over a word. `NobodyIsCutOff` says who may be cut off when the drain was not enough: boxes
that a pass took in over a switch that was off by then, after the drain last looked
(`late`). It rests on the house being off from the switch-off to the stop
(`OffUntilTheStop`), and on the drain, which begins `late` anew each time it looks and goes on
only with nobody else there (`EmptyBeforeTheStop`). `OnlyProvedIsHandedBack` is proved where the unit was
found active (`FoundOn`), as in the runs; section 6 shows it fail without. It rests on the old code
running up to the stop (`OldRuns`) and on the settle's bookkeeping: with restarts that can be read and none
counted, the unit has been up for as long as the settle has waited (`Proved`), for a window
that is the least one where the restart delay could not be read (`WhatIsWatched`). All three need that the steps left
come after the steps done, in the one order there is (`Plan`), which is proved of the plan
as a set and not of the list it is.

*StreamFeed.* Assumption: `StreamFeedAssumption`, that the default and the largest
answer are bytes and fit in the ring; what a box asks for may be any two integers.
`WithoutAGap` compares bytes. The ring holds the last that came in, in order, and knows the number
of its first (`RingHoldsTheLast`: a ring that forgot to count what it dropped would hand out
later bytes under earlier offsets); a read at an offset that was not dropped is then the
station's bytes from there on, the cursor is behind the last of them (`ConnInv`), and so the next read goes
on where this one ended. Two companions are what the theorems about waits need: a box
that waits has been placed and is to get a byte at least, and it does not wait for
more than it will get, whatever it asked for (`ServeIsPositive`). So a
request that times out was owed more than the ring held (`NoWaitForNothing`), and one without
an answer had nothing coming (`OwedBytesAreServed`), also when a stop lands between. `HeldByItsReader`
and `StopIsFinal` (`LookupIsFreed`) tie the lookup's lock to who reads, through
cancellations, deadlines and the close, and the ring's end and the fetch to the stop.

*Alarms.* Assumptions, beyond the types: `ClockAssumption`, instants are counted from a
midnight, a gap in the clock is no longer than the code searches (`GAP_SEARCH_MINUTES`,
`alarm.py` 238) and what it passes over is not shown later; `HorizonAssumption`, the zone
is known for a day beyond the run; `MidnightAssumption`, no gap runs over a midnight, which
only `EachWakeRingsOnce` uses, since two days whose wakes are put off to one instant would be
told apart by nothing there. Zones have broken the last: a country that skips a day, and clocks
that were put forward at midnight. The inductive invariant, `AlarmInv`, has four parts. One alarm at a time is
open (`OneIsOpen`). What is on the wire is what its row says, or the row has just been
taken away and the caller will find that at its next turn (`RingIsItsRow`). While nothing
sounds, what a row still rings for can be given back, and if no row rings it has been (`QuietIsGivenBack`), which
is what a crash in a ring needs. A snoozed alarm has nothing on the wire (`SnoozedIsQuiet`).
`EachWakeRingsOnce` adds `RungHasItsRow`: what has rung stands in a row, unless the alarm was set
anew, and then it is due only later. `NoWakeIsUnaccountedFor` and `WhatRingsIsOwed` speak
of the first instant at which a clock shows a time or a later one, the code of the first
wall time from there on that exists; that the two are one, forwards and backwards, is
`PutOffToTheFirst`. Its least elements come from the library's theorem on well-founded
relations, which takes the relation as a set.

Only model-checked: KeyReading and Placement (section 3); what the
channel list and the preferences of SpeakerBook hold; `PlaceIsItsOwn` and the types of MPD's queue in
ChannelStarts, which rest on sorted sequences and so on induction over data; the
steps down of VolumeGuard. Every liveness property (that a stop of a stream returns
is one) is beyond this prover, as are ENABLED and induction over data.

## 8. What is not modelled

* ZoneMaster: the start of the listeners and their binding; the frames' bytes.
* ChannelStarts: more than one master's life; a box out of multiroom that dials
  for itself; a command MPD obeys after its time-out; a wait between MPD's answer at the
  stand-down and the end of the save it makes (`STAND_DOWN_SAVE_S`). MPD plays on or is restarted
  only while no channel is being started. `PlaceIsItsOwn` is stated while the house
  is on: a stand-down asks MPD for a place beside a start (OneSpeakerOnMpd) and may
  write one book's place as another's.
* StoreWorker: reads; what a row holds.
* VolumeGuard: a person turning the knob of the very box being faded; the save
  that writes the state down at the end of a pass; a box out of multiroom; what
  makes a report of a volume a step of the house (`HouseVolume`). Steps still
  owed are dropped at a stand-down, as the code documents.
* Membership: the text of sources.
* ZonePass: a box that changes its address (`_follow_a_move`); a box whose wake
  runs out in the middle of its take-in; a process killed (what it leaves is in
  VolumeGuard and StoreWorker); a station started by a dialled number
  (ChannelStarts). People act at a box only once its last frame has been read. A
  box switched off says so with removeZoneSlave at once and one put on AUX says
  nothing but its frame; a box told that the zone is over goes to standby: that is
  how the boxes behave in the captures the code was written from, and external.
* KeyReading: more than one box at a time; two fingers at one. What it takes of the
  boxes: a selection comes before the touches of the same moment, but at a slave a
  tick after the release; an echo is never as near to a touch as the press it
  belongs to; a hold lasts no longer than the code takes for one it did not see
  end. No preset is pressed during a volume write and none at a slave right after
  an echo (section 6 says what happens then). The worker is prompt except where it
  waits for the pass's lock, which is given back by `Horizon`.
* Placement: rates are exact and time is counted in ticks; reports are at most
  one tick late; a joiner's own discarded frames are only logged by the master, so
  that `InSync` leaves them out; a station that stalls; reports that arrive after a
  box has joined again; a splice at a redial.
* StreamFeed: what a station sends after a redial, whose bytes are numbered on; the length of a backoff; the forty-five seconds the registry may be
  asked in all; redirects and playlists of a station.
* HouseDatabase: one seed at a time; two exports to one path; a PostgreSQL session
  dropped while nobody serves; the texts of the state row; a downgrade. A switch
  row nobody can read means on, which is the code's documented choice.
* Deploy: an installed version that crashes while it was proved; an interrupt
  between two commands; the questions of a first install; `export_public.py`. A
  `systemctl is-active` that prints nothing is one that failed: it ends the deploy, where the
  code reads "unknown", which at the first reading is a unit not active and at the
  start one to wait for.
* Alarms: a zone that breaks an assumption of section 7; an alarm that rings deleted while
  the caller is down. The caller is external: prompt, one alarm at a time has the zone, and
  what it does on the wire is obeyed. A row of an alarm may be refused on reading; a row of a day that
  is refused (`house_alarms.py` 191), which would leave its firing unhandled, is left out. A firing older than the days the rules look
  back is never written down as missed. Nobody turns the box by hand while a day is
  open; what a hand may write in the rows breaks a rule of one alarm at a time.
* SpeakerBook: a
  console taken off the list stays watched; a first run that remembers members;
  the numbers change only in a quiet house.
* The clock server answers one datagram at a time from a table of clients. Its one
  rule, whom to drop when the table is full, is a few lines without concurrency.
* Logging, wording, documents, generated code, the command line, configuration,
  value types, the prototype run, and the research scripts. The prototype stands
  down by the master's dissolve, which is ZonePass's.
