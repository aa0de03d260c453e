------------------------------ MODULE ZonePass ------------------------------
(***************************************************************************)
(* The pass (application/zone_service/zone.py): what it decides from what  *)
(* the boxes said (Belonging), what it tells the boxes, and what the boxes *)
(* and people do meanwhile - the reader, the switch, the dialling loop and *)
(* a stop of the service (service.py) run between any two of its steps.    *)
(*                                                                         *)
(* Boxes keep their addresses, have just been asked what they play, and    *)
(* answer or fail; volumes are in VolumeGuard, stations in ChannelStarts   *)
(* and ZoneMaster, the save's own life in StoreWorker.                     *)
(***************************************************************************)
EXTENDS Belonging, Naturals, FiniteSets, Sequences

CONSTANTS
  Remembered, \* members of the last run that did not answer the first question
  MaxActs,    \* bound: how often people do something at a box
  MaxFlips,   \* bound: how often the switch, and the consoles allowed, change
  MaxFaults,  \* bound: how many of the faults below happen, each once
  Faults      \* which of them, and of the moments below, may happen

FaultKinds ==
  {"refused",    \* a box does not answer the join
   "left",       \* a box is switched off, or over to AUX, and its frame not read when it is taken in
   "late",       \* a member of the last run first says it plays its own station when it is taken in
   "backIn",     \* a box taken out of multiroom is put back in before it was let go
   "lost",       \* a box obeys a call and the answer is lost
   "deaf",       \* a box does not hear that it is released, or that the zone is over
   "console",    \* a console in the zone is taken off the list of those allowed
   "busy",       \* a listening port is held by somebody else
   "unsaved"}    \* the note of a volume is not saved: StoreError

ASSUME PassAssumption ==
  /\ Consoles \subseteq Boxes /\ Remembered \subseteq Boxes /\ Faults \subseteq FaultKinds
  /\ {MaxActs, MaxFlips, MaxFaults} \subseteq Nat

VARIABLES
  plays,      \* what each box plays (external)
  bound,      \* the boxes that hold a zone document naming us (external)
  said,       \* per box: the frames it sent that are not read yet
  on,         \* _on
  outs,       \* _out_of_multiroom
  joined,     \* _joined
  refused,    \* _refused
  quiet,      \* those of them inside JOIN_RETRY_S
  open,       \* boxes with an open number: the dialler's deadline
  dialling,   \* boxes whose complete number waits for the lock
  wanted,     \* _wanted
  pass,       \* where the pass stands
  believed,   \* its answer to who belongs, until it has acted on it
  arriving,   \* whom it takes in once the station runs
  waiting,    \* _last_reported.waiting_on_a_number
  doing,      \* per box: the call the service is making to it
  untold,     \* whom dissolve has still to tell
  master,     \* none, held (self.master) or going (_standing_down)
  slaves,     \* ZoneMaster.slaves
  station,    \* whether the master has a station
  life,       \* of the service: running, stopping, ended
  acts, flips,  \* counts for the bounds
  faults      \* the faults that have happened

houseVars == <<on, outs, open, dialling>>
passVars  == <<pass, believed, arriving, waiting>>
zoneVars  == <<joined, refused, quiet, master, slaves, station>>
boxVars   == <<plays, bound, said>>
counts    == <<acts, flips, faults>>
vars == <<belongingVars, boxVars, houseVars, wanted, passVars, zoneVars, doing, untold, life, counts>>

TypeOK ==
  /\ BelongingTypeOK
  /\ plays \in [Boxes -> Sources] /\ said \in [Boxes -> Seq(Sources)]
  /\ {on, wanted, station} \subseteq BOOLEAN
  /\ {bound, outs, joined, refused, open, dialling, believed, arriving, waiting, untold, slaves}
       \subseteq SUBSET Boxes
  /\ quiet \subseteq refused
  /\ pass \in {"resting", "asking", "writing", "binding", "letting", "fetching", "taking", "backing",
               "saving", "dissolving", "ended"}
  /\ doing \in [Boxes -> {"nothing", "release", "select", "mute", "info", "join"}]
  /\ master \in {"none", "held", "going"}
  /\ life \in {"running", "stopping", "ended"}
  /\ acts \in 0 .. MaxActs /\ flips \in 0 .. MaxFlips /\ faults \in SUBSET Faults

\* The service has started: the boxes it asked said standby, radio or AUX, and
\* a member of the last run that did not answer is a member still.
Init ==
  /\ plays \in [Boxes -> {"standby", "radio", "other"}]
  /\ heard = [b \in Boxes |-> IF b \in Remembered THEN Restored(Unheard) ELSE Named(Unheard, plays[b])]
  /\ allowed = Consoles
  /\ bound = {} /\ said = [b \in Boxes |-> <<>>]
  /\ on \in BOOLEAN /\ outs = {} /\ open = {} /\ dialling = {}
  /\ joined = {} /\ refused = {} /\ quiet = {}
  /\ master = "none" /\ slaves = {} /\ station = FALSE
  /\ wanted = TRUE /\ pass = "resting" /\ believed = {} /\ arriving = {} /\ waiting = {}
  /\ doing = [b \in Boxes |-> "nothing"] /\ untold = {}
  /\ life = "running" /\ acts = 0 /\ flips = 0 /\ faults = {}
-----------------------------------------------------------------------------
\* A frame nobody will read any more is left out.
Says(b, s) == said' = IF life = "running" THEN [said EXCEPT ![b] = Append(@, s)] ELSE said
Does(b, call) == doing' = [doing EXCEPT ![b] = call]
Idle(b) == doing[b] = "nothing"

Fault(kind) ==
  /\ kind \in Faults \ faults /\ Cardinality(faults) < MaxFaults
  /\ faults' = faults \cup {kind}

\* A step that only a moment of that kind makes possible.
OnlyBy(kind, needed) == IF needed THEN Fault(kind) ELSE UNCHANGED faults

\* /select, answered or not: a box that is still our slave plays nothing on it.
HandedTheChannel(b) ==
  \/ b \notin bound /\ plays' = [plays EXCEPT ![b] = "radio"] /\ Says(b, "radio")
  \/ UNCHANGED <<plays, said>>

\* The pass is over, or the rest of it is: what it knew goes with it.
PassOver == believed' = {} /\ arriving' = {}

\* A leave is bookkeeping: the box is told nothing, and the others are not.
SlaveLeft(b) == slaves' = slaves \ {b}

\* _who_belongs: the policy's answer less the boxes switched out by hand.
WhoBelongs == TargetMembers \ outs
-----------------------------------------------------------------------------
(* People at the boxes.  Bound: nobody acts at a box whose last frame is unread. *)

Acts(b) ==
  /\ acts < MaxActs /\ acts' = acts + 1
  /\ said[b] = <<>> /\ life = "running"
  /\ UNCHANGED flips

BeingTakenIn(b) == doing[b] \in {"mute", "info", "join"}

PowerOn(b) ==
  /\ Acts(b) /\ plays[b] = "standby"
  /\ plays' = [plays EXCEPT ![b] = "radio"] /\ Says(b, "radio")
  /\ UNCHANGED <<belongingVars, bound, houseVars, wanted, passVars, zoneVars, doing, untold, life, faults>>

\* A slave switched off tells its master, which drops it (slave_left).
PowerOff(b) ==
  /\ Acts(b) /\ plays[b] # "standby" /\ OnlyBy("left", BeingTakenIn(b))
  /\ plays' = [plays EXCEPT ![b] = "standby"] /\ Says(b, "standby")
  /\ bound' = bound \ {b}
  /\ IF b \in bound THEN SlaveLeft(b) ELSE UNCHANGED slaves
  /\ UNCHANGED <<belongingVars, houseVars, wanted, passVars, joined, refused, quiet, master, station,
                 doing, untold, life>>

\* AUX, Bluetooth: the box leaves the zone by itself, and says so to nobody.
ToOther(b) ==
  /\ Acts(b) /\ plays[b] \in RadioNames /\ OnlyBy("left", BeingTakenIn(b))
  /\ plays' = [plays EXCEPT ![b] = "other"] /\ Says(b, "other")
  /\ bound' = bound \ {b}
  /\ UNCHANGED <<belongingVars, houseVars, wanted, passVars, zoneVars, doing, untold, life>>

\* A preset pressed at a box that is on is a digit, and, at one that is not a
\* slave, its own station as well.
Digit(b) ==
  /\ Acts(b) /\ on /\ plays[b] # "standby" /\ b \notin open
  /\ open' = open \cup {b}
  /\ IF b \in bound THEN UNCHANGED <<plays, said>>
     ELSE plays' = [plays EXCEPT ![b] = "radio"] /\ Says(b, "radio")
  /\ UNCHANGED <<belongingVars, bound, on, outs, dialling, wanted, passVars, zoneVars, doing, untold, life, faults>>

Returns(b) == OnlyBy("backIn", b \in outs \cap joined)

\* A thumb tapped twice moves the box out of multiroom, or back into it.
InOrOut(b) ==
  /\ Acts(b) /\ on /\ Returns(b)
  /\ outs' = IF b \in outs THEN outs \ {b} ELSE outs \cup {b}
  /\ wanted' = TRUE
  /\ UNCHANGED <<belongingVars, boxVars, on, open, dialling, passVars, zoneVars, doing, untold, life>>

SwitchFlips ==
  /\ flips < MaxFlips /\ flips' = flips + 1 /\ life = "running"
  /\ on' = ~on /\ wanted' = TRUE
  /\ UNCHANGED <<belongingVars, boxVars, outs, open, dialling, passVars, zoneVars, doing, untold, life, acts, faults>>

\* Another list of consoles allowed is read from the preferences.
ConsolesChange ==
  /\ flips < MaxFlips /\ flips' = flips + 1 /\ life = "running"
  /\ allowed' \in SUBSET Consoles /\ allowed' # allowed /\ wanted' = TRUE
  /\ OnlyBy("console", \E b \in allowed \ allowed' : b \in joined \/ BeingTakenIn(b))
  /\ UNCHANGED <<heard, boxVars, houseVars, passVars, zoneVars, doing, untold, life, acts>>
-----------------------------------------------------------------------------
(* The reader, the dialling loop, time *)

\* What a member of the last run is playing, named when it is as good as in.
NamedLate(b) ==
  heard[b].remembered /\ Head(said[b]) = "radio" /\ (BeingTakenIn(b) \/ b \in joined \cup slaves)

\* A frame is read, and a pass asked for.
Read(b) ==
  /\ life = "running" /\ said[b] # <<>> /\ OnlyBy("late", NamedLate(b))
  /\ Observes(b, Named(heard[b], Head(said[b])))
  /\ said' = [said EXCEPT ![b] = Tail(@)]
  /\ wanted' = TRUE
  /\ UNCHANGED <<plays, bound, houseVars, passVars, zoneVars, doing, untold, life, acts, flips>>

\* The press that woke a box is read before the box has named a source: a wake
\* while a station is on, otherwise a digit that may choose the channel.
PressRead(b) ==
  /\ life = "running" /\ said[b] # <<>> /\ Head(said[b]) = "radio" /\ IsAsleep(b) /\ on
  /\ Returns(b) /\ outs' = outs \ {b}
  /\ IF station
       THEN /\ ~heard[b].waking /\ Observes(b, Woken(heard[b])) /\ wanted' = TRUE
            /\ UNCHANGED open
       ELSE /\ b \notin open /\ open' = open \cup {b}
            /\ UNCHANGED <<belongingVars, wanted>>
  /\ UNCHANGED <<boxVars, on, dialling, passVars, zoneVars, doing, untold, life, acts, flips>>

\* A number's window closes.  It waits for the lock if it names a channel;
\* with the switch off, or naming none, it is dropped.
NumberDue(b) ==
  /\ life = "running" /\ b \in open
  /\ open' = open \ {b}
  /\ dialling' \in {dialling} \cup {dialling \cup {x} : x \in {b} \cap {y \in Boxes : on}}
  /\ UNCHANGED <<belongingVars, boxVars, on, outs, wanted, passVars, zoneVars, doing, untold, life, counts>>

\* A box out of multiroom dials for itself: it is handed the channel, or is not.
DialledOnItsOwn(b) == HandedTheChannel(b) /\ UNCHANGED <<belongingVars, wanted>>

\* Booked under the lock: the box that dialled belongs from now, and a pass is
\* asked for.
Booked(b) ==
  /\ life = "running" /\ b \in dialling /\ pass = "resting"
  /\ dialling' = dialling \ {b}
  /\ IF b \in outs
       THEN DialledOnItsOwn(b)
       ELSE /\ Observes(b, Woken(heard[b])) /\ wanted' = TRUE
            /\ UNCHANGED <<plays, said>>
  /\ UNCHANGED <<bound, on, outs, open, passVars, zoneVars, doing, untold, life, counts>>

\* A wake's window runs out - not before the pass that woke up for it is done
\* with the box (assumption: WAKE_WINDOW_S outlasts a take-in).
WakeEnds(b) ==
  /\ life = "running" /\ heard[b].waking /\ said[b] = <<>>
  /\ pass = "resting" /\ ~wanted
  /\ Observes(b, [heard[b] EXCEPT !.waking = FALSE])
  /\ UNCHANGED <<boxVars, houseVars, wanted, passVars, zoneVars, doing, untold, life, counts>>

QuietEnds(b) ==
  /\ life = "running" /\ b \in quiet
  /\ quiet' = quiet \ {b}
  /\ UNCHANGED <<belongingVars, boxVars, houseVars, wanted, passVars, joined, refused, master, slaves, station,
                 doing, untold, life, counts>>

\* The registry is read again, every half minute.
Poll ==
  /\ life = "running" /\ ~wanted /\ wanted' = TRUE
  /\ UNCHANGED <<belongingVars, boxVars, houseVars, passVars, zoneVars, doing, untold, life, counts>>
-----------------------------------------------------------------------------
(* The pass *)

Asked ==
  /\ life = "running" /\ pass = "resting" /\ wanted
  /\ wanted' = FALSE /\ pass' = "asking"
  /\ UNCHANGED <<belongingVars, boxVars, houseVars, believed, arriving, waiting, zoneVars, doing, untold, life, counts>>

\* The question everything else is decided by; its answer is written down.
Believe ==
  /\ pass = "asking"
  /\ believed' = WhoBelongs /\ pass' = "writing"
  /\ UNCHANGED <<belongingVars, boxVars, houseVars, wanted, arriving, waiting, zoneVars, doing, untold, life, counts>>

\* Mutant: the switch is not looked at.
WrittenDownWhateverTheSwitch ==
  /\ pass = "writing"
  /\ pass' = IF master = "held" THEN "letting" ELSE "binding"
  /\ UNCHANGED <<belongingVars, boxVars, houseVars, wanted, believed, arriving, waiting, zoneVars, doing, untold, life, counts>>

WrittenDown ==
  /\ pass = "writing"
  /\ pass' = IF ~on THEN "saving" ELSE IF master = "held" THEN "letting" ELSE "binding"
  /\ UNCHANGED <<belongingVars, boxVars, houseVars, wanted, believed, arriving, waiting, zoneVars, doing, untold, life, counts>>

\* A port is held by somebody else until the master gives up: what it took is
\* given back, no master is held, and another pass comes in a second.
PortsBusy ==
  /\ Fault("busy") /\ wanted' = TRUE /\ pass' = "resting" /\ PassOver
  /\ UNCHANGED <<master, acts, flips>>

\* A new master, held from before its four listeners are taken.
NewMaster ==
  /\ master' = "held" /\ pass' = "letting"
  /\ UNCHANGED <<wanted, believed, arriving, counts>>

Bind ==
  /\ pass = "binding"
  /\ NewMaster \/ PortsBusy
  /\ UNCHANGED <<belongingVars, boxVars, houseVars, waiting, joined, refused, quiet, slaves, station, doing,
                 untold, life>>

Quitting == joined \ believed
Letting  == pass = "letting" /\ \A b \in Boxes : Idle(b)

\* A box that is not ours any more is dropped and told nothing; one that was
\* taken out of multiroom is released, if it is a slave, and handed its channel.
LetGo(b) ==
  /\ Letting /\ b \in Quitting
  /\ joined' = joined \ {b}
  /\ IF b \in outs
       THEN Does(b, IF b \in slaves THEN "release" ELSE "select") /\ UNCHANGED slaves
       ELSE SlaveLeft(b) /\ UNCHANGED doing
  /\ UNCHANGED <<belongingVars, boxVars, houseVars, wanted, passVars, refused, quiet, master, station, untold, life, counts>>

Released(b) ==
  /\ doing[b] = "release"
  /\ \/ /\ b \in bound
        /\ bound' = bound \ {b}
        /\ plays' = [plays EXCEPT ![b] = "standby"] /\ Says(b, "standby")
        /\ UNCHANGED counts
     \/ b \notin bound /\ UNCHANGED <<boxVars, counts>>
     \/ Fault("deaf") /\ UNCHANGED <<boxVars, acts, flips>>
  /\ SlaveLeft(b)
  /\ Does(b, "select")
  /\ UNCHANGED <<belongingVars, houseVars, wanted, passVars, joined, refused, quiet, master, station, untold, life>>

OnItsOwn(b) ==
  /\ doing[b] = "select"
  /\ HandedTheChannel(b)
  /\ Does(b, "nothing")
  /\ UNCHANGED <<belongingVars, bound, houseVars, wanted, passVars, zoneVars, untold, life, counts>>

Left(b) == \E i \in DOMAIN said[b] : said[b][i] \notin RadioNames

\* Those of the arriving boxes that still belong, each from here on for itself.
Sends(who) ==
  LET still == IF on THEN who \cap WhoBelongs ELSE {} IN
  /\ OnlyBy("left", \E b \in still : Left(b))
  /\ doing' = [b \in Boxes |-> IF b \in still THEN "mute" ELSE doing[b]]
  /\ pass' = "taking" /\ arriving' = {}

\* Mutant: a box that refused once is not asked again.
TakeInUnlessRefused ==
  /\ Letting /\ Quitting = {} /\ believed' = {}
  /\ LET who == (believed \ joined) \ refused IN
       /\ waiting' = IF open # {} THEN who ELSE {}
       /\ IF open # {} \/ who = {} THEN pass' = "backing" /\ UNCHANGED <<arriving, doing, faults>>
          ELSE IF station THEN Sends(who)
          ELSE pass' = "fetching" /\ arriving' = who /\ UNCHANGED <<doing, faults>>
  /\ UNCHANGED <<belongingVars, boxVars, houseVars, wanted, zoneVars, untold, life, acts, flips>>

\* Nobody is taken in while a number is open; otherwise a station is started
\* first, unless one is on.
TakeIn ==
  /\ Letting /\ Quitting = {} /\ believed' = {}
  /\ LET who == (believed \ joined) \ quiet IN
       /\ waiting' = IF open # {} THEN who ELSE {}
       /\ IF open # {} \/ who = {} THEN pass' = "backing" /\ UNCHANGED <<arriving, doing, faults>>
          ELSE IF station THEN Sends(who)
          ELSE pass' = "fetching" /\ arriving' = who /\ UNCHANGED <<doing, faults>>
  /\ UNCHANGED <<belongingVars, boxVars, houseVars, wanted, zoneVars, untold, life, acts, flips>>

\* The station runs, or would not start: whoever still belongs is taken in.
Fetched ==
  /\ pass = "fetching"
  /\ Sends(arriving)
  /\ station' \in BOOLEAN
  /\ UNCHANGED <<belongingVars, boxVars, houseVars, wanted, believed, waiting, joined, refused, quiet, master, slaves,
                 untold, life, acts, flips>>

\* Every box has been taken in or has refused.
TakenIn ==
  /\ pass = "taking" /\ \A b \in Boxes : Idle(b)
  /\ pass' = "backing"
  /\ UNCHANGED <<belongingVars, boxVars, houseVars, wanted, believed, arriving, waiting, zoneVars, doing, untold, life, counts>>

\* Mutant: what was asked for during the pass is cleared at its end.
BackedUpAndCleared ==
  /\ pass = "backing" /\ pass' = "resting" /\ wanted' = FALSE
  /\ station' = (station /\ joined # {}) /\ PassOver
  /\ UNCHANGED <<belongingVars, boxVars, houseVars, waiting, joined, refused, quiet, master,
                 slaves, doing, untold, life, counts>>

\* Boxes left on an old stream are put back (ZoneMaster); an empty zone's
\* station is stopped.
BackedUp ==
  /\ pass = "backing" /\ pass' = "resting"
  /\ station' = (station /\ joined # {}) /\ PassOver
  /\ UNCHANGED <<belongingVars, boxVars, houseVars, wanted, waiting, joined, refused, quiet, master,
                 slaves, doing, untold, life, counts>>
-----------------------------------------------------------------------------
(* One box taken in (_take_one, add_slave) *)

Muted(b) ==
  /\ doing[b] = "mute" /\ Does(b, "info")
  /\ UNCHANGED <<belongingVars, boxVars, houseVars, wanted, passVars, zoneVars, untold, life, counts>>

\* The box has said who it is, and is recorded before the document is pushed.
InfoAnswered(b) ==
  /\ doing[b] = "info" /\ Does(b, "join")
  /\ slaves' = slaves \cup {b}
  /\ UNCHANGED <<belongingVars, boxVars, houseVars, wanted, passVars, joined, refused, quiet, master, station, untold, life, counts>>

\* The box obeys the document, and plays the zone.
Obeys(b) ==
  /\ bound' = bound \cup {b}
  /\ plays' = [plays EXCEPT ![b] = "zone"] /\ Says(b, "zone")

Joins(b) ==
  /\ doing[b] = "join" /\ Does(b, "nothing")
  /\ Obeys(b)
  /\ joined' = joined \cup {b} /\ refused' = refused \ {b} /\ quiet' = quiet \ {b}
  /\ UNCHANGED <<belongingVars, houseVars, wanted, passVars, master, slaves, station, untold, life, counts>>

\* It did not answer, or obeyed all the same; it is left alone for a while.
Refuses(b) ==
  /\ doing[b] \in {"info", "join"} /\ Does(b, "nothing")
  /\ \/ Fault("refused") /\ UNCHANGED boxVars
     \/ doing[b] = "join" /\ Fault("lost") /\ Obeys(b)
  /\ slaves' = IF doing[b] = "join" THEN slaves \ {b} ELSE slaves
  /\ refused' = refused \cup {b} /\ quiet' = quiet \cup {b}
  /\ UNCHANGED <<belongingVars, houseVars, wanted, passVars, joined, master, station, untold, life, acts, flips>>

\* Its note cannot be saved: the pass ends with StoreError, and the service
\* with the pass; the boxes taken in beside it are not cancelled.
Unsaved(b) ==
  /\ doing[b] = "mute" /\ Fault("unsaved") /\ Does(b, "nothing")
  /\ IF life = "running"
       THEN life' = "stopping" /\ pass' = "saving" /\ said' = [x \in Boxes |-> <<>>]
       ELSE UNCHANGED <<life, pass, said>>
  /\ UNCHANGED <<belongingVars, plays, bound, houseVars, wanted, believed, arriving, waiting, zoneVars, untold, acts, flips>>
-----------------------------------------------------------------------------
(* The stand-down, by the switch or by a stop *)

Rest == IF life = "running" THEN "resting" ELSE "ended"

\* MPD's place is saved; then nobody is in the zone, and every slave is told.
Dissolve ==
  /\ pass = "saving" /\ PassOver
  /\ joined' = {}
  /\ IF master = "none"
       THEN pass' = Rest /\ UNCHANGED <<master, untold>>
       ELSE master' = "going" /\ pass' = "dissolving" /\ untold' = slaves
  /\ UNCHANGED <<belongingVars, boxVars, houseVars, wanted, waiting, refused, quiet, slaves, station,
                 doing, life, counts>>

Told(b) ==
  /\ pass = "dissolving" /\ b \in untold
  /\ untold' = untold \ {b}
  /\ \/ /\ bound' = bound \ {b}
        /\ plays' = [plays EXCEPT ![b] = "standby"]
        /\ IF plays[b] = "standby" THEN UNCHANGED said ELSE Says(b, "standby")
        /\ UNCHANGED counts
     \/ Fault("deaf") /\ UNCHANGED <<boxVars, acts, flips>>
  /\ UNCHANGED <<belongingVars, houseVars, wanted, passVars, zoneVars, doing, life>>

Dissolved ==
  /\ pass = "dissolving" /\ untold = {}
  /\ slaves' = {} /\ master' = "none" /\ station' = FALSE
  /\ pass' = Rest
  /\ UNCHANGED <<belongingVars, boxVars, houseVars, wanted, believed, arriving, waiting, joined, refused, quiet, doing,
                 untold, life, counts>>

\* What a call that was cancelled on its way leaves the box doing.
Reached(b) ==
  IF b \in untold \/ doing[b] = "release" THEN "standby"
  ELSE IF doing[b] = "join" THEN "zone" ELSE "radio"

OnTheWay ==
  {b \in Boxes : \/ b \in untold \/ doing[b] = "join"
                 \/ doing[b] = "release" /\ b \in bound
                 \/ doing[b] = "select" /\ b \notin bound}

AfterTheCalls(reached) ==
  /\ plays' = [b \in Boxes |-> IF b \in reached THEN Reached(b) ELSE plays[b]]
  /\ bound' = {b \in Boxes : IF b \in reached THEN Reached(b) = "zone" ELSE b \in bound}

\* Mutant: a cancelled join takes its box off the list.
StopUnlists ==
  /\ life = "running" /\ life' = "stopping"
  /\ \E reached \in SUBSET OnTheWay : AfterTheCalls(reached)
  /\ doing' = [b \in Boxes |-> "nothing"] /\ untold' = {}
  /\ said' = [b \in Boxes |-> <<>>] /\ pass' = "saving" /\ PassOver
  /\ open' = {} /\ dialling' = {}
  /\ slaves' = {b \in slaves : doing[b] # "join"}
  /\ UNCHANGED <<belongingVars, on, outs, wanted, waiting, joined, refused, quiet, master, station, counts>>

\* The service is stopped: its workers are cancelled where they stand, a call
\* on its way reaching its box or not, numbers being dialled are dropped, and the
\* zone is stood down.
Stop ==
  /\ life = "running" /\ life' = "stopping"
  /\ \E reached \in SUBSET OnTheWay : AfterTheCalls(reached)
  /\ doing' = [b \in Boxes |-> "nothing"] /\ untold' = {}
  /\ said' = [b \in Boxes |-> <<>>] /\ pass' = "saving" /\ PassOver
  /\ open' = {} /\ dialling' = {}
  /\ UNCHANGED <<belongingVars, on, outs, wanted, waiting, zoneVars, counts>>

\* The loop ends, and what nobody held with it.
End ==
  /\ life = "stopping" /\ pass = "ended" /\ life' = "ended"
  /\ \E reached \in SUBSET OnTheWay : AfterTheCalls(reached)
  /\ doing' = [b \in Boxes |-> "nothing"]
  /\ UNCHANGED <<belongingVars, said, houseVars, wanted, passVars, zoneVars, untold, counts>>
-----------------------------------------------------------------------------
People == \E b \in Boxes : PowerOn(b) \/ PowerOff(b) \/ ToOther(b) \/ Digit(b) \/ InOrOut(b)

CallStep(b) ==
  Released(b) \/ OnItsOwn(b) \/ Muted(b) \/ InfoAnswered(b) \/ Joins(b) \/ Refuses(b) \/ Unsaved(b) \/ Told(b)

PassStep ==
  \/ Asked \/ Believe \/ WrittenDown \/ Bind \/ TakeIn \/ Fetched \/ TakenIn \/ BackedUp
  \/ (\E b \in Boxes : LetGo(b)) \/ Dissolve \/ Dissolved \/ End

AllDone == life = "ended" /\ UNCHANGED vars

Next ==
  \/ People \/ SwitchFlips \/ ConsolesChange
  \/ \E b \in Boxes : Read(b) \/ PressRead(b) \/ NumberDue(b) \/ Booked(b) \/ WakeEnds(b) \/ QuietEnds(b)
  \/ Poll
  \/ \E b \in Boxes : CallStep(b)
  \/ PassStep
  \/ Stop \/ AllDone

Spec == Init /\ [][Next]_vars

\* Calls are bounded, frames are read, the poll comes round; the lock is given
\* to who has waited longest, so a number that waits for it is booked.
Fairness ==
  /\ WF_vars(PassStep) /\ WF_vars(Poll)
  /\ \A b \in Boxes :
       WF_vars(CallStep(b)) /\ WF_vars(Read(b)) /\ WF_vars(NumberDue(b)) /\ WF_vars(QuietEnds(b)) /\ SF_vars(Booked(b))

FairSpec == Spec /\ Fairness
-----------------------------------------------------------------------------
(* What must hold *)

\* What may leave a box with a zone document that nobody takes from it again:
\* an answer or a release that was lost, a console dropped as if it had left by
\* itself, a join that ends after the stand-down a StoreError led to, and a box
\* switched off, put back in, or first heard of, at the one moment nobody looks.
LeftBehind == {"lost", "deaf", "console", "unsaved", "left", "backIn", "late"}

\* A box that holds our zone document is on the master's list, so that the
\* dissolve reaches it: no order of joins, leaves, releases and stops leaves a
\* speaker in a zone nobody will take it out of (add_slave, _let_go).
BoundIsListed == faults \cap LeftBehind = {} => bound \subseteq slaves

\* "Leaving a real speaker in a zone whose master has gone is the one outcome
\* that needs a person to undo it by hand" (_hold): wherever the stop lands.
AStopFreesEveryBox == life = "ended" /\ faults \cap LeftBehind = {} => bound = {}

\* The pass has nothing to do and nothing left to hear.
Settled == life = "running" /\ pass = "resting" /\ ~wanted /\ dialling = {} /\ \A b \in Boxes : said[b] = <<>>

\* Every event asks for a pass: with nothing under way, a box that belongs is
\* in, refused the last attempt, or waits for a number (_wanted).
NobodyIsMissed == Settled /\ on => WhoBelongs \subseteq joined \cup refused \cup waiting

\* A box in the zone is sent no second document: it costs the room seconds of
\* silence even when it says nothing new (slave_left).
NeverToldTwice == "lost" \notin faults => \A b \in bound : doing[b] # "join"

\* A box that goes on belonging is taken in, whatever refusals and numbers are
\* in its way (JOIN_RETRY_S, the dialling window, the registry poll).
BelongsGetsIn ==
  \A b \in Boxes :
    life = "running" /\ on /\ b \in WhoBelongs
      ~> life # "running" \/ ~on \/ b \notin WhoBelongs \/ b \in joined

\* Switched off, everybody the service counts as held is let go of, whatever the
\* boxes answer to it, and no box is left in the zone.
OffFrees ==
  life = "running" /\ ~on
    ~> \/ life # "running" \/ on
       \/ joined \cup slaves = {} /\ (faults \cap LeftBehind = {} => bound = {})

\* A stop comes to its end, wherever it lands.
StopEnds == life = "stopping" ~> life = "ended"

\* "POWER on brings it back" (membership.py): whoever the service counts as in
\* the zone is in it.
JoinedIsInTheZone == Settled /\ on => joined \subseteq bound

\* "The question is asked again before anything is sent" (_take_in), so that a
\* box taken to AUX meanwhile is not taken over by its join.
MusicOutlastsAJoin ==
  [][\A b \in Boxes : plays[b] = "other" /\ plays'[b] = "zone" => FALSE]_vars

\* A box that left by itself "is dropped WITHOUT being sent anything" (zone.py).
MusicOutlastsTheEnd ==
  [][\A b \in Boxes : plays[b] = "other" /\ plays'[b] = "standby" => acts' # acts]_vars

\* "The wait is bounded by the dialling window and by nothing else" (_take_in).
NobodyWaitsForAClosedNumber ==
  Settled /\ on /\ open = {} => WhoBelongs \cap waiting \subseteq joined

\* Everything a pass is wanted for but a busy port "arrives as an event"
\* (_wait_to_be_asked): so does the end of a refusal's quiet period.
TheRetryIsAskedFor == Settled /\ on /\ open = {} => WhoBelongs \cap (refused \ quiet) \subseteq joined
=============================================================================
