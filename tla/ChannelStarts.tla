--------------------------- MODULE ChannelStarts ---------------------------
(***************************************************************************)
(* How a channel number becomes what the zone plays                        *)
(* (application/zone_service/dialling.py and zone.py): the dialling loop   *)
(* books a number under the pass's lock and starts the channel in a task   *)
(* of its own, the pass starts one inline when it takes boxes in, every    *)
(* start takes a token and holds _mpd_starts over its MPD half, and the    *)
(* answer of ZoneMaster.play - StationSwitch here, which ZoneMaster        *)
(* implements - is written to _on_air.                                     *)
(*                                                                         *)
(* One master's life: it begins with the zone built and ends when a pass   *)
(* stands the house down.  A box out of multiroom, which dials for itself, *)
(* takes no part.                                                          *)
(***************************************************************************)
EXTENDS StationSwitch, MpdQueue

CONSTANTS
  Numbers,      \* the numbers of the channel list
  NoNumber,     \* no number: None in the code
  LeftAt,       \* per MPD channel: the places an earlier life may have written down
  Gestures,     \* the steps inside a channel: how many, and whether of a held key
  MaxOffs       \* bound: whether the house is switched off, or the service stopped (0 or 1)

ASSUME NumbersAssumption ==
  MpdNumbers \subseteq Numbers /\ NoNumber \notin Numbers /\ MaxOffs \in {0, 1}

VARIABLES
  on,           \* _on, the switch
  master,       \* "up" while self.master is the master, then "dissolved"
  members,      \* whether the master has slaves
  booked,       \* _channel: the number the house is meant to be on
  onAir,        \* _on_air: the number the running station was started from
  starts,       \* per start: where it stands
  channelOf,    \* per start: the channel it starts
  token,        \* per start: its token, 0 before it runs
  startsAsked,  \* _starts_asked
  callOf,       \* per start: its call of play(), 0 before it makes one
  mpdHolder,    \* which start holds _mpd_starts, 0 if none
  mpdWaiters,   \* the starts waiting for it, in order
  mpdChannel,   \* _mpd_channel: what the service believes MPD holds
  taken,        \* per start, and at 0 for the pass: the number whose place is asked, and the place
  plan,         \* the files a start is loading, and where it starts
  places,       \* _positions: per number, the place written down
  dialled,      \* the number that has just completed
  dial,         \* the dialling loop: idle, at the lock with a number or a step, in it
  jump,         \* the step being made: how many, held, and the entry it starts or ends at
  pass,         \* the pass: resting, starting, asking MPD's place
  lock          \* _lock, the pass's: who holds it

houseVars == <<on, master, members, booked>>
startVars == <<starts, channelOf, token, startsAsked, callOf>>
mpdVars   == <<mpdHolder, mpdWaiters, mpdChannel, taken, plan, places>>
actorVars == <<dialled, dial, jump, pass, lock>>
vars == <<switchVars, houseVars, onAir, startVars, mpdVars, queueVars, actorVars>>

Starts == Calls           \* a start makes at most one call of play()
Pass   == 0               \* the pass's entry in taken

NoPlan  == [files |-> <<>>, from |-> FromTheBeginning]
NoJump  == [steps |-> 0, held |-> FALSE, at |-> 0]
Nothing == [number |-> NoNumber, place |-> NoPlace]

Loading   == {"listing", "clearing", "repeating", "queueing", "starting"}
Asking    == {"remembering", "naming"}
Stepping  == {"stepping", "reading", "moving"}

Places(n) ==
  [track : 1 .. Cardinality(FilesEver(n)), into : BOOLEAN, file : FilesEver(n) \cup {NoFile}, was : FilesEver(n)]

TypeOK ==
  /\ SwitchTypeOK
  /\ on \in BOOLEAN /\ members \in BOOLEAN
  /\ master \in {"up", "dissolved"}
  /\ booked \in Numbers
  /\ onAir \in Numbers \cup {NoNumber}
  /\ starts \in [Starts -> {"none", "created", "locking", "saving", "playing", "done", "raised"} \cup Asking \cup Loading]
  /\ channelOf \in [Starts -> Numbers \cup {NoNumber}]
  /\ token \in [Starts -> 0 .. MaxPlays]
  /\ startsAsked \in 0 .. MaxPlays
  /\ callOf \in [Starts -> 0 .. MaxPlays]
  /\ mpdHolder \in 0 .. MaxPlays
  /\ mpdWaiters \in Seq(Starts)
  /\ mpdChannel \in MpdNumbers \cup {NoNumber}
  /\ dialled \in Numbers \cup {NoNumber}
  /\ dial \in {"idle", "toBook", "booking", "toStep", "ended"} \cup Stepping
  /\ jump.at \in 0 .. Len(queue)
  /\ pass \in {"resting", "starting", "ended"} \cup Asking
  /\ lock \in {"free", "dial", "pass"}
  /\ connection \in {"none", "open", "gone", "cut", "behind"}
  /\ entry \in 0 .. Len(queue)

Init ==
  /\ SwitchInit
  /\ on = TRUE /\ master = "up"
  /\ members \in BOOLEAN
  /\ booked \in Numbers
  /\ onAir = NoNumber
  /\ starts = [s \in Starts |-> "none"]
  /\ channelOf = [s \in Starts |-> NoNumber]
  /\ token = [s \in Starts |-> 0]
  /\ startsAsked = 0
  /\ callOf = [s \in Starts |-> 0]
  /\ mpdHolder = 0 /\ mpdWaiters = <<>>
  /\ mpdChannel = NoNumber
  /\ taken = [s \in 0 .. MaxPlays |-> Nothing]
  /\ plan = NoPlan
  /\ places \in [MpdNumbers -> LeftAt \cup {NoPlace}]
  /\ \A n \in MpdNumbers : places[n] # NoPlace => places[n].was \in FilesEver(n)
  /\ MpdQueueInit
  /\ dialled = NoNumber /\ jump = NoJump
  /\ dial = "idle" /\ pass = "resting" /\ lock = "free"
-----------------------------------------------------------------------------
(* One start of a channel *)

Unborn == {s \in Starts : starts[s] = "none"}

\* The next start, of the channel the house is booked on.
Created(state) ==
  \E s \in Unborn :
    /\ \A other \in Unborn : s <= other
    /\ starts' = [starts EXCEPT ![s] = state]
    /\ channelOf' = [channelOf EXCEPT ![s] = booked]
    /\ UNCHANGED <<token, startsAsked, callOf>>

ReleaseMpd ==
  \/ mpdWaiters = <<>> /\ mpdHolder' = 0 /\ UNCHANGED mpdWaiters
  \/ mpdWaiters # <<>> /\ mpdHolder' = Head(mpdWaiters) /\ mpdWaiters' = Tail(mpdWaiters)

\* Mutant: what gives up keeps the lock.
GivesUpLocked(s) ==
  /\ starts' = [starts EXCEPT ![s] = "done"]
  /\ mpdHolder' = s /\ UNCHANGED mpdWaiters
  /\ UNCHANGED <<callOf, switchVars>>

\* A start without the newest token gives up, and touches nothing more.
GivesUp(s) ==
  /\ starts' = [starts EXCEPT ![s] = "done"]
  /\ ReleaseMpd
  /\ UNCHANGED <<callOf, switchVars>>

\* The MPD half is over: the newest start calls play(), without suspending
\* between the release of the lock and the call.
CallsPlay(s) ==
  /\ starts' = [starts EXCEPT ![s] = "playing"]
  /\ callOf' = [callOf EXCEPT ![s] = asked + 1]
  /\ Ask
  /\ ReleaseMpd

AfterMpd(s) ==
  IF token[s] = startsAsked THEN CallsPlay(s) ELSE GivesUp(s)

PlanOf(n, files, written) ==
  [files |-> files, from |-> WhereToComeBackTo(n, written[n], files)]

\* What MPD held has been asked about and written down: a channel that MPD
\* plays is loaded, a directory's files listed first.
PutOn(s, newest, written) ==
  IF channelOf[s] \notin MpdNumbers
    THEN /\ IF newest THEN CallsPlay(s) ELSE GivesUp(s)
         /\ UNCHANGED plan
    ELSE /\ mpdHolder' = s /\ UNCHANGED <<mpdWaiters, callOf, switchVars>>
         /\ IF channelOf[s] \in Directories
              THEN starts' = [starts EXCEPT ![s] = "listing"] /\ UNCHANGED plan
              ELSE /\ starts' = [starts EXCEPT ![s] = "clearing"]
                   /\ plan' = PlanOf(channelOf[s], PlayOrder(onDisk[channelOf[s]]), written)

\* A start in the lock: what MPD held is taken first, and asked about.
InTheLock(s, newest) ==
  IF ~newest
    THEN GivesUp(s) /\ UNCHANGED <<mpdChannel, taken, plan>>
  ELSE IF mpdChannel # NoNumber
    THEN /\ taken' = [taken EXCEPT ![s].number = mpdChannel]
         /\ mpdChannel' = NoNumber
         /\ starts' = [starts EXCEPT ![s] = "remembering"]
         /\ mpdHolder' = s
         /\ UNCHANGED <<mpdWaiters, callOf, switchVars, plan>>
    ELSE PutOn(s, TRUE, places) /\ UNCHANGED <<mpdChannel, taken>>

\* Mutant: the token is read before the counter moves.
EnterWithTheOldToken(s) ==
  /\ starts[s] = "created"
  /\ \A other \in Starts : starts[other] = "created" => s <= other
  /\ startsAsked' = startsAsked + 1
  /\ token' = [token EXCEPT ![s] = startsAsked]
  /\ IF mpdHolder = 0
       THEN InTheLock(s, TRUE)
       ELSE /\ starts' = [starts EXCEPT ![s] = "locking"]
            /\ mpdWaiters' = Append(mpdWaiters, s)
            /\ UNCHANGED <<mpdHolder, mpdChannel, taken, plan, callOf, switchVars>>
  /\ UNCHANGED <<houseVars, onAir, channelOf, places, queueVars, actorVars>>

\* A start runs for the first time, in the order the starts were created in:
\* its token, then the lock.
Enter(s) ==
  /\ starts[s] = "created"
  /\ \A other \in Starts : starts[other] = "created" => s <= other
  /\ startsAsked' = startsAsked + 1
  /\ token' = [token EXCEPT ![s] = startsAsked + 1]
  /\ IF mpdHolder = 0
       THEN InTheLock(s, TRUE)
       ELSE /\ starts' = [starts EXCEPT ![s] = "locking"]
            /\ mpdWaiters' = Append(mpdWaiters, s)
            /\ UNCHANGED <<mpdHolder, mpdChannel, taken, plan, callOf, switchVars>>
  /\ UNCHANGED <<houseVars, onAir, channelOf, places, queueVars, actorVars>>

Granted(s) ==
  /\ starts[s] = "locking" /\ mpdHolder = s
  /\ InTheLock(s, token[s] = startsAsked)
  /\ UNCHANGED <<houseVars, onAir, channelOf, token, startsAsked, places, queueVars, actorVars>>
-----------------------------------------------------------------------------
(* What a start, a stand-down and a step say to MPD *)

\* Two coroutines read the one connection, and the read that came later
\* raises (Raises and Ends below).
Speaking(s) == starts[s] \in Asking \cup Loading

Clash ==
  /\ \E s \in Starts : Speaking(s)
  /\ dial \in Stepping \/ pass \in Asking

Told    == Reached /\ ~Clash /\ UNCHANGED onDisk
Untold  == Fails /\ ~Clash /\ UNCHANGED onDisk

\* Stopped with a queue still loaded, on a channel that stops at its end.
RanOut(n) == entry = 0 /\ queue # <<>> /\ n \in Stops

ThePlace == PlaceOf(entry, into, NoFile, queue[entry])

\* A status of no place or half of one writes nothing of n ...
NothingToWrite(n) == \E legible \in Legible : legible /\ RanOut(n) => places[n] = NoPlace

\* ... a channel that ran out loses its place, and a playlist's place is its index.
Written(n) ==
  \E legible \in Legible :
    /\ legible
    /\ \/ RanOut(n) /\ places[n] # NoPlace /\ places' = [places EXCEPT ![n] = NoPlace]
       \/ entry # 0 /\ n \notin Directories /\ places' = [places EXCEPT ![n] = ThePlace]

\* A directory's place is named by the queue, read after it.
Nameable(n) == entry # 0 /\ n \in Directories

NameAt(place) ==
  {IF legible /\ place.track \in DOMAIN queue THEN queue[place.track] ELSE NoFile : legible \in Legible}

NamedPlaces(place) == {[place EXCEPT !.file = file] : file \in NameAt(place)}

\* What an exchange that was not answered may have left: all of it, none of it,
\* or an MPD that came back with nothing.
Left(obeyed) == obeyed \/ UNCHANGED mpd \/ MpdLost

\* The place is written down, and the save waited for with the lock kept.
Saves(s) ==
  /\ starts' = [starts EXCEPT ![s] = "saving"]
  /\ UNCHANGED <<switchVars, callOf, mpdHolder, mpdWaiters, plan>>

Remembered(s) ==
  /\ starts[s] = "remembering"
  /\ \/ Told /\ UNCHANGED mpd
        /\ \/ NothingToWrite(taken[s].number) /\ UNCHANGED places /\ PutOn(s, token[s] = startsAsked, places)
           \/ Written(taken[s].number) /\ Saves(s)
     \/ Untold /\ Left(FALSE) /\ UNCHANGED places /\ PutOn(s, token[s] = startsAsked, places)
  /\ taken' = [taken EXCEPT ![s] = Nothing]
  /\ UNCHANGED <<houseVars, onAir, channelOf, token, startsAsked, mpdChannel, actorVars>>

ToBeNamed(s) ==
  /\ starts[s] = "remembering" /\ Nameable(taken[s].number)
  /\ Told /\ UNCHANGED mpd
  /\ taken' = [taken EXCEPT ![s].place = ThePlace]
  /\ starts' = [starts EXCEPT ![s] = "naming"]
  /\ UNCHANGED <<switchVars, houseVars, onAir, channelOf, token, startsAsked, callOf,
                 mpdHolder, mpdWaiters, mpdChannel, plan, places, actorVars>>

\* Named or not - MPD may not say - it is written down.
Named(s) ==
  /\ starts[s] = "naming"
  /\ \E place \in NamedPlaces(taken[s].place) \cup {taken[s].place} :
       /\ \/ Told /\ UNCHANGED mpd /\ place \in NamedPlaces(taken[s].place)
          \/ Untold /\ Left(FALSE) /\ place = taken[s].place
       /\ places' = [places EXCEPT ![taken[s].number] = place]
  /\ taken' = [taken EXCEPT ![s] = Nothing]
  /\ Saves(s)
  /\ UNCHANGED <<houseVars, onAir, channelOf, token, startsAsked, mpdChannel, actorVars>>

Saved(s) ==
  /\ starts[s] = "saving"
  /\ PutOn(s, token[s] = startsAsked, places)
  /\ UNCHANGED <<houseVars, onAir, channelOf, token, startsAsked, mpdChannel, taken, places, queueVars, actorVars>>

\* A save that fails ends the start: its place stays written down, its channel is not put on.
Unsaved(s) ==
  /\ starts[s] = "saving" /\ Trouble("unsaved")
  /\ starts' = [starts EXCEPT ![s] = "raised"]
  /\ ReleaseMpd
  /\ UNCHANGED <<switchVars, houseVars, onAir, channelOf, token, startsAsked, callOf,
                 mpdChannel, taken, plan, places, connection, mpd, onDisk, actorVars>>

\* One exchange of a load: what MPD does on it.
Obeyed(s) ==
  \/ starts[s] = "listing" /\ UNCHANGED mpd
  \/ starts[s] = "clearing" /\ Cleared /\ UNCHANGED repeat
  \/ starts[s] = "repeating" /\ repeat' = (channelOf[s] \notin Stops) /\ UNCHANGED <<queue, entry, into>>
  \/ starts[s] = "queueing" /\ queue' = queue \o plan.files /\ UNCHANGED <<entry, into, repeat>>
  \/ /\ starts[s] = "starting" /\ plan.from[1] \in DOMAIN queue
     /\ entry' = plan.from[1] /\ into' = plan.from[2] /\ UNCHANGED <<queue, repeat>>

\* MPD took the channel, and only then is it the channel MPD holds ...
Taken(s) == mpdChannel' = channelOf[s] /\ plan' = NoPlan /\ AfterMpd(s)

\* ... or would not; the stream is started all the same.
NotTaken(s) == UNCHANGED mpdChannel /\ plan' = NoPlan /\ AfterMpd(s)

\* The last exchange of a load: the start, or for no files the one before it.
LastOfAll(s) == starts[s] = "starting" \/ (starts[s] = "repeating" /\ plan.files = <<>>)

Loaded(s) ==
  /\ LastOfAll(s)
  /\ Told /\ Obeyed(s) /\ Taken(s)
  /\ UNCHANGED <<houseVars, onAir, channelOf, token, startsAsked, taken, places, actorVars>>

After == [listing |-> "clearing", clearing |-> "repeating", repeating |-> "queueing", queueing |-> "starting"]

\* The directory's files in our order; the files MPD no longer has are refused.
Listed(s, files) ==
  /\ starts[s] = "listing" /\ onDisk[channelOf[s]] # {}
  /\ files \in {IF legible THEN PlayOrder(onDisk[channelOf[s]]) ELSE <<>> : legible \in Legible}

LoadsOn(s) ==
  /\ starts[s] \in Loading /\ ~LastOfAll(s)
  /\ \/ \E files \in {PlayOrder(onDisk[channelOf[s]]), <<>>} :
          Listed(s, files) /\ plan' = PlanOf(channelOf[s], files, places)
     \/ starts[s] \in {"clearing", "repeating"} /\ UNCHANGED plan
     \/ starts[s] = "queueing" /\ Range(plan.files) \subseteq onDisk[channelOf[s]] /\ UNCHANGED plan
  /\ Told /\ Obeyed(s)
  /\ starts' = [starts EXCEPT ![s] = After[starts[s]]]
  /\ UNCHANGED <<switchVars, houseVars, onAir, channelOf, token, startsAsked, callOf,
                 mpdHolder, mpdWaiters, mpdChannel, taken, places, actorVars>>

\* A name MPD does not have: the directory, or a file listed a moment ago,
\* the files before it added.
Before(files, kept) == SelectInSeq(files, LAMBDA f : f \notin kept) - 1

NotThere(s) ==
  /\ \/ starts[s] = "listing" /\ onDisk[channelOf[s]] = {} /\ UNCHANGED mpd
     \/ /\ starts[s] = "queueing" /\ ~(Range(plan.files) \subseteq onDisk[channelOf[s]])
        /\ queue' = queue \o SubSeq(plan.files, 1, Before(plan.files, onDisk[channelOf[s]]))
        /\ UNCHANGED <<entry, into, repeat>>
  /\ Told /\ NotTaken(s)
  /\ UNCHANGED <<houseVars, onAir, channelOf, token, startsAsked, taken, places, actorVars>>

\* Mutant: the channel is recorded whether MPD took it or not.
NotLoadedRecorded(s) ==
  /\ starts[s] \in Loading
  /\ Untold /\ Left(Obeyed(s))
  /\ mpdChannel' = channelOf[s] /\ plan' = NoPlan /\ AfterMpd(s)
  /\ UNCHANGED <<houseVars, onAir, channelOf, token, startsAsked, taken, places, actorVars>>

\* MPD did not answer, or not in time.
NotLoaded(s) ==
  /\ starts[s] \in Loading
  /\ Untold /\ Left(Obeyed(s)) /\ NotTaken(s)
  /\ UNCHANGED <<houseVars, onAir, channelOf, token, startsAsked, taken, places, actorVars>>

\* The start's read raises, which ends its task; its command is out, and the
\* answer to it is read by the next question ...
Raises(s) ==
  /\ Clash /\ Speaking(s)
  /\ starts' = [starts EXCEPT ![s] = "raised"]
  /\ ReleaseMpd
  /\ taken' = [taken EXCEPT ![s] = Nothing] /\ plan' = NoPlan
  /\ connection' = "behind" /\ (UNCHANGED mpd \/ Obeyed(s))
  /\ UNCHANGED <<switchVars, houseVars, onAir, channelOf, token, startsAsked, callOf,
                 mpdChannel, places, onDisk, troubles, actorVars>>

\* ... or the other's does, which ends its worker and with it the service, as
\* a stop does: the starts are cancelled, MPD is asked its place - on a
\* connection that may be behind - and the zone is stood down.
PlaceAsked(n) ==
  \/ UNCHANGED places
  \/ RanOut(n) /\ places' = [places EXCEPT ![n] = NoPlace]
  \/ entry # 0 /\ \E file \in {NoFile, queue[entry]} :
       places' = [places EXCEPT ![n] = [ThePlace EXCEPT !.file = file]]

\* A start that the pass waited for and that raised ends the pass's worker.
InlineRaised == pass = "starting" /\ \E s \in Starts : starts[s] = "raised" /\ s + 1 \notin Starts \ Unborn

Ends ==
  /\ pass # "ended"
  /\ Clash \/ MaxOffs = 1 \/ InlineRaised
  /\ dial' = "ended" /\ pass' = "ended" /\ lock' = "free" /\ jump' = NoJump
  /\ starts' = [s \in Starts |-> IF starts[s] = "none" THEN "none" ELSE "done"]
  /\ mpdHolder' = 0 /\ mpdWaiters' = <<>> /\ plan' = NoPlan
  /\ taken' = [s \in 0 .. MaxPlays |-> Nothing]
  /\ mpdChannel' = NoNumber /\ connection' = "none"
  /\ IF mpdChannel = NoNumber THEN UNCHANGED places ELSE PlaceAsked(mpdChannel)
  /\ master' = "dissolved" /\ members' = FALSE
  /\ UNCHANGED <<switchVars, on, booked, onAir, channelOf, token, startsAsked, callOf,
                 mpd, onDisk, troubles, dialled>>

\* The master answers a call of play() (StationSwitch) ...
Answered(u) ==
  /\ \E s \in Starts : starts[s] = "playing" /\ callOf[s] = u
  /\ Win(u) \/ Lose(u)
  /\ UNCHANGED <<houseVars, onAir, startVars, mpdVars, queueVars, actorVars>>

\* ... and once the slaves have been shown the station, the start that made
\* the call writes what is on the air, if it won.
Returned(s) ==
  /\ starts[s] = "playing" /\ answer[callOf[s]] \in {"won", "lost"}
  /\ starts' = [starts EXCEPT ![s] = "done"]
  /\ onAir' = IF answer[callOf[s]] = "won" THEN channelOf[s] ELSE onAir
  /\ UNCHANGED <<switchVars, houseVars, channelOf, token, startsAsked, callOf, mpdVars, queueVars, actorVars>>
-----------------------------------------------------------------------------
(* The dialling loop *)

\* With the switch on a number completes, and the lock is asked for ...
Dial(n) ==
  /\ dial = "idle" /\ on
  /\ dial' = "toBook" /\ dialled' = n
  /\ UNCHANGED <<switchVars, houseVars, onAir, startVars, mpdVars, queueVars, jump, pass, lock>>

\* ... under which it is booked, and the save waited for.
Book ==
  /\ dial = "toBook" /\ lock = "free"
  /\ booked' = dialled /\ dialled' = NoNumber
  /\ dial' = "booking" /\ lock' = "dial"
  /\ UNCHANGED <<switchVars, on, master, members, onAir, startVars, mpdVars, queueVars, jump, pass>>

\* The booked channel is already the one on the air.
AlreadyPlaying == station # NoStation /\ onAir = booked

\* Saved: with the lock given back, the channel is started, or need not be.
Dispatch ==
  /\ dial = "booking"
  /\ dial' = "idle" /\ lock' = "free"
  /\ IF master = "up" /\ members /\ ~AlreadyPlaying
       THEN Created("created")
       ELSE UNCHANGED startVars
  /\ UNCHANGED <<switchVars, houseVars, onAir, mpdVars, queueVars, dialled, jump, pass>>

\* A step on an MPD channel moves MPD inside it, under the pass's lock ...
Step(gesture) ==
  /\ dial = "idle" /\ on /\ booked \in MpdNumbers
  /\ dial' = "toStep"
  /\ jump' = [gesture EXCEPT !.at = 0]
  /\ UNCHANGED <<switchVars, houseVars, onAir, startVars, mpdVars, queueVars, dialled, pass, lock>>

\* ... if MPD holds a channel by then.
StepInside ==
  /\ dial = "toStep" /\ lock = "free"
  /\ IF mpdChannel = NoNumber
       THEN dial' = "idle" /\ jump' = NoJump /\ UNCHANGED lock
       ELSE dial' = "stepping" /\ lock' = "dial" /\ UNCHANGED jump
  /\ UNCHANGED <<switchVars, houseVars, onAir, startVars, mpdVars, queueVars, dialled, pass>>

StepIsOver == dial' = "idle" /\ lock' = "free" /\ jump' = NoJump

\* The entry to go to, if there is one, is named to MPD.
GoesTo(target) ==
  IF target = 0 THEN StepIsOver
    ELSE dial' = "moving" /\ jump' = [jump EXCEPT !.at = target] /\ UNCHANGED lock

\* It is worked out from the status, and for a held key from the queue's paths.
StepAsked ==
  /\ dial = "stepping" /\ Told /\ UNCHANGED mpd
  /\ \E legible \in Legible :
       \/ jump.held /\ legible
          /\ dial' = "reading" /\ jump' = [jump EXCEPT !.at = entry] /\ UNCHANGED lock
       \/ ~jump.held /\ legible /\ GoesTo(EntryAfter(entry, Len(queue), jump.steps))
       \/ ~legible /\ StepIsOver
  /\ UNCHANGED <<switchVars, houseVars, onAir, startVars, mpdVars, dialled, pass>>

QueueRead ==
  /\ dial = "reading" /\ Told /\ UNCHANGED mpd
  /\ \E legible \in Legible :
       IF legible THEN GoesTo(DirectoryJump(queue, jump.at, jump.steps)) ELSE StepIsOver
  /\ UNCHANGED <<switchVars, houseVars, onAir, startVars, mpdVars, dialled, pass>>

Moved ==
  /\ dial = "moving" /\ Told
  /\ entry' = jump.at /\ into' = FALSE /\ UNCHANGED <<queue, repeat>>
  /\ StepIsOver
  /\ UNCHANGED <<switchVars, houseVars, onAir, startVars, mpdVars, dialled, pass>>

StepFails ==
  /\ dial \in Stepping
  /\ Untold /\ Left(dial = "moving" /\ entry' = jump.at /\ into' = FALSE /\ UNCHANGED <<queue, repeat>>)
  /\ StepIsOver
  /\ UNCHANGED <<switchVars, houseVars, onAir, startVars, mpdVars, dialled, pass>>
-----------------------------------------------------------------------------
(* The pass, and the switch it follows *)

SwitchOff ==
  /\ on /\ MaxOffs = 1
  /\ on' = FALSE
  /\ UNCHANGED <<switchVars, master, members, booked, onAir, startVars, mpdVars, queueVars, actorVars>>

\* Boxes arrive while a station is on: they join it.
TakeIn ==
  /\ pass = "resting" /\ lock = "free" /\ on /\ master = "up"
  /\ ~members /\ station # NoStation
  /\ members' = TRUE
  /\ UNCHANGED <<switchVars, on, master, booked, onAir, startVars, mpdVars, queueVars, actorVars>>

\* None is on: the pass starts the booked channel first, keeping the lock.
StartInline ==
  /\ pass = "resting" /\ lock = "free" /\ on /\ master = "up"
  /\ ~members /\ station = NoStation
  /\ dial = "toBook" => MaxPlays - 1 \in Unborn    \* bound: the number's start is left
  /\ Created("created")
  /\ pass' = "starting" /\ lock' = "pass"
  /\ UNCHANGED <<switchVars, houseVars, onAir, mpdVars, queueVars, dialled, dial, jump>>

\* The start the pass waits for: the last created, since the lock is held.
InlineDone == \A s \in Starts : starts[s] \in {"none", "done"} \/ s + 1 \in Starts \ Unborn

\* The boxes are asked again who belongs - nobody, with the switch off - and
\* may refuse; an empty zone's station is stopped.
StartedInline ==
  /\ pass = "starting" /\ InlineDone
  /\ pass' = "resting" /\ lock' = "free"
  /\ members' \in {on, FALSE}
  /\ station' = IF members' THEN station ELSE NoStation
  /\ UNCHANGED <<asked, answer, on, master, booked, onAir, startVars, mpdVars, queueVars, dialled, dial, jump>>

\* Every box has gone: the station is stopped.
Empty ==
  /\ pass = "resting" /\ lock = "free" /\ on /\ master = "up"
  /\ members' = FALSE
  /\ StopStation
  /\ UNCHANGED <<on, master, booked, onAir, startVars, mpdVars, queueVars, actorVars>>

Dissolved ==
  /\ master' = "dissolved"
  /\ members' = FALSE
  /\ pass' = "resting" /\ lock' = "free"

\* The connection is forgotten, under whoever speaks on it.
ConnectionForgotten ==
  connection' = IF \E s \in Starts : Speaking(s) THEN "cut" ELSE "none"

\* Switched off: MPD's place is remembered, as far as the house knows of one,
\* and the zone dissolved.
StandDown ==
  /\ pass = "resting" /\ lock = "free" /\ ~on /\ master = "up"
  /\ IF mpdChannel # NoNumber
       THEN /\ taken' = [taken EXCEPT ![Pass].number = mpdChannel]
            /\ mpdChannel' = NoNumber
            /\ pass' = "remembering" /\ lock' = "pass"
            /\ UNCHANGED <<master, members, connection>>
       ELSE Dissolved /\ ConnectionForgotten /\ UNCHANGED <<taken, mpdChannel>>
  /\ UNCHANGED <<switchVars, on, booked, onAir, startVars, mpdHolder, mpdWaiters, plan, places,
                 mpd, onDisk, troubles, dialled, dial, jump>>

StandDownNames ==
  /\ pass = "remembering" /\ Nameable(taken[Pass].number)
  /\ Told /\ UNCHANGED mpd
  /\ taken' = [taken EXCEPT ![Pass].place = ThePlace]
  /\ pass' = "naming"
  /\ UNCHANGED <<switchVars, houseVars, onAir, startVars, mpdHolder, mpdWaiters, mpdChannel, plan,
                 places, dialled, dial, jump, lock>>

\* Whatever came of asking, the zone is let go.
StoodDown ==
  /\ \/ pass = "remembering" /\ Legible # {} /\ ~Clash /\ UNCHANGED <<mpd, troubles>>
        /\ \/ NothingToWrite(taken[Pass].number) /\ UNCHANGED places
           \/ Written(taken[Pass].number)
     \/ pass = "naming" /\ ~Clash /\ UNCHANGED <<mpd, troubles>>
        /\ \E place \in NamedPlaces(taken[Pass].place) :
             places' = [places EXCEPT ![taken[Pass].number] = place]
     \/ /\ pass \in Asking /\ ~Clash /\ Trouble("lost") /\ Left(FALSE)
        /\ IF pass = "remembering" THEN UNCHANGED places
             ELSE places' = [places EXCEPT ![taken[Pass].number] = taken[Pass].place]
  /\ taken' = [taken EXCEPT ![Pass] = Nothing]
  /\ Dissolved /\ ConnectionForgotten
  /\ UNCHANGED <<switchVars, on, booked, onAir, startVars, mpdHolder, mpdWaiters, mpdChannel, plan,
                 onDisk, dialled, dial, jump>>
-----------------------------------------------------------------------------
StartStep(s) ==
  \/ Enter(s) \/ Granted(s) \/ Remembered(s) \/ ToBeNamed(s) \/ Named(s) \/ Saved(s) \/ Unsaved(s)
  \/ LoadsOn(s) \/ Loaded(s) \/ NotThere(s) \/ NotLoaded(s) \/ Raises(s) \/ Returned(s)

DialStep ==
  \/ \E n \in Numbers : Unborn # {} /\ Dial(n)
  \/ Book \/ Dispatch \/ StepInside \/ StepAsked \/ QueueRead \/ Moved \/ StepFails
  \/ \E gesture \in Gestures : Step(gesture)

PassStep == TakeIn \/ StartInline \/ StartedInline \/ Empty \/ StandDown \/ StandDownNames \/ StoodDown

Over(s) == starts[s] \in {"none", "done", "raised"}

Quiet ==
  /\ \A s \in Starts : Over(s)
  /\ dial = "idle" /\ pass = "resting"

\* MPD on its own, and whoever keeps its files.  Bound: MPD plays on and
\* restarts only while no channel is being started (a restart in the middle of
\* an exchange is one that Fails).
MpdStep ==
  /\ \/ (Quiet \/ dial \in Stepping) /\ PlaysOn
     \/ Quiet /\ (IdleTooLong \/ Restarted)
     \/ FilesChange
  /\ UNCHANGED <<switchVars, houseVars, onAir, startVars, mpdVars, actorVars>>

\* The bound on starts is spent and nobody waits, or the service has ended.
AllDone == ((Quiet /\ Unborn = {}) \/ pass = "ended") /\ UNCHANGED vars

Next ==
  \/ \E s \in Starts : StartStep(s)
  \/ \E u \in Calls : Answered(u)
  \/ DialStep
  \/ PassStep
  \/ MpdStep
  \/ SwitchOff
  \/ Ends
  \/ AllDone

Spec == Init /\ [][Next]_vars

\* Tasks that can run do run, MPD and the master answer or time out.
Fairness ==
  /\ \A s \in Starts : WF_vars(StartStep(s))
  /\ \A u \in Calls : WF_vars(Answered(u))
  /\ WF_vars(Book) /\ WF_vars(Dispatch) /\ WF_vars(StepInside)
  /\ WF_vars(StepAsked \/ QueueRead \/ Moved \/ StepFails)
  /\ WF_vars(StartedInline) /\ WF_vars(StandDownNames \/ StoodDown)

FairSpec == Spec /\ Fairness
-----------------------------------------------------------------------------
(* What must hold *)

NothingRaised == \A s \in Starts : starts[s] # "raised"

\* A place written down for a channel is one MPD was at in that channel, and
\* the name in it is that file's: a number recorded that MPD never loaded, or a
\* name read from another queue than the status, would put one book's place on
\* another.  While the house is on: a stand-down asks for a place beside a start.
PlaceIsItsOwn ==
  on /\ NothingRaised =>
    \A n \in MpdNumbers :
      places[n] # NoPlace => /\ places[n].was \in FilesEver(n)
                             /\ places[n].file # NoFile => <<places[n].file>> = <<places[n].was>>

\* A directory that is loaded starts in the file it was left in, as deep as it
\* was left, wherever its index went; if that file is gone, at the start of
\* one: "twenty minutes into a different chapter is not a place anybody left"
\* (Place.found_in).
Begins(s) == starts[s] = "starting" /\ mpdChannel' = channelOf[s] /\ channelOf[s] \in Directories

WhereItWasLeft(place) ==
  IF place.file \in Range(queue)
    THEN queue[entry'] = place.file /\ into' = place.into
    ELSE ~into'

ComesBackToItsFile ==
  [][on /\ NothingRaised =>
       \A s \in Starts :
         Begins(s) /\ places[channelOf[s]] # NoPlace /\ places[channelOf[s]].file # NoFile =>
           WhereItWasLeft(places[channelOf[s]])]_vars

\* A connection MPD closed while nobody pressed anything costs neither a
\* channel change nor a step inside one (MpdControl.peer_has_gone): what does
\* not reach its end met trouble, an empty queue, or the end of the service.
NothingIsLostToIdling ==
  [][on /\ NothingRaised' /\ pass' # "ended" /\ troubles' = {} =>
       /\ \A s \in Starts :
            starts[s] \in Loading /\ starts'[s] \notin Loading => mpdChannel' = channelOf[s]
       /\ dial \in Stepping /\ dial' \notin Stepping => dial = "moving" \/ queue = <<>>]_vars

\* "Only the latest start may finish" (_start_the_channel): with nothing under
\* way, what the zone plays is the last start's, unless that one raised.
LastStartPlays ==
  Quiet /\ station # NoStation =>
    \A s \in Starts \ Unborn :
      s + 1 \notin Starts \ Unborn => callOf[s] = station \/ starts[s] = "raised"

\* Every start comes to an end, whoever holds which of the two locks: with
\* nobody asking for more, all there were are over.
EveryStartEnds == <>[](\A s \in Starts : Over(s))

\* "The last press is the one that plays" (ZoneMaster.play): with nothing
\* under way and a box in it, the zone is on the channel dialled last.
Playing(u) == channelOf[CHOOSE s \in Starts : callOf[s] = u]

LastDialledPlays ==
  Quiet /\ members /\ station # NoStation => Playing(station) = booked

\* "The channel number the station now running was started from" (_on_air).
OnAirIsTheRunningStation ==
  Quiet /\ station # NoStation => Playing(station) = onAir

\* Two coroutines never speak to MPD at once (_step_inside_the_channel).
OneSpeakerOnMpd == ~Clash

\* Dissolving ends what was asked for: no station is put on a dissolved zone.
NothingStartsOnADissolvedZone ==
  [][master = "dissolved" => station' = station]_vars
=============================================================================
