----------------------------- MODULE SpeakerBook -----------------------------
(***************************************************************************)
(* Which boxes there are, what each of them says, and which one's presets  *)
(* become the house's channels (application/zone_service/speakers.py,      *)
(* channels.py; adapters/aftertouch/registry.py, soundtouch/observer.py).  *)
(*                                                                         *)
(* One task starts the service and then polls the registry: it reads the   *)
(* device list, seeds the channel list, and asks every box that is new     *)
(* what it is playing.  The pass seeds too, from a task of its own.  The   *)
(* reader takes the frames the observers put on the one queue.  A box      *)
(* changes what it plays at any time, and says so only while its channel   *)
(* is open; an answer is what it played when it was asked.                 *)
(***************************************************************************)
EXTENDS Membership, ChannelList, HousePreferences

CONSTANTS
  Order,          \* the boxes as the registry lists them
  PresetsOf,      \* per box: what is on its keys
  Lists,          \* what the registry may list at one moment or another
  FirstLists,     \* the channel lists the store may hold at the start
  TurnsAreKept,   \* the reader reads nothing between a lock let go and its waiter's turn
  MaxHappenings, MaxDrops, MaxReads, MaxHandled, MaxQueue     \* bounds

ASSUME BookAssumption ==
  /\ Order \in Seq(Boxes) /\ \A b \in Boxes : \E i \in DOMAIN Order : Order[i] = b
  /\ \A i, j \in DOMAIN Order : Order[i] = Order[j] => i = j
  /\ Lists \subseteq SUBSET Boxes

VARIABLES
  service,        \* "starting", "running", "failed"
  plays,          \* what each box plays
  channel,        \* per box its observer: "none", "apart", "open"
  reply,          \* what the registry answered to the read in flight
  book, notAsked, \* _speakers, _not_asked_yet
  poller,         \* where the starting and polling task stands
  wanted,         \* _registry_wanted
  round,          \* the round that is out: [asked, opensAt, placed, nr], or NoRound
  question,       \* per box: "none", "out", or the answer on its way
  spoke, last,    \* who named a source since it was asked; the newest source it named
  events,         \* the one queue
  switchedOn,     \* _switched_on
  seeding,        \* per task that seeds: "idle", "waits", "holds"
  asking, asked,  \* whose presets are being read; _asked_for_presets
  channels, dialledTo,    \* _channels, _channel
  count,          \* of what is bounded
  rank,           \* history: where each box of switchedOn belongs
  said,           \* history: the membership rule fed with all each box said, in its order
  unheard,        \* history: who answered otherwise than it had last said in a frame
  owed            \* history: consoles allowed since the last read began, not in the book

bookVars    == <<reply, book, notAsked, poller, wanted>>
roundVars   == <<round, question, spoke, last, switchedOn, rank>>
seedVars    == <<seeding, asking, asked, channels, dialledTo>>
boxVars     == <<plays, channel, events, said, unheard>>
memberVars  == <<now, entry, allowed, dialled>>
allVars == <<memberVars, prefVars, service, bookVars, roundVars, seedVars, boxVars, count, owed>>

NoRound == [asked |-> {}, opensAt |-> 0, placed |-> {}, nr |-> 0]
NoReply == {"no reply"}
Seeders == {"poller", "pass"}
Playing == {"standby", "radio", "other"}
Answers == Playing \cup {"silence"}

Counts(what, most) ==
  /\ what # "handled" => count.handled = 0
  /\ count[what] < most /\ count' = [count EXCEPT ![what] = @ + 1]

\* Bound: what shares nothing with the rest happens while nothing else goes on, and nothing after it.
Quiet ==
  /\ count.happenings = 0 /\ count.drops = 0 /\ book = {} /\ \A b \in Boxes : plays[b] = "standby"
  /\ service = "running" /\ poller = "wait" /\ events = <<>> /\ \A t \in Seeders : seeding[t] = "idle"

\* The membership rule on one named source.
Heard(h, s) ==
  LET before == IF h = Nothing THEN Fresh(now) ELSE h
  IN [last_seen |-> now, source |-> s, woke_at |-> WakeAfter(before, s, now), remembered |-> FALSE]

-----------------------------------------------------------------------------
(* The registry: read, taken, and what follows a read. *)

\* Cleared before the read: a console allowed while it is in flight asks for another.
ReadBegins ==
  /\ poller \in {"read", "wait"} /\ Counts("reads", MaxReads)
  /\ poller' = "reading" /\ wanted' = FALSE /\ owed' = {}
  /\ UNCHANGED <<prefVars, memberVars, service, reply, book, notAsked, roundVars, seedVars, boxVars>>

RegistryAnswers ==
  /\ poller = "reading" /\ reply = NoReply
  /\ reply' \in Lists
  /\ UNCHANGED <<prefVars, memberVars, service, book, notAsked, poller, wanted, roundVars, seedVars, boxVars, count, owed>>

\* A box is remembered for good; one that is new is watched, and asked in the next round.
Remembered(speakers) ==
  LET fresh == speakers \ book IN
  /\ book' = book \cup fresh
  /\ notAsked' = notAsked \cup fresh
  /\ channel' = [b \in Boxes |-> IF b \in fresh THEN "apart" ELSE channel[b]]

ReadIsTaken ==
  /\ poller = "reading" /\ reply # NoReply
  /\ Remembered({b \in reply : b \in Consoles => b \in allowed})
  /\ reply' = NoReply /\ poller' = "seed"
  /\ UNCHANGED <<prefVars, memberVars, service, wanted, roundVars, seedVars, plays, events, said, unheard, count, owed>>

\* What is known is kept.
ReadFails ==
  /\ poller = "reading" /\ reply = NoReply
  /\ poller' = "seed"
  /\ UNCHANGED <<prefVars, memberVars, service, reply, book, notAsked, wanted, roundVars, seedVars, boxVars, count, owed>>

\* A preference take: a console not in the book yet has the registry read at once.
ConsolesAreTaken ==
  LET consoles == ConsolesOf(inUse')
      unknown  == (consoles \ allowed) \ book
  IN /\ allowed' = consoles
     /\ wanted' = (wanted \/ unknown # {})
     /\ owed' = (owed \cap consoles) \cup unknown

PreferencesAreTaken ==
  /\ service = "running"
  /\ WatchTakes \/ CalibrationIsRead
  /\ ConsolesAreTaken
  /\ UNCHANGED <<now, entry, dialled, service, reply, book, notAsked, poller, roundVars, seedVars, boxVars, count>>

\* Bound: consoles change while boxes play, the numbers in a quiet house.
PreferencesChange ==
  /\ \/ /\ service = "running" /\ Counts("happenings", MaxHappenings)
        /\ \E t \in Typed : t.name = "consoles" /\ CliSet(t.name, t.text)
     \/ /\ Quiet /\ Counts("handled", MaxHandled)
        /\ \/ \E t \in Typed : CliSet(t.name, t.text) \/ EditedByHand(t.name, t.text)
           \/ \E name \in PreferenceNames : CliUnset(name)
           \/ \E m \in Measured : CalibrationIsStored(m)
           \/ Gesture
     \/ service = "running" /\ (WatchReads \/ SettleTheDialNumbers) /\ UNCHANGED count
  /\ UNCHANGED <<memberVars, service, bookVars, roundVars, seedVars, boxVars, owed>>

-----------------------------------------------------------------------------
(* Asking every box once. *)

\* Mutant of OpensAt: relative to what is there already.
OpensAtEnd(opens) == Len(switchedOn)

OpensAt(opens) == opens

\* The boxes of a round are those one read listed first, in the order of its list.
Place(b) == CHOOSE i \in DOMAIN Order : Order[i] = b

SlotFor(b) ==
  LET before == {o \in round.asked : Place(o) < Place(b)}
  IN OpensAt(round.opensAt) + Cardinality(before \cap round.placed) + 1

RoundOpens ==
  LET new == book \cap notAsked IN
  /\ poller = "ask"
  /\ notAsked' = {}
  /\ IF new = {}
     THEN poller' = "wait" /\ service' = "running" /\ UNCHANGED round
     ELSE /\ round' = [asked |-> new, opensAt |-> Len(switchedOn), placed |-> {}, nr |-> round.nr + 1]
          /\ poller' = "opened" /\ UNCHANGED service
  /\ UNCHANGED <<prefVars, memberVars, reply, book, wanted, question, spoke, last, switchedOn, rank, seedVars, boxVars, count, owed>>

\* The tasks of a round start one after the other: from here a frame is newer than the answer.
QuestionsGoOut ==
  /\ poller = "opened"
  /\ question' = [b \in Boxes |-> IF b \in round.asked THEN "out" ELSE question[b]]
  /\ spoke' = spoke \ round.asked
  /\ poller' = "asking"
  /\ UNCHANGED <<prefVars, memberVars, service, reply, book, notAsked, wanted, round, last, switchedOn, rank, seedVars, boxVars, count, owed>>

RoundIsOut == poller \in {"opened", "asking"}

NothingUnread(b) == \A i \in DOMAIN events : events[i].box # b

IsItsLastUnread(b, i) == events[i].box = b /\ \A j \in DOMAIN events : events[j].box = b => j <= i

\* The newest source it named, in a frame read since it was asked or still unread, is not this one.
NamedAnother(b, s) ==
  \/ \E i \in DOMAIN events : IsItsLastUnread(b, i) /\ events[i].source # s
  \/ NothingUnread(b) /\ b \in spoke /\ last[b] # s

BoxAnswers(b) ==
  /\ question[b] = "out"
  /\ \/ /\ question' = [question EXCEPT ![b] = plays[b]]
        /\ said' = [said EXCEPT ![b] = Heard(@, plays[b])]
        /\ unheard' = IF NamedAnother(b, plays[b]) THEN unheard \cup {b} ELSE unheard
     \/ question' = [question EXCEPT ![b] = "silence"] /\ UNCHANGED <<said, unheard>>
  /\ UNCHANGED <<prefVars, memberVars, service, bookVars, round, spoke, last, switchedOn, rank, seedVars, plays, channel, events, count, owed>>

\* _noted_switched_on: once, at the end for a frame, at its slot for an answer.
NotedSwitchedOn(b, s, at, key) ==
  IF s = "standby" \/ b \in ToSet(switchedOn) THEN UNCHANGED <<switchedOn, rank>>
  ELSE switchedOn' = InsertAt(switchedOn, at, b) /\ rank' = [rank EXCEPT ![b] = key]

Stale(b) == b \in spoke

\* Mutant of SwitchedOnAfterItAnswered: a stale answer is dropped, and that is all.
AnswerIsDropped(b, s) == UNCHANGED entry

\* A dropped STANDBY and a source named since: the answer first, then the frame.
SwitchedOnAfterItAnswered(b, s) ==
  IF s = "standby" /\ last[b] \in {"radio", "other"}
  THEN entry' = [entry EXCEPT ![b] = Heard(Heard(@, s), last[b])]
  ELSE UNCHANGED entry

\* One whose lock has been let go stands before whatever is read next.
HasItsTurn(t) == seeding[t] = "waits" /\ \A u \in Seeders : seeding[u] # "holds"
TurnsCome == TurnsAreKept => \A t \in Seeders : ~HasItsTurn(t)

AnswerIsTaken(b) ==
  LET s == question[b] IN
  /\ s \in Answers /\ TurnsCome
  /\ question' = [question EXCEPT ![b] = "none"]
  /\ IF s = "silence" THEN UNCHANGED <<entry, switchedOn, rank, round>>
     ELSE IF Stale(b) THEN SwitchedOnAfterItAnswered(b, s) /\ UNCHANGED <<switchedOn, rank, round>>
     ELSE /\ NotedSwitchedOn(b, s, SlotFor(b), <<round.nr, 0, Place(b)>>)
          /\ round' = [round EXCEPT !.placed = IF switchedOn' # switchedOn THEN @ \cup {b} ELSE @]
          /\ entry' = [entry EXCEPT ![b] = Heard(@, s)]
  /\ UNCHANGED <<prefVars, now, allowed, dialled, service, bookVars, spoke, last, seedVars, boxVars, count, owed>>

RoundEnds ==
  /\ poller = "asking" /\ \A b \in Boxes : question[b] = "none"
  /\ poller' = "wait" /\ service' = "running"
  /\ round' = [NoRound EXCEPT !.nr = round.nr]
  /\ UNCHANGED <<prefVars, memberVars, reply, book, notAsked, wanted, question, spoke, last, switchedOn, rank, seedVars, boxVars, count, owed>>

-----------------------------------------------------------------------------
(* The boxes, their observers, and the reader of the queue. *)

Connect(b) ==
  /\ channel[b] = "apart"
  /\ channel' = [channel EXCEPT ![b] = "open"]
  /\ UNCHANGED <<prefVars, memberVars, service, bookVars, roundVars, seedVars, plays, events, said, unheard, count, owed>>

\* A channel that ends is opened again; what the box says in between is lost.
Drop(b) ==
  /\ channel[b] = "open" /\ Counts("drops", MaxDrops)
  /\ channel' = [channel EXCEPT ![b] = "apart"]
  /\ UNCHANGED <<prefVars, memberVars, service, bookVars, roundVars, seedVars, plays, events, said, unheard, owed>>

\* A box is switched on, off, or over, or says again what it plays.
BoxPlays(b, s) ==
  /\ Counts("happenings", MaxHappenings)
  /\ plays' = [plays EXCEPT ![b] = s]
  /\ IF channel[b] = "open"
     THEN /\ Len(events) < MaxQueue
          /\ events' = Append(events, [box |-> b, source |-> s])
          /\ said' = [said EXCEPT ![b] = Heard(@, s)]
          /\ unheard' = IF s = "radio" THEN unheard ELSE unheard \ {b}
     ELSE plays[b] # s /\ UNCHANGED <<events, said, unheard>>
  /\ UNCHANGED <<prefVars, memberVars, service, bookVars, roundVars, seedVars, channel, owed>>

Read ==
  LET e == Head(events) IN
  /\ events # <<>>
  /\ TurnsCome
  /\ events' = Tail(events)
  /\ NotedSwitchedOn(e.box, e.source, Len(switchedOn) + 1, <<round.nr, 1, Len(switchedOn)>>)
  /\ spoke' = spoke \cup {e.box}
  /\ last' = [last EXCEPT ![e.box] = e.source]
  /\ entry' = [entry EXCEPT ![e.box] = Heard(@, e.source)]
  /\ UNCHANGED <<prefVars, now, allowed, dialled, service, bookVars, round, question, seedVars, plays, channel, said, unheard, count, owed>>

-----------------------------------------------------------------------------
(* Seeding the channel list, from two tasks, one lock. *)

SeedingIsOver(t) == IF t = "poller" THEN poller' = "ask" ELSE UNCHANGED poller

MaySeed == channels = {} /\ ~RoundIsOut

Calls(t) == seeding[t] = "idle" /\ IF t = "poller" THEN poller = "seed" ELSE service = "running"

FirstUnasked == SelectInSeq(switchedOn, LAMBDA b : b \notin asked /\ b \in book)

\* Mutant of StillMaySeed: the guard before the wait is the only one.
StillMaySeedThen == TRUE

StillMaySeed == channels = {}

\* Inside the lock: the first box switched on and not asked yet, or nobody.
Enters(t) ==
  IF StillMaySeed /\ FirstUnasked # 0
  THEN /\ seeding' = [seeding EXCEPT ![t] = "holds"]
       /\ asking' = [asking EXCEPT ![t] = switchedOn[FirstUnasked]]
       /\ asked' = asked \cup {switchedOn[FirstUnasked]}
       /\ UNCHANGED poller
  ELSE /\ seeding' = [seeding EXCEPT ![t] = "idle"]
       /\ SeedingIsOver(t) /\ UNCHANGED <<asking, asked>>

SeedIsCalled(t) ==
  /\ Calls(t)
  /\ IF ~MaySeed THEN t = "poller" /\ SeedingIsOver(t) /\ UNCHANGED <<seeding, asking, asked>>
     ELSE IF \A u \in Seeders : seeding[u] = "idle" THEN Enters(t)
     ELSE seeding' = [seeding EXCEPT ![t] = "waits"] /\ UNCHANGED <<poller, asking, asked>>
  /\ UNCHANGED <<prefVars, memberVars, service, reply, book, notAsked, wanted, roundVars, channels, dialledTo, boxVars, count, owed>>

SeedEnters(t) ==
  /\ HasItsTurn(t) /\ Enters(t)
  /\ UNCHANGED <<prefVars, memberVars, service, reply, book, notAsked, wanted, roundVars, channels, dialledTo, boxVars, count, owed>>

\* A key that is not set and one that could not be read are alike.
PresetsRead(b) == {[n \in DOMAIN PresetsOf[b] |-> IF n \in read THEN PresetsOf[b][n] ELSE "none"] :
                     read \in SUBSET DOMAIN PresetsOf[b]}

SeedEnds(t) ==
  /\ seeding[t] = "holds"
  /\ \E presets \in PresetsRead(asking[t]) :
       IF Refused(presets)
       THEN service' = "failed" /\ UNCHANGED channels
       ELSE /\ channels' = IF SeedFromPresets(presets) = {} THEN channels ELSE SeedFromPresets(presets)
            /\ UNCHANGED service
  /\ seeding' = [seeding EXCEPT ![t] = "idle"]
  /\ SeedingIsOver(t)
  /\ UNCHANGED <<prefVars, memberVars, reply, book, notAsked, wanted, roundVars, asking, asked, dialledTo, boxVars, count, owed>>

-----------------------------------------------------------------------------
(* The list itself. *)

\* What was dialled, or the lowest there is.
TheChannelToPlay ==
  IF dialledTo \in NumbersOf(channels) THEN dialledTo ELSE NumbersInOrder(NumbersOf(channels))[1]

Thumbed(rotates) ==
  /\ Quiet /\ channels # {} /\ Counts("handled", MaxHandled)
  /\ ByNumber(channels, TheChannelToPlay).rotates # rotates
  /\ ~rotates => RotationNumbers(channels) # <<TheChannelToPlay>>
  /\ channels' = WithRotation(channels, TheChannelToPlay, rotates)
  /\ UNCHANGED <<prefVars, memberVars, service, bookVars, roundVars, seeding, asking, asked, dialledTo, boxVars, owed>>

Goes(number) ==
  /\ Quiet /\ channels # {} /\ Counts("handled", MaxHandled)
  /\ dialledTo' = number
  /\ UNCHANGED <<prefVars, memberVars, service, bookVars, roundVars, seeding, asking, asked, channels, boxVars, owed>>

Dials == \E c \in channels : Goes(c.number)
Steps == \E steps \in {-1, 1, 2} : channels # {} /\ Goes(StepOf(channels, TheChannelToPlay, steps))

\* The book at its empty start, and nothing asked of any box.
NoSpeakerKnownYet ==
  /\ book = {} /\ notAsked = {} /\ channel = [b \in Boxes |-> "none"]
  /\ round = NoRound /\ question = [b \in Boxes |-> "none"]
  /\ spoke = {} /\ last = [b \in Boxes |-> "none"]
  /\ wanted = FALSE

Start ==
  /\ Init /\ PrefInit /\ allowed = ConsolesOf(inUse)
  /\ NoSpeakerKnownYet
  /\ service = "starting" /\ poller = "read" /\ reply = NoReply
  /\ plays \in [Boxes -> {"standby", "radio"}]
  /\ events = <<>> /\ switchedOn = <<>>
  /\ seeding = [t \in Seeders |-> "idle"] /\ asking = [t \in Seeders |-> "none"] /\ asked = {}
  /\ channels \in FirstLists /\ dialledTo = <<>>
  /\ count = [happenings |-> 0, drops |-> 0, reads |-> 0, handled |-> 0]
  /\ rank = [b \in Boxes |-> <<0, 0, 0>>]
  /\ said = [b \in Boxes |-> Nothing] /\ unheard = {} /\ owed = {}

BookNext ==
  /\ service # "failed"
  /\ \/ ReadBegins \/ RegistryAnswers \/ ReadIsTaken \/ ReadFails \/ PreferencesAreTaken \/ PreferencesChange
     \/ RoundOpens \/ QuestionsGoOut \/ RoundEnds \/ Read \/ Dials \/ Steps
     \/ \E b \in Boxes : \/ BoxAnswers(b) \/ AnswerIsTaken(b)
                         \/ Connect(b) \/ Drop(b) \/ \E s \in Playing : BoxPlays(b, s)
     \/ \E t \in Seeders : SeedIsCalled(t) \/ SeedEnters(t) \/ SeedEnds(t)
     \/ \E rotates \in BOOLEAN : Thumbed(rotates)

BookSpec == Start /\ [][BookNext]_allVars
-----------------------------------------------------------------------------
Before(p, q) ==
  \/ p[1] < q[1]
  \/ p[1] = q[1] /\ p[2] < q[2]
  \/ p[1] = q[1] /\ p[2] = q[2] /\ p[3] < q[3]

\* How fast a box replies decides nothing: the boxes of one round stand in the registry's order,
\* after what was read before the round opened and before what was read while it was out.
ReplySpeedDecidesNothing ==
  \A i, j \in DOMAIN switchedOn : i < j => Before(rank[switchedOn[i]], rank[switchedOn[j]])

\* The channels come from the first box that was switched on and has any on its keys: none that
\* stands before it is passed over unasked, none still to answer can come to stand before it, and
\* what is there is never seeded over.
SeededFromTheFirst ==
  [][\A t \in Seeders : (seeding[t] = "holds" /\ channels' # channels) =>
       /\ channels = {}
       /\ RoundIsOut => Before(rank[asking[t]], <<round.nr, 0, 0>>)
       /\ \A i \in DOMAIN switchedOn : switchedOn[i] = asking[t] =>
            \A j \in 1 .. i - 1 : switchedOn[j] \in asked]_allVars

Awake(h) == h # Nothing /\ h.woke_at # NotAwake

WakeIsKnown(b) == question[b] = "none" /\ NothingUnread(b) /\ Awake(said[b]) => Awake(entry[b])

\* When nothing of a box is on its way, a wake in what it said in its own order is known as one,
\* whichever of an answer and the frames overtakes the other (_ask_what_it_is_playing).  A box
\* that was switched over while its channel was cut, between a frame the book goes by and the
\* answer it drops for that frame, is known again when it next names anything but the radio.
NoWakeIsLost == \A b \in Boxes \ unheard : WakeIsKnown(b)

\* What the comment on the dropped answer says of every box, and does not hold (speakers.py 276).
EveryWakeIsKnown == \A b \in Boxes : WakeIsKnown(b)

\* A console allowed that is not in the book is never left to the next poll: a read that began
\* after it was allowed has been asked for.
AllowedIsReadFor == owed \ book # {} => wanted

\* Next goes to the nearest number above in dialling order that is in the rotation, previous to
\* the nearest below, round the ends, also from a channel a thumb has just taken out; and the
\* rotation of a house with channels is never empty.
StepsGoToTheNeighbour ==
  channels # {} =>
    LET here == LadderIndex(TheChannelToPlay)
        ring == {LadderIndex(c.number) : c \in {d \in channels : d.rotates}}
        above == {n \in ring : n > here}
        below == {n \in ring : n < here}
        least(S) == CHOOSE n \in S : \A m \in S : n <= m
        most(S)  == CHOOSE n \in S : \A m \in S : n >= m
    IN /\ ring # {}
       /\ LadderIndex(StepOf(channels, TheChannelToPlay, 1))  = IF above = {} THEN least(ring) ELSE least(above)
       /\ LadderIndex(StepOf(channels, TheChannelToPlay, -1)) = IF below = {} THEN most(ring) ELSE most(below)
=============================================================================
