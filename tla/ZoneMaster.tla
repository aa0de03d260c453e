----------------------------- MODULE ZoneMaster -----------------------------
(***************************************************************************)
(* The zone master's stations and transport channels                       *)
(* (adapters/soundtouch/zone_master.py, with TransportConnection of        *)
(* connections.py and the placement books of placement.py): calls of       *)
(* play() that wait for their first bytes concurrently, the switch lock,   *)
(* the channels boxes open and drop while a switch or a join is under way, *)
(* and the two things the service's pass does beside them - putting a box  *)
(* back on the zone's station, and stopping the station of an empty zone - *)
(* of which the second takes no lock.                                      *)
(*                                                                         *)
(* A step is what runs between two suspension points of one coroutine.     *)
(* Bytes, times and placements are abstracted: a book is the fact that a   *)
(* (box, stream) has a slot, which is what a data channel waits for.       *)
(***************************************************************************)
EXTENDS Naturals, Sequences

CONSTANTS
  Boxes,      \* the speakers, by address
  Channels,   \* every transport connection the boxes ever open (bound)
  PeerOf,     \* which box opened a channel
  MaxPlays    \* bound: how many calls of play() a behaviour makes

ASSUME MaxPlaysAssumption == MaxPlays \in Nat \ {0}
ASSUME PeerOfAssumption   == PeerOf \in [Channels -> Boxes]

VARIABLES
  generation,  \* calls of play() so far: _play_generation, and _next_url_id - 1
  station,     \* url_id of the station installed, NoStation if none
  sources,     \* url_ids in the sources dict
  fetching,    \* url_ids whose fetch task runs
  call,        \* per play() call: where it stands
  leaving,     \* per play() call: the station it took over from
  told,        \* per play() call: the channels its switch still has to reach
  holder,      \* who holds _switch_lock
  waiters,     \* who waits for it, in the order asyncio serves them
  live,        \* SlaveTransports._by_peer: each box's channels, oldest first
  chan,        \* per channel: where its handler stands
  current,     \* TransportConnection.current
  target,      \* per channel: the station its join or put-back read in the lock
  books,       \* JoinPlanner._books: the (box, url_id) that have a slot
  pass,        \* what the service's pass is doing here
  moving,      \* the channels its put-back is moving: none or one
  toStop       \* the sources its stop_station has still to stop

playVars == <<generation, call, leaving, told>>
chanVars == <<live, chan, current, target>>
lockVars == <<holder, waiters>>
passVars == <<pass, moving, toStop>>
srcVars  == <<station, sources, fetching>>
vars == <<playVars, chanVars, lockVars, passVars, srcVars, books>>

NoStation == 0
Calls     == 1 .. MaxPlays
Player(u) == <<"play", u>>
Joiner(c) == <<"join", c>>
Back(b)   == <<"back", b>>
Nobody    == <<"nobody", NoStation>>
Holders   == {Player(u) : u \in Calls} \cup {Joiner(c) : c \in Channels} \cup {Back(b) : b \in Boxes}

CallStates == {"none", "waiting", "locking", "switching", "announcing", "won", "lost"}
ChanStates == {"none", "locking", "joining", "up", "ending", "closed"}
PassStates == {"resting", "asking", "putting", "stopping"}

TypeOK ==
  /\ generation \in 0 .. MaxPlays
  /\ station \in 0 .. MaxPlays
  /\ sources \in SUBSET Calls
  /\ fetching \in SUBSET Calls
  /\ call \in [Calls -> CallStates]
  /\ leaving \in [Calls -> 0 .. MaxPlays]
  /\ told \in [Calls -> SUBSET Channels]
  /\ holder \in Holders \cup {Nobody}
  /\ waiters \in Seq(Holders)
  /\ live \in [Boxes -> Seq(Channels)]
  /\ chan \in [Channels -> ChanStates]
  /\ current \in [Channels -> 0 .. MaxPlays]
  /\ target \in [Channels -> 0 .. MaxPlays]
  /\ books \in SUBSET (Boxes \X (0 .. MaxPlays))
  /\ pass \in PassStates
  /\ moving \in SUBSET Channels
  /\ toStop \in SUBSET Calls
-----------------------------------------------------------------------------
(* SlaveTransports *)

Added(c)     == [live EXCEPT ![PeerOf[c]] = Append(@, c)]
Forgotten(c) ==
  LET s == live[PeerOf[c]] IN
  [live EXCEPT ![PeerOf[c]] =
    IF \E i \in 1 .. Len(s) : s[i] = c
      THEN LET i == CHOOSE j \in 1 .. Len(s) : s[j] = c
           IN  SubSeq(s, 1, i - 1) \o SubSeq(s, i + 1, Len(s))
      ELSE s]

HasDriven(b) == live[b] # <<>>
Driven(b)    == live[b][Len(live[b])]     \* the newest live channel of a box
Peers        == {b \in Boxes : HasDriven(b)}

\* Mutant of LeftOnAnOldStream: asks the books, not the channel.
LeftWithoutAPlace == {b \in Peers : station # NoStation /\ <<b, station>> \notin books}

\* Boxes whose driven channel was never put on the station the zone plays.
LeftOnAnOldStream == {b \in Peers : station # NoStation /\ current[Driven(b)] # station}

(* JoinPlanner *)

WithoutPeer(b)     == {key \in books : key[1] # b}
WithoutStream(u)   == {key \in books : key[2] # u}

(* asyncio.Lock: released to whoever has waited longest *)

Acquire(h) ==
  \/ holder = Nobody /\ holder' = h /\ UNCHANGED waiters
  \/ holder # Nobody /\ waiters' = Append(waiters, h) /\ UNCHANGED holder

Release ==
  \/ waiters = <<>> /\ holder' = Nobody /\ UNCHANGED waiters
  \/ waiters # <<>> /\ holder' = Head(waiters) /\ waiters' = Tail(waiters)
-----------------------------------------------------------------------------
Init ==
  /\ generation = 0
  /\ station = NoStation
  /\ sources = {}
  /\ fetching = {}
  /\ call = [u \in Calls |-> "none"]
  /\ leaving = [u \in Calls |-> NoStation]
  /\ told = [u \in Calls |-> {}]
  /\ holder = Nobody
  /\ waiters = <<>>
  /\ live = [b \in Boxes |-> <<>>]
  /\ chan = [c \in Channels |-> "none"]
  /\ current = [c \in Channels |-> NoStation]
  /\ target = [c \in Channels |-> NoStation]
  /\ books = {}
  /\ pass = "resting"
  /\ moving = {}
  /\ toStop = {}
-----------------------------------------------------------------------------
(* play() *)

\* A press: the next generation and url_id, and the fetch starts at once.
Play ==
  /\ generation < MaxPlays
  /\ LET u == generation + 1 IN
       /\ generation' = u
       /\ sources' = sources \cup {u}
       /\ fetching' = fetching \cup {u}
       /\ call' = [call EXCEPT ![u] = "waiting"]
  /\ UNCHANGED <<station, leaving, told, lockVars, chanVars, passVars, books>>

\* First bytes arrived, or the wait for them timed out: both ask for the lock.
FirstBytes(u) ==
  /\ call[u] = "waiting"
  /\ call' = [call EXCEPT ![u] = "locking"]
  /\ Acquire(Player(u))
  /\ UNCHANGED <<generation, leaving, told, srcVars, chanVars, passVars, books>>

\* Mutant of Overtaken: gives up on any other station instead of a newer call.
OvertakenByTheStation(u) ==
  /\ call[u] = "locking" /\ holder = Player(u)
  /\ station # NoStation
  /\ sources' = sources \ {u}
  /\ fetching' = fetching \ {u}
  /\ call' = [call EXCEPT ![u] = "lost"]
  /\ Release
  /\ UNCHANGED <<generation, station, leaving, told, chanVars, passVars, books>>

\* A newer call was made while this one waited: it gives up.
Overtaken(u) ==
  /\ call[u] = "locking" /\ holder = Player(u)
  /\ u # generation
  /\ sources' = sources \ {u}
  /\ fetching' = fetching \ {u}
  /\ call' = [call EXCEPT ![u] = "lost"]
  /\ Release
  /\ UNCHANGED <<generation, station, leaving, told, chanVars, passVars, books>>

\* Mutant of Install: without the lock.
InstallUnlocked(u) ==
  /\ call[u] = "locking"
  /\ u = generation
  /\ station' = u
  /\ leaving' = [leaving EXCEPT ![u] = station]
  /\ call' = [call EXCEPT ![u] = "announcing"]
  /\ UNCHANGED <<generation, sources, fetching, told, chanVars, lockVars, passVars, books>>

\* The newest call puts its station on the zone.  Over an old station, every
\* box with a channel is given its place in the new stream, and every driven
\* channel that has joined is to be switched; the lock is kept for that.
Install(u) ==
  /\ call[u] = "locking" /\ holder = Player(u)
  /\ u = generation
  /\ station' = u
  /\ leaving' = [leaving EXCEPT ![u] = station]
  /\ IF station = NoStation
       THEN /\ call' = [call EXCEPT ![u] = "announcing"]
            /\ Release
            /\ UNCHANGED <<told, books>>
       ELSE /\ call' = [call EXCEPT ![u] = "switching"]
            /\ told' = [told EXCEPT ![u] =
                          {Driven(b) : b \in {p \in Peers : current[Driven(p)] # NoStation}}]
            /\ books' = books \cup (Peers \X {u})
            /\ UNCHANGED lockVars
  /\ UNCHANGED <<generation, sources, fetching, chanVars, passVars>>

\* STOP, SetURL, PAUSE, a second, PLAY: the whole sequence reached one channel ...
Switched(u, c) ==
  /\ call[u] = "switching" /\ c \in told[u]
  /\ told' = [told EXCEPT ![u] = @ \ {c}]
  /\ current' = [current EXCEPT ![c] = u]
  /\ UNCHANGED <<generation, call, leaving, live, chan, target, srcVars, lockVars, passVars, books>>

\* ... or the box hung up inside it, which its own handler notices too.
SwitchBroke(u, c) ==
  /\ call[u] = "switching" /\ c \in told[u]
  /\ told' = [told EXCEPT ![u] = @ \ {c}]
  /\ chan' = [chan EXCEPT ![c] = IF @ = "up" THEN "ending" ELSE @]
  /\ UNCHANGED <<generation, call, leaving, live, current, target, srcVars, lockVars, passVars, books>>

\* The old source goes once every channel has been told, then the lock.
SwitchDone(u) ==
  /\ call[u] = "switching" /\ told[u] = {}
  /\ fetching' = IF leaving[u] \in sources THEN fetching \ {leaving[u]} ELSE fetching
  /\ sources' = sources \ {leaving[u]}
  /\ books' = WithoutStream(leaving[u])
  /\ call' = [call EXCEPT ![u] = "announcing"]
  /\ Release
  /\ UNCHANGED <<generation, station, leaving, told, chanVars, passVars>>

\* Every slave has been shown the station, outside the lock; the call returns it.
Announced(u) ==
  /\ call[u] = "announcing"
  /\ call' = [call EXCEPT ![u] = "won"]
  /\ UNCHANGED <<generation, leaving, told, srcVars, lockVars, chanVars, passVars, books>>
-----------------------------------------------------------------------------
(* Transport channels *)

\* A box connects on 40002: registered at once, then in line for the lock.
Connect(c) ==
  /\ chan[c] = "none"
  /\ chan' = [chan EXCEPT ![c] = "locking"]
  /\ live' = Added(c)
  /\ Acquire(Joiner(c))
  /\ UNCHANGED <<current, target, playVars, srcVars, passVars, books>>

\* No station, or none with a source: CannotServeError ends the handler.
Refused(c) ==
  /\ chan[c] = "locking" /\ holder = Joiner(c)
  /\ station = NoStation \/ station \notin sources
  /\ chan' = [chan EXCEPT ![c] = "ending"]
  /\ Release
  /\ UNCHANGED <<live, current, target, playVars, srcVars, passVars, books>>

\* The station and its source are read inside the lock; plan_join then waits.
PlanJoin(c) ==
  /\ chan[c] = "locking" /\ holder = Joiner(c)
  /\ station # NoStation /\ station \in sources
  /\ chan' = [chan EXCEPT ![c] = "joining"]
  /\ target' = [target EXCEPT ![c] = station]
  /\ UNCHANGED <<live, current, playVars, lockVars, srcVars, passVars, books>>

\* The slot is booked and the join sequence sent; the handler reads on, or
\* the box is gone before the PLAY.
JoinSent(c) ==
  /\ chan[c] = "joining"
  /\ books' = books \cup {<<PeerOf[c], target[c]>>}
  /\ \/ /\ current' = [current EXCEPT ![c] = target[c]]
        /\ chan' = [chan EXCEPT ![c] = "up"]
     \/ /\ chan' = [chan EXCEPT ![c] = "ending"]
        /\ UNCHANGED current
  /\ Release
  /\ UNCHANGED <<live, target, playVars, srcVars, passVars>>

\* The box hangs up, or its connection breaks.
HangUp(c) ==
  /\ chan[c] = "up"
  /\ chan' = [chan EXCEPT ![c] = "ending"]
  /\ UNCHANGED <<live, current, target, playVars, lockVars, srcVars, passVars, books>>

\* transport_closed: this channel is forgotten, and what the box still has
\* decides whether its books go with it.
TransportClosed(c) ==
  /\ chan[c] = "ending"
  /\ chan' = [chan EXCEPT ![c] = "closed"]
  /\ live' = Forgotten(c)
  /\ books' = IF live'[PeerOf[c]] = <<>> THEN WithoutPeer(PeerOf[c]) ELSE books
  /\ UNCHANGED <<current, target, playVars, lockVars, srcVars, passVars>>
-----------------------------------------------------------------------------
(* What the service's pass asks for: one thing at a time *)

\* A box the zone left behind: get in line to move it.
PutBack(b) ==
  /\ pass = "resting" /\ b \in LeftOnAnOldStream
  /\ pass' = "asking"
  /\ Acquire(Back(b))
  /\ UNCHANGED <<moving, toStop, playVars, chanVars, srcVars, books>>

\* Everything is read again inside the lock, and nothing may be left to do.
NothingToPutBack(b) ==
  /\ pass = "asking" /\ holder = Back(b)
  /\ \/ b \notin LeftOnAnOldStream
     \/ station \notin sources
  /\ pass' = "resting"
  /\ Release
  /\ UNCHANGED <<moving, toStop, playVars, chanVars, srcVars, books>>

PlanPutBack(b) ==
  /\ pass = "asking" /\ holder = Back(b)
  /\ b \in LeftOnAnOldStream /\ station \in sources
  /\ pass' = "putting"
  /\ moving' = {Driven(b)}
  /\ target' = [target EXCEPT ![Driven(b)] = station]
  /\ UNCHANGED <<toStop, playVars, live, chan, current, lockVars, srcVars, books>>

\* Planned and sent as a switch, which arrives or breaks like any other.
PutBackSent(c) ==
  /\ pass = "putting" /\ c \in moving
  /\ books' = books \cup {<<PeerOf[c], target[c]>>}
  /\ \/ current' = [current EXCEPT ![c] = target[c]] /\ UNCHANGED chan
     \/ /\ chan' = [chan EXCEPT ![c] = IF @ = "up" THEN "ending" ELSE @]
        /\ UNCHANGED current
  /\ pass' = "resting"
  /\ moving' = {}
  /\ Release
  /\ UNCHANGED <<toStop, playVars, live, target, srcVars>>

\* stop_station: the sources there are now, one after another, without the lock.
StopStation ==
  /\ pass = "resting" /\ station # NoStation
  /\ pass' = "stopping"
  /\ toStop' = sources
  /\ UNCHANGED <<moving, playVars, lockVars, chanVars, srcVars, books>>

StopOne ==
  /\ pass = "stopping"
  /\ \E u \in toStop :
       /\ \A other \in toStop : u <= other
       /\ fetching' = fetching \ {u}
       /\ books' = WithoutStream(u)
       /\ toStop' = toStop \ {u}
  /\ UNCHANGED <<pass, moving, playVars, lockVars, chanVars, station, sources>>

StationStopped ==
  /\ pass = "stopping" /\ toStop = {}
  /\ sources' = {}
  /\ station' = NoStation
  /\ pass' = "resting"
  /\ UNCHANGED <<moving, toStop, playVars, lockVars, chanVars, fetching, books>>
-----------------------------------------------------------------------------
CallStep(u) ==
  \/ FirstBytes(u) \/ Overtaken(u) \/ Install(u)
  \/ \E c \in Channels : Switched(u, c) \/ SwitchBroke(u, c)
  \/ SwitchDone(u) \/ Announced(u)

JoinStep(c) == Refused(c) \/ PlanJoin(c) \/ JoinSent(c) \/ TransportClosed(c)

PassStep ==
  \/ \E b \in Boxes : PutBack(b) \/ NothingToPutBack(b) \/ PlanPutBack(b)
  \/ \E c \in Channels : PutBackSent(c)
  \/ StopOne \/ StationStopped

\* The bounds are spent and nobody waits for anything.  A state in which
\* somebody does wait and nothing can move is a deadlock.
AllDone ==
  /\ generation = MaxPlays /\ \A u \in Calls : call[u] \in {"won", "lost"}
  /\ \A c \in Channels : chan[c] = "closed"
  /\ pass = "resting" /\ holder = Nobody
  /\ UNCHANGED vars

Next ==
  \/ Play
  \/ \E u \in Calls : CallStep(u)
  \/ \E c \in Channels : Connect(c) \/ JoinStep(c) \/ HangUp(c)
  \/ PassStep
  \/ StopStation
  \/ AllDone

Spec == Init /\ [][Next]_vars

\* Coroutines that can run do run: play() tasks, channel handlers, and the
\* pass, which every registry poll asks for.  Presses, connections, hang-ups
\* and the emptying of the zone are the world's and may never come.
Fairness ==
  /\ \A u \in Calls : WF_vars(CallStep(u))
  /\ \A c \in Channels : WF_vars(JoinStep(c))
  /\ WF_vars(PassStep)

FairSpec == Spec /\ Fairness
-----------------------------------------------------------------------------
(* What must hold *)

\* The last press is the one that plays (play's generation): while a station
\* is followed by another, without a stop between, it is by a newer call's.
NewerStationsOnly ==
  [][station # NoStation /\ station' # NoStation => station' >= station]_vars

\* One switch, join or put-back at a time (_switch_lock): two of them would
\* send two sequences for different stations to the same channels.
Sending ==
  {Player(u) : u \in {v \in Calls : call[v] = "switching"}}
    \cup {Joiner(c) : c \in {d \in Channels : chan[d] = "joining"}}
    \cup {Back(PeerOf[c]) : c \in moving}

OneSequenceAtATime == \A h \in Sending : h = holder

\* A box being joined or put back is told the station the zone is on, unless
\* the pass stopped that station meanwhile: no press moves the zone inside
\* the wait for a placement (_on_transport, put_back_on_the_station).
NoStaleTarget ==
  /\ \A c \in Channels : chan[c] = "joining" => station \in {target[c], NoStation}
  /\ \A c \in moving : station \in {target[c], NoStation}

\* A switch is sent only to a channel that had joined: only the join tells a
\* box its clock master (the filter in play(); for a put-back, only the order
\* in which the lock is handed over).
OnlyJoinedAreSwitched ==
  /\ \A u \in Calls : \A c \in told[u] : current[c] # NoStation
  /\ \A c \in moving : chan[c] = "up" => current[c] # NoStation

\* A channel that has not ended is in the registry, whatever other channels
\* of its box did (SlaveTransports forgets by identity).
LiveIsRegistered ==
  \A c \in Channels :
    chan[c] \in {"locking", "joining", "up", "ending"}
      <=> \E i \in 1 .. Len(live[PeerOf[c]]) : live[PeerOf[c]][i] = c

\* A box told to play a stream that is being fetched has its place in it,
\* or its data channel would wait three seconds and be given nothing.
Placed ==
  \A b \in Peers :
    LET u == current[Driven(b)] IN u \in sources \cap fetching => <<b, u>> \in books

\* A station left installed is one that plays: unless the pass is stopping it,
\* its source is there to serve a box from.  _play_the_channel starts nothing
\* while a station is installed, because it takes it to be running.
InstalledIsServed ==
  station # NoStation /\ pass # "stopping" => station \in sources

\* "Stop fetching, and keep listening" (stop_station): with no station,
\* nothing is fetched but what calls still under way are waiting for.
StoppedMeansNotFetching ==
  station = NoStation => \A u \in fetching : call[u] \in {"waiting", "locking"}

\* Once presses and hang-ups end, every box that keeps a channel is on the
\* station of the zone on its newest channel (put_back_on_the_station), unless
\* there is no source to play it from.
EverybodyEndsUpOnTheStation ==
  <>[](\A b \in Boxes : live[b] # <<>> /\ station \in sources
         => current[live[b][Len(live[b])]] = station)

\* Every call of play() returns, the lock always comes round to it: with no
\* more presses, all there were are answered.
EveryCallReturns == <>[](\A u \in Calls : call[u] \in {"none", "won", "lost"})
-----------------------------------------------------------------------------
(* Implements StationSwitch: a call wins when it installs its station. *)

AnswerTo(state) ==
  IF state \in {"none", "lost"} THEN state
  ELSE IF state \in {"waiting", "locking"} THEN "open"
  ELSE "won"

answer == [u \in Calls |-> AnswerTo(call[u])]

Switch == INSTANCE StationSwitch WITH asked <- generation

\* What play() and stop_station() promise their callers is kept by all of the
\* above: the newest call wins, an overtaken one loses, and nothing else moves
\* the station.
ImplementsSwitch == Switch!SwitchSpec
=============================================================================
