-------------------------- MODULE ZoneMasterProofs --------------------------
(***************************************************************************)
(* Proofs about ZoneMaster for every number of boxes, channels and         *)
(* presses: type correctness, the exclusion the switch lock gives, the two *)
(* properties it is there for, and that the module implements              *)
(* StationSwitch.                                                          *)
(*                                                                         *)
(* Then about StreamFeed, which brings in and serves the bytes of the      *)
(* station that was switched to: no gap, nothing owed left unserved.       *)
(***************************************************************************)
EXTENDS ZoneMaster, StreamFeed, SequenceTheorems, TLAPS

USE DEF Calls, NoStation

\* The newest live channel of a box is one of its channels.
LEMMA DrivenIsAChannel ==
  ASSUME TypeOK, NEW b \in Boxes, HasDriven(b)
  PROVE  Driven(b) \in Channels
  BY DEF TypeOK, HasDriven, Driven

\* Giving the lock back keeps the types of the lock.
LEMMA ReleaseTypes ==
  ASSUME TypeOK, Release
  PROVE  holder' \in Holders \cup {Nobody} /\ waiters' \in Seq(Holders)
<1>1. waiters \in Seq(Holders) BY DEF TypeOK
<1>2. CASE waiters = <<>> BY <1>1, <1>2 DEF Release
<1>3. CASE waiters # <<>>
  <2>1. Head(waiters) \in Holders /\ Tail(waiters) \in Seq(Holders)
    BY <1>1, <1>3, HeadTailProperties
  <2> QED BY <1>3, <2>1 DEF Release
<1> QED BY <1>2, <1>3

\* So does asking for it.
LEMMA AcquireTypes ==
  ASSUME TypeOK, NEW h \in Holders, Acquire(h)
  PROVE  holder' \in Holders \cup {Nobody} /\ waiters' \in Seq(Holders)
<1>1. Append(waiters, h) \in Seq(Holders) BY AppendProperties DEF TypeOK
<1> QED BY <1>1 DEF TypeOK, Acquire

\* Registering or forgetting a channel keeps the registry's type.
LEMMA RegistryTypes ==
  ASSUME TypeOK, NEW c \in Channels
  PROVE  /\ Added(c) \in [Boxes -> Seq(Channels)]
         /\ Forgotten(c) \in [Boxes -> Seq(Channels)]
<1>1. PeerOf[c] \in Boxes BY PeerOfAssumption
<1>2. live[PeerOf[c]] \in Seq(Channels) BY <1>1 DEF TypeOK
<1>3. Append(live[PeerOf[c]], c) \in Seq(Channels) BY <1>2
<1>4. ASSUME NEW i \in 1 .. Len(live[PeerOf[c]])
      PROVE  SubSeq(live[PeerOf[c]], 1, i - 1)
               \o SubSeq(live[PeerOf[c]], i + 1, Len(live[PeerOf[c]])) \in Seq(Channels)
  <2> DEFINE s == live[PeerOf[c]]
  <2>1. SubSeq(s, 1, i - 1) \in Seq(Channels) BY <1>2, SubSeqProperties
  <2>2. SubSeq(s, i + 1, Len(s)) \in Seq(Channels) BY <1>2, SubSeqProperties
  <2> QED BY <2>1, <2>2, ConcatProperties
<1>5. Forgotten(c) \in [Boxes -> Seq(Channels)]
  BY <1>1, <1>2, <1>4 DEF TypeOK, Forgotten
<1> QED BY <1>3, <1>5 DEF TypeOK, Added

\* The frame of the lock: what a step that does not touch it leaves.
LEMMA TypeInit == Init => TypeOK
  BY MaxPlaysAssumption DEF Init, TypeOK, CallStates, ChanStates, PassStates

\* Every step of the master keeps the types: a url_id never passes the bound,
\* the lock's line holds only those who asked, the registry only channels.
LEMMA TypeStep ==
  ASSUME TypeOK, [Next]_vars
  PROVE  TypeOK'
<1> USE DEF CallStates, ChanStates, PassStates
<1>1. CASE Play
  BY <1>1, MaxPlaysAssumption
  DEF TypeOK, Play, chanVars, lockVars, passVars
<1>2. ASSUME NEW u \in Calls, CallStep(u)
      PROVE  TypeOK'
  <2>1. CASE FirstBytes(u)
    <3>1. Player(u) \in Holders BY DEF Holders
    <3>2. holder' \in Holders \cup {Nobody} /\ waiters' \in Seq(Holders)
      BY <2>1, <3>1, AcquireTypes DEF FirstBytes
    <3> QED BY <2>1, <3>2 DEF TypeOK, FirstBytes, srcVars, chanVars, passVars
  <2>2. CASE Overtaken(u)
    <3>1. holder' \in Holders \cup {Nobody} /\ waiters' \in Seq(Holders)
      BY <2>2, ReleaseTypes DEF Overtaken
    <3> QED BY <2>2, <3>1 DEF TypeOK, Overtaken, chanVars, passVars
  <2>3. CASE Install(u)
    <3>1. Release => holder' \in Holders \cup {Nobody} /\ waiters' \in Seq(Holders)
      BY ReleaseTypes
    <3>2. {Driven(b) : b \in {p \in Peers : current[Driven(p)] # NoStation}} \in SUBSET Channels
      BY DrivenIsAChannel DEF Peers
    <3>3. Peers \X {u} \in SUBSET (Boxes \X (0 .. MaxPlays)) BY DEF Peers
    <3>4. station' \in 0 .. MaxPlays /\ leaving' \in [Calls -> 0 .. MaxPlays]
      BY <2>3, MaxPlaysAssumption DEF TypeOK, Install
    <3>5. CASE station = NoStation
      BY <2>3, <3>1, <3>4, <3>5 DEF TypeOK, Install, chanVars, passVars
    <3>6. CASE station # NoStation
      <4>1. told' \in [Calls -> SUBSET Channels] BY <2>3, <3>2, <3>6 DEF TypeOK, Install
      <4>2. books' \in SUBSET (Boxes \X (0 .. MaxPlays)) BY <2>3, <3>3, <3>6 DEF TypeOK, Install
      <4>3. call' \in [Calls -> CallStates] BY <2>3, <3>6 DEF TypeOK, Install
      <4> QED BY <2>3, <3>4, <3>6, <4>1, <4>2, <4>3 DEF TypeOK, Install, chanVars, passVars, lockVars
    <3> QED BY <3>5, <3>6
  <2>4. ASSUME NEW c \in Channels, Switched(u, c) PROVE TypeOK'
    <3>1. told' \in [Calls -> SUBSET Channels] /\ current' \in [Channels -> 0 .. MaxPlays]
      BY <2>4, MaxPlaysAssumption DEF TypeOK, Switched
    <3>2. UNCHANGED <<generation, call, leaving, live, chan, target, srcVars, lockVars, passVars, books>>
      BY <2>4 DEF Switched
    <3> QED BY <3>1, <3>2 DEF TypeOK, srcVars, lockVars, passVars
  <2>5. ASSUME NEW c \in Channels, SwitchBroke(u, c) PROVE TypeOK'
    BY <2>5 DEF TypeOK, SwitchBroke, srcVars, lockVars, passVars
  <2>6. CASE SwitchDone(u)
    <3>1. holder' \in Holders \cup {Nobody} /\ waiters' \in Seq(Holders)
      BY <2>6, ReleaseTypes DEF SwitchDone
    <3> QED BY <2>6, <3>1 DEF TypeOK, SwitchDone, WithoutStream, chanVars, passVars
  <2>7. CASE Announced(u)
    BY <2>7 DEF TypeOK, Announced, srcVars, chanVars, lockVars, passVars
  <2> QED BY <1>2, <2>1, <2>2, <2>3, <2>4, <2>5, <2>6, <2>7 DEF CallStep
<1>3. ASSUME NEW c \in Channels, Connect(c) PROVE TypeOK'
  <2>1. Joiner(c) \in Holders BY DEF Holders
  <2>2. holder' \in Holders \cup {Nobody} /\ waiters' \in Seq(Holders)
    BY <1>3, <2>1, AcquireTypes DEF Connect
  <2>3. live' \in [Boxes -> Seq(Channels)]
    BY <1>3, RegistryTypes DEF Connect
  <2> QED BY <1>3, <2>2, <2>3 DEF TypeOK, Connect, playVars, srcVars, passVars
<1>4. ASSUME NEW c \in Channels, JoinStep(c) PROVE TypeOK'
  <2>1. CASE Refused(c)
    <3>1. holder' \in Holders \cup {Nobody} /\ waiters' \in Seq(Holders)
      BY <2>1, ReleaseTypes DEF Refused
    <3> QED BY <2>1, <3>1 DEF TypeOK, Refused, playVars, srcVars, passVars
  <2>2. CASE PlanJoin(c)
    BY <2>2 DEF TypeOK, PlanJoin, playVars, lockVars, srcVars, passVars
  <2>3. CASE JoinSent(c)
    <3>1. holder' \in Holders \cup {Nobody} /\ waiters' \in Seq(Holders)
      BY <2>3, ReleaseTypes DEF JoinSent
    <3>2. books' \in SUBSET (Boxes \X (0 .. MaxPlays)) BY <2>3, PeerOfAssumption DEF TypeOK, JoinSent
    <3>3. chan' \in [Channels -> ChanStates] /\ current' \in [Channels -> 0 .. MaxPlays]
      BY <2>3 DEF TypeOK, JoinSent, ChanStates
    <3>4. UNCHANGED <<live, target, generation, call, leaving, told, station, sources, fetching, pass, moving, toStop>>
      BY <2>3 DEF JoinSent, playVars, srcVars, passVars
    <3> QED BY <3>1, <3>2, <3>3, <3>4 DEF TypeOK
  <2>4. CASE TransportClosed(c)
    <3>1. live' \in [Boxes -> Seq(Channels)]
      BY <2>4, RegistryTypes DEF TransportClosed
    <3> QED BY <2>4, <3>1 DEF TypeOK, TransportClosed, WithoutPeer, playVars, lockVars, srcVars, passVars
  <2> QED BY <1>4, <2>1, <2>2, <2>3, <2>4 DEF JoinStep
<1>5. ASSUME NEW c \in Channels, HangUp(c) PROVE TypeOK'
  BY <1>5 DEF TypeOK, HangUp, playVars, lockVars, srcVars, passVars
<1>6. ASSUME PassStep PROVE TypeOK'
  <2>1. ASSUME NEW b \in Boxes, PutBack(b) PROVE TypeOK'
    <3>1. Back(b) \in Holders BY DEF Holders
    <3>2. holder' \in Holders \cup {Nobody} /\ waiters' \in Seq(Holders)
      BY <2>1, <3>1, AcquireTypes DEF PutBack
    <3> QED BY <2>1, <3>2 DEF TypeOK, PutBack, playVars, chanVars, srcVars
  <2>2. ASSUME NEW b \in Boxes, NothingToPutBack(b) PROVE TypeOK'
    <3>1. holder' \in Holders \cup {Nobody} /\ waiters' \in Seq(Holders)
      BY <2>2, ReleaseTypes DEF NothingToPutBack
    <3> QED BY <2>2, <3>1 DEF TypeOK, NothingToPutBack, playVars, chanVars, srcVars
  <2>3. ASSUME NEW b \in Boxes, PlanPutBack(b) PROVE TypeOK'
    <3>1. Driven(b) \in Channels
      BY <2>3, DrivenIsAChannel DEF PlanPutBack, LeftOnAnOldStream, Peers
    <3> QED BY <2>3, <3>1 DEF TypeOK, PlanPutBack, playVars, lockVars, srcVars
  <2>4. ASSUME NEW c \in Channels, PutBackSent(c) PROVE TypeOK'
    <3>1. holder' \in Holders \cup {Nobody} /\ waiters' \in Seq(Holders)
      BY <2>4, ReleaseTypes DEF PutBackSent
    <3>2. books' \in SUBSET (Boxes \X (0 .. MaxPlays)) BY <2>4, PeerOfAssumption DEF TypeOK, PutBackSent
    <3> QED BY <2>4, <3>1, <3>2 DEF TypeOK, PutBackSent, playVars, srcVars
  <2>5. CASE StopOne
    BY <2>5 DEF TypeOK, StopOne, WithoutStream, playVars, lockVars, chanVars
  <2>6. CASE StationStopped
    BY <2>6, MaxPlaysAssumption DEF TypeOK, StationStopped, playVars, lockVars, chanVars
  <2> QED BY <1>6, <2>1, <2>2, <2>3, <2>4, <2>5, <2>6 DEF PassStep
<1>7. CASE StopStation
  BY <1>7 DEF TypeOK, StopStation, playVars, lockVars, chanVars, srcVars
<1>8. CASE UNCHANGED vars
  BY <1>8 DEF TypeOK, vars, playVars, lockVars, chanVars, passVars, srcVars
<1> QED
  BY <1>1, <1>2, <1>3, <1>4, <1>5, <1>6, <1>7, <1>8 DEF Next, AllDone

\* Type correctness, for any number of boxes, channels and presses.
THEOREM TypeCorrect == Spec => []TypeOK
  BY TypeInit, TypeStep, PTL DEF Spec
-----------------------------------------------------------------------------
(* The exclusion the switch lock gives *)

\* A box's channels are those it opened itself.
OwnChannels == \A b \in Boxes : live[b] \in Seq({c \in Channels : PeerOf[c] = b})

\* OneSequenceAtATime, sender by sender.
Exclusion ==
  /\ \A u \in Calls : call[u] = "switching" => holder = Player(u)
  /\ \A c \in Channels : chan[c] = "joining" => holder = Joiner(c)
  /\ \A c \in moving : holder = Back(PeerOf[c])
  /\ pass # "putting" => moving = {}

IInv ==
  /\ TypeOK
  /\ OwnChannels
  /\ Exclusion
  /\ NoStaleTarget
  /\ station <= generation

\* No two holders are the same, and nobody is one.
LEMMA HoldersDiffer ==
  /\ \A u, v : Player(u) = Player(v) => u = v
  /\ \A c, d : Joiner(c) = Joiner(d) => c = d
  /\ \A u, c : Player(u) # Joiner(c)
  /\ \A u, b : Player(u) # Back(b)
  /\ \A c, b : Joiner(c) # Back(b)
  /\ \A h : Player(h) # Nobody /\ Joiner(h) # Nobody /\ Back(h) # Nobody
  BY DEF Player, Joiner, Back, Nobody

\* Registering or forgetting a channel leaves each box with its own channels.
LEMMA OwnChannelsKept ==
  ASSUME TypeOK, OwnChannels, NEW c \in Channels,
         live' = Added(c) \/ live' = Forgotten(c)
  PROVE  OwnChannels'
<1> DEFINE p == PeerOf[c]
           Own(b) == {d \in Channels : PeerOf[d] = b}
           s == live[p]
<1>1. p \in Boxes /\ c \in Own(p) BY PeerOfAssumption
<1>2. s \in Seq(Own(p)) BY <1>1 DEF OwnChannels
<1>3. Append(s, c) \in Seq(Own(p)) BY <1>1, <1>2, AppendProperties
<1>4. ASSUME NEW i \in 1 .. Len(s)
      PROVE  SubSeq(s, 1, i - 1) \o SubSeq(s, i + 1, Len(s)) \in Seq(Own(p))
  <2>1. SubSeq(s, 1, i - 1) \in Seq(Own(p)) BY <1>2, SubSeqProperties
  <2>2. SubSeq(s, i + 1, Len(s)) \in Seq(Own(p)) BY <1>2, SubSeqProperties
  <2> QED BY <2>1, <2>2, ConcatProperties
<1>5. live'[p] \in Seq(Own(p))
  <2>1. CASE live' = Added(c)
    BY <1>1, <1>3, <2>1 DEF TypeOK, Added
  <2>2. CASE live' = Forgotten(c)
    <3>1. CASE \E i \in 1 .. Len(s) : s[i] = c
      <4> DEFINE i == CHOOSE j \in 1 .. Len(s) : s[j] = c
      <4>1. i \in 1 .. Len(s) BY <3>1
      <4>2. live'[p] = SubSeq(s, 1, i - 1) \o SubSeq(s, i + 1, Len(s))
        BY <1>1, <2>2, <3>1 DEF TypeOK, Forgotten
      <4> HIDE DEF i
      <4> QED BY <1>4, <4>1, <4>2
    <3>2. CASE ~ \E i \in 1 .. Len(s) : s[i] = c
      BY <1>1, <1>2, <2>2, <3>2 DEF TypeOK, Forgotten
    <3> QED BY <3>1, <3>2
  <2> QED BY <2>1, <2>2
<1>6. \A b \in Boxes : b # p => live'[b] = live[b]
  BY DEF TypeOK, Added, Forgotten
<1> QED BY <1>5, <1>6 DEF OwnChannels

\* The channel a box is driven by is one the box opened.
LEMMA DrivenIsItsOwn ==
  ASSUME TypeOK, OwnChannels, NEW b \in Boxes, HasDriven(b)
  PROVE  Driven(b) \in Channels /\ PeerOf[Driven(b)] = b
<1>1. live[b] \in Seq({c \in Channels : PeerOf[c] = b}) BY DEF OwnChannels
<1> QED BY <1>1 DEF HasDriven, Driven

LEMMA IInvInit == Init => IInv
  BY TypeInit DEF Init, IInv, OwnChannels, Exclusion, NoStaleTarget

\* A step of play() keeps the invariant: the station moves only while the
\* caller holds the lock, and then nobody is being joined or put back.
LEMMA CallKeepsIInv ==
  ASSUME IInv, TypeOK', NEW u \in Calls, CallStep(u)
  PROVE  IInv'
<1> USE HoldersDiffer DEF IInv
<1>1. OwnChannels'
  BY DEF CallStep, FirstBytes, Overtaken, Install, Switched, SwitchBroke, SwitchDone,
         Announced, chanVars, OwnChannels
<1>2. CASE FirstBytes(u)
  BY <1>1, <1>2 DEF TypeOK, FirstBytes, Acquire, Exclusion, NoStaleTarget, srcVars, chanVars, passVars
<1>3. CASE Overtaken(u)
  BY <1>1, <1>3 DEF TypeOK, Overtaken, Exclusion, NoStaleTarget, chanVars, passVars
<1>4. CASE Install(u)
  <2>1. moving = {} /\ \A c \in Channels : chan[c] # "joining"
    BY <1>4 DEF TypeOK, Install, Exclusion
  <2>2. station' <= generation'
    BY <1>4 DEF TypeOK, Install
  <2>3. NoStaleTarget'
    BY <1>4, <2>1 DEF Install, NoStaleTarget, chanVars, passVars
  <2>4. Exclusion'
    BY <1>4, <2>1 DEF TypeOK, Install, Exclusion, chanVars, passVars, lockVars
  <2> QED BY <1>1, <2>2, <2>3, <2>4
<1>5. ASSUME NEW c \in Channels, Switched(u, c) PROVE IInv'
  BY <1>1, <1>5 DEF Switched, Exclusion, NoStaleTarget, srcVars, lockVars, passVars
<1>6. ASSUME NEW c \in Channels, SwitchBroke(u, c) PROVE IInv'
  BY <1>1, <1>6 DEF TypeOK, SwitchBroke, Exclusion, NoStaleTarget, srcVars, lockVars, passVars
<1>7. CASE SwitchDone(u)
  <2>1. /\ \A v \in Calls : v # u => call[v] # "switching"
        /\ \A c \in Channels : chan[c] # "joining"
        /\ moving = {}
    BY <1>7 DEF SwitchDone, Exclusion
  <2>2. Exclusion'
    BY <1>7, <2>1 DEF TypeOK, SwitchDone, Exclusion, chanVars, passVars
  <2> QED BY <1>1, <1>7, <2>2 DEF SwitchDone, NoStaleTarget, chanVars, passVars
<1>8. CASE Announced(u)
  BY <1>1, <1>8 DEF TypeOK, Announced, Exclusion, NoStaleTarget, srcVars, chanVars, lockVars, passVars
<1> QED BY <1>2, <1>3, <1>4, <1>5, <1>6, <1>7, <1>8 DEF CallStep

\* So does a step of a channel's handler.
LEMMA ChannelKeepsIInv ==
  ASSUME IInv, TypeOK', NEW c \in Channels, Connect(c) \/ JoinStep(c) \/ HangUp(c)
  PROVE  IInv'
<1> USE HoldersDiffer DEF IInv
<1>1. CASE Connect(c)
  <2>1. OwnChannels' BY <1>1, OwnChannelsKept DEF Connect
  <2> QED BY <1>1, <2>1 DEF TypeOK, Connect, Acquire, Exclusion, NoStaleTarget, playVars, srcVars, passVars
<1>2. CASE Refused(c)
  <2>1. OwnChannels' /\ station' <= generation'
    BY <1>2 DEF Refused, OwnChannels, playVars, srcVars
  <2>2. Exclusion'
    <3>1. /\ \A u \in Calls : call[u] # "switching"
          /\ \A d \in Channels : chan[d] # "joining"
          /\ moving = {}
      BY <1>2 DEF TypeOK, Refused, Exclusion
    <3>2. call' = call /\ moving' = moving /\ \A d \in Channels : chan'[d] # "joining"
      BY <1>2, <3>1 DEF TypeOK, Refused, playVars, passVars
    <3> QED BY <3>1, <3>2 DEF Exclusion
  <2>3. NoStaleTarget'
    BY <1>2 DEF TypeOK, Refused, NoStaleTarget, srcVars, passVars
  <2> QED BY <2>1, <2>2, <2>3
<1>3. CASE PlanJoin(c)
  <2>1. /\ \A d \in Channels : chan[d] # "joining"
        /\ \A u \in Calls : call[u] # "switching"
        /\ moving = {}
    BY <1>3 DEF PlanJoin, Exclusion
  <2>2. \A d \in Channels : chan'[d] = "joining" => d = c /\ target'[d] = station
    BY <1>3, <2>1 DEF TypeOK, PlanJoin
  <2> QED BY <1>3, <2>1, <2>2
          DEF PlanJoin, Exclusion, OwnChannels, NoStaleTarget, playVars, lockVars, srcVars, passVars
<1>4. CASE JoinSent(c)
  <2>1. /\ \A d \in Channels : d # c => chan[d] # "joining"
        /\ \A u \in Calls : call[u] # "switching"
        /\ moving = {}
    BY <1>4 DEF JoinSent, Exclusion
  <2>2. \A d \in Channels : chan'[d] # "joining"
    BY <1>4, <2>1 DEF TypeOK, JoinSent
  <2> QED BY <1>4, <2>1, <2>2
          DEF JoinSent, Exclusion, OwnChannels, NoStaleTarget, playVars, srcVars, passVars
<1>5. CASE TransportClosed(c)
  <2>1. OwnChannels' BY <1>5, OwnChannelsKept DEF TransportClosed
  <2> QED BY <1>5, <2>1 DEF TypeOK, TransportClosed, Exclusion, NoStaleTarget, playVars, lockVars, srcVars, passVars
<1>6. CASE HangUp(c)
  BY <1>6 DEF TypeOK, HangUp, Exclusion, OwnChannels, NoStaleTarget, playVars, lockVars, srcVars, passVars
<1> QED BY <1>1, <1>2, <1>3, <1>4, <1>5, <1>6 DEF JoinStep

\* And a step of the pass, which stops a station without the lock.
LEMMA PassKeepsIInv ==
  ASSUME IInv, TypeOK', PassStep \/ StopStation
  PROVE  IInv'
<1> USE HoldersDiffer DEF IInv
<1>1. OwnChannels'
  BY DEF PassStep, PutBack, NothingToPutBack, PlanPutBack, PutBackSent, StopOne, StationStopped,
         StopStation, chanVars, OwnChannels
<1>2. ASSUME NEW b \in Boxes, PutBack(b) PROVE IInv'
  BY <1>1, <1>2 DEF TypeOK, PutBack, Acquire, Exclusion, NoStaleTarget, playVars, chanVars, srcVars
<1>3. ASSUME NEW b \in Boxes, NothingToPutBack(b) PROVE IInv'
  <2>1. /\ \A u \in Calls : call[u] # "switching"
        /\ \A c \in Channels : chan[c] # "joining"
        /\ moving = {}
    BY <1>3 DEF NothingToPutBack, Exclusion
  <2> QED BY <1>1, <1>3, <2>1 DEF NothingToPutBack, Exclusion, NoStaleTarget, playVars, chanVars, srcVars
<1>4. ASSUME NEW b \in Boxes, PlanPutBack(b) PROVE IInv'
  <2>1. Driven(b) \in Channels /\ PeerOf[Driven(b)] = b
    BY <1>4, DrivenIsItsOwn DEF PlanPutBack, LeftOnAnOldStream, Peers
  <2>2. \A c \in Channels : chan[c] # "joining"
    BY <1>4 DEF PlanPutBack, Exclusion
  <2> QED BY <1>1, <1>4, <2>1, <2>2
          DEF TypeOK, PlanPutBack, Exclusion, NoStaleTarget, playVars, lockVars, srcVars
<1>5. ASSUME NEW c \in Channels, PutBackSent(c) PROVE IInv'
  <2>1. /\ \A u \in Calls : call[u] # "switching"
        /\ \A d \in Channels : chan[d] # "joining"
    BY <1>5 DEF PutBackSent, Exclusion
  <2>2. \A d \in Channels : chan'[d] # "joining"
    BY <1>5, <2>1 DEF TypeOK, PutBackSent
  <2> QED BY <1>1, <1>5, <2>1, <2>2 DEF PutBackSent, Exclusion, NoStaleTarget, playVars, srcVars
<1>6. CASE StopOne
  BY <1>1, <1>6 DEF StopOne, Exclusion, NoStaleTarget, playVars, lockVars, chanVars
<1>7. CASE StationStopped
  BY <1>1, <1>7 DEF TypeOK, StationStopped, Exclusion, NoStaleTarget, playVars, lockVars, chanVars
<1>8. CASE StopStation
  BY <1>1, <1>8 DEF StopStation, Exclusion, NoStaleTarget, playVars, lockVars, chanVars, srcVars
<1> QED BY <1>2, <1>3, <1>4, <1>5, <1>6, <1>7, <1>8 DEF PassStep

LEMMA IInvStep == IInv /\ [Next]_vars => IInv'
<1> SUFFICES ASSUME IInv, [Next]_vars PROVE IInv'
  OBVIOUS
<1>1. TypeOK' BY TypeStep DEF IInv
<1>2. CASE Play
  BY <1>1, <1>2 DEF IInv, TypeOK, Play, OwnChannels, Exclusion, NoStaleTarget, chanVars, lockVars, passVars
<1>3. ASSUME NEW u \in Calls, CallStep(u) PROVE IInv'
  BY <1>1, <1>3, CallKeepsIInv
<1>4. ASSUME NEW c \in Channels, Connect(c) \/ JoinStep(c) \/ HangUp(c) PROVE IInv'
  BY <1>1, <1>4, ChannelKeepsIInv
<1>5. CASE PassStep \/ StopStation
  BY <1>1, <1>5, PassKeepsIInv
<1>6. CASE UNCHANGED vars
  BY <1>1, <1>6 DEF IInv, OwnChannels, Exclusion, NoStaleTarget, vars, playVars, chanVars, lockVars, passVars, srcVars
<1> QED BY <1>2, <1>3, <1>4, <1>5, <1>6 DEF Next, AllDone

\* The inductive invariant holds throughout.
THEOREM Invariant == Spec => []IInv
  BY IInvInit, IInvStep, PTL DEF Spec

\* The switch lock keeps every switch, join and put-back to itself.
THEOREM Excluded == Spec => []OneSequenceAtATime
<1>1. IInv => OneSequenceAtATime
  BY DEF IInv, Exclusion, OneSequenceAtATime, Sending
<1> QED BY <1>1, Invariant, PTL

\* No box is joined to or put back on a station that has been replaced.
THEOREM NeverStale == Spec => []NoStaleTarget
<1>1. IInv => NoStaleTarget BY DEF IInv
<1> QED BY <1>1, Invariant, PTL

\* The last press is the one that plays.
THEOREM LastPressPlays == Spec => NewerStationsOnly
<1>1. ASSUME IInv, [Next]_vars, station # NoStation, station' # NoStation
      PROVE  station' >= station
  <2>1. station \in Nat BY <1>1, MaxPlaysAssumption DEF IInv, TypeOK
  <2>2. CASE \E u \in Calls : Install(u)
    BY <1>1, <2>1, <2>2 DEF IInv, TypeOK, Install
  <2>3. CASE ~ \E u \in Calls : Install(u)
    <3>1. station' \in {station, NoStation}
      BY <1>1, <2>3
      DEF Next, Play, CallStep, FirstBytes, Overtaken, Switched, SwitchBroke, SwitchDone, Announced,
          Connect, JoinStep, Refused, PlanJoin, JoinSent, TransportClosed, HangUp, PassStep, PutBack,
          NothingToPutBack, PlanPutBack, PutBackSent, StopOne, StationStopped, StopStation, AllDone,
          vars, srcVars
    <3> QED BY <1>1, <2>1, <3>1
  <2> QED BY <2>2, <2>3
<1>2. IInv /\ [Next]_vars
        => [station # NoStation /\ station' # NoStation => station' >= station]_vars
  BY <1>1
<1> QED BY <1>2, Invariant, PTL DEF Spec, NewerStationsOnly
-----------------------------------------------------------------------------
(* ZoneMaster implements StationSwitch *)

\* Between them, the states of a call give its answer.
LEMMA AnswerOf ==
  ASSUME TypeOK
  PROVE  \A u \in Calls :
           /\ call[u] = "none" => answer[u] = "none"
           /\ call[u] \in {"waiting", "locking"} => answer[u] = "open"
           /\ call[u] \in {"switching", "announcing", "won"} => answer[u] = "won"
           /\ call[u] = "lost" => answer[u] = "lost"
  BY DEF answer, AnswerTo

LEMMA SwitchInitMaps == Init => Switch!SwitchInit
  BY DEF Init, Switch!SwitchInit, Switch!NoStation, Switch!Calls, answer, AnswerTo

\* A step that changes neither what the callers are told nor the station.
LEMMA SwitchStutters ==
  ASSUME UNCHANGED <<generation, station>>, UNCHANGED answer
  PROVE  UNCHANGED Switch!switchVars
  BY DEF Switch!switchVars

LEMMA SwitchStepMaps ==
  ASSUME TypeOK, TypeOK', [Next]_vars
  PROVE  [Switch!SwitchNext]_(Switch!switchVars)
<1> USE DEF Switch!Calls, Switch!NoStation
<1>1. CASE Play
  <2>1. answer' = [answer EXCEPT ![generation + 1] = "open"]
    BY <1>1, MaxPlaysAssumption DEF TypeOK, Play, answer, AnswerTo
  <2> QED BY <1>1, <2>1 DEF Play, Switch!SwitchNext, Switch!Ask
<1>2. ASSUME NEW u \in Calls, CallStep(u)
      PROVE  [Switch!SwitchNext]_(Switch!switchVars)
  <2>1. CASE Install(u)
    <3>1. answer[u] = "open" /\ u = generation /\ station' = u
      BY <2>1, AnswerOf DEF Install
    <3>2. answer' = [answer EXCEPT ![u] = "won"]
      <4>1. PICK s \in {"announcing", "switching"} : call' = [call EXCEPT ![u] = s]
        BY <2>1 DEF Install
      <4> QED BY <4>1 DEF TypeOK, answer, AnswerTo
    <3> QED BY <2>1, <3>1, <3>2 DEF Install, Switch!SwitchNext, Switch!Win
  <2>2. CASE Overtaken(u)
    <3>1. answer[u] = "open" /\ u # generation
      BY <2>2, AnswerOf DEF Overtaken
    <3>2. answer' = [answer EXCEPT ![u] = "lost"]
      BY <2>2 DEF TypeOK, Overtaken, answer, AnswerTo
    <3> QED BY <2>2, <3>1, <3>2 DEF Overtaken, Switch!SwitchNext, Switch!Lose
  <2>3. CASE FirstBytes(u)
    <3>1. UNCHANGED answer BY <2>3 DEF TypeOK, FirstBytes, answer, AnswerTo
    <3> QED BY <2>3, <3>1, SwitchStutters DEF FirstBytes, srcVars
  <2>4. CASE SwitchDone(u)
    <3>1. UNCHANGED answer BY <2>4 DEF TypeOK, SwitchDone, answer, AnswerTo
    <3> QED BY <2>4, <3>1, SwitchStutters DEF SwitchDone
  <2>5. CASE Announced(u)
    <3>1. UNCHANGED answer BY <2>5 DEF TypeOK, Announced, answer, AnswerTo
    <3> QED BY <2>5, <3>1, SwitchStutters DEF Announced, srcVars
  <2>6. ASSUME NEW c \in Channels, Switched(u, c) \/ SwitchBroke(u, c)
        PROVE  [Switch!SwitchNext]_(Switch!switchVars)
    <3>1. UNCHANGED answer BY <2>6 DEF Switched, SwitchBroke, answer, AnswerTo
    <3> QED BY <2>6, <3>1, SwitchStutters DEF Switched, SwitchBroke, srcVars
  <2> QED BY <1>2, <2>1, <2>2, <2>3, <2>4, <2>5, <2>6 DEF CallStep
<1>3. CASE StationStopped
  <2>1. UNCHANGED <<generation, answer>> BY <1>3 DEF StationStopped, playVars, answer, AnswerTo
  <2> QED BY <1>3, <2>1 DEF StationStopped, Switch!SwitchNext, Switch!StopStation, Switch!switchVars
<1>4. CASE \/ \E c \in Channels : Connect(c) \/ JoinStep(c) \/ HangUp(c)
           \/ PassStep /\ ~ StationStopped
           \/ StopStation \/ AllDone \/ UNCHANGED vars
  <2>1. UNCHANGED <<generation, station, call>>
    BY <1>4 DEF Connect, JoinStep, Refused, PlanJoin, JoinSent, TransportClosed, HangUp, PassStep,
                PutBack, NothingToPutBack, PlanPutBack, PutBackSent, StopOne, StopStation, AllDone,
                vars, playVars, srcVars
  <2> QED BY <2>1, SwitchStutters DEF answer
<1> QED BY <1>1, <1>2, <1>3, <1>4 DEF Next

\* play() and stop_station(), with the lock, the channels and the put-backs
\* around them, keep what StationSwitch promises.
THEOREM Implements == Spec => ImplementsSwitch
<1>1. TypeOK /\ TypeOK' /\ [Next]_vars => [Switch!SwitchNext]_(Switch!switchVars)
  BY SwitchStepMaps
<1> QED BY <1>1, SwitchInitMaps, TypeCorrect, PTL DEF Spec, ImplementsSwitch, Switch!SwitchSpec

-----------------------------------------------------------------------------
(* StreamFeed: the bytes of one station, for every size of the ring and of *)
(* a chunk, every number of boxes and whatever they ask for.               *)

FetchType == [at : Timed \cup {"asking", "backoff", "gone"}, expired : BOOLEAN,
              cancelled : BOOLEAN, base : Adapters \cup {Nowhere}]
OrionType == [found : Adapters \cup {Nowhere}, backingOff : BOOLEAN, holder : {NoReader, "fetch", "reading"}]
ConnType  == [at : {"idle", "waiting", "closed"}, placed : BOOLEAN, base : Nat,
              offset : Nat, serve : Nat, need : Nat, given : Seq(Nat)]

FeedTypes ==
  /\ data \in Seq(Nat) /\ Len(data) <= Cap /\ start \in Nat /\ ended \in BOOLEAN /\ total \in 0 .. MaxBytes
  /\ fetch \in FetchType /\ stop \in {"none", "waiting", "done"}
  /\ orion \in OrionType /\ reading \in {"none", "asking", "reading"}
  /\ conn \in [Slaves -> ConnType]
  /\ adapter \in Adapters /\ moves \in 0 .. MaxMoves

\* Who holds the lookup's lock is reading, and nobody else is.
HeldByItsReader ==
  /\ orion.holder = "fetch" => fetch.at = "asking"
  /\ orion.holder = "reading" <=> reading = "reading"

\* The ring has ended, and the fetch is called off, from the moment of the stop.
StopIsFinal ==
  /\ ended <=> stop # "none"
  /\ fetch.cancelled <=> stop # "none"
  /\ fetch.at = "gone" => fetch.cancelled
  /\ stop = "done" => fetch.at = "gone"

\* The sequence is the bytes of the station from the n-th on, none missing and none twice.
RunsFrom(s, n) == \A i \in 1 .. Len(s) : s[i] = n + i - 1

\* The ring holds the last of what came in, and knows where that begins.
RingHoldsTheLast == total = start + Len(data) /\ RunsFrom(data, start)

\* What a connection keeps, whatever is asked of it.
ConnInv(c) ==
  /\ c \in ConnType
  /\ c.at = "waiting" => c.placed /\ c.serve >= 1 /\ c.need <= c.serve
  /\ c.offset = c.base + Len(c.given) /\ RunsFrom(c.given, c.base)
  /\ ~c.placed => c.given = <<>>

FeedInv == FeedTypes /\ RingHoldsTheLast /\ HeldByItsReader /\ StopIsFinal /\ \A s \in Slaves : ConnInv(conn[s])

\* What is served is a byte at least, and no more is waited for.
LEMMA ServeIsPositive ==
  ASSUME NEW r \in Requests
  PROVE  /\ Serve(r[1], r[2]) \in Nat /\ Serve(r[1], r[2]) >= 1
         /\ WaitFor(r[1], r[2], Serve(r[1], r[2])) \in Nat
         /\ WaitFor(r[1], r[2], Serve(r[1], r[2])) <= Serve(r[1], r[2])
<1>1. r[1] \in Int /\ r[2] \in Int BY StreamFeedAssumption
<1>2. Default \in Nat /\ MaxChunk \in Nat /\ MaxChunk >= 1 BY StreamFeedAssumption
<1> DEFINE serve == Serve(r[1], r[2])
<1>3. serve \in Nat /\ serve >= 1 BY <1>1, <1>2 DEF Serve, Larger, Smaller
<1> HIDE DEF serve
<1>4. WaitFor(r[1], r[2], serve) \in Nat /\ WaitFor(r[1], r[2], serve) <= serve
  BY <1>1, <1>3 DEF WaitFor, Larger, Smaller
<1> QED BY <1>3, <1>4 DEF serve

\* The ring begins and ends at a byte.
LEMMA RingBytes ==
  ASSUME FeedTypes
  PROVE  EndOffset \in Nat /\ start \in Nat /\ Len(data) \in Nat
<1>1. data \in Seq(Nat) /\ start \in Nat BY DEF FeedTypes
<1>2. Len(data) \in Nat BY <1>1, LenProperties
<1> QED BY <1>1, <1>2 DEF EndOffset

\* Two runs of which the second begins where the first ends are one.
LEMMA RunsJoin ==
  ASSUME NEW s \in Seq(Nat), NEW t \in Seq(Nat), NEW n \in Nat,
         RunsFrom(s, n), RunsFrom(t, n + Len(s))
  PROVE  s \o t \in Seq(Nat) /\ Len(s \o t) = Len(s) + Len(t) /\ RunsFrom(s \o t, n)
<1>1. Len(s) \in Nat /\ Len(t) \in Nat BY LenProperties
<1>2. /\ s \o t \in Seq(Nat) /\ Len(s \o t) = Len(s) + Len(t)
      /\ \A i \in 1 .. Len(s) + Len(t) : (s \o t)[i] = IF i <= Len(s) THEN s[i] ELSE t[i - Len(s)]
  BY ConcatProperties
<1>3. ASSUME NEW i \in 1 .. Len(s) + Len(t) PROVE (s \o t)[i] = n + i - 1
  <2>1. CASE i <= Len(s) BY <1>1, <1>2, <2>1 DEF RunsFrom
  <2>2. CASE i > Len(s)
    <3>1. i - Len(s) \in 1 .. Len(t) BY <1>1, <2>2
    <3>2. t[i - Len(s)] = n + Len(s) + (i - Len(s)) - 1 BY <3>1 DEF RunsFrom
    <3>3. (s \o t)[i] = t[i - Len(s)] BY <1>1, <1>2, <2>2
    <3> QED BY <1>1, <3>2, <3>3
  <2> QED BY <1>1, <2>1, <2>2
<1> QED BY <1>2, <1>3 DEF RunsFrom

\* A stretch of a run is a run from where it begins.
LEMMA RunsInside ==
  ASSUME NEW s \in Seq(Nat), NEW n \in Nat, RunsFrom(s, n), NEW k \in Nat, NEW m \in Int, m <= Len(s)
  PROVE  LET u == SubSeq(s, k + 1, m) IN
         /\ u \in Seq(Nat) /\ Len(u) = (IF k + 1 <= m THEN m - k ELSE 0)
         /\ RunsFrom(u, n + k)
<1>1. Len(s) \in Nat /\ k + 1 \in Int BY LenProperties
<1>2. \A i \in k + 1 .. m : s[i] \in Nat
  <2> SUFFICES ASSUME NEW i \in k + 1 .. m PROVE s[i] \in Nat OBVIOUS
  <2>1. i \in 1 .. Len(s) BY <1>1
  <2> QED BY <2>1, ElementOfSeq
<1> DEFINE u == SubSeq(s, k + 1, m)
<1>3. /\ u \in Seq(Nat) /\ Len(u) = (IF k + 1 <= m THEN m - (k + 1) + 1 ELSE 0)
      /\ \A i \in 1 .. m - (k + 1) + 1 : u[i] = s[k + 1 + i - 1]
  <2> HIDE DEF u
  <2> QED BY <1>1, <1>2, SubSeqProperties DEF u
<1> HIDE DEF u
<1>4. ASSUME NEW i \in 1 .. Len(u) PROVE u[i] = n + k + i - 1
  <2>1. k + 1 <= m /\ i \in 1 .. m - (k + 1) + 1 BY <1>3
  <2>2. k + i \in 1 .. Len(s) /\ k + 1 + i - 1 = k + i BY <1>1, <2>1
  <2>3. u[i] = s[k + i] BY <1>3, <2>1, <2>2
  <2>4. s[k + i] = n + (k + i) - 1 BY <2>2 DEF RunsFrom
  <2> QED BY <2>1, <2>3, <2>4
<1>5. Len(u) = (IF k + 1 <= m THEN m - k ELSE 0) BY <1>3
<1> QED BY <1>3, <1>4, <1>5 DEF RunsFrom, u

\* RingBuffer.append: what is left after the oldest bytes went runs from where the ring says it
\* begins, and up to the byte that came in last.
LEMMA AppendKeepsTheRing ==
  ASSUME FeedTypes, RingHoldsTheLast, NEW n \in 1 .. 2, RingAppend(Chunk(n)), total' = total + n
  PROVE  /\ data' \in Seq(Nat) /\ Len(data') <= Cap /\ start' \in Nat
         /\ RingHoldsTheLast'
<1>1. data \in Seq(Nat) /\ start \in Nat /\ Len(data) \in Nat /\ Cap \in Nat /\ n \in Nat /\ total = start + Len(data)
  BY RingBytes, StreamFeedAssumption DEF FeedTypes, RingHoldsTheLast
<1> DEFINE chunk == Chunk(n)
           all == data \o chunk
           overflow == Larger(0, Len(all) - Cap)
<1>2. chunk \in Seq(Nat) /\ Len(chunk) = n /\ RunsFrom(chunk, start + Len(data))
  <2>1. \A i \in 1 .. n : total + i - 1 \in Nat BY <1>1
  <2>2. chunk \in [1 .. n -> Nat] BY <2>1 DEF Chunk
  <2>3. chunk \in Seq(Nat) BY <1>1, <2>2, SeqDef
  <2>4. DOMAIN chunk = 1 .. Len(chunk) /\ Len(chunk) \in Nat BY <2>3, LenProperties
  <2>5. Len(chunk) = n BY <1>1, <2>2, <2>4
  <2>6. \A i \in 1 .. n : chunk[i] = total + i - 1 BY DEF Chunk
  <2> QED BY <1>1, <2>3, <2>5, <2>6 DEF RunsFrom
<1>3. data' = SubSeq(all, overflow + 1, Len(all)) /\ start' = start + overflow BY DEF RingAppend
<1> HIDE DEF chunk
<1>4. all \in Seq(Nat) /\ Len(all) = Len(data) + n /\ RunsFrom(all, start)
  BY <1>1, <1>2, RunsJoin DEF RingHoldsTheLast
<1> HIDE DEF all
<1>5. overflow \in Nat /\ overflow <= Len(all) /\ Len(all) - overflow <= Cap /\ Len(all) \in Nat
  BY <1>1, <1>4 DEF Larger
<1> HIDE DEF overflow
<1>6. /\ data' \in Seq(Nat) /\ Len(data') = Len(all) - overflow
      /\ RunsFrom(data', start + overflow)
  <2>0. all \in Seq(Nat) /\ start \in Nat /\ RunsFrom(all, start) /\ overflow \in Nat
        /\ Len(all) \in Int /\ Len(all) <= Len(all)
    BY <1>1, <1>4, <1>5
  <2>1. LET u == SubSeq(all, overflow + 1, Len(all)) IN
        /\ u \in Seq(Nat) /\ Len(u) = (IF overflow + 1 <= Len(all) THEN Len(all) - overflow ELSE 0)
        /\ RunsFrom(u, start + overflow)
    BY ONLY <2>0, RunsInside, Zenon
  <2>2. (IF overflow + 1 <= Len(all) THEN Len(all) - overflow ELSE 0) = Len(all) - overflow BY <1>5
  <2> QED BY <1>3, <2>1, <2>2
<1>7. total' = start' + Len(data') /\ start' \in Nat
  <2>1. total' = total + n /\ start' = start + overflow /\ Len(data') = Len(data) + n - overflow
    BY <1>1, <1>3, <1>4, <1>5, <1>6
  <2> QED BY ONLY <1>1, <1>5, <2>1
<1> QED BY <1>3, <1>5, <1>6, <1>7 DEF RingHoldsTheLast, RunsFrom

\* RingBuffer.read, at or after the first byte it holds: a run from the byte asked for.
LEMMA ReadRuns ==
  ASSUME FeedTypes, RingHoldsTheLast, NEW offset \in Nat, NEW count \in Nat, offset >= start
  PROVE  ReadRing(offset, count) \in Seq(Nat) /\ RunsFrom(ReadRing(offset, count), offset)
<1>1. data \in Seq(Nat) /\ start \in Nat /\ Len(data) \in Nat BY RingBytes DEF FeedTypes
<1> DEFINE rel == offset - start
           m == Smaller(rel + count, Len(data))
<1>2. rel \in Nat /\ m \in Int /\ m <= Len(data) /\ start + rel = offset BY <1>1 DEF Smaller
<1>3. ReadRing(offset, count) = SubSeq(data, rel + 1, m) BY DEF ReadRing
<1> HIDE DEF rel, m
<1>4. LET u == SubSeq(data, rel + 1, m) IN u \in Seq(Nat) /\ RunsFrom(u, start + rel)
  BY <1>1, <1>2, RunsInside DEF RingHoldsTheLast
<1> QED BY <1>2, <1>3, <1>4

\* A connection that is idle anew or shut keeps what a connection keeps.
LEMMA RestingConns == ConnInv(Idle) /\ ConnInv(Shut) /\ Idle.at = "idle" /\ Shut.at = "closed"
<1>1. <<>> \in Seq(Nat) /\ Len(<<>>) = 0 BY EmptySeq
<1>2. Idle \in ConnType BY <1>1 DEF Idle, ConnType
<1>3. ConnInv(Idle) /\ Idle.at = "idle" BY <1>1, <1>2 DEF ConnInv, Idle, RunsFrom
<1>4. /\ Shut \in ConnType /\ Shut.at = "closed" /\ Shut.placed = Idle.placed
      /\ Shut.base = Idle.base /\ Shut.offset = Idle.offset /\ Shut.given = Idle.given
  BY <1>2 DEF Shut, Idle, ConnType
<1> QED BY <1>3, <1>4 DEF ConnInv

\* The fields of a connection may be set one by one.
LEMMA FieldsOfAConn ==
  ASSUME NEW c \in ConnType
  PROVE  /\ c.at \in {"idle", "waiting", "closed"} /\ c.placed \in BOOLEAN /\ c.base \in Nat
         /\ c.offset \in Nat /\ c.serve \in Nat /\ c.need \in Nat /\ c.given \in Seq(Nat)
         /\ {"at", "placed", "base", "offset", "serve", "need", "given"} \subseteq DOMAIN c
         /\ [c EXCEPT !.at = "idle"] \in ConnType
         /\ \A o \in Nat, g \in Seq(Nat) : [c EXCEPT !.at = "idle", !.offset = o, !.given = g] \in ConnType
  BY DEF ConnType

\* One that is given a chunk is idle again, that much further on.
Given(c, chunk) == [c EXCEPT !.at = "idle", !.offset = c.offset + Len(chunk), !.given = c.given \o chunk]

LEMMA GivenMovesOn ==
  ASSUME NEW c, ConnInv(c), c.placed, NEW chunk \in Seq(Nat), RunsFrom(chunk, c.offset), chunk # <<>>
  PROVE  ConnInv(Given(c, chunk)) /\ Given(c, chunk).at = "idle" /\ Given(c, chunk).given # c.given
<1>1. c \in ConnType /\ c.offset = c.base + Len(c.given) /\ RunsFrom(c.given, c.base) BY DEF ConnInv
<1>2. /\ c.offset \in Nat /\ c.base \in Nat /\ c.given \in Seq(Nat)
      /\ {"at", "placed", "base", "offset", "given"} \subseteq DOMAIN c
  BY <1>1, FieldsOfAConn
<1>3. Len(chunk) \in Nat \ {0} /\ Len(c.given) \in Nat BY <1>2, EmptySeq, LenProperties
<1> DEFINE d == Given(c, chunk)
           g == c.given \o chunk
<1>4. g \in Seq(Nat) /\ Len(g) = Len(c.given) + Len(chunk) /\ RunsFrom(g, c.base)
  BY <1>1, <1>2, RunsJoin
<1>5. d \in ConnType
  <2>1. c.offset + Len(chunk) \in Nat BY <1>2, <1>3
  <2> QED BY <1>1, <1>4, <2>1, FieldsOfAConn DEF Given
<1>6. /\ d.at = "idle" /\ d.base = c.base /\ d.placed = c.placed
      /\ d.offset = c.offset + Len(chunk) /\ d.given = g
  BY <1>2 DEF Given
<1> HIDE DEF d, g
<1>7. ConnInv(d)
  <2>1. d.offset = d.base + Len(d.given)
    <3>1. d.offset = c.offset + Len(chunk) /\ Len(d.given) = Len(c.given) + Len(chunk) /\ d.base = c.base
      BY <1>4, <1>6
    <3> QED BY ONLY <1>1, <1>2, <1>3, <3>1
  <2>2. RunsFrom(d.given, d.base) BY <1>4, <1>6
  <2> QED BY <1>5, <1>6, <2>1, <2>2 DEF ConnInv
<1>8. d.given # c.given
  <2>1. Len(g) # Len(c.given) BY <1>3, <1>4
  <2> QED BY <1>6, <2>1
<1> QED BY <1>6, <1>7, <1>8 DEF d

\* An answer shuts a connection, leaves it, or moves it on by the bytes the ring holds for it.
LEMMA AnswerMovesOn ==
  ASSUME FeedInv, NEW s \in Slaves, Answer(s)
  PROVE  /\ conn' = [conn EXCEPT ![s] = conn'[s]]
         /\ \/ conn'[s] = Shut
            \/ conn'[s] = conn[s]
            \/ \E chunk \in Seq(Nat) : /\ RunsFrom(chunk, conn[s].offset) /\ chunk # <<>>
                                       /\ conn'[s] = Given(conn[s], chunk)
<1>1. conn[s] \in ConnType /\ conn \in [Slaves -> ConnType] /\ FeedTypes /\ RingHoldsTheLast
  BY DEF FeedInv, FeedTypes
<1>2. conn[s].offset \in Nat /\ conn[s].serve \in Nat /\ start \in Nat BY <1>1, FieldsOfAConn, RingBytes
<1>3. conn' = [conn EXCEPT ![s] = conn'[s]] BY <1>1 DEF Answer
<1>4. CASE Gone(s)
  <2>1. conn' = [conn EXCEPT ![s] = Shut] BY <1>4 DEF Answer
  <2> QED BY <1>1, <1>3, <2>1
<1>5. CASE ~Gone(s)
  <2> DEFINE chunk == ReadRing(conn[s].offset, conn[s].serve)
  <2>1. chunk \in Seq(Nat) /\ RunsFrom(chunk, conn[s].offset)
    <3>1. conn[s].offset >= start BY <1>2, <1>5 DEF Gone
    <3> QED BY ONLY <1>1, <1>2, <3>1, ReadRuns, Zenon
  <2>2. conn' = [conn EXCEPT ![s] = IF chunk = <<>> THEN conn[s] ELSE Given(conn[s], chunk)]
    BY <1>5 DEF Answer, Given
  <2> HIDE DEF chunk
  <2>3. conn'[s] = IF chunk = <<>> THEN conn[s] ELSE Given(conn[s], chunk) BY <1>1, <2>2
  <2> QED BY <1>3, <2>1, <2>3
<1> QED BY <1>4, <1>5

\* A step of one box's connection leaves the source alone and keeps what every connection keeps.
LEMMA ConnectionsStep ==
  ASSUME FeedInv, NEW s \in Slaves,
         Request(s) \/ Served(s) \/ Unanswered(s) \/ TimesOut(s) \/ ConnectionLost(s) \/ Reconnect(s)
  PROVE  /\ UNCHANGED <<ringVars, sourceVars, baseVars, adapter, moves>>
         /\ conn' \in [Slaves -> ConnType]
         /\ \A t \in Slaves : ConnInv(conn'[t])
<1>1. conn \in [Slaves -> ConnType] /\ \A t \in Slaves : ConnInv(conn[t]) BY DEF FeedInv, FeedTypes
<1>2. UNCHANGED <<ringVars, sourceVars, baseVars, adapter, moves>>
  BY DEF Request, Served, Unanswered, TimesOut, ConnectionLost, Reconnect
<1>3. SUFFICES ConnInv(conn'[s]) /\ conn' = [conn EXCEPT ![s] = conn'[s]]
  BY <1>1, <1>2 DEF ConnInv
<1>4. CASE Request(s)
  <2>1. PICK r \in Requests, base \in {start, EndOffset, EndOffset + 1} :
          conn' = [conn EXCEPT ![s] =
            [at |-> "waiting", placed |-> TRUE,
             base |-> IF ~conn[s].placed THEN base ELSE conn[s].base,
             offset |-> IF ~conn[s].placed THEN base ELSE conn[s].offset,
             serve |-> Serve(r[1], r[2]), need |-> WaitFor(r[1], r[2], Serve(r[1], r[2])),
             given |-> conn[s].given]]
    BY <1>4 DEF Request
  <2> DEFINE c == conn[s]
             d == [at |-> "waiting", placed |-> TRUE,
                   base |-> IF ~c.placed THEN base ELSE c.base,
                   offset |-> IF ~c.placed THEN base ELSE c.offset,
                   serve |-> Serve(r[1], r[2]), need |-> WaitFor(r[1], r[2], Serve(r[1], r[2])),
                   given |-> c.given]
  <2>2. base \in Nat BY RingBytes DEF FeedInv
  <2>3. /\ c \in ConnType /\ c.base \in Nat /\ c.offset \in Nat /\ c.given \in Seq(Nat) /\ c.placed \in BOOLEAN
        /\ c.offset = c.base + Len(c.given) /\ RunsFrom(c.given, c.base) /\ (~c.placed => c.given = <<>>)
    BY <1>1, FieldsOfAConn DEF ConnInv
  <2>4. ConnInv(d)
    <3>1. d \in ConnType BY <2>2, <2>3, ServeIsPositive DEF ConnType
    <3>2. d.offset = d.base + Len(d.given) /\ RunsFrom(d.given, d.base)
      <4>1. CASE c.placed BY <2>3, <4>1
      <4>2. CASE ~c.placed
        <5>1. Len(<<>>) = 0 BY EmptySeq
        <5>2. d.given = <<>> /\ d.offset = base /\ d.base = base BY <2>3, <4>2
        <5> QED BY <2>2, <5>1, <5>2 DEF RunsFrom
      <4> QED BY <4>1, <4>2
    <3>3. d.serve >= 1 /\ d.need <= d.serve /\ d.placed BY ServeIsPositive
    <3> HIDE DEF d
    <3> QED BY <3>1, <3>2, <3>3 DEF ConnInv
  <2> QED BY <1>1, <2>1, <2>4
<1>5. CASE Served(s) \/ TimesOut(s)
  <2>1. conn[s].at = "waiting" /\ Answer(s) BY <1>5 DEF Served, TimesOut
  <2>2. conn[s].placed BY <1>1, <2>1 DEF ConnInv
  <2> QED BY <1>1, <2>1, <2>2, AnswerMovesOn, GivenMovesOn, RestingConns
<1>6. CASE Unanswered(s)
  <2>1. conn' = [conn EXCEPT ![s].at = "idle"] BY <1>6 DEF Unanswered
  <2>2. conn'[s] = [conn[s] EXCEPT !.at = "idle"] /\ conn' = [conn EXCEPT ![s] = conn'[s]] BY <1>1, <2>1
  <2>3. conn'[s] \in ConnType
    <3>1. conn[s] \in ConnType BY <1>1
    <3> QED BY <2>2, <3>1, FieldsOfAConn
  <2>4. /\ conn'[s].at = "idle" /\ conn'[s].placed = conn[s].placed /\ conn'[s].base = conn[s].base
        /\ conn'[s].offset = conn[s].offset /\ conn'[s].given = conn[s].given
    BY <1>1, <2>2, FieldsOfAConn
  <2> QED BY <1>1, <2>2, <2>3, <2>4 DEF ConnInv
<1>7. CASE ConnectionLost(s) BY <1>1, <1>7, RestingConns DEF ConnectionLost
<1>8. CASE Reconnect(s) BY <1>1, <1>8, RestingConns DEF Reconnect
<1> QED BY <1>4, <1>5, <1>6, <1>7, <1>8

\* The fields of the fetch, and of what is known of the adapter, may be set one by one.
LEMMA FieldsOfTheFetch ==
  ASSUME FeedTypes
  PROVE  /\ fetch.at \in Timed \cup {"asking", "backoff", "gone"} /\ fetch.expired \in BOOLEAN
         /\ fetch.cancelled \in BOOLEAN /\ fetch.base \in Adapters \cup {Nowhere}
         /\ orion.found \in Adapters \cup {Nowhere} /\ orion.backingOff \in BOOLEAN
         /\ orion.holder \in {NoReader, "fetch", "reading"}
         /\ {"at", "expired", "cancelled", "base"} \subseteq DOMAIN fetch
         /\ {"found", "backingOff", "holder"} \subseteq DOMAIN orion
         /\ \A p \in Timed \cup {"backoff", "asking", "gone"} : [fetch EXCEPT !.at = p] \in FetchType
         /\ \A b \in Adapters : [fetch EXCEPT !.at = "resolving", !.base = b] \in FetchType
         /\ [fetch EXCEPT !.expired = TRUE] \in FetchType
         /\ [fetch EXCEPT !.cancelled = TRUE] \in FetchType
<1>1. fetch \in FetchType /\ orion \in OrionType BY DEF FeedTypes
<1>2. /\ fetch.at \in Timed \cup {"asking", "backoff", "gone"} /\ fetch.expired \in BOOLEAN
      /\ fetch.cancelled \in BOOLEAN /\ fetch.base \in Adapters \cup {Nowhere}
      /\ {"at", "expired", "cancelled", "base"} \subseteq DOMAIN fetch
  BY <1>1 DEF FetchType
<1>3. /\ orion.found \in Adapters \cup {Nowhere} /\ orion.backingOff \in BOOLEAN
      /\ orion.holder \in {NoReader, "fetch", "reading"}
      /\ {"found", "backingOff", "holder"} \subseteq DOMAIN orion
  BY <1>1 DEF OrionType
<1>4. /\ \A p \in Timed \cup {"backoff", "asking", "gone"} : [fetch EXCEPT !.at = p] \in FetchType
      /\ \A b \in Adapters : [fetch EXCEPT !.at = "resolving", !.base = b] \in FetchType
  BY <1>1 DEF FetchType, Timed
<1>5. /\ [fetch EXCEPT !.expired = TRUE] \in FetchType
      /\ [fetch EXCEPT !.cancelled = TRUE] \in FetchType
  BY <1>1 DEF FetchType
<1> QED BY <1>2, <1>3, <1>4, <1>5

\* So may those of what is known of the adapter.
LEMMA FieldsOfOrion ==
  ASSUME NEW o \in OrionType
  PROVE  /\ \A h \in {NoReader, "fetch", "reading"} :
              [o EXCEPT !.holder = h] \in OrionType /\ [o EXCEPT !.holder = h].holder = h
         /\ [o EXCEPT !.backingOff = FALSE] \in OrionType /\ [o EXCEPT !.backingOff = FALSE].holder = o.holder
         /\ [o EXCEPT !.found = Nowhere] \in OrionType /\ [o EXCEPT !.found = Nowhere].holder = o.holder
  BY DEF OrionType

\* Whoever gets the lock of the lookup, the rest stays as it is.
LEMMA LockHandedOn ==
  ASSUME NEW o, o \in OrionType, NEW h \in {NoReader, "fetch", "reading"}
  PROVE  [o EXCEPT !.holder = h] \in OrionType /\ [o EXCEPT !.holder = h].holder = h
  BY FieldsOfOrion

\* A lookup ends with the lock free.
LEMMA ReadEnds ==
  ASSUME FeedTypes
  PROVE  /\ Named \in OrionType /\ Unreadable \in OrionType
         /\ Named.holder = NoReader /\ Unreadable.holder = NoReader
  BY FieldsOfTheFetch DEF FeedTypes, Named, Unreadable, OrionType

\* Bytes that come in change the ring and the count of them, and keep the one to the other.
LEMMA PumpStep ==
  ASSUME FeedInv, Pump
  PROVE  conn' = conn /\ FeedTypes' /\ RingHoldsTheLast' /\ HeldByItsReader' /\ StopIsFinal'
<1>1. FeedTypes /\ RingHoldsTheLast /\ HeldByItsReader /\ StopIsFinal BY DEF FeedInv
<1>2. PICK n \in 1 .. 2 : total + n <= MaxBytes /\ total' = total + n /\ RingAppend(Chunk(n)) BY DEF Pump
<1>3. total \in Nat /\ MaxBytes \in Nat BY <1>1, StreamFeedAssumption DEF FeedTypes
<1>4. data' \in Seq(Nat) /\ Len(data') <= Cap /\ start' \in Nat /\ RingHoldsTheLast'
  BY <1>1, <1>2, AppendKeepsTheRing
<1>5. UNCHANGED <<ended, fetch, stop, orion, reading, conn, adapter, moves>> BY DEF Pump, sourceVars, baseVars
<1>6. total' \in 0 .. MaxBytes BY <1>2, <1>3
<1> QED BY <1>1, <1>4, <1>5, <1>6 DEF FeedTypes, HeldByItsReader, StopIsFinal

\* No other step touches what the ring holds.
LEMMA RingLeftAlone ==
  ASSUME FeedInv, [FeedNext]_feedVars, ~Pump
  PROVE  RingHoldsTheLast'
<1>1. UNCHANGED <<data, start, total>>
  <2>1. CASE \/ FetchIsTold \/ FetchReads \/ FetchIsAnswered \/ ReadInTheBackground \/ BackgroundStep
             \/ CloseOrion \/ RetryAfter \/ AdapterMoves
    BY <2>1 DEF FetchIsTold, FetchReads, FetchIsAnswered, ReadInTheBackground, BackgroundStep, CloseOrion,
                RetryAfter, AdapterMoves, ringVars
  <2>2. CASE \/ Resolved \/ Connected \/ FetchFails \/ StreamBreaks \/ BackoffOver
             \/ DeadlinePasses \/ WakeUp \/ StopSource \/ StopReturns
    BY <2>2 DEF Resolved, Connected, FetchFails, StreamBreaks, BackoffOver, DeadlinePasses, WakeUp,
                StopSource, StopReturns, ringVars
  <2>3. CASE \E s \in Slaves : \/ Request(s) \/ Served(s) \/ Unanswered(s) \/ TimesOut(s)
                               \/ ConnectionLost(s) \/ Reconnect(s)
    BY <2>3 DEF Request, Served, Unanswered, TimesOut, ConnectionLost, Reconnect, ringVars
  <2>4. CASE UNCHANGED feedVars BY <2>4 DEF feedVars, ringVars
  <2> QED BY <2>1, <2>2, <2>3, <2>4 DEF FeedNext
<1> QED BY <1>1 DEF FeedInv, RingHoldsTheLast, RunsFrom

\* A step of the fetch, of its stop or of a lookup leaves the connections alone and keeps the rest.
LEMMA SourceStep ==
  ASSUME FeedInv,
         \/ FetchIsTold \/ FetchReads \/ FetchIsAnswered
         \/ ReadInTheBackground \/ BackgroundStep \/ CloseOrion \/ RetryAfter \/ AdapterMoves
         \/ Resolved \/ Connected \/ FetchFails \/ Pump \/ StreamBreaks \/ BackoffOver
         \/ DeadlinePasses \/ WakeUp \/ StopSource \/ StopReturns
  PROVE  conn' = conn /\ FeedTypes' /\ HeldByItsReader' /\ StopIsFinal'
<1> USE DEF NoReader
<1>1. FeedTypes /\ HeldByItsReader /\ StopIsFinal BY DEF FeedInv
<1>2. CASE FetchIsTold
  <2>1. Remembered \in Adapters BY <1>1, FieldsOfTheFetch, StreamFeedAssumption DEF Remembered
  <2>2. fetch' \in FetchType BY <1>2, <1>1, <2>1, FieldsOfTheFetch DEF FetchIsTold, Completed
  <2>3. fetch'.at = "resolving" /\ fetch'.cancelled = fetch.cancelled
    BY <1>2, <1>1, FieldsOfTheFetch DEF FetchIsTold, Completed
  <2> QED BY <1>1, <1>2, <2>2, <2>3 DEF FetchIsTold, FeedTypes, HeldByItsReader, StopIsFinal, ringVars, baseVars
<1>3. CASE FetchReads
  <2>1. orion' \in OrionType /\ orion'.holder = "fetch" BY <1>3, <1>1, FieldsOfOrion DEF FetchReads, FeedTypes
  <2> QED BY <1>1, <1>3, <2>1 DEF FetchReads, FeedTypes, HeldByItsReader, StopIsFinal, ringVars, sourceVars
<1>4. CASE FetchIsAnswered
  <2>1. PICK b \in Adapters : Completed(b)
    BY <1>1, <1>4, StreamFeedAssumption DEF FetchIsAnswered, FeedTypes
  <2>2. fetch' \in FetchType /\ fetch'.at = "resolving" /\ fetch'.cancelled = fetch.cancelled
    BY <1>1, <2>1, FieldsOfTheFetch DEF Completed
  <2>3. orion' \in OrionType /\ orion'.holder = NoReader BY <1>1, <1>4, ReadEnds DEF FetchIsAnswered
  <2> QED BY <1>1, <1>4, <2>2, <2>3 DEF FetchIsAnswered, FeedTypes, HeldByItsReader, StopIsFinal, ringVars
<1>5. CASE ReadInTheBackground
  BY <1>1, <1>5 DEF ReadInTheBackground, FeedTypes, HeldByItsReader, StopIsFinal, ringVars, sourceVars
<1>6. CASE BackgroundStep
  <2>1. UNCHANGED <<ringVars, sourceVars, conn, adapter, moves>> BY <1>6 DEF BackgroundStep
  <2>2. orion' \in OrionType /\ reading' \in {"none", "reading"} /\ (orion'.holder = "reading" <=> reading' = "reading")
        /\ (orion'.holder = "fetch" => orion.holder = "fetch")
    <3>1. CASE reading = "asking" /\ orion.holder = NoReader /\ Known
      BY <1>1, <1>6, <3>1 DEF BackgroundStep, FeedTypes
    <3>2. CASE reading = "asking" /\ orion.holder = NoReader /\ ~Known
      BY <1>1, <1>6, <3>2, FieldsOfOrion DEF BackgroundStep, FeedTypes
    <3>3. CASE reading = "reading"
      BY <1>1, <1>6, <3>3, ReadEnds DEF BackgroundStep
    <3> QED BY <1>6, <3>1, <3>2, <3>3 DEF BackgroundStep
  <2> QED BY <1>1, <2>1, <2>2 DEF FeedTypes, HeldByItsReader, StopIsFinal, ringVars, sourceVars
<1>7. CASE CloseOrion
  <2>1. orion' \in OrionType /\ orion'.holder = IF orion.holder = "reading" THEN NoReader ELSE orion.holder
    BY <1>1, <1>7, FieldsOfTheFetch, FieldsOfOrion DEF CloseOrion, FeedTypes
  <2> QED BY <1>1, <1>7, <2>1 DEF CloseOrion, FeedTypes, HeldByItsReader, StopIsFinal, ringVars, sourceVars
<1>8. CASE RetryAfter
  <2>1. orion' \in OrionType /\ orion'.holder = orion.holder BY <1>1, <1>8, FieldsOfOrion DEF RetryAfter, FeedTypes
  <2> QED BY <1>1, <1>8, <2>1 DEF RetryAfter, FeedTypes, HeldByItsReader, StopIsFinal, ringVars, sourceVars
<1>9. CASE AdapterMoves
  BY <1>1, <1>9, StreamFeedAssumption
     DEF AdapterMoves, FeedTypes, HeldByItsReader, StopIsFinal, ringVars, sourceVars, baseVars
<1>10. CASE Resolved \/ Connected \/ BackoffOver \/ DeadlinePasses
  <2>1. /\ fetch' \in FetchType /\ fetch'.at # "gone" /\ fetch'.cancelled = fetch.cancelled
        /\ fetch.at \notin {"asking", "gone"}
    <3>1. CASE DeadlinePasses
      <4>1. fetch' = [fetch EXCEPT !.expired = TRUE] /\ fetch.at \in Timed BY <3>1 DEF DeadlinePasses
      <4> QED BY <1>1, <4>1, FieldsOfTheFetch DEF Timed
    <3>2. CASE Resolved \/ Connected \/ BackoffOver
      <4>1. PICK p \in {"connecting", "pumping", "asking"} : fetch' = [fetch EXCEPT !.at = p]
        BY <3>2 DEF Resolved, Connected, BackoffOver
      <4>2. fetch.at \notin {"asking", "gone"} BY <3>2 DEF Resolved, Connected, BackoffOver
      <4> QED BY <1>1, <4>1, <4>2, FieldsOfTheFetch DEF Timed
    <3> QED BY <1>10, <3>1, <3>2
  <2>2. UNCHANGED <<ringVars, stop, baseVars, conn, adapter, moves>>
    BY <1>10 DEF Resolved, Connected, BackoffOver, DeadlinePasses
  <2> QED BY <1>1, <2>1, <2>2 DEF FeedTypes, HeldByItsReader, StopIsFinal, ringVars, baseVars
<1>11. ASSUME NEW early \in BOOLEAN, Again(early)
       PROVE  fetch' \in FetchType /\ fetch'.at \in {"backoff", "asking"} /\ fetch'.cancelled = fetch.cancelled
  BY <1>1, <1>11, FieldsOfTheFetch DEF Again, FetchType
<1>12. BaseForgotten \in OrionType /\ BaseForgotten.holder = orion.holder
  BY <1>1, FieldsOfOrion DEF BaseForgotten, FeedTypes
<1>13. CASE FetchFails \/ StreamBreaks
  <2>1. fetch' \in FetchType /\ fetch'.at \in {"backoff", "asking"} /\ fetch'.cancelled = fetch.cancelled
    BY <1>11, <1>13 DEF FetchFails, StreamBreaks
  <2>2. orion' \in OrionType /\ orion'.holder = orion.holder /\ fetch.at \in Timed
    BY <1>1, <1>12, <1>13 DEF FetchFails, StreamBreaks, FeedTypes, baseVars, Timed
  <2>3. UNCHANGED <<ringVars, stop, reading, conn, adapter, moves>>
    BY <1>13 DEF FetchFails, StreamBreaks, baseVars
  <2> QED BY <1>1, <2>1, <2>2, <2>3 DEF FeedTypes, HeldByItsReader, StopIsFinal, ringVars, Timed
<1>14. CASE Pump BY <1>14, PumpStep
<1>15. CASE WakeUp
  <2>1. LockGivenBack \in {NoReader, "reading"} /\ (LockGivenBack = "reading" <=> orion.holder = "reading")
    BY <1>1, FieldsOfTheFetch DEF LockGivenBack
  <2>2. /\ orion' \in OrionType /\ orion'.holder = LockGivenBack
        /\ fetch' \in FetchType /\ fetch'.cancelled = fetch.cancelled
        /\ (fetch'.at = "gone" => fetch.cancelled)
    <3>1. PICK early \in BOOLEAN : Wakes(early) BY <1>15 DEF WakeUp
    <3>2. CASE fetch.cancelled
      <4>1. orion' = [orion EXCEPT !.holder = LockGivenBack] /\ fetch' = [fetch EXCEPT !.at = "gone"]
        BY <3>1, <3>2 DEF Wakes
      <4>2. orion' \in OrionType /\ orion'.holder = LockGivenBack
        <5>1. orion \in OrionType BY <1>1 DEF FeedTypes
        <5> QED BY <2>1, <4>1, <5>1, LockHandedOn
      <4>3. fetch' \in FetchType /\ fetch'.cancelled = fetch.cancelled BY <1>1, <4>1, FieldsOfTheFetch
      <4> QED BY <3>2, <4>2, <4>3
    <3>3. CASE ~fetch.cancelled
      <4>1. Again(early) BY <3>1, <3>3 DEF Wakes
      <4>2. orion' = [BaseForgotten EXCEPT !.holder = LockGivenBack] \/ orion' = [orion EXCEPT !.holder = LockGivenBack]
        BY <3>1, <3>3 DEF Wakes
      <4>3. orion' \in OrionType /\ orion'.holder = LockGivenBack
        <5>1. orion \in OrionType BY <1>1 DEF FeedTypes
        <5>2. CASE orion' = [BaseForgotten EXCEPT !.holder = LockGivenBack] BY <1>12, <2>1, <5>2, LockHandedOn
        <5>3. CASE orion' = [orion EXCEPT !.holder = LockGivenBack] BY <2>1, <5>1, <5>3, LockHandedOn
        <5> QED BY <4>2, <5>2, <5>3
      <4> QED BY <1>11, <4>1, <4>3
    <3> QED BY <3>2, <3>3
  <2>3. UNCHANGED <<ringVars, stop, reading, conn, adapter, moves>> /\ fetch.at # "gone" BY <1>15 DEF WakeUp
  <2> QED BY <1>1, <2>1, <2>2, <2>3 DEF FeedTypes, HeldByItsReader, StopIsFinal, ringVars
<1>16. CASE StopSource
  <2>1. fetch' \in FetchType /\ fetch'.at = fetch.at /\ fetch'.cancelled
    BY <1>1, <1>16, FieldsOfTheFetch DEF StopSource
  <2> QED BY <1>1, <1>16, <2>1 DEF StopSource, RingEnd, FeedTypes, HeldByItsReader, StopIsFinal, baseVars
<1>17. CASE StopReturns
  BY <1>1, <1>17 DEF StopReturns, FeedTypes, HeldByItsReader, StopIsFinal, ringVars, baseVars
<1> QED BY <1>2, <1>3, <1>4, <1>5, <1>6, <1>7, <1>8, <1>9, <1>10, <1>13, <1>14, <1>15, <1>16, <1>17

\* Nothing is out at the start.
LEMMA FeedInvInit == FeedInit => FeedInv
<1> SUFFICES ASSUME FeedInit PROVE FeedInv OBVIOUS
<1>1. \A s \in Slaves : conn[s] = Idle BY DEF FeedInit
<1>2. conn \in [Slaves -> ConnType] BY RestingConns DEF FeedInit, ConnInv
<1>3. FeedTypes
  <2>1. fetch \in FetchType /\ orion \in OrionType BY DEF FeedInit, FetchType, OrionType
  <2>2. MaxBytes \in Nat /\ MaxMoves \in Nat BY StreamFeedAssumption
  <2>3. total = 0 /\ start = 0 /\ moves = 0 /\ ended \in BOOLEAN /\ stop = "none" /\ reading = "none" /\ adapter \in Adapters
    BY DEF FeedInit
  <2>4. data \in Seq(Nat) /\ Len(data) <= Cap BY EmptySeq, StreamFeedAssumption DEF FeedInit
  <2> QED BY <1>2, <2>1, <2>2, <2>3, <2>4 DEF FeedTypes
<1>5. RingHoldsTheLast BY EmptySeq DEF FeedInit, RingHoldsTheLast, RunsFrom
<1>4. HeldByItsReader /\ StopIsFinal BY DEF FeedInit, HeldByItsReader, StopIsFinal, NoReader
<1> QED BY <1>1, <1>3, <1>4, <1>5, RestingConns DEF FeedInv

\* Every step of the source and of the connections keeps the invariant.
LEMMA FeedInvStep == FeedInv /\ [FeedNext]_feedVars => FeedInv'
<1> SUFFICES ASSUME FeedInv, [FeedNext]_feedVars PROVE FeedInv' OBVIOUS
<1>0. RingHoldsTheLast' BY PumpStep, RingLeftAlone
<1>1. CASE \E s \in Slaves : \/ Request(s) \/ Served(s) \/ Unanswered(s) \/ TimesOut(s)
                             \/ ConnectionLost(s) \/ Reconnect(s)
  <2>1. /\ UNCHANGED <<ringVars, sourceVars, baseVars, adapter, moves>>
        /\ conn' \in [Slaves -> ConnType]
        /\ \A t \in Slaves : ConnInv(conn'[t])
    BY <1>1, ConnectionsStep
  <2>2. FeedTypes' /\ HeldByItsReader' /\ StopIsFinal'
    BY <2>1 DEF FeedInv, FeedTypes, HeldByItsReader, StopIsFinal, ringVars, sourceVars, baseVars
  <2> QED BY <1>0, <2>1, <2>2 DEF FeedInv
<1>2. CASE \/ FetchIsTold \/ FetchReads \/ FetchIsAnswered
           \/ ReadInTheBackground \/ BackgroundStep \/ CloseOrion \/ RetryAfter \/ AdapterMoves
           \/ Resolved \/ Connected \/ FetchFails \/ Pump \/ StreamBreaks \/ BackoffOver
           \/ DeadlinePasses \/ WakeUp \/ StopSource \/ StopReturns
  BY <1>0, <1>2, SourceStep DEF FeedInv
<1>3. CASE UNCHANGED feedVars
  BY <1>0, <1>3 DEF feedVars, ringVars, sourceVars, baseVars, FeedInv, FeedTypes, HeldByItsReader, StopIsFinal,
                    ConnInv, RunsFrom
<1> QED BY <1>1, <1>2, <1>3 DEF FeedNext

\* Whatever the boxes ask for and whenever a stop or a deadline lands, each connection keeps
\* what runs on in it, the ring what came in last, and the lock of the lookup and the stop keep theirs.
THEOREM FeedInvariant == FeedSpec => []FeedInv
BY FeedInvInit, FeedInvStep, PTL DEF FeedSpec

\* The parts of a stream, its lookup and its connections are always one of those the code has.
THEOREM FeedTypeCorrect == FeedSpec => []FeedTypeOK
<1>1. ASSUME FeedInv PROVE FeedTypeOK
  <2>1. FeedTypes BY <1>1 DEF FeedInv
  <2>2. \A s \in Slaves : conn[s].at \in {"idle", "waiting", "closed"}
    BY <2>1, FieldsOfAConn DEF FeedTypes
  <2> QED BY <2>1, <2>2, FieldsOfTheFetch DEF FeedTypes, FeedTypeOK
<1> QED BY <1>1, FeedInvariant, PTL

\* RingBuffer and _serve: what a box was given on a connection is the bytes the station sent from
\* the one it was placed at on, each once; no byte the ring dropped meanwhile, no redial, no wait
\* that ended early or late and no stop leaves a hole in it or repeats a byte.
THEOREM RunsOnWithoutAGap == FeedSpec => []WithoutAGap
<1>1. FeedInv => WithoutAGap BY DEF FeedInv, ConnInv, RunsFrom, WithoutAGap
<1> QED BY <1>1, FeedInvariant, PTL

\* What a connection holds, and what it waits for, are numbers.
LEMMA WhatAConnectionHolds ==
  ASSUME FeedInv, NEW s \in Slaves
  PROVE  /\ conn[s] \in ConnType /\ EndOffset \in Nat /\ Held(s) \in Nat
         /\ conn[s].serve \in Nat /\ conn[s].need \in Nat /\ conn[s].offset \in Nat /\ conn[s].given \in Seq(Nat)
<1>1. conn[s] \in ConnType /\ EndOffset \in Nat BY RingBytes DEF FeedInv, FeedTypes
<1>2. conn[s].offset \in Nat BY <1>1, FieldsOfAConn
<1>3. Held(s) \in Nat BY <1>1, <1>2 DEF Held, Larger
<1> QED BY <1>1, <1>3, FieldsOfAConn

\* wait_for and read: a request goes without an answer only when the ring holds nothing for it;
\* what the station sent before its stream was stopped still goes out.
THEOREM OwedBytesAreServed == FeedSpec => OwedIsServed
<1>1. ASSUME FeedInv, [FeedNext]_feedVars, NEW s \in Slaves,
             conn[s].at = "waiting", conn'[s].at = "idle", conn'[s].given = conn[s].given
      PROVE  Held(s) = 0
  <2>1. PICK t \in Slaves : Request(t) \/ Served(t) \/ Unanswered(t) \/ TimesOut(t) \/ ConnectionLost(t) \/ Reconnect(t)
    <3>1. conn' # conn BY <1>1
    <3> QED BY <1>1, <3>1, SourceStep DEF FeedNext, feedVars
  <2>2. conn \in [Slaves -> ConnType] /\ ConnInv(conn[s]) BY <1>1 DEF FeedInv, FeedTypes
  <2>3. CASE t # s
    <3>1. conn' = [conn EXCEPT ![t] = conn'[t]]
      BY <2>1, <2>2 DEF Request, Served, Unanswered, TimesOut, ConnectionLost, Reconnect, Answer
    <3> QED BY <1>1, <2>2, <2>3, <3>1
  <2>4. CASE t = s /\ (Served(s) \/ TimesOut(s))
    <3>1. Answer(s) BY <2>4 DEF Served, TimesOut
    <3>2. \/ conn'[s] = Shut \/ conn'[s] = conn[s]
          \/ \E chunk \in Seq(Nat) : /\ RunsFrom(chunk, conn[s].offset) /\ chunk # <<>>
                                     /\ conn'[s] = Given(conn[s], chunk)
      BY <1>1, <3>1, AnswerMovesOn
    <3>3. conn[s].placed BY <1>1, <2>2 DEF ConnInv
    <3>4. ASSUME NEW chunk \in Seq(Nat), RunsFrom(chunk, conn[s].offset), chunk # <<>>,
                 conn'[s] = Given(conn[s], chunk) PROVE FALSE
      <4>1. Given(conn[s], chunk).given # conn[s].given BY <2>2, <3>3, <3>4, GivenMovesOn
      <4> QED BY <1>1, <3>4, <4>1
    <3> QED BY <1>1, <3>2, <3>4, RestingConns
  <2>5. CASE t = s /\ Unanswered(s)
    BY <1>1, <2>5, WhatAConnectionHolds DEF Unanswered, NothingToCome, Held, Larger
  <2>6. CASE t = s /\ (Request(s) \/ ConnectionLost(s) \/ Reconnect(s))
    BY <1>1, <2>2, <2>6, RestingConns DEF Request, ConnectionLost, Reconnect
  <2> QED BY <2>1, <2>3, <2>4, <2>5, <2>6
<1>2. FeedInv /\ [FeedNext]_feedVars =>
        [\A s \in Slaves :
           (conn[s].at = "waiting" /\ conn'[s].at = "idle" /\ conn'[s].given = conn[s].given)
             => Held(s) = 0]_feedVars
  BY <1>1
<1> QED BY <1>2, FeedInvariant, PTL DEF FeedSpec, OwedIsServed

\* DATA_WAIT_S: a request whose wait times out was owed more than the ring held, since no request
\* waits for more than it will be served.
THEOREM NoWaitForNothing == FeedSpec => NoNeedlessWait
<1>1. ASSUME FeedInv, NEW s \in Slaves, TimesOut(s) PROVE Held(s) < conn[s].serve
  <2>1. conn[s].serve >= 1 /\ conn[s].need <= conn[s].serve BY <1>1 DEF FeedInv, ConnInv, TimesOut
  <2>2. ~(EndOffset >= conn[s].offset + conn[s].need) BY <1>1 DEF TimesOut, Enough
  <2> QED BY <1>1, <2>1, <2>2, WhatAConnectionHolds DEF Held, Larger
<1>2. FeedInv /\ [FeedNext]_feedVars => [\A s \in Slaves : TimesOut(s) => Held(s) < conn[s].serve]_feedVars BY <1>1
<1> QED BY <1>2, FeedInvariant, PTL DEF FeedSpec, NoNeedlessWait

\* OrionBase._lookup, StreamSource.stop: the lock is held by who is reading and by nobody that was
\* called off, and once a stop has begun the ring has ended and the fetch is called off for good.
THEOREM LookupIsFreed == FeedSpec => [](HeldByItsReader /\ StopIsFinal)
<1>1. FeedInv => HeldByItsReader /\ StopIsFinal BY DEF FeedInv
<1> QED BY <1>1, FeedInvariant, PTL
=============================================================================
