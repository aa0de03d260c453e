--------------------------- MODULE StationSwitch ---------------------------
(***************************************************************************)
(* What the zone master promises about the station of a zone, stated       *)
(* without its sources, its transport channels or its lock: callers ask    *)
(* for a station, every call is answered, only the newest call may win,    *)
(* and the pass may stop the station at any moment.  ZoneMaster implements *)
(* this; ChannelStarts uses it in place of the master.                     *)
(*                                                                         *)
(* A call is named by its number.  play() takes the next url_id and the    *)
(* next generation in the same statement block, both from one, so one      *)
(* number is both.                                                         *)
(***************************************************************************)
EXTENDS Naturals

CONSTANT MaxPlays          \* bound: how many calls of play() a behaviour makes

ASSUME MaxPlaysAssumption == MaxPlays \in Nat \ {0}

VARIABLES
  asked,      \* how many calls have been made: the newest call's number
  station,    \* the call whose station the zone is on, or NoStation
  answer      \* per call: not made yet, open, won or lost

switchVars == <<asked, station, answer>>

Calls     == 1 .. MaxPlays
NoStation == 0

SwitchTypeOK ==
  /\ asked \in 0 .. MaxPlays
  /\ station \in 0 .. MaxPlays
  /\ answer \in [Calls -> {"none", "open", "won", "lost"}]

SwitchInit ==
  /\ asked = 0
  /\ station = NoStation
  /\ answer = [u \in Calls |-> "none"]

\* Somebody asks for a station; nothing changes for a listener yet.
Ask ==
  /\ asked < MaxPlays
  /\ asked' = asked + 1
  /\ answer' = [answer EXCEPT ![asked + 1] = "open"]
  /\ UNCHANGED station

\* The newest call puts its station on the zone.
Win(u) ==
  /\ answer[u] = "open"
  /\ u = asked
  /\ station' = u
  /\ answer' = [answer EXCEPT ![u] = "won"]
  /\ UNCHANGED asked

\* A call that a newer one overtook while it waited gives up.
Lose(u) ==
  /\ answer[u] = "open"
  /\ u # asked
  /\ answer' = [answer EXCEPT ![u] = "lost"]
  /\ UNCHANGED <<asked, station>>

\* The zone emptied: whatever is on stops.
StopStation ==
  /\ station # NoStation
  /\ station' = NoStation
  /\ UNCHANGED <<asked, answer>>

SwitchNext ==
  \/ Ask
  \/ \E u \in Calls : Win(u) \/ Lose(u)
  \/ StopStation

SwitchSpec == SwitchInit /\ [][SwitchNext]_switchVars

AnswerFairness == \A u \in Calls : WF_switchVars(Win(u) \/ Lose(u))

FairSwitchSpec == SwitchSpec /\ AnswerFairness
=============================================================================
