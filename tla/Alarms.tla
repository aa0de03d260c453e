------------------------------- MODULE Alarms -------------------------------
(***************************************************************************)
(* The alarms of the house: the rule an alarm must keep (domain/alarm.py), *)
(* when it is due by a wall clock that daylight saving moves, what becomes *)
(* of one firing on its day, and the rows that carry it over a restart     *)
(* (adapters/files/house_alarms.py).                                       *)
(*                                                                         *)
(* Real time is a count of instants; the zone adds an offset to each.  A   *)
(* person saves, removes, pauses and edits; the one who rings stands for   *)
(* the caller these rules are written for: it reads the whole book, rings  *)
(* what is owed, lets the clock tick over every day that is open, does on  *)
(* the wire what a RingStep says, and may crash between any two of these.  *)
(***************************************************************************)
EXTENDS Integers, FiniteSets, FiniteSetsExt

CONSTANTS
  Names,          \* the alarms a person may have
  Shapes,         \* what a person may set one to, right or wrong
  LastInstant,    \* where the run ends
  DayLength,      \* instants of a day without a change of the clock
  Offset,         \* per instant of 0 .. Horizon: what the zone adds to it
  Horizon,        \* how far the zone is known
  Weekdays,       \* days of a week
  LookbackDays, LookaheadDays, GapSearch,
  VolumeCeiling, RampCeiling, SnoozeFloor, SnoozeCeiling, LimitFloor, LimitCeiling,
  Before,         \* the alarms there are when it begins: [Names -> an alarm row or NoAlarm]
  PauseDays,      \* the days a pause may last through, NoPause among them
  Channels,       \* what the zone may play by a person's wish
  Levels,         \* how loud a person may have the box
  MaxEdits, MaxCrashes   \* bounds of the run

ASSUME ZoneAssumption == Offset \in [0 .. Horizon -> -DayLength .. DayLength] /\ LastInstant < Horizon

ASSUME AlarmsAssumption ==
  /\ {DayLength, Weekdays} \subseteq Nat \ {0}
  /\ {Horizon, LastInstant, LookbackDays, LookaheadDays, GapSearch} \subseteq Nat
  /\ {SnoozeFloor, SnoozeCeiling, LimitFloor, LimitCeiling} \subseteq Nat
  /\ DayLength * LookbackDays <= LastInstant

VARIABLES
  now,
  alarms,      \* the alarm rows: per name a shape, enabled, setAt; or NoAlarm
  days,        \* the alarm_day rows: per name and day an AlarmDay, or NoDay
  through,     \* alarm_pause: the last day off
  up,          \* the one who rings is there
  ring,        \* what it has on the wire: [name, day, since, alarm, kept] or NoRing
  level, playing,        \* how loud the box is, what the zone plays
  edits, crashes,        \* counted for the bounds
  rung, wished           \* history: <<name, due>> once rung; what a person last had [level, playing]

alarmsVars == <<now, alarms, days, through, up, ring, level, playing, edits, crashes, rung, wished>>

None      == -1
NoAlarm   == [enabled |-> FALSE]
NoPause   == -1
NoDay     == [state |-> "none"]
NoRing    == [name |-> "none"]
AnAlarm   == "alarm"            \* the channel an alarm puts on

-----------------------------------------------------------------------------
(* The one rule for every source. *)

GoodTimes(a)   == DOMAIN a.times = 0 .. Weekdays - 1 /\ \A w \in DOMAIN a.times : a.times[w] \in -1 .. DayLength - 1
GoodSeconds(a) == /\ a.ramp \in 0 .. RampCeiling
                  /\ a.snooze \in SnoozeFloor .. SnoozeCeiling
                  /\ a.limit \in LimitFloor .. LimitCeiling
GoodVolumes(a) == a.start \in 0 .. VolumeCeiling /\ a.max \in a.start .. VolumeCeiling
Validated(a)   == GoodTimes(a) /\ GoodSeconds(a) /\ GoodVolumes(a)

-----------------------------------------------------------------------------
(* When it is due.  Wall is what a clock on the wall shows; Shown is the   *)
(* first instant that shows a wall time, the fold that datetime builds.    *)

Wall(t)  == t + Offset[t]
DayOf(t) == Wall(t) \div DayLength
Today    == DayOf(now)
AllDays  == 0 .. Horizon \div DayLength + 1

WallTimes == 0 .. Horizon + 2 * DayLength
Shown == [w \in WallTimes |->
            LET at == {t \in 0 .. Horizon : Wall(t) = w} IN IF at = {} THEN None ELSE Min(at)]

\* A time in a gap rings at the first one after it that exists.
Exists == [w \in WallTimes |->
             LET later == {v \in (w .. w + GapSearch) \cap WallTimes : Shown[v] # None}
             IN IF later = {} THEN None ELSE Shown[Min(later)]]

DueOn(a, day) ==
  LET at == a.times[day % Weekdays] IN IF at = None THEN None ELSE Exists[day * DayLength + at]

LimitAt(a, due) == due + a.limit

\* What a zone is: instants are counted from a midnight, a gap is no longer than is searched,
\* and a wall time it passes over is not shown later.
ASSUME ClockAssumption ==
  /\ Offset[0] = 0
  /\ \A t \in 1 .. Horizon : Wall(t) <= Wall(t - 1) + GapSearch + 1
  /\ \A t \in 1 .. Horizon : \A u \in t .. Horizon : Wall(u) <= Wall(t - 1) \/ Wall(u) >= Wall(t)

\* It is known for a day beyond the run.
ASSUME HorizonAssumption ==
  \A t \in 0 .. LastInstant : Wall(t) + DayLength <= Wall(Horizon) /\ Wall(t) + DayLength <= Horizon

\* No gap runs over a midnight: what a wake is put off to is on its own day.
ASSUME MidnightAssumption == \A w \in WallTimes : Exists[w] # None => DayOf(Exists[w]) = w \div DayLength

ASSUME BeforeAssumption == DOMAIN Before = Names /\ \A n \in Names : Before[n] # NoAlarm => Before[n].setAt \in Int

\* The book: the alarms whose rows keep the rule.
Book == {n \in Names : alarms[n] # NoAlarm /\ Validated(alarms[n])}

OpenFiringsAnyDay ==
  {f \in [name : {n \in Book : alarms[n].enabled}, day : (Today - LookbackDays .. Today + LookaheadDays) \cap AllDays] :
     /\ f.day > through
     /\ days[f.name][f.day] = NoDay
     /\ LET due == DueOn(alarms[f.name], f.day) IN due # None}

OpenFirings ==
  {f \in [name : {n \in Book : alarms[n].enabled}, day : (Today - LookbackDays .. Today + LookaheadDays) \cap AllDays] :
     /\ f.day > through
     /\ days[f.name][f.day] = NoDay
     /\ LET due == DueOn(alarms[f.name], f.day) IN due # None /\ due >= alarms[f.name].setAt}

Due(f)  == DueOn(alarms[f.name], f.day)
Over(f) == LimitAt(alarms[f.name], Due(f)) <= now
MissedFiringsSilent == {f \in OpenFirings : LimitAt(alarms[f.name], Due(f)) < now}

MissedFirings == {f \in OpenFirings : Over(f)}

OwedFirings   == {f \in OpenFirings : ~Over(f)}
NextFirings   == {f \in OwedFirings : \A g \in OwedFirings : Due(f) <= Due(g)}     \* of one moment: by name

-----------------------------------------------------------------------------
(* What becomes of a firing on its day. *)

Ringing(f)  == [state |-> "ringing", due |-> Due(f), until |-> None, giveBack |-> playing, before |-> level]
RungAgainAfresh(d, giveBack) == [d EXCEPT !.state = "ringing", !.until = None, !.giveBack = giveBack, !.before = level]

RungAgain(d, giveBack) == [d EXCEPT !.state = "ringing", !.until = None, !.giveBack = giveBack]

Skipped(f)  == [state |-> "skipped", due |-> Due(f), until |-> None, giveBack |-> None, before |-> None]
Missed(f)   == [Skipped(f) EXCEPT !.state = "done"]

Step(d, action) == [day |-> d, action |-> action]
Off(d)          == Step([d EXCEPT !.state = "done", !.until = None], "off")

Snoozed(d, a) ==
  LET until == now + a.snooze
  IN IF until >= LimitAt(a, d.due) THEN Off(d)
     ELSE Step([d EXCEPT !.state = "snoozed", !.until = until], "off")

Pressed(d, a, press) ==
  IF d.state # "ringing" THEN Step(d, "none")
  ELSE IF press = "standby" /\ a.sequence = "none" THEN Off(d) ELSE Snoozed(d, a)

Dialled(d, a, digits) ==
  IF d.state # "ringing" \/ digits # a.sequence THEN Step(d, "none") ELSE Off(d)

Ticked(d, a) ==
  IF d.state \notin {"ringing", "snoozed"} THEN Step(d, "none")
  ELSE IF now >= LimitAt(a, d.due)
       THEN Step([d EXCEPT !.state = "done", !.until = None], IF d.state = "ringing" THEN "off" ELSE "none")
       ELSE Step(d, IF d.state = "snoozed" /\ now >= d.until THEN "fire" ELSE "none")

RoundHalfEven(n, d) ==
  LET q == n \div d
      r == 2 * (n % d)
  IN IF r > d \/ (r = d /\ q % 2 = 1) THEN q + 1 ELSE q

RampVolume(a, elapsed) ==
  IF a.ramp <= 0 \/ elapsed >= a.ramp THEN a.max
  ELSE a.start + RoundHalfEven((a.max - a.start) * Max({elapsed, 0}), a.ramp)

-----------------------------------------------------------------------------
(* The one who rings: its wire and what it saves. *)

SaveDay(n, day, d) == days' = [days EXCEPT ![n][day] = d]

OnTheWire(n, day, d) ==
  /\ ring' = [name |-> n, day |-> day, since |-> now, alarm |-> alarms[n], kept |-> d]
  /\ level' = RampVolume(alarms[n], 0)
  /\ playing' = AnAlarm

OffTheWire(d) ==
  /\ ring' = NoRing
  /\ level' = d.before
  /\ playing' = d.giveBack

\* A snooze in the meantime is over without a word on the wire.
Do(n, day, step) ==
  /\ SaveDay(n, day, IF step.action = "fire" THEN RungAgain(step.day, playing) ELSE step.day)
  /\ CASE step.action = "fire" -> OnTheWire(n, day, RungAgain(step.day, playing))
       [] step.action = "off"  -> OffTheWire(step.day)
       [] OTHER                -> UNCHANGED <<ring, level, playing>>

IsOpen(d) == d.state \in {"ringing", "snoozed"}
Taken     == \E n \in Names, day \in AllDays : n \in Book /\ IsOpen(days[n][day])

\* Its alarm was taken away under it.
Bereft == ring # NoRing /\ (ring.name \notin Book \/ days[ring.name][ring.day] = NoDay)

Miss ==
  \E f \in MissedFirings :
    /\ SaveDay(f.name, f.day, Missed(f))
    /\ UNCHANGED <<now, alarms, through, up, ring, level, playing, edits, crashes, rung, wished>>

\* One alarm at a time has the zone; another that falls due meanwhile is let pass.
Ring ==
  \E f \in NextFirings :
    /\ Due(f) <= now /\ ~Bereft
    /\ IF Taken
       THEN SaveDay(f.name, f.day, Skipped(f)) /\ UNCHANGED <<ring, level, playing, rung>>
       ELSE /\ SaveDay(f.name, f.day, Ringing(f))
            /\ OnTheWire(f.name, f.day, Ringing(f))
            /\ rung' = rung \cup {<<f.name, Due(f)>>}
    /\ UNCHANGED <<now, alarms, through, up, edits, crashes, wished>>

Tick(n, day) ==
  LET step == Ticked(days[n][day], alarms[n])
  IN /\ n \in Book
     /\ step # Step(days[n][day], "none")
     /\ Do(n, day, step)
     /\ UNCHANGED <<now, alarms, through, up, edits, crashes, rung, wished>>

\* After a restart: a day that was ringing goes on, with what it has to give back.
Resume(n, day) ==
  LET d == days[n][day]
  IN /\ n \in Book
     /\ d.state = "ringing" /\ Ticked(d, alarms[n]) = Step(d, "none")
     /\ ring = NoRing
     /\ SaveDay(n, day, RungAgain(d, d.giveBack))
     /\ OnTheWire(n, day, RungAgain(d, d.giveBack))
     /\ UNCHANGED <<now, alarms, through, up, edits, crashes, rung, wished>>

Drop ==
  /\ Bereft
  /\ OffTheWire(ring.kept)
  /\ UNCHANGED <<now, alarms, days, through, up, edits, crashes, rung, wished>>

OpenDays == {p \in Names \X AllDays : IsOpen(days[p[1]][p[2]])}
Attend == Miss \/ Ring \/ Drop \/ \E p \in OpenDays : Tick(p[1], p[2]) \/ Resume(p[1], p[2])

\* Nothing is left to do at this instant.
Settled ==
  /\ up
  /\ MissedFirings = {}
  /\ \A f \in OwedFirings : Due(f) > now
  /\ ~Bereft
  /\ \A p \in OpenDays : p[1] \in Book =>
       LET d == days[p[1]][p[2]] IN Ticked(d, alarms[p[1]]) = Step(d, "none") /\ (d.state = "ringing" => ring # NoRing)

-----------------------------------------------------------------------------
(* Those who live there. *)

Press(press) ==
  /\ up /\ Settled /\ ring # NoRing
  /\ Do(ring.name, ring.day, Pressed(days[ring.name][ring.day], alarms[ring.name], press))
  /\ UNCHANGED <<now, alarms, through, up, edits, crashes, rung, wished>>

Dial(digits) ==
  /\ up /\ Settled /\ ring # NoRing
  /\ alarms[ring.name].sequence # "none"
  /\ Do(ring.name, ring.day, Dialled(days[ring.name][ring.day], alarms[ring.name], digits))
  /\ UNCHANGED <<now, alarms, through, up, edits, crashes, rung, wished>>

\* What a person has on is changed while nothing rings; how loud, while no day is open.
Listen ==
  /\ edits < MaxEdits /\ edits' = edits + 1
  /\ ring = NoRing /\ \A p \in OpenDays : days[p[1]][p[2]].state # "ringing"
  /\ playing' \in Channels
  /\ level' \in IF OpenDays = {} THEN Levels ELSE {level}
  /\ <<level, playing>>' # <<level, playing>>
  /\ wished' = [level |-> level', playing |-> playing']
  /\ UNCHANGED <<now, alarms, days, through, up, ring, crashes, rung>>

\* The row of an alarm: what a person set it to, whether it is on, and since when.
Row(shape, enabled, setAt) ==
  [times |-> shape.times, ramp |-> shape.ramp, snooze |-> shape.snooze, limit |-> shape.limit,
   sequence |-> shape.sequence, start |-> shape.start, max |-> shape.max, enabled |-> enabled, setAt |-> setAt]

Edit == edits < MaxEdits /\ edits' = edits + 1

\* write_alarm: refused by the rule, nothing is written.  It stands between two instants,
\* and its moment is written down as the later one.
SaveAlarm(n, shape, enabled) ==
  /\ Edit
  /\ Validated(shape)
  /\ enabled \/ alarms[n] # NoAlarm
  /\ alarms' = [alarms EXCEPT ![n] = Row(shape, enabled, now + 1)]
  /\ UNCHANGED <<now, days, through, up, ring, level, playing, crashes, rung, wished>>

\* delete_alarm: with its days.  While nobody is there to give back what it holds, it would be lost.
DeleteAlarm(n) ==
  /\ Edit
  /\ alarms[n] # NoAlarm
  /\ \A day \in AllDays : days[n][day].state = "ringing" => up /\ ring # NoRing
  /\ alarms' = [alarms EXCEPT ![n] = NoAlarm]
  /\ days' = [days EXCEPT ![n] = [day \in AllDays |-> NoDay]]
  /\ UNCHANGED <<now, through, up, ring, level, playing, crashes, rung, wished>>

\* A row edited by hand that breaks the rule costs that alarm; nobody edits one that is open.
EditRow(n, shape) ==
  /\ Edit
  /\ ~Validated(shape)
  /\ alarms[n] # NoAlarm
  /\ \A day \in AllDays : ~IsOpen(days[n][day])
  /\ alarms' = [alarms EXCEPT ![n] = Row(shape, TRUE, @.setAt)]
  /\ UNCHANGED <<now, days, through, up, ring, level, playing, crashes, rung, wished>>

WriteAlarmPause(day) ==
  /\ Edit
  /\ day # through
  /\ through' = day
  /\ UNCHANGED <<now, alarms, days, up, ring, level, playing, crashes, rung, wished>>

Crash ==
  /\ up /\ crashes < MaxCrashes /\ crashes' = crashes + 1
  /\ ~Bereft
  /\ up' = FALSE
  /\ ring' = NoRing
  /\ UNCHANGED <<now, alarms, days, through, level, playing, edits, rung, wished>>

Restart ==
  /\ ~up /\ up' = TRUE
  /\ UNCHANGED <<now, alarms, days, through, ring, level, playing, edits, crashes, rung, wished>>

\* The one who rings is prompt: an instant passes when it has nothing to do, or is not there.
Pass ==
  /\ Settled \/ ~up
  /\ now < LastInstant /\ now' = now + 1
  /\ level' = IF ring = NoRing THEN level ELSE RampVolume(alarms[ring.name], now + 1 - ring.since)
  /\ UNCHANGED <<alarms, days, through, up, ring, playing, edits, crashes, rung, wished>>

AlarmsInit ==
  /\ now = DayLength * LookbackDays
  /\ alarms = Before
  /\ days = [n \in Names |-> [day \in AllDays |-> NoDay]]
  /\ through = NoPause
  /\ up = TRUE
  /\ ring = NoRing
  /\ level \in Levels /\ playing = CHOOSE c \in Channels : TRUE
  /\ wished = [level |-> level, playing |-> playing]
  /\ edits = 0 /\ crashes = 0
  /\ rung = {}

AlarmsNext ==
  \/ up /\ Attend
  \/ \E press \in {"key", "standby"} : Press(press)
  \/ \E digits \in {"right", "wrong"} : Dial(digits)
  \/ Listen
  \/ \E n \in Names :
       \/ \E shape \in Shapes : (\E enabled \in BOOLEAN : SaveAlarm(n, shape, enabled)) \/ EditRow(n, shape)
       \/ DeleteAlarm(n)
  \/ \E day \in PauseDays : WriteAlarmPause(day)
  \/ Crash \/ Restart \/ Pass

AlarmsSpec == AlarmsInit /\ [][AlarmsNext]_alarmsVars
-----------------------------------------------------------------------------
(* First is the moment a clock on the wall first shows the time an alarm   *)
(* is set to, or a later one: what a person means, said without folds.     *)

Reached == [w \in 0 .. Horizon |-> Min({t \in 0 .. Horizon : Wall(t) >= w})]
First(a, day) == Reached[day * DayLength + a.times[day % Weekdays]]
HasWake(a, day) == a.times[day % Weekdays] # None
Opens(n, day) == days[n][day] = NoDay /\ days'[n][day].state = "ringing"

\* No wake rings for the second time: not in the hour that comes twice, not after a crash,
\* not when its alarm is saved again, removed and made anew, or the pause is lifted.
RingsOnce ==
  [][\A n \in Names, day \in AllDays : Opens(n, day) => <<n, days'[n][day].due>> \notin rung]_alarmsVars

\* What rings was set before it was due, for a day that is not off, and its limit has not passed.
RingsWhenOwed ==
  [][\A n \in Names, day \in AllDays : Opens(n, day) =>
       LET a == alarms[n] IN
       /\ a.enabled /\ HasWake(a, day) /\ day > through
       /\ days'[n][day].due = First(a, day)
       /\ First(a, day) \in a.setAt .. now
       /\ now < First(a, day) + a.limit]_alarmsVars

\* Whenever the one who rings has done its work, no wake of today or yesterday is unaccounted
\* for: it rang, it was let pass, or it is written down as missed.
EveryWakeIsAnswered ==
  Settled => \A n \in Book, day \in (Today - LookbackDays .. Today) \cap AllDays :
    LET a == alarms[n] IN
    (a.enabled /\ HasWake(a, day) /\ day > through /\ First(a, day) \in a.setAt .. now)
      => days[n][day] # NoDay

\* Nothing sounds past its ring limit, counted in real time from when it was due, whatever
\* was snoozed, crashed or edited in between and however the clock was changed.
SilentPastItsLimit ==
  (Settled /\ ring # NoRing) =>
    now < days[ring.name][ring.day].due + alarms[ring.name].limit

\* When nothing sounds the box is as loud, and the zone plays, as a person last had it.
GivenBack ==
  (Settled /\ ring = NoRing) => <<level, playing>> = <<wished.level, wished.playing>>
=============================================================================
