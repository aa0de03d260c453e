------------------------------ MODULE Deploy ------------------------------
(***************************************************************************)
(* One deploy of a wheel (deploy_service.py, over install_service.apply    *)
(* and the verbs of service_venv.py), the unit as systemd runs it, the     *)
(* service that fills and empties the zone, and a person who may set the   *)
(* switch at any moment of it.                                             *)
(*                                                                         *)
(* A command has two moments: it takes effect, and its answer is read.     *)
(* It may fail at the first and be lost at the second, and a signal may    *)
(* come at either.  Time is counted in polls, and only where a poll or the *)
(* restart of the unit depends on it.                                      *)
(***************************************************************************)
EXTENDS Integers, Sequences, HouseSwitch

CONSTANTS
  Boxes,
  FoundOn,        \* states the unit may be found in while the house is on
  RestartSecs,    \* restart delays the unit may have, in polls
  Least,          \* the least settle window
  DrainTimeout, StartTimeout,
  AnswersLost,    \* whether the switch-off may be obeyed and its answer lost
  MaxWords,       \* bound: how often a person sets the switch
  MaxExits,       \* bound: how often the service exits
  MaxFailures     \* bound: commands that fail

ASSUME DeployAssumption ==
  /\ Who = {"deploy", "person"}
  /\ FoundOn \subseteq {"active", "activating", "inactive", "failed"}
  /\ RestartSecs \subseteq Nat
  /\ {Least, DrainTimeout, StartTimeout, MaxWords, MaxExits, MaxFailures} \subseteq Nat
  /\ AnswersLost \in BOOLEAN

VARIABLES
  exists,      \* whether the house database holds a house
  unit,        \* systemd's unit: state, code it runs, up, longest, restarts, wait
  installed,   \* the code in the venv
  wheel,       \* "sound", "exits" (some time after it starts) or "scriptless"
  restartSec,
  members,     \* the boxes the service holds
  late,        \* of these, the ones taken in over a switch that was off by then, since the drain last read the zone
  heard,       \* the switch as the service's pass read it
  d,           \* the deploy
  found,       \* the switch and the unit as the deploy found them
  word,        \* the person's last word since, whether it came after the switch-off, whether any was on
  words, exits, failures

machineVars == <<exists, unit, installed, wheel, restartSec, members, late, heard, exits>>
vars == <<switchVars, machineVars, d, found, word, words, failures>>

NoWord == [said |-> "nothing", late |-> FALSE, on |-> FALSE]
NotSaid == [how |-> "nothing", switch |-> "nothing", unit |-> "nothing"]

Init ==
  /\ SwitchInit
  /\ exists \in BOOLEAN
  /\ ~exists => row = NoRow
  /\ \E state \in {"active", "activating", "inactive", "failed"} :
       /\ exists /\ Reads => state \in FoundOn
       /\ exists /\ ~Reads => state # "activating"
       /\ ~exists => state = "inactive"
       /\ unit = [state |-> state, code |-> IF state = "active" THEN "old" ELSE "none",
                  up |-> 0, longest |-> 0, restarts |-> 0, wait |-> 1]
  /\ installed = IF exists THEN "old" ELSE "none"
  /\ wheel \in {"sound", "exits", "scriptless"}
  /\ restartSec \in RestartSecs
  /\ members \in IF unit.state = "active" THEN SUBSET Boxes ELSE {{}}
  /\ late = {}
  /\ heard = Reads
  /\ d = [at |-> "read", plan |-> <<>>, done |-> {}, failed |-> "none", own |-> 0,
          already |-> FALSE, waited |-> 0, base |-> 0, window |-> Least, end |-> NotSaid]
  /\ found = [on |-> Reads, unit |-> unit.state]
  /\ word = NoWord
  /\ words = 0 /\ exits = 0 /\ failures = 0
-----------------------------------------------------------------------------
(* The unit, and time. *)

Up(code) == [state |-> "active", code |-> code, up |-> 0, longest |-> 0, restarts |-> 0, wait |-> 0]

Restarted == [unit EXCEPT !.state = "active", !.code = installed, !.up = 0, !.restarts = @ + 1]

\* Restart=on-failure: after RestartSec, unless systemd gives the unit up.
Exit ==
  /\ unit.state = "active" /\ unit.code = "new" /\ wheel = "exits"
  /\ exits < MaxExits
  /\ exits' = exits + 1
  /\ \/ unit' = [unit EXCEPT !.state = "failed", !.code = "none"]
     \/ unit' = IF restartSec = 0 THEN Restarted
                ELSE [unit EXCEPT !.state = "activating", !.code = "none", !.wait = restartSec]
  /\ UNCHANGED <<switchVars, exists, installed, wheel, restartSec, members, late, heard, d, found, word, words, failures>>

\* The restart delay runs out while the deploy is not counting polls.
Revive ==
  /\ unit.state = "activating" /\ d.at \notin {"sleep up", "sleep settled"}
  /\ unit' = Restarted
  /\ UNCHANGED <<switchVars, exists, installed, wheel, restartSec, members, late, heard, exits, d, found, word, words, failures>>

\* settle_window, of a restart delay that could be read.
Window == IF 2 * restartSec > Least THEN 2 * restartSec ELSE Least

Longer(n) == IF n > unit.longest THEN n ELSE unit.longest

\* What one poll's sleep does to the unit; nobody asks how much longer than the window it ran.
Aged ==
  CASE unit.state = "active" /\ unit.up < Window -> [unit EXCEPT !.up = @ + 1, !.longest = Longer(unit.up + 1)]
    [] unit.state = "activating" -> IF unit.wait = 1 THEN Restarted ELSE [unit EXCEPT !.wait = @ - 1]
    [] OTHER -> unit
-----------------------------------------------------------------------------
(* The service and the person. *)

Hear ==
  /\ unit.state = "active" /\ exists
  /\ heard # Reads
  /\ heard' = Reads
  /\ UNCHANGED <<switchVars, exists, unit, installed, wheel, restartSec, members, late, exits, d, found, word, words, failures>>

\* A pass takes boxes in for as long as it lasts: the switch it read may be off by now.
Take(b) ==
  /\ unit.state = "active" /\ exists /\ heard
  /\ b \notin members
  /\ members' = members \cup {b}
  /\ late' = IF Reads THEN late ELSE late \cup {b}
  /\ UNCHANGED <<switchVars, exists, unit, installed, wheel, restartSec, heard, exits, d, found, word, words, failures>>

LetGo(b) ==
  /\ unit.state = "active" /\ ~heard
  /\ b \in members
  /\ members' = members \ {b} /\ late' = late \ {b}
  /\ UNCHANGED <<switchVars, exists, unit, installed, wheel, restartSec, heard, exits, d, found, word, words, failures>>

\* What anybody set before the deploy read the switch is what it finds.
Speak(on) ==
  /\ exists /\ d.at # "read" /\ words < MaxWords
  /\ words' = words + 1
  /\ Set("person", on)
  /\ word' = [said |-> IF on THEN "on" ELSE "off", late |-> "switch_off" \in d.done \/ d.own # 0, on |-> on \/ word.on]
  /\ UNCHANGED <<machineVars, d, found, failures>>
-----------------------------------------------------------------------------
(* The plan, and how a deploy ends. *)

If(condition, step) == IF condition THEN <<step>> ELSE <<>>

\* Variant of PlanSteps: a house that is off is not waited on.
PlanStepsOn(on, active) ==
  If(exists, "backup") \o If(on, "switch_off") \o If(on /\ active, "drain") \o If(active, "stop")
    \o <<"install", "check_venv", "start">> \o If(on, "restore_switch")

PlanSteps(on, active) ==
  If(exists, "backup") \o If(on, "switch_off") \o If(exists /\ active, "drain") \o If(active, "stop")
    \o <<"install", "check_venv", "start">> \o If(on, "restore_switch")

Step == Head(d.plan)

Running == d.at \notin {"read", "recover", "recovered", "ended"}

Ended(how, switch, unitLeft) ==
  d' = [d EXCEPT !.at = "ended", !.end = [how |-> how, switch |-> switch, unit |-> unitLeft]]

\* where_it_stands: the two halves of its sentence.
SwitchStands ==
  CASE "switch_off" \in d.done /\ d.already -> "already off"
    [] Step \in {"switch_off", "restore_switch"} -> "may"
    [] "switch_off" \in d.done -> "off"
    [] OTHER -> "unchanged"

UnitStands ==
  CASE Step \in {"stop", "start"} -> "may"
    [] "start" \in d.done -> "started"
    [] "stop" \in d.done -> "stopped"
    [] OTHER -> "not stopped"

Recovers == "switch_off" \in d.done /\ "stop" \notin d.done /\ Step # "stop"

\* A refusal in a step: the switch is put back first where the deploy recovers.
Failed ==
  IF Recovers
  THEN d' = [d EXCEPT !.at = "recover", !.failed = Step]
  ELSE d' = [d EXCEPT !.at = "ended", !.failed = Step, !.end = [NotSaid EXCEPT !.how = "refused"]]

Done(e) ==
  d' = IF Len(e.plan) = 1
       THEN [e EXCEPT !.at = "ended", !.done = @ \cup {Step}, !.plan = <<>>, !.end = [NotSaid EXCEPT !.how = "deployed"]]
       ELSE [e EXCEPT !.at = "begin", !.done = @ \cup {Step}, !.plan = Tail(@), !.waited = 0]

At(where) == d' = [d EXCEPT !.at = where]

Rest == UNCHANGED <<found, word, words, failures>>
-----------------------------------------------------------------------------
(* The steps. *)

\* check_preconditions, read_situation and check_no_leftovers; a dry run ends with the plan.
Read ==
  /\ d.at = "read"
  /\ \/ \E how \in {"refused", "planned"} : Ended(how, "nothing", "nothing")
     \/ d' = [d EXCEPT !.at = "begin", !.plan = PlanSteps(exists /\ Reads, unit.state = "active")]
  /\ found' = [on |-> Reads, unit |-> unit.state]
  /\ UNCHANGED <<switchVars, machineVars, word, words, failures>>

Begins(step) == d.at = "begin" /\ Step = step

Backup ==
  /\ Begins("backup")
  /\ At("answer")
  /\ Rest /\ UNCHANGED <<switchVars, machineVars>>

SwitchOff ==
  /\ Begins("switch_off")
  /\ Set("deploy", FALSE)
  /\ d' = [d EXCEPT !.at = "answer", !.own = writes + 1]
  /\ Rest /\ UNCHANGED machineVars

\* poll_until over show: empty, or time up, or a sleep.
Drain ==
  /\ Begins("drain")
  /\ IF members = {} THEN At("answer")
     ELSE IF d.waited >= DrainTimeout THEN Failed
     ELSE At("sleep")
  /\ late' = {}
  /\ Rest /\ UNCHANGED <<switchVars, exists, unit, installed, wheel, restartSec, members, heard, exits>>

Sleep ==
  /\ d.at \in {"sleep", "sleep up", "sleep settled"}
  /\ d' = [d EXCEPT !.at = IF d.at = "sleep" THEN "begin" ELSE IF d.at = "sleep up" THEN "up" ELSE "settle",
                    !.waited = @ + 1]
  /\ unit' = Aged
  /\ Rest /\ UNCHANGED <<switchVars, exists, installed, wheel, restartSec, members, late, heard, exits>>

\* The unit's own stop lets the boxes go as well, as far as it gets in its time.
Stop ==
  /\ Begins("stop")
  /\ unit' = [unit EXCEPT !.state = "inactive", !.code = "none"]
  /\ \E left \in SUBSET members : members' = left /\ late' = late \cap left
  /\ At("answer")
  /\ Rest /\ UNCHANGED <<switchVars, exists, installed, wheel, restartSec, heard, exits>>

\* apply: the state directory, the venv, the wheel, then the seed through the wheel.
Applied ==
  /\ installed' = "new"
  /\ At("seed")

Install ==
  /\ Begins("install") /\ Applied
  /\ Rest /\ UNCHANGED <<switchVars, exists, unit, wheel, restartSec, members, late, heard, exits>>

\* A house that is there keeps its switch; a new one takes the old switch file's word, or off.
SeedSwitch ==
  /\ d.at = "seed"
  /\ IF exists THEN UNCHANGED switchVars ELSE \E on \in BOOLEAN : Seed(on)
  /\ exists' = TRUE
  /\ At("answer")
  /\ Rest /\ UNCHANGED <<unit, installed, wheel, restartSec, members, late, heard, exits>>

\* venv_findings, of the venv the wheel was installed into.
Finding == wheel = "scriptless"

CheckVenv ==
  /\ Begins("check_venv")
  /\ IF Finding THEN Failed ELSE At("answer")
  /\ Rest /\ UNCHANGED <<switchVars, machineVars>>

\* systemctl start does nothing to a unit that is active.
Start ==
  /\ Begins("start")
  /\ unit' = IF unit.state = "active" THEN unit ELSE Up(installed)
  /\ At("count")
  /\ Rest /\ UNCHANGED <<switchVars, exists, installed, wheel, restartSec, members, late, heard, exits>>

\* unit_property: nobody asks how the command ended, and what it did not print reads as nothing.
Unread == -1
Restarts == {unit.restarts, Unread}

CountRestarts ==
  /\ d.at = "count"
  /\ \E n \in Restarts : d' = [d EXCEPT !.at = "up", !.base = n]
  /\ Rest /\ UNCHANGED <<switchVars, machineVars>>

Verdict(state) == CASE state = "active" -> "ready" [] state = "failed" -> "failed" [] OTHER -> "wait"

\* poll_until over unit_state with unit_verdict; a restart delay that reads as nothing leaves the least window.
AwaitActive ==
  /\ d.at = "up"
  /\ CASE Verdict(unit.state) = "ready" ->
              \E w \in {Window, Least} : d' = [d EXCEPT !.at = "sleep settled", !.waited = 0, !.window = w]
       [] Verdict(unit.state) = "wait" /\ d.waited < StartTimeout -> At("sleep up")
       [] OTHER -> Failed
  /\ Rest /\ UNCHANGED <<switchVars, machineVars>>

SettleState ==
  /\ d.at = "settle"
  /\ IF unit.state = "active" THEN At("settle count") ELSE Failed
  /\ Rest /\ UNCHANGED <<switchVars, machineVars>>

\* Variant of SettleCount: the state alone is watched.
SettleCountState ==
  /\ d.at = "settle count"
  /\ At(IF d.waited < d.window THEN "sleep settled" ELSE "answer")
  /\ Rest /\ UNCHANGED <<switchVars, machineVars>>

SettleCount ==
  /\ d.at = "settle count"
  /\ \E n \in Restarts :
       IF n # d.base THEN Failed
       ELSE At(IF d.waited < d.window THEN "sleep settled" ELSE "answer")
  /\ Rest /\ UNCHANGED <<switchVars, machineVars>>

\* put_the_switch_back: only over the stamp of the deploy's own switch-off.
PutBack ==
  IF d.own = 0 THEN UNCHANGED switchVars ELSE SetIfUnchanged("deploy", TRUE, d.own)

RestoreSwitch ==
  /\ Begins("restore_switch")
  /\ PutBack
  /\ At("answer")
  /\ Rest /\ UNCHANGED machineVars

\* Variant of Kept: the stamp of a switch-off that changed nothing is kept as well.
KeptAny(e) == e

\* The stamp is the deploy's only where its switch-off changed what the service reads.
Kept(e) ==
  IF Step = "switch_off" /\ ~answer["deploy"].changed THEN [e EXCEPT !.own = 0, !.already = TRUE] ELSE e

Answered ==
  /\ d.at = "answer"
  /\ Done(Kept(d))
  /\ Rest /\ UNCHANGED <<switchVars, machineVars>>
-----------------------------------------------------------------------------
(* What goes wrong. *)

\* A command that fails, runs past its bound, or answers what cannot be read.
CommandFails ==
  /\ Running /\ d.at \notin {"sleep", "sleep up", "sleep settled"}
  /\ failures < MaxFailures
  /\ d.at = "answer" /\ Step = "switch_off" => AnswersLost
  /\ Failed
  /\ failures' = failures + 1
  /\ UNCHANGED <<switchVars, machineVars, found, word, words>>

Interrupt ==
  /\ Running
  /\ Ended("interrupted", SwitchStands, UnitStands)
  /\ Rest /\ UNCHANGED <<switchVars, machineVars>>

Recover ==
  /\ d.at = "recover"
  /\ PutBack
  /\ At("recovered")
  /\ Rest /\ UNCHANGED machineVars

Recovered ==
  /\ d.at = "recovered"
  /\ Ended("refused", "as it was", "nothing")
  /\ Rest /\ UNCHANGED <<switchVars, machineVars>>

RecoverFails ==
  /\ d.at \in {"recover", "recovered"}
  /\ failures < MaxFailures
  /\ failures' = failures + 1
  /\ Ended("refused", "could not be put back", "nothing")
  /\ UNCHANGED <<switchVars, machineVars, found, word, words>>

\* A signal while the switch is put back ends the deploy with nothing said.
RecoverInterrupted ==
  /\ d.at \in {"recover", "recovered"}
  /\ Ended("untold", "nothing", "nothing")
  /\ Rest /\ UNCHANGED <<switchVars, machineVars>>
-----------------------------------------------------------------------------
DeployStep ==
  \/ Read \/ Backup \/ SwitchOff \/ Drain \/ Sleep \/ Stop \/ Install \/ SeedSwitch \/ CheckVenv
  \/ Start \/ CountRestarts \/ AwaitActive \/ SettleState \/ SettleCount \/ RestoreSwitch \/ Answered
  \/ Recover \/ Recovered

Next ==
  \/ DeployStep
  \/ CommandFails \/ Interrupt \/ RecoverFails \/ RecoverInterrupted
  \/ Exit \/ Revive \/ Hear
  \/ \E b \in Boxes : Take(b) \/ LetGo(b)
  \/ \E on \in BOOLEAN : Speak(on)

Spec == Init /\ [][Next]_vars

\* The deploy's process runs; nothing is promised of the service or the person.
FairSpec == Spec /\ WF_vars(DeployStep)
-----------------------------------------------------------------------------
(* What a deploy promises. *)

Over == d.at = "ended"

\* A person who sets the switch while a deploy runs has the last word: after their off the house
\* is off whatever the deploy does, and after an on that came later than the switch-off it is on
\* (put_the_switch_back, the `changed` of _switch_off).
TheirWordStands ==
  /\ word.said = "off" => ~Reads
  /\ word.said = "on" /\ word.late => Reads

\* Where nobody spoke, a house that was deployed to, or a deploy refused before its stop, leaves
\* the switch as it was found, and the refused one leaves the unit that ran running its old code
\* (RESTORE_SWITCH, _recover).
HouseAsItWasFound ==
  /\ Over /\ d.end.how \in {"deployed", "refused"}
  /\ d.end.how = "refused" => "stop" \notin d.done /\ d.failed # "stop" /\ found.unit = "active"
  /\ d.end.switch # "could not be put back" /\ word = NoWord /\ installed # "none"
  => /\ d.end.how = "deployed" /\ found.on /\ "switch_off" \in d.done => Reads
     /\ d.end.how = "refused" => Reads = found.on /\ unit.state = "active" /\ unit.code = "old"
     /\ d.end.how = "deployed" /\ unit.state = "active" => unit.code = "new"

HandsBack == row' # row /\ row'.on /\ answer'["deploy"].at = writes'

\* The deploy turns the house on only for a unit it never stopped and installed nothing under, or
\* for the new code after one run of it lasted the whole settle window, but where the restarts
\* could not be counted at all (_start, _settle, _recover).
OnlyProvedIsHandedBack ==
  [][HandsBack => \/ unit.state = "active" /\ unit.code = "old" /\ installed = "old"
                  \/ /\ installed = "new" /\ ~Finding /\ unit.code # "old"
                     /\ unit.longest >= d.window \/ d.base = Unread]_vars

\* What an interrupted deploy says of the switch and the unit is so, but for what a person did
\* since (where_it_stands).
WhatItSaysIsTrue ==
  Over /\ d.end.how = "interrupted" =>
    /\ d.end.switch \in {"off", "already off"} /\ word.said # "on" => ~Reads
    /\ d.end.switch = "unchanged" /\ word = NoWord /\ "backup" \in d.done => Reads = found.on
    /\ d.end.unit = "stopped" => unit.state = "inactive"
    /\ d.end.unit = "not stopped" => unit.state = found.unit
    /\ d.end.unit = "started" => unit.code \in {"new", "none"}

StopsTheUnit == unit.state = "active" /\ unit'.state = "inactive"

\* The unit is stopped only under boxes that a pass which had read the switch before took in after
\* the drain had seen the zone empty, unless a person turned the house back on (_drain, _stop).
NobodyIsCutOff == [][StopsTheUnit => members \subseteq late \/ word.on]_vars

\* The same without the slow pass, which the code lets happen.
NobodyAtAllIsCutOff == [][StopsTheUnit => members = {} \/ word.on]_vars

\* Every deploy ends: no wait of it is for ever (poll_until, _settle).
DeployEnds == <>Over
=============================================================================
