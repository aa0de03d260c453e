---------------------------- MODULE DeployProofs ----------------------------
(***************************************************************************)
(* Proofs about Deploy for every set of boxes, every restart delay and any *)
(* number of words, exits and failures: whose word stands, what the deploy *)
(* may turn the house on over, and that nobody is cut off.                 *)
(*                                                                         *)
(* The plan is reasoned about as a set: what is done and what is left are  *)
(* apart, together they are what was planned, and what is left comes in    *)
(* the one order of the steps.                                             *)
(***************************************************************************)
EXTENDS Deploy, TLAPS

Names == {"backup", "switch_off", "drain", "stop", "install", "check_venv", "start", "restore_switch"}

\* The one order of the steps.
Rank == [backup |-> 1, switch_off |-> 2, drain |-> 3, stop |-> 4, install |-> 5, check_venv |-> 6,
         start |-> 7, restore_switch |-> 8]

\* The places of a deploy: those of the settle, those of the start step, all of them.
Settling == {"sleep settled", "settle", "settle count"}
Starting == {"count", "up", "sleep up"} \cup Settling
Places   == {"read", "begin", "answer", "sleep", "seed", "recover", "recovered", "ended"} \cup Starting

UnitType ==
  [state : {"active", "activating", "inactive", "failed"}, code : {"old", "new", "none"},
   up : Nat, longest : Nat, restarts : Nat, wait : Int]

DeployType ==
  [at : Places, plan : Seq(Names), done : SUBSET Names, failed : Names \cup {"none"}, own : Nat,
   already : BOOLEAN, waited : Nat, base : Int, window : Nat,
   end : [how : {"nothing", "refused", "planned", "deployed", "interrupted", "untold"},
          switch : {"nothing", "already off", "may", "off", "unchanged", "as it was", "could not be put back"},
          unit : {"nothing", "may", "started", "stopped", "not stopped"}]]

\* Every write of the switch has a stamp of its own, and no answer names a later one.
SwitchType ==
  /\ {writes} \subseteq Nat /\ row \in [on : BOOLEAN, at : {writes}]
  /\ answer \in [Who -> [written : BOOLEAN, changed : BOOLEAN, at : Nat]]
  /\ \A w \in Who : answer[w].at <= writes

MachineType ==
  /\ exists \in BOOLEAN /\ heard \in BOOLEAN /\ members \subseteq Boxes /\ late \subseteq Boxes
  /\ unit \in UnitType /\ installed \in {"old", "new", "none"}
  /\ wheel \in {"sound", "exits", "scriptless"} /\ restartSec \in Nat

TypeOK ==
  /\ SwitchType /\ MachineType /\ d \in DeployType
  /\ found \in [on : BOOLEAN, unit : {"active", "activating", "inactive", "failed"}]
  /\ word \in [said : {"nothing", "on", "off"}, late : BOOLEAN, on : BOOLEAN]
-----------------------------------------------------------------------------
(* The plan *)

\* A deploy with a plan.
Deploying == d.at \notin {"read", "ended"}

StepsOf(plan) == {plan[i] : i \in DOMAIN plan}

\* What is left of the plan, and all that was planned.
Left    == StepsOf(d.plan)
Planned == d.done \cup Left

\* A switch-off is planned for a house that is on and is handed back; a unit that runs is stopped,
\* and where there is a house it is drained first.
PlannedIsWhole ==
  /\ {"install", "check_venv", "start"} \subseteq Planned
  /\ "switch_off" \in Planned <=> "backup" \in Planned /\ found.on
  /\ "restore_switch" \in Planned <=> "switch_off" \in Planned
  /\ "stop" \in Planned <=> found.unit = "active"
  /\ "drain" \in Planned <=> "backup" \in Planned /\ found.unit = "active"

Ordered(plan) == \A i, j \in DOMAIN plan : i < j => Rank[plan[i]] < Rank[plan[j]]

\* Some places belong to one step.
PlaceOfStep ==
  /\ d.at = "sleep" => Step = "drain"
  /\ d.at = "seed" => Step = "install"
  /\ d.at \in Starting => Step = "start"
  /\ d.at \in {"recover", "recovered"} => Recovers

Plan ==
  Deploying => /\ d.plan # <<>> /\ Ordered(d.plan) /\ PlannedIsWhole
               /\ \A x \in d.done, y \in Left : Rank[x] < Rank[y]
               /\ PlaceOfStep

\* A step of the plan that took effect: its answer may still be on its way.
Obeyed(step) == step \in d.done \/ (Step = step /\ d.at = "answer")

\* A deploy that has not read yet did nothing, and nobody spoke since.
Fresh == d.at = "read" => d.done = {} /\ d.plan = <<>> /\ d.own = 0 /\ word = NoWord

PlanInv == TypeOK /\ Plan /\ Fresh
-----------------------------------------------------------------------------
(* Whose word stands *)

\* While the switch is as the deploy's own switch-off left it, that is what it says; it is the
\* deploy's to undo only where it changed what was read.
OwnStamp ==
  /\ d.at # "ended" => d.own <= writes
  /\ d.own # 0 /\ d.at # "ended" => Deploying /\ Obeyed("switch_off")
  /\ d.own # 0 /\ row.at = d.own /\ d.at # "ended" =>
       /\ answer["deploy"].changed => word.said # "off"
       /\ "switch_off" \in d.done => answer["deploy"].changed

\* The word is of a house that is there, and a late one of a switch-off that took effect.
Words ==
  /\ ~exists => word = NoWord
  /\ word.late /\ d.at # "ended" => "switch_off" \in d.done \/ d.own # 0

WordInv == OwnStamp /\ Words /\ TheirWordStands
-----------------------------------------------------------------------------
(* Nobody is cut off *)

\* Without a house nothing runs.
HouseFirst ==
  /\ ~exists => unit.state = "inactive"
  /\ Deploying /\ Obeyed("install") => exists
  /\ Deploying /\ ~exists => "backup" \notin Planned
  /\ Deploying /\ "stop" \in Planned => "backup" \in Planned

\* From the switch-off, or from the reading of a house that was off, to the stop the house is off.
OffUntilTheStop ==
  Running /\ "backup" \in Planned /\ Step \in {"backup", "switch_off", "drain", "stop"}
    /\ ("switch_off" \in Planned => Obeyed("switch_off"))
  => ~Reads \/ word.on

\* A drain that saw an empty zone, and the stop after it: what has come in since came late.
EmptyBeforeTheStop ==
  Running /\ (Step = "stop" \/ (Step = "drain" /\ d.at = "answer"))
    => members \subseteq late \/ word.on

DrainInv == HouseFirst /\ OffUntilTheStop /\ EmptyBeforeTheStop
-----------------------------------------------------------------------------
(* Only what is proved is handed back *)

\* A house that is on is found with its old code running, and nothing but the stop ends that.
OldRuns ==
  /\ d.at = "read" /\ exists /\ Reads => unit.state = "active"
  /\ d.at = "read" /\ unit.state = "active" => unit.code = "old"
  /\ d.at = "read" => unit.state # "activating" /\ installed = IF exists THEN "old" ELSE "none"
  /\ Deploying /\ "switch_off" \in Planned =>
       /\ found.unit = "active"
       /\ ~Obeyed("stop") => unit.state = "active" /\ unit.code = "old" /\ installed = "old"

\* After the stop the old code runs no more; after the install the venv holds the new.
NewRuns ==
  /\ unit.longest >= unit.up
  /\ Deploying =>
       /\ d.at = "seed" \/ Obeyed("install") => installed = "new"
       /\ Obeyed("check_venv") => ~Finding
       /\ Obeyed("stop") => /\ unit.code # "old"
                            /\ unit.state \in {"active", "activating"} => installed = "new"

Least2(a, b) == IF a < b THEN a ELSE b

\* With no restart counted since, the unit has run for as long as the settle has waited; the window
\* it waits for is never the longer one.
Proved ==
  /\ d.at # "ended" => d.window <= Window
  /\ Deploying =>
    /\ d.at \in Settling \cup {"up", "sleep up"} => d.base <= unit.restarts
    /\ d.at \in Settling /\ unit.restarts = d.base =>
         /\ unit.state = "active" => unit.up >= Least2(d.waited, Window)
         /\ d.at = "settle count" => unit.longest >= Least2(d.waited, Window)
    /\ Obeyed("start") => unit.longest >= d.window \/ d.base = Unread

HandInv == OldRuns /\ NewRuns /\ Proved
-----------------------------------------------------------------------------
(* Lists of steps *)

\* Two lists in order, the first before the second, make one in order.
LEMMA OneAfterTheOther ==
  ASSUME NEW s \in Seq(Names), Ordered(s), NEW t \in Seq(Names), Ordered(t),
         \A x \in StepsOf(s), y \in StepsOf(t) : Rank[x] < Rank[y]
  PROVE  /\ s \o t \in Seq(Names)
         /\ Ordered(s \o t)
         /\ StepsOf(s \o t) = StepsOf(s) \cup StepsOf(t)
<1>1. /\ s \o t \in Seq(Names) /\ DOMAIN s = 1 .. Len(s) /\ DOMAIN t = 1 .. Len(t)
      /\ DOMAIN (s \o t) = 1 .. (Len(s) + Len(t)) /\ Len(s) \in Nat /\ Len(t) \in Nat
  OBVIOUS
<1>2. \A i \in 1 .. (Len(s) + Len(t)) : (s \o t)[i] = IF i <= Len(s) THEN s[i] ELSE t[i - Len(s)]
  OBVIOUS
<1>3. Ordered(s \o t)
  <2> SUFFICES ASSUME NEW i \in 1 .. (Len(s) + Len(t)), NEW j \in 1 .. (Len(s) + Len(t)), i < j
               PROVE  Rank[(s \o t)[i]] < Rank[(s \o t)[j]]
    BY <1>1 DEF Ordered
  <2>1. CASE j <= Len(s)
    <3>1. i \in DOMAIN s /\ j \in DOMAIN s /\ (s \o t)[i] = s[i] /\ (s \o t)[j] = s[j]
      BY <1>1, <1>2, <2>1
    <3> QED BY <3>1 DEF Ordered
  <2>2. CASE i > Len(s)
    <3>1. /\ i - Len(s) \in DOMAIN t /\ j - Len(s) \in DOMAIN t /\ i - Len(s) < j - Len(s)
          /\ (s \o t)[i] = t[i - Len(s)] /\ (s \o t)[j] = t[j - Len(s)]
      BY <1>1, <1>2, <2>2
    <3> QED BY <3>1 DEF Ordered
  <2>3. CASE i <= Len(s) /\ j > Len(s)
    <3>1. i \in DOMAIN s /\ j - Len(s) \in DOMAIN t /\ (s \o t)[i] = s[i] /\ (s \o t)[j] = t[j - Len(s)]
      BY <1>1, <1>2, <2>3
    <3> QED BY <3>1 DEF StepsOf
  <2> QED BY <2>1, <2>2, <2>3, <1>1
<1>4. StepsOf(s \o t) \subseteq StepsOf(s) \cup StepsOf(t)
  <2> SUFFICES ASSUME NEW i \in 1 .. (Len(s) + Len(t))
               PROVE  (s \o t)[i] \in StepsOf(s) \cup StepsOf(t)
    BY <1>1 DEF StepsOf
  <2>1. \/ i \in DOMAIN s /\ (s \o t)[i] = s[i]
        \/ i - Len(s) \in DOMAIN t /\ (s \o t)[i] = t[i - Len(s)]
    BY <1>1, <1>2
  <2> QED BY <2>1 DEF StepsOf
<1>5. StepsOf(s) \subseteq StepsOf(s \o t)
  <2> SUFFICES ASSUME NEW i \in DOMAIN s PROVE s[i] \in StepsOf(s \o t)
    BY DEF StepsOf
  <2>1. i \in DOMAIN (s \o t) /\ (s \o t)[i] = s[i]
    BY <1>1, <1>2
  <2> QED BY <2>1 DEF StepsOf
<1>6. StepsOf(t) \subseteq StepsOf(s \o t)
  <2> SUFFICES ASSUME NEW i \in DOMAIN t PROVE t[i] \in StepsOf(s \o t)
    BY DEF StepsOf
  <2>1. i + Len(s) \in DOMAIN (s \o t) /\ (s \o t)[i + Len(s)] = t[i]
    BY <1>1, <1>2
  <2> QED BY <2>1 DEF StepsOf
<1> QED BY <1>1, <1>3, <1>4, <1>5, <1>6

\* A step that is planned on a condition is a list of one or of none.
LEMMA OneOrNone ==
  ASSUME NEW c \in BOOLEAN, NEW x \in Names
  PROVE  /\ If(c, x) \in Seq(Names) /\ Ordered(If(c, x))
         /\ StepsOf(If(c, x)) = IF c THEN {x} ELSE {}
<1>1. CASE c
  <2>1. If(c, x) = <<x>> /\ <<x>> \in Seq(Names) /\ DOMAIN <<x>> = 1 .. 1 /\ <<x>>[1] = x
    BY <1>1 DEF If
  <2>2. StepsOf(<<x>>) = {x}
    BY <2>1 DEF StepsOf
  <2>3. Ordered(<<x>>)
    BY <2>1 DEF Ordered
  <2> QED BY <1>1, <2>1, <2>2, <2>3
<1>2. CASE ~c
  <2>1. If(c, x) = <<>> /\ <<>> \in Seq(Names) /\ DOMAIN <<>> = 1 .. 0
    BY <1>2 DEF If
  <2> HIDE DEF If
  <2>2. StepsOf(If(c, x)) = {}
    BY <2>1 DEF StepsOf
  <2>3. Ordered(If(c, x))
    BY <2>1 DEF Ordered
  <2> QED BY <1>2, <2>1, <2>2, <2>3
<1> QED BY <1>1, <1>2

\* The three steps every deploy has.
LEMMA TheInstall ==
  LET middle == <<"install", "check_venv", "start">>
  IN  /\ middle \in Seq(Names) /\ Ordered(middle)
      /\ StepsOf(middle) = {"install", "check_venv", "start"}
<1> DEFINE middle == <<"install", "check_venv", "start">>
<1>1. /\ middle \in Seq(Names) /\ DOMAIN middle = 1 .. 3
      /\ middle[1] = "install" /\ middle[2] = "check_venv" /\ middle[3] = "start"
  BY DEF Names
<1>2. Rank["install"] = 5 /\ Rank["check_venv"] = 6 /\ Rank["start"] = 7
  BY DEF Rank
<1> HIDE DEF middle
<1>3. \A i \in 1 .. 3 : i = 1 \/ i = 2 \/ i = 3
  OBVIOUS
<1>4. Ordered(middle)
  BY <1>1, <1>2, <1>3 DEF Ordered
<1>5. StepsOf(middle) = {"install", "check_venv", "start"}
  BY <1>1, <1>3 DEF StepsOf
<1> QED BY <1>1, <1>4, <1>5 DEF middle

\* The first of a list in order is before all the others.
LEMMA TheFirstOfThem ==
  ASSUME NEW s \in Seq(Names), s # <<>>, Ordered(s)
  PROVE  /\ Head(s) \in StepsOf(s)
         /\ Tail(s) \in Seq(Names) /\ Ordered(Tail(s))
         /\ StepsOf(s) = StepsOf(Tail(s)) \cup {Head(s)}
         /\ \A y \in StepsOf(Tail(s)) : Rank[Head(s)] < Rank[y]
         /\ Len(s) # 1 => Tail(s) # <<>>
<1>1. /\ Len(s) \in Nat /\ Len(s) >= 1 /\ DOMAIN s = 1 .. Len(s) /\ Head(s) = s[1] /\ Tail(s) \in Seq(Names)
      /\ Len(Tail(s)) = Len(s) - 1 /\ DOMAIN Tail(s) = 1 .. (Len(s) - 1)
      /\ \A i \in 1 .. (Len(s) - 1) : Tail(s)[i] = s[i + 1]
  OBVIOUS
<1>2. Head(s) \in StepsOf(s)
  BY <1>1 DEF StepsOf
<1>3. Ordered(Tail(s))
  <2> SUFFICES ASSUME NEW i \in 1 .. (Len(s) - 1), NEW j \in 1 .. (Len(s) - 1), i < j
               PROVE  Rank[Tail(s)[i]] < Rank[Tail(s)[j]]
    BY <1>1 DEF Ordered
  <2>1. i + 1 \in DOMAIN s /\ j + 1 \in DOMAIN s /\ i + 1 < j + 1 /\ Tail(s)[i] = s[i + 1] /\ Tail(s)[j] = s[j + 1]
    BY <1>1
  <2> QED BY <2>1 DEF Ordered
<1>4. \A y \in StepsOf(Tail(s)) : y \in StepsOf(s) /\ Rank[Head(s)] < Rank[y]
  <2> SUFFICES ASSUME NEW i \in 1 .. (Len(s) - 1)
               PROVE  Tail(s)[i] \in StepsOf(s) /\ Rank[Head(s)] < Rank[Tail(s)[i]]
    BY <1>1 DEF StepsOf
  <2>1. 1 \in DOMAIN s /\ i + 1 \in DOMAIN s /\ 1 < i + 1 /\ Tail(s)[i] = s[i + 1]
    BY <1>1
  <2> QED BY <2>1, <1>1 DEF Ordered, StepsOf
<1>5. StepsOf(s) \subseteq StepsOf(Tail(s)) \cup {Head(s)}
  <2> SUFFICES ASSUME NEW i \in 1 .. Len(s) PROVE s[i] \in StepsOf(Tail(s)) \cup {Head(s)}
    BY <1>1 DEF StepsOf
  <2>1. CASE i = 1
    BY <2>1, <1>1
  <2>2. CASE i # 1
    <3>1. i - 1 \in DOMAIN Tail(s) /\ Tail(s)[i - 1] = s[i]
      BY <2>2, <1>1
    <3> QED BY <3>1 DEF StepsOf
  <2> QED BY <2>1, <2>2
<1>6. Len(s) # 1 => Tail(s) # <<>>
  <2>1. Len(<<>>) = 0
    OBVIOUS
  <2>2. Tail(s) = <<>> => Len(Tail(s)) = 0
    BY <2>1
  <2>3. Len(s) # 1 => Len(Tail(s)) # 0
    BY <1>1
  <2> QED BY <2>2, <2>3
<1> QED BY <1>1, <1>2, <1>3, <1>4, <1>5, <1>6

\* What is planned, and that it is planned in the one order.
LEMMA ThePlan ==
  ASSUME exists \in BOOLEAN, NEW on \in BOOLEAN, NEW active \in BOOLEAN
  PROVE  /\ PlanSteps(on, active) \in Seq(Names) /\ PlanSteps(on, active) # <<>>
         /\ Ordered(PlanSteps(on, active))
         /\ StepsOf(PlanSteps(on, active)) =
              {x \in Names : \/ x \in {"install", "check_venv", "start"}
                             \/ x = "backup" /\ exists
                             \/ x \in {"switch_off", "restore_switch"} /\ on
                             \/ x = "drain" /\ exists /\ active
                             \/ x = "stop" /\ active}
<1> DEFINE one    == If(exists, "backup")
           two    == If(on, "switch_off")
           three  == If(exists /\ active, "drain")
           four   == If(active, "stop")
           middle == <<"install", "check_venv", "start">>
           last   == If(on, "restore_switch")
           Is(x, c) == IF c THEN {x} ELSE {}
<1>1. /\ one \in Seq(Names) /\ Ordered(one) /\ StepsOf(one) = Is("backup", exists)
      /\ two \in Seq(Names) /\ Ordered(two) /\ StepsOf(two) = Is("switch_off", on)
      /\ four \in Seq(Names) /\ Ordered(four) /\ StepsOf(four) = Is("stop", active)
      /\ last \in Seq(Names) /\ Ordered(last) /\ StepsOf(last) = Is("restore_switch", on)
  BY OneOrNone DEF Names
<1>2. three \in Seq(Names) /\ Ordered(three) /\ StepsOf(three) = Is("drain", exists /\ active)
  <2>1. (exists /\ active) \in BOOLEAN /\ "drain" \in Names
    BY DEF Names
  <2> QED BY <2>1, OneOrNone
<1>3. /\ middle \in Seq(Names) /\ Ordered(middle) /\ StepsOf(middle) = {"install", "check_venv", "start"}
  BY TheInstall
<1>4. PlanSteps(on, active) = one \o two \o three \o four \o middle \o last
  BY DEF PlanSteps
<1>5. /\ Rank["backup"] = 1 /\ Rank["switch_off"] = 2 /\ Rank["drain"] = 3 /\ Rank["stop"] = 4
      /\ Rank["install"] = 5 /\ Rank["check_venv"] = 6 /\ Rank["start"] = 7 /\ Rank["restore_switch"] = 8
  BY DEF Rank
<1> HIDE DEF one, two, three, four, middle, last
<1> DEFINE s2 == one \o two
<1>6. /\ s2 \in Seq(Names) /\ Ordered(s2)
      /\ StepsOf(s2) = Is("backup", exists) \cup Is("switch_off", on)
  <2>1. \A x \in StepsOf(one), y \in StepsOf(two) : Rank[x] < Rank[y]
    BY <1>1, <1>5
  <2> QED BY <1>1, <2>1, OneAfterTheOther
<1> HIDE DEF s2
<1> DEFINE s3 == s2 \o three
<1>7. /\ s3 \in Seq(Names) /\ Ordered(s3)
      /\ StepsOf(s3) = Is("backup", exists) \cup Is("switch_off", on) \cup Is("drain", exists /\ active)
  <2>1. \A x \in StepsOf(s2), y \in StepsOf(three) : Rank[x] < Rank[y]
    BY <1>2, <1>5, <1>6
  <2> QED BY <1>2, <1>6, <2>1, OneAfterTheOther
<1> HIDE DEF s3
<1> DEFINE s4 == s3 \o four
<1>8. /\ s4 \in Seq(Names) /\ Ordered(s4)
      /\ StepsOf(s4) = Is("backup", exists) \cup Is("switch_off", on) \cup Is("drain", exists /\ active)
                         \cup Is("stop", active)
  <2>1. \A x \in StepsOf(s3), y \in StepsOf(four) : Rank[x] < Rank[y]
    BY <1>1, <1>5, <1>7
  <2>2. s4 \in Seq(Names) /\ Ordered(s4) /\ StepsOf(s4) = StepsOf(s3) \cup StepsOf(four)
    BY <1>1, <1>7, <2>1, OneAfterTheOther
  <2> QED BY <1>1, <1>7, <2>2
<1> HIDE DEF s4
<1> DEFINE s5 == s4 \o middle
<1>9. /\ s5 \in Seq(Names) /\ Ordered(s5)
      /\ StepsOf(s5) = Is("backup", exists) \cup Is("switch_off", on) \cup Is("drain", exists /\ active)
                         \cup Is("stop", active) \cup {"install", "check_venv", "start"}
  <2>1. \A x \in StepsOf(s4), y \in StepsOf(middle) : Rank[x] < Rank[y]
    BY <1>3, <1>5, <1>8
  <2> QED BY <1>3, <1>8, <2>1, OneAfterTheOther
<1> HIDE DEF s5
<1> DEFINE s6 == s5 \o last
<1>10. /\ s6 \in Seq(Names) /\ Ordered(s6)
       /\ StepsOf(s6) = Is("backup", exists) \cup Is("switch_off", on) \cup Is("drain", exists /\ active)
                         \cup Is("stop", active) \cup {"install", "check_venv", "start"} \cup Is("restore_switch", on)
  <2>1. \A x \in StepsOf(s5), y \in StepsOf(last) : Rank[x] < Rank[y]
    BY <1>1, <1>5, <1>9
  <2>2. s6 \in Seq(Names) /\ Ordered(s6) /\ StepsOf(s6) = StepsOf(s5) \cup StepsOf(last)
    BY <1>1, <1>9, <2>1, OneAfterTheOther
  <2> QED BY <1>1, <1>9, <2>2
<1>11. PlanSteps(on, active) = s6
  BY <1>4 DEF s2, s3, s4, s5, s6
<1> HIDE DEF s6
<1>12. StepsOf(s6) = {x \in Names : \/ x \in {"install", "check_venv", "start"}
                                    \/ x = "backup" /\ exists
                                    \/ x \in {"switch_off", "restore_switch"} /\ on
                                    \/ x = "drain" /\ exists /\ active
                                    \/ x = "stop" /\ active}
  <2>1. StepsOf(s6) \subseteq Names
    BY <1>10, SMT DEF StepsOf
  <2>2. \A x \in Names : x \in StepsOf(s6) <=>
           \/ x \in {"install", "check_venv", "start"}
           \/ x = "backup" /\ exists
           \/ x \in {"switch_off", "restore_switch"} /\ on
           \/ x = "drain" /\ exists /\ active
           \/ x = "stop" /\ active
    BY <1>10 DEF Names
  <2> QED BY <2>1, <2>2, Zenon
<1>13. s6 # <<>>
  <2>1. DOMAIN <<>> = {}
    OBVIOUS
  <2>2. s6 = <<>> => StepsOf(s6) = {}
    BY <2>1 DEF StepsOf
  <2>3. "install" \in StepsOf(s6)
    BY <1>12 DEF Names
  <2> QED BY <2>2, <2>3
<1> QED BY <1>10, <1>11, <1>12, <1>13
-----------------------------------------------------------------------------
(* Types *)

\* The fields of a deploy may be set one by one.
LEMMA FieldsOfADeploy ==
  ASSUME d \in DeployType
  PROVE  /\ d.at \in Places /\ d.plan \in Seq(Names) /\ d.done \subseteq Names /\ d.failed \in Names \cup {"none"}
         /\ d.own \in Nat /\ d.already \in BOOLEAN /\ d.waited \in Nat /\ d.base \in Int /\ d.window \in Nat
         /\ \A p \in Places : [d EXCEPT !.at = p] \in DeployType
         /\ \A p \in Places, n \in Nat : [d EXCEPT !.at = p, !.waited = n] \in DeployType
         /\ \A p \in Places, n \in Int : [d EXCEPT !.at = p, !.base = n] \in DeployType
         /\ \A p \in Places, n \in Nat, w \in Nat : [d EXCEPT !.at = p, !.waited = n, !.window = w] \in DeployType
         /\ \A p \in Places, n \in Nat : [d EXCEPT !.at = p, !.own = n] \in DeployType
         /\ \A p \in Places, s \in Seq(Names) : [d EXCEPT !.at = p, !.plan = s] \in DeployType
         /\ \A p \in Places, s \in Names : [d EXCEPT !.at = p, !.failed = s] \in DeployType
         /\ \A n \in Nat : [d EXCEPT !.own = n, !.already = TRUE] \in DeployType
  BY DEF DeployType

\* It goes to a place of its own and changes nothing else.
LEMMA GoesToAPlace ==
  ASSUME d \in DeployType, NEW p \in Places, At(p)
  PROVE  d' \in DeployType /\ d'.at = p /\ d'.plan = d.plan /\ d'.done = d.done /\ d'.own = d.own
<1>1. d' = [d EXCEPT !.at = p]
  BY DEF At
<1>2. d' \in DeployType
  BY <1>1, FieldsOfADeploy
<1>3. {"at", "plan", "done", "own"} \subseteq DOMAIN d
  BY DEF DeployType
<1>4. d'.at = p /\ d'.plan = d.plan /\ d'.done = d.done /\ d'.own = d.own
  BY <1>1, <1>3
<1> QED BY <1>2, <1>4

\* Where the deploy stands in its plan.
LEMMA Standing ==
  ASSUME TypeOK, Plan, Deploying
  PROVE  /\ d.plan \in Seq(Names) /\ d.plan # <<>> /\ Ordered(d.plan)
         /\ Step \in Left /\ Step \in Names /\ Left \subseteq Names /\ d.done \subseteq Names
         /\ Left = StepsOf(Tail(d.plan)) \cup {Step}
         /\ \A y \in Left : y # Step => Rank[Step] < Rank[y]
         /\ \A x \in d.done : Rank[x] < Rank[Step]
         /\ \A x \in Planned : Rank[x] < Rank[Step] => x \in d.done
         /\ Step \notin d.done
<1>1. d.plan \in Seq(Names) /\ d.done \subseteq Names
  BY FieldsOfADeploy DEF TypeOK
<1>2. d.plan # <<>> /\ Ordered(d.plan) /\ \A x \in d.done, y \in Left : Rank[x] < Rank[y]
  BY DEF Plan
<1>3. /\ Step \in Left /\ Left = StepsOf(Tail(d.plan)) \cup {Step}
      /\ \A y \in StepsOf(Tail(d.plan)) : Rank[Step] < Rank[y]
  BY <1>1, <1>2, TheFirstOfThem DEF Step, Left
<1>4. Left \subseteq Names
  BY <1>1 DEF Left, StepsOf
<1>5. \A x \in Names : Rank[x] \in Int
  BY DEF Names, Rank
<1>6. \A x \in Planned : Rank[x] < Rank[Step] => x \in d.done
  <2> SUFFICES ASSUME NEW x \in Left, Rank[x] < Rank[Step] PROVE FALSE
    BY DEF Planned
  <2>1. Rank[Step] <= Rank[x]
    BY <1>3, <1>4, <1>5
  <2> QED BY <2>1, <1>3, <1>4, <1>5
<1>7. Step \notin d.done
  <2>1. Rank[Step] \in Int /\ ~(Rank[Step] < Rank[Step])
    BY <1>3, <1>4, <1>5
  <2>2. Step \in d.done => Rank[Step] < Rank[Step]
    BY <1>2, <1>3
  <2> QED BY <2>1, <2>2
<1> QED BY <1>1, <1>2, <1>3, <1>4, <1>6, <1>7

\* A set, whoever does it.
LEMMA SetsAreTyped ==
  ASSUME SwitchType, NEW w \in Who, NEW on \in BOOLEAN, Set(w, on)
  PROVE  /\ SwitchType'
         /\ writes' = writes + 1 /\ row' = [on |-> on, at |-> writes + 1]
         /\ answer'[w] = [written |-> TRUE, changed |-> Reads # on, at |-> writes + 1]
         /\ \A v \in Who : v # w => answer'[v] = answer[v]
<1> USE DEF Set, Write, Answer
<1>1. writes \in Nat /\ writes + 1 \in Nat /\ (Reads # on) \in BOOLEAN
  BY DEF SwitchType
<1>2. /\ answer'[w] = [written |-> TRUE, changed |-> Reads # on, at |-> writes + 1]
      /\ \A v \in Who : v # w => answer'[v] = answer[v]
      /\ answer' \in [Who -> [written : BOOLEAN, changed : BOOLEAN, at : Nat]]
  BY <1>1 DEF SwitchType
<1>3. \A v \in Who : answer'[v].at <= writes + 1
  <2> SUFFICES ASSUME NEW v \in Who PROVE answer'[v].at <= writes + 1
    OBVIOUS
  <2>1. CASE v = w
    BY <2>1, <1>1, <1>2
  <2>2. CASE v # w
    <3>1. answer[v].at <= writes /\ answer[v].at \in Nat
      BY DEF SwitchType
    <3> QED BY <3>1, <2>2, <1>1, <1>2
  <2> QED BY <2>1, <2>2
<1>4. row' \in [on : BOOLEAN, at : {writes'}] /\ {writes'} \subseteq Nat
  BY <1>1
<1> QED BY <1>2, <1>3, <1>4 DEF SwitchType

\* A seed has no answer.
LEMMA SeedsAreTyped ==
  ASSUME SwitchType, NEW on \in BOOLEAN, Seed(on)
  PROVE  /\ SwitchType'
         /\ writes' = writes + 1 /\ row' = [on |-> on, at |-> writes + 1] /\ answer' = answer
<1> USE DEF Seed, Write
<1>1. writes \in Nat /\ writes + 1 \in Nat
  BY DEF SwitchType
<1>2. \A v \in Who : answer[v].at <= writes + 1
  <2> SUFFICES ASSUME NEW v \in Who PROVE answer[v].at <= writes + 1
    OBVIOUS
  <2>1. answer[v].at <= writes /\ answer[v].at \in Nat
    BY DEF SwitchType
  <2> QED BY <2>1, <1>1
<1>3. row' \in [on : BOOLEAN, at : {writes'}] /\ {writes'} \subseteq Nat
  BY <1>1
<1> QED BY <1>2, <1>3 DEF SwitchType

\* Putting the switch back: on, where the deploy's own write is the newest, and else nothing.
LEMMA PutsBack ==
  ASSUME SwitchType, PutBack
  PROVE  /\ SwitchType'
         /\ \/ /\ d.own # 0 /\ row.at = d.own
               /\ writes' = writes + 1 /\ row' = [on |-> TRUE, at |-> writes + 1]
            \/ row' = row /\ writes' = writes
<1>1. "deploy" \in Who
  BY DeployAssumption
<1>2. CASE d.own = 0
  BY <1>2 DEF PutBack, switchVars, SwitchType
<1>3. CASE d.own # 0 /\ row.at = d.own
  <2>1. Set("deploy", TRUE)
    BY <1>3 DEF PutBack, SetIfUnchanged
  <2> QED BY <2>1, <1>1, <1>3, SetsAreTyped
<1>4. CASE d.own # 0 /\ row.at # d.own
  <2>1. /\ answer' = [answer EXCEPT !["deploy"] = [written |-> FALSE, changed |-> FALSE, at |-> row.at]]
        /\ row' = row /\ writes' = writes
    BY <1>4 DEF PutBack, SetIfUnchanged, Answer
  <2>2. row.at = writes /\ writes \in Nat
    BY DEF SwitchType
  <2>3. answer' \in [Who -> [written : BOOLEAN, changed : BOOLEAN, at : Nat]]
    BY <2>1, <2>2 DEF SwitchType
  <2>4. \A v \in Who : answer'[v].at <= writes
    BY <2>1, <2>2 DEF SwitchType
  <2> QED BY <2>1, <2>3, <2>4 DEF SwitchType
<1> QED BY <1>2, <1>3, <1>4

\* What becomes of the unit.
LEMMA UnitsAreTyped ==
  ASSUME MachineType
  PROVE  /\ unit.state \in {"active", "activating", "inactive", "failed"} /\ unit.code \in {"old", "new", "none"}
         /\ {unit.up, unit.longest, unit.restarts} \subseteq Nat /\ unit.wait \in Int /\ Window \in Nat
         /\ Restarted \in UnitType /\ Up(installed) \in UnitType /\ Aged \in UnitType
         /\ Restarted.state = "active" /\ Restarted.code = installed /\ Restarted.up = 0
         /\ Restarted.longest = unit.longest /\ Restarted.restarts = unit.restarts + 1
         /\ [unit EXCEPT !.state = "inactive", !.code = "none"] \in UnitType
         /\ [unit EXCEPT !.state = "failed", !.code = "none"] \in UnitType
         /\ [unit EXCEPT !.state = "activating", !.code = "none", !.wait = restartSec] \in UnitType
<1>1. /\ unit \in UnitType /\ installed \in {"old", "new", "none"} /\ restartSec \in Nat /\ Least \in Nat
  BY DeployAssumption DEF MachineType
<1>2. /\ unit.state \in {"active", "activating", "inactive", "failed"} /\ unit.code \in {"old", "new", "none"}
      /\ {unit.up, unit.longest, unit.restarts} \subseteq Nat /\ unit.wait \in Int
  BY <1>1 DEF UnitType
<1>3. Window \in Nat
  BY <1>1 DEF Window
<1>4. /\ Restarted \in UnitType /\ Up(installed) \in UnitType
      /\ Restarted.state = "active" /\ Restarted.code = installed /\ Restarted.up = 0
      /\ Restarted.longest = unit.longest /\ Restarted.restarts = unit.restarts + 1
  <2>1. unit.restarts + 1 \in Nat /\ unit.up \in Nat /\ unit.longest \in Nat
    BY <1>2
  <2>2. Restarted \in UnitType
    BY <1>1, <2>1 DEF UnitType, Restarted
  <2>3. Up(installed) \in UnitType
    BY <1>1 DEF UnitType, Up
  <2>4. /\ Restarted.state = "active" /\ Restarted.code = installed /\ Restarted.up = 0
        /\ Restarted.longest = unit.longest /\ Restarted.restarts = unit.restarts + 1
    BY <1>1 DEF UnitType, Restarted
  <2> QED BY <2>2, <2>3, <2>4
<1>5. Longer(unit.up + 1) \in Nat /\ unit.up + 1 \in Nat
  BY <1>2 DEF Longer
<1>6. /\ [unit EXCEPT !.up = @ + 1, !.longest = Longer(unit.up + 1)] \in UnitType
      /\ [unit EXCEPT !.wait = @ - 1] \in UnitType
  <2>1. \A n, m \in Nat : [unit EXCEPT !.up = n, !.longest = m] \in UnitType
    BY <1>1 DEF UnitType
  <2>2. \A n \in Int : [unit EXCEPT !.wait = n] \in UnitType
    BY <1>1 DEF UnitType
  <2>3. unit.wait - 1 \in Int
    BY <1>2
  <2> QED BY <2>1, <2>2, <2>3, <1>5, Zenon
<1>7. Aged \in UnitType
  BY <1>1, <1>4, <1>6 DEF Aged
<1>8. /\ [unit EXCEPT !.state = "inactive", !.code = "none"] \in UnitType
      /\ [unit EXCEPT !.state = "failed", !.code = "none"] \in UnitType
      /\ [unit EXCEPT !.state = "activating", !.code = "none", !.wait = restartSec] \in UnitType
  <2>1. \A n \in Int : [unit EXCEPT !.state = "activating", !.code = "none", !.wait = n] \in UnitType
    BY <1>1 DEF UnitType
  <2>2. restartSec \in Int
    BY <1>1
  <2> QED BY <1>1, <2>1, <2>2 DEF UnitType
<1> QED BY <1>2, <1>3, <1>4, <1>7, <1>8

\* The steps, one by one.
LEMMA EveryStep ==
  ASSUME [Next]_vars
  PROVE  \/ Read \/ Backup \/ SwitchOff \/ Drain \/ Sleep \/ Stop \/ Install \/ SeedSwitch \/ CheckVenv
         \/ Start \/ CountRestarts \/ AwaitActive \/ SettleState \/ SettleCount \/ RestoreSwitch \/ Answered
         \/ Recover \/ Recovered \/ CommandFails \/ Interrupt \/ RecoverFails \/ RecoverInterrupted
         \/ Exit \/ Revive \/ Hear \/ (\E b \in Boxes : Take(b) \/ LetGo(b)) \/ (\E on \in BOOLEAN : Speak(on))
         \/ UNCHANGED vars
  BY DEF Next, DeployStep

\* The switch and its stamps.
LEMMA TypedSwitch ==
  ASSUME TypeOK, [Next]_vars
  PROVE  SwitchType'
<1>1. SwitchType /\ "deploy" \in Who /\ "person" \in Who
  BY DeployAssumption DEF TypeOK
<1>2. CASE UNCHANGED switchVars
  BY <1>1, <1>2 DEF SwitchType, switchVars
<1>3. CASE SwitchOff \/ \E on \in BOOLEAN : Speak(on)
  BY <1>1, <1>3, SetsAreTyped DEF SwitchOff, Speak
<1>4. CASE SeedSwitch
  BY <1>1, <1>2, <1>4, SeedsAreTyped DEF SeedSwitch
<1>5. CASE RestoreSwitch \/ Recover
  BY <1>1, <1>5, PutsBack DEF RestoreSwitch, Recover
<1> QED
  BY <1>2, <1>3, <1>4, <1>5, EveryStep
     DEF Read, Backup, Drain, Sleep, Stop, Install, CheckVenv, Start, CountRestarts, AwaitActive, SettleState,
         SettleCount, Answered, Recovered, CommandFails, Interrupt, RecoverFails, RecoverInterrupted, Exit, Revive,
         Hear, Take, LetGo, vars

\* The unit, the venv and the zone.
LEMMA TypedMachine ==
  ASSUME TypeOK, [Next]_vars
  PROVE  MachineType'
<1>1. MachineType /\ Reads \in BOOLEAN
  BY DEF TypeOK, SwitchType, Reads
<1>2. CASE UNCHANGED machineVars
  BY <1>1, <1>2 DEF MachineType, machineVars
<1>3. CASE Exit \/ Revive
  <2>1. unit' \in UnitType /\ UNCHANGED <<exists, installed, wheel, restartSec, members, late, heard>>
    BY <1>1, <1>3, UnitsAreTyped DEF Exit, Revive
  <2> QED BY <1>1, <2>1 DEF MachineType
<1>4. CASE Hear \/ Drain \/ \E b \in Boxes : Take(b) \/ LetGo(b)
  <2>1. /\ heard' \in BOOLEAN /\ members' \subseteq Boxes /\ late' \subseteq Boxes
        /\ UNCHANGED <<exists, unit, installed, wheel, restartSec>>
    BY <1>1, <1>4 DEF Hear, Drain, Take, LetGo, MachineType
  <2> QED BY <1>1, <2>1 DEF MachineType
<1>5. CASE Sleep \/ Start
  <2>1. unit' \in UnitType /\ UNCHANGED <<exists, installed, wheel, restartSec, members, late, heard>>
    BY <1>1, <1>5, UnitsAreTyped DEF Sleep, Start, MachineType
  <2> QED BY <1>1, <2>1 DEF MachineType
<1>6. CASE Stop
  <2>1. /\ unit' \in UnitType /\ members' \subseteq Boxes /\ late' \subseteq Boxes
        /\ UNCHANGED <<exists, installed, wheel, restartSec, heard>>
    BY <1>1, <1>6, UnitsAreTyped DEF Stop, MachineType
  <2> QED BY <1>1, <2>1 DEF MachineType
<1>7. CASE Install \/ SeedSwitch
  <2>1. /\ installed' \in {"old", "new", "none"} /\ exists' \in BOOLEAN
        /\ UNCHANGED <<unit, wheel, restartSec, members, late, heard>>
    BY <1>1, <1>7 DEF Install, Applied, SeedSwitch, MachineType
  <2> QED BY <1>1, <2>1 DEF MachineType
<1> QED
  BY <1>2, <1>3, <1>4, <1>5, <1>6, <1>7, EveryStep
     DEF Read, Backup, SwitchOff, Drain, CheckVenv, CountRestarts, AwaitActive, SettleState,
         SettleCount, RestoreSwitch, Answered, Recover, Recovered, CommandFails, Interrupt, RecoverFails,
         RecoverInterrupted, Speak, vars

\* What the deploy found, and the person's word.
LEMMA TypedWords ==
  ASSUME TypeOK, [Next]_vars
  PROVE  /\ found' \in [on : BOOLEAN, unit : {"active", "activating", "inactive", "failed"}]
         /\ word' \in [said : {"nothing", "on", "off"}, late : BOOLEAN, on : BOOLEAN]
<1>1. /\ Reads \in BOOLEAN /\ word.on \in BOOLEAN
      /\ unit.state \in {"active", "activating", "inactive", "failed"}
  BY UnitsAreTyped DEF TypeOK, SwitchType, Reads
<1>2. CASE UNCHANGED <<found, word>>
  BY <1>2 DEF TypeOK
<1>3. CASE Read
  BY <1>1, <1>3 DEF Read, TypeOK
<1>4. ASSUME NEW on \in BOOLEAN, Speak(on)
      PROVE  /\ found' \in [on : BOOLEAN, unit : {"active", "activating", "inactive", "failed"}]
             /\ word' \in [said : {"nothing", "on", "off"}, late : BOOLEAN, on : BOOLEAN]
  <2>1. found' = found /\ \E behind, ever \in BOOLEAN :
          word' = [said |-> IF on THEN "on" ELSE "off", late |-> behind, on |-> ever]
    <3>1. /\ ("switch_off" \in d.done \/ d.own # 0) \in BOOLEAN /\ (on \/ word.on) \in BOOLEAN
      BY <1>1
    <3> QED BY <1>4, <3>1, Zenon DEF Speak
  <2>2. PICK behind \in BOOLEAN, ever \in BOOLEAN :
          word' = [said |-> IF on THEN "on" ELSE "off", late |-> behind, on |-> ever]
    BY <2>1
  <2> QED BY <2>1, <2>2 DEF TypeOK
<1> QED
  BY <1>2, <1>3, <1>4, EveryStep
     DEF Rest, Backup, SwitchOff, Drain, Sleep, Stop, Install, SeedSwitch, CheckVenv, Start, CountRestarts, AwaitActive,
         SettleState, SettleCount, RestoreSwitch, Answered, Recover, Recovered, CommandFails, Interrupt, RecoverFails,
         RecoverInterrupted, Exit, Revive, Hear, Take, LetGo, vars

\* A deploy that is over.
LEMMA EndsAreTyped ==
  ASSUME d \in DeployType,
         NEW how \in {"nothing", "refused", "planned", "deployed", "interrupted", "untold"},
         NEW switch \in {"nothing", "already off", "may", "off", "unchanged", "as it was", "could not be put back"},
         NEW left \in {"nothing", "may", "started", "stopped", "not stopped"},
         Ended(how, switch, left)
  PROVE  d' \in DeployType /\ d'.at = "ended"
<1>1. /\ [how |-> how, switch |-> switch, unit |-> left] \in
            [how : {"nothing", "refused", "planned", "deployed", "interrupted", "untold"},
             switch : {"nothing", "already off", "may", "off", "unchanged", "as it was", "could not be put back"},
             unit : {"nothing", "may", "started", "stopped", "not stopped"}]
      /\ "ended" \in Places
  BY DEF Places
<1> QED BY <1>1 DEF Ended, DeployType

\* A refusal ends the deploy, or has it put the switch back first.
LEMMA RefusalsAreTyped ==
  ASSUME d \in DeployType, Step \in Names, Failed
  PROVE  /\ d' \in DeployType
         /\ \/ d'.at = "ended"
            \/ Recovers /\ d' = [d EXCEPT !.at = "recover", !.failed = Step]
<1> DEFINE refused == [NotSaid EXCEPT !.how = "refused"]
<1>1. /\ refused \in [how : {"nothing", "refused", "planned", "deployed", "interrupted", "untold"},
                      switch : {"nothing", "already off", "may", "off", "unchanged", "as it was", "could not be put back"},
                      unit : {"nothing", "may", "started", "stopped", "not stopped"}]
      /\ "ended" \in Places /\ "recover" \in Places
  BY DEF NotSaid, Places
<1>2. CASE Recovers
  <2>1. d' = [d EXCEPT !.at = "recover", !.failed = Step]
    BY <1>2 DEF Failed
  <2> QED BY <1>1, <1>2, <2>1 DEF DeployType
<1>3. CASE ~Recovers
  <2>1. d' = [d EXCEPT !.at = "ended", !.failed = Step, !.end = refused]
    BY <1>3 DEF Failed
  <2> HIDE DEF refused
  <2> QED BY <1>1, <2>1 DEF DeployType
<1> QED BY <1>2, <1>3

\* An answer takes the step off the plan; only that of the switch-off can drop the stamp.
LEMMA AnswersAreTyped ==
  ASSUME TypeOK, Plan, Answered
  PROVE  /\ d' \in DeployType
         /\ \/ d'.at = "ended"
            \/ /\ d'.at = "begin" /\ d'.plan = Tail(d.plan) /\ d'.plan # <<>> /\ d'.done = d.done \cup {Step}
               /\ \/ d'.own = d.own /\ (Step = "switch_off" => answer["deploy"].changed)
                  \/ d'.own = 0 /\ Step = "switch_off"
<1> DEFINE e == Kept(d)
           deployed == [NotSaid EXCEPT !.how = "deployed"]
<1>1. /\ d \in DeployType /\ d.at = "answer" /\ Done(e) /\ Deploying
  BY DEF Answered, TypeOK, Deploying
<1>2. /\ Step \in Names /\ d.plan \in Seq(Names) /\ Tail(d.plan) \in Seq(Names)
      /\ Len(d.plan) # 1 => Tail(d.plan) # <<>>
  BY <1>1, Standing, TheFirstOfThem DEF Step
<1>3. d.done \subseteq Names
  BY <1>1, FieldsOfADeploy
<1>4. /\ e \in DeployType /\ e.plan = d.plan /\ e.done = d.done
      /\ \/ e.own = d.own /\ (Step = "switch_off" => answer["deploy"].changed)
         \/ e.own = 0 /\ Step = "switch_off"
  <2>1. CASE e = d /\ (Step = "switch_off" => answer["deploy"].changed)
    BY <1>1, <2>1
  <2>2. CASE e = [d EXCEPT !.own = 0, !.already = TRUE] /\ Step = "switch_off"
    <3>1. e \in DeployType
      BY <1>1, <2>2, FieldsOfADeploy
    <3>2. {"own", "already", "plan", "done"} \subseteq DOMAIN d
      BY <1>1 DEF DeployType
    <3>3. e.plan = d.plan /\ e.done = d.done /\ e.own = 0
      BY <2>2, <3>2
    <3> QED BY <2>2, <3>1, <3>3
  <2> QED BY <2>1, <2>2 DEF Kept
<1>5. /\ deployed \in [how : {"nothing", "refused", "planned", "deployed", "interrupted", "untold"},
                      switch : {"nothing", "already off", "may", "off", "unchanged", "as it was", "could not be put back"},
                      unit : {"nothing", "may", "started", "stopped", "not stopped"}]
      /\ "ended" \in Places /\ "begin" \in Places
  BY DEF NotSaid, Places
<1> HIDE DEF e
<1>6. CASE Len(d.plan) = 1
  <2>1. d' = [e EXCEPT !.at = "ended", !.done = @ \cup {Step}, !.plan = <<>>, !.end = deployed]
    BY <1>1, <1>4, <1>6 DEF Done
  <2>2. e.done \cup {Step} \in SUBSET Names /\ <<>> \in Seq(Names)
    BY <1>2, <1>4, <1>3
  <2> HIDE DEF deployed
  <2> QED BY <1>4, <1>5, <2>1, <2>2 DEF DeployType
<1>7. CASE Len(d.plan) # 1
  <2>1. d' = [e EXCEPT !.at = "begin", !.done = @ \cup {Step}, !.plan = Tail(@), !.waited = 0]
    BY <1>1, <1>4, <1>7 DEF Done
  <2>2. e.done \cup {Step} \in SUBSET Names /\ Tail(e.plan) \in Seq(Names)
    BY <1>2, <1>4, <1>3
  <2>3. /\ d' \in DeployType /\ d'.at = "begin" /\ d'.done = e.done \cup {Step} /\ d'.plan = Tail(e.plan)
        /\ d'.own = e.own
    BY <1>4, <1>5, <2>1, <2>2 DEF DeployType
  <2> QED BY <2>3, <1>2, <1>4, <1>7
<1> QED BY <1>6, <1>7

\* Within a step the plan and what is done stay.
Within ==
  /\ Deploying /\ d'.at \notin {"read", "ended"}
  /\ d.at \in {"answer", "recover", "recovered"} => d'.at \in {"recover", "recovered"}
  /\ d'.plan = d.plan /\ d'.done = d.done /\ found' = found
  /\ d'.own = d.own \/ (SwitchOff /\ d'.own = writes + 1)
  /\ PlaceOfStep'

Planning ==
  /\ Read /\ d'.at = "begin" /\ d'.done = d.done /\ d'.own = d.own
  /\ d'.plan = PlanSteps(exists /\ Reads, unit.state = "active")

NextStep ==
  /\ Answered /\ d.at = "answer" /\ d'.at = "begin" /\ found' = found
  /\ d'.plan = Tail(d.plan) /\ d'.plan # <<>> /\ d'.done = d.done \cup {Step}
  /\ \/ d'.own = d.own /\ (Step = "switch_off" => answer["deploy"].changed)
     \/ d'.own = 0 /\ Step = "switch_off"

Moves == \/ d' = d /\ found' = found
         \/ d'.at = "ended"
         \/ Planning \/ Within \/ NextStep

\* A deploy goes from place to place of a step, and from step to step of its plan.
LEMMA EveryMove ==
  ASSUME TypeOK, Plan, [Next]_vars
  PROVE  d' \in DeployType /\ Moves
<1>1. /\ d \in DeployType /\ SwitchType /\ MachineType
      /\ found \in [on : BOOLEAN, unit : {"active", "activating", "inactive", "failed"}]
  BY DEF TypeOK
<1>2. Deploying => /\ Step \in Names /\ PlaceOfStep
  BY Standing DEF Plan
<1>3. CASE UNCHANGED <<d, found>>
  BY <1>1, <1>3 DEF Moves
<1>4. CASE Read
  <2>1. CASE \E how \in {"refused", "planned"} : Ended(how, "nothing", "nothing")
    BY <1>1, <2>1, EndsAreTyped DEF Moves
  <2>2. CASE d' = [d EXCEPT !.at = "begin", !.plan = PlanSteps(exists /\ Reads, unit.state = "active")]
    <3>1. PlanSteps(exists /\ Reads, unit.state = "active") \in Seq(Names)
      <4>1. (exists /\ Reads) \in BOOLEAN /\ (unit.state = "active") \in BOOLEAN /\ exists \in BOOLEAN
        BY <1>1 DEF MachineType
      <4> QED BY <4>1, ThePlan
    <3>2. "begin" \in Places
      BY DEF Places
    <3>3. d' \in DeployType
      BY <1>1, <2>2, <3>1, <3>2, FieldsOfADeploy
    <3>4. /\ d'.at = "begin" /\ d'.done = d.done /\ d'.own = d.own
          /\ d'.plan = PlanSteps(exists /\ Reads, unit.state = "active")
      BY <1>1, <2>2 DEF DeployType
    <3> QED BY <3>3, <3>4, <1>4 DEF Moves, Planning
  <2> QED BY <1>4, <2>1, <2>2 DEF Read
<1>5. CASE Answered
  <2>1. d.at = "answer" /\ found' = found
    BY <1>5 DEF Answered, Rest
  <2> QED BY <1>5, <2>1, AnswersAreTyped DEF Moves, NextStep
<1>6. CASE SwitchOff
  <2>1. d' = [d EXCEPT !.at = "answer", !.own = writes + 1] /\ found' = found /\ d.at = "begin"
    BY <1>6 DEF SwitchOff, Rest, Begins
  <2>2. writes + 1 \in Nat /\ "answer" \in Places
    BY <1>1 DEF SwitchType, Places
  <2>3. d' \in DeployType
    BY <1>1, <2>1, <2>2, FieldsOfADeploy
  <2>4. d'.at = "answer" /\ d'.plan = d.plan /\ d'.done = d.done /\ d'.own = writes + 1
    BY <1>1, <2>1 DEF DeployType
  <2>5. PlaceOfStep'
    BY <2>4 DEF PlaceOfStep, Starting, Settling
  <2> QED BY <1>6, <2>1, <2>3, <2>4, <2>5 DEF Moves, Within, Deploying
<1>7. ASSUME NEW p \in Places \ {"read", "begin", "answer", "recover", "ended"}, At(p), found' = found, Deploying, d.at # "answer",
             p = "recovered" \/ d.at \notin {"recover", "recovered"},
             \/ p = "seed" /\ Step = "install"
             \/ p = "sleep" /\ Step = "drain"
             \/ p \in Starting /\ Step = "start"
             \/ p = "recovered" /\ Recovers
      PROVE  d' \in DeployType /\ Moves
  <2>1. d' \in DeployType /\ d'.at = p /\ d'.plan = d.plan /\ d'.done = d.done /\ d'.own = d.own
    BY <1>1, <1>7, GoesToAPlace
  <2>2. Step' = Step /\ Recovers' = Recovers
    BY <2>1 DEF Step, Recovers
  <2>3. PlaceOfStep'
    BY <1>7, <2>1, <2>2 DEF PlaceOfStep, Starting, Settling
  <2> QED BY <1>7, <2>1, <2>3 DEF Moves, Within
<1>8. ASSUME At("answer"), found' = found, Deploying, d.at \notin {"answer", "recover", "recovered"}
      PROVE  d' \in DeployType /\ Moves
  <2>1. "answer" \in Places
    BY DEF Places
  <2>2. d' \in DeployType /\ d'.at = "answer" /\ d'.plan = d.plan /\ d'.done = d.done /\ d'.own = d.own
    BY <1>1, <1>8, <2>1, GoesToAPlace
  <2>3. PlaceOfStep'
    BY <2>2 DEF PlaceOfStep, Starting, Settling
  <2> QED BY <1>8, <2>2, <2>3 DEF Moves, Within
<1>9. ASSUME Failed, found' = found, Deploying
      PROVE  d' \in DeployType /\ Moves
  <2>1. CASE d'.at = "ended"
    BY <1>1, <1>2, <1>9, <2>1, RefusalsAreTyped DEF Moves
  <2>2. CASE Recovers /\ d' = [d EXCEPT !.at = "recover", !.failed = Step]
    <3>1. "recover" \in Places
      BY DEF Places
    <3>2. d' \in DeployType
      BY <1>1, <1>2, <1>9, <2>2, <3>1, FieldsOfADeploy
    <3>3. d'.at = "recover" /\ d'.plan = d.plan /\ d'.done = d.done /\ d'.own = d.own
      BY <1>1, <2>2 DEF DeployType
    <3>4. Step' = Step /\ Recovers' = Recovers
      BY <3>3 DEF Step, Recovers
    <3>5. PlaceOfStep'
      BY <2>2, <3>3, <3>4 DEF PlaceOfStep, Starting, Settling
    <3> QED BY <1>9, <2>2, <3>2, <3>3, <3>5 DEF Moves, Within
  <2> QED BY <1>1, <1>2, <1>9, <2>1, <2>2, RefusalsAreTyped
<1>10. ASSUME NEW p \in Places, NEW n \in Nat, NEW m \in Int,
              \/ d' = [d EXCEPT !.at = p, !.waited = n]
              \/ d' = [d EXCEPT !.at = p, !.base = m]
              \/ \E w \in Nat : d' = [d EXCEPT !.at = p, !.waited = n, !.window = w],
              found' = found, Deploying, d.at \notin {"answer", "recover", "recovered"},
              p = "begin" \/ (p \in Starting /\ Step = "start")
      PROVE  d' \in DeployType /\ Moves
  <2>1. d' \in DeployType
    <3>1. CASE d' = [d EXCEPT !.at = p, !.waited = n]
      BY <1>1, <1>10, <3>1, FieldsOfADeploy
    <3>2. CASE d' = [d EXCEPT !.at = p, !.base = m]
      BY <1>1, <1>10, <3>2, FieldsOfADeploy
    <3>3. CASE \E w \in Nat : d' = [d EXCEPT !.at = p, !.waited = n, !.window = w]
      <4>1. PICK w \in Nat : d' = [d EXCEPT !.at = p, !.waited = n, !.window = w]
        BY <3>3
      <4>2. [d EXCEPT !.at = p, !.waited = n, !.window = w] \in DeployType
        BY <1>1, FieldsOfADeploy
      <4> QED BY <4>1, <4>2
    <3> QED BY <1>10, <3>1, <3>2, <3>3
  <2>2. d'.at = p /\ d'.plan = d.plan /\ d'.done = d.done /\ d'.own = d.own
    BY <1>1, <1>10 DEF DeployType
  <2>3. Step' = Step
    BY <2>2 DEF Step
  <2>4. PlaceOfStep'
    BY <1>10, <2>2, <2>3 DEF PlaceOfStep, Starting, Settling
  <2>5. p \notin {"read", "ended"}
    BY <1>10 DEF Starting, Settling
  <2> QED BY <1>10, <2>1, <2>2, <2>4, <2>5 DEF Moves, Within
<1>11. CASE Backup \/ Stop \/ RestoreSwitch \/ SeedSwitch
  BY <1>8, <1>11 DEF Backup, Stop, RestoreSwitch, SeedSwitch, Rest, Begins, Deploying
<1>12. CASE Drain \/ CheckVenv
  <2>1. "sleep" \in Places
    BY DEF Places
  <2> QED BY <1>7, <1>8, <1>9, <1>12, <2>1 DEF Drain, CheckVenv, Rest, Begins, Deploying
<1>13. CASE Install \/ Start \/ Recover
  <2>1. {"seed", "count", "recovered"} \subseteq Places /\ "count" \in Starting
    BY DEF Places, Starting
  <2>2. d.at = "recover" => Recovers
    BY <1>2 DEF Deploying, PlaceOfStep
  <2> QED BY <1>7, <1>13, <2>1, <2>2 DEF Install, Applied, Start, Recover, Rest, Begins, Deploying
<1>14. CASE Sleep
  <2>1. d.waited + 1 \in Nat /\ {"begin", "up", "settle"} \subseteq Places /\ {"up", "settle"} \subseteq Starting
    <3>1. d.waited \in Nat
      BY <1>1 DEF DeployType
    <3> QED BY <3>1 DEF Places, Starting, Settling
  <2>2. /\ Deploying /\ found' = found /\ d.at # "answer" /\ d.at \in {"sleep", "sleep up", "sleep settled"}
        /\ d.at # "sleep" => Step = "start"
    BY <1>2, <1>14 DEF Sleep, Rest, Deploying, PlaceOfStep, Starting, Settling
  <2>3. \E p \in Places : /\ d' = [d EXCEPT !.at = p, !.waited = d.waited + 1]
                          /\ p = "begin" \/ (p \in Starting /\ Step = "start")
    BY <1>14, <2>1, <2>2 DEF Sleep
  <2>4. 0 \in Int
    OBVIOUS
  <2> QED BY <2>1, <2>2, <2>3, <2>4, <1>10
<1>15. CASE CountRestarts \/ AwaitActive \/ SettleState \/ SettleCount
  <2>1. /\ {"up", "sleep up", "sleep settled", "settle count"} \subseteq Places
        /\ {"up", "sleep up", "sleep settled", "settle count"} \subseteq Starting
    BY DEF Places, Starting, Settling
  <2>2. Deploying /\ found' = found /\ Step = "start" /\ d.at \notin {"answer", "recover", "recovered"}
    BY <1>2, <1>15 DEF CountRestarts, AwaitActive, SettleState, SettleCount, Rest, Deploying, PlaceOfStep, Starting, Settling
  <2>3. Restarts \subseteq Int /\ {Window, Least} \subseteq Nat /\ 0 \in Nat /\ 0 \in Int
    <3>1. unit.restarts \in Nat /\ Window \in Nat /\ Least \in Nat
      BY <1>1, UnitsAreTyped, DeployAssumption DEF MachineType
    <3> QED BY <3>1 DEF Restarts, Unread
  <2>4. CASE CountRestarts
    <3>1. \E m \in Int : d' = [d EXCEPT !.at = "up", !.base = m]
      BY <2>3, <2>4 DEF CountRestarts
    <3> QED BY <1>10, <2>1, <2>2, <2>3, <3>1
  <2>5. CASE AwaitActive
    <3>1. \/ Failed \/ At("sleep up")
          \/ \E w \in Nat : d' = [d EXCEPT !.at = "sleep settled", !.waited = 0, !.window = w]
      BY <2>3, <2>5 DEF AwaitActive
    <3> QED BY <1>7, <1>9, <1>10, <2>1, <2>2, <2>3, <3>1
  <2>6. CASE SettleState \/ SettleCount
    BY <1>7, <1>8, <1>9, <2>1, <2>2, <2>6 DEF SettleState, SettleCount
  <2> QED BY <1>15, <2>4, <2>5, <2>6
<1>16. CASE CommandFails
  BY <1>9, <1>16 DEF CommandFails, Running, Deploying
<1>17. CASE Interrupt \/ Recovered \/ RecoverFails \/ RecoverInterrupted
  <2>1. /\ SwitchStands \in {"nothing", "already off", "may", "off", "unchanged", "as it was", "could not be put back"}
        /\ UnitStands \in {"nothing", "may", "started", "stopped", "not stopped"}
    BY DEF SwitchStands, UnitStands
  <2> QED BY <1>1, <1>17, <2>1, EndsAreTyped DEF Interrupt, Recovered, RecoverFails, RecoverInterrupted, Moves
<1> QED
  BY <1>3, <1>4, <1>5, <1>6, <1>11, <1>12, <1>13, <1>14, <1>15, <1>16, <1>17, EveryStep
     DEF Exit, Revive, Hear, Take, LetGo, Speak, vars
-----------------------------------------------------------------------------
(* The plan is kept *)

\* Every variable keeps its type.
LEMMA TypesAreKept ==
  ASSUME TypeOK, Plan, [Next]_vars
  PROVE  TypeOK'
BY TypedSwitch, TypedMachine, TypedWords, EveryMove DEF TypeOK

\* A deploy before it has read anything.
LEMMA AFreshDeploy ==
  ASSUME Init
  PROVE  TypeOK /\ Plan /\ Fresh
<1>1. /\ writes \in {0, 1} /\ row \in [on : BOOLEAN, at : {writes}]
  <2>1. NoRow \in [on : BOOLEAN, at : {0}]
    BY DEF NoRow
  <2> QED BY <2>1 DEF Init, SwitchInit
<1>2. answer = [w \in Who |-> NoAnswer] /\ NoAnswer \in [written : BOOLEAN, changed : BOOLEAN, at : Nat]
  BY DEF Init, SwitchInit, NoAnswer
<1>3. \A w \in Who : answer[w] = NoAnswer /\ answer[w].at = 0
  BY <1>2 DEF NoAnswer
<1>4. SwitchType
  <2>1. answer \in [Who -> [written : BOOLEAN, changed : BOOLEAN, at : Nat]]
    BY <1>2
  <2>2. {writes} \subseteq Nat /\ 0 <= writes
    BY <1>1
  <2> QED BY <1>1, <1>3, <2>1, <2>2 DEF SwitchType
<1>5. Reads \in BOOLEAN
  BY <1>1 DEF Reads
<1>6. MachineType
  <2>1. unit \in UnitType
    BY DEF Init, UnitType
  <2>2. exists \in BOOLEAN /\ installed \in {"old", "new", "none"} /\ wheel \in {"sound", "exits", "scriptless"}
    BY DEF Init
  <2>3. restartSec \in Nat /\ heard \in BOOLEAN
    BY <1>5, DeployAssumption DEF Init
  <2>4. members \subseteq Boxes /\ late \subseteq Boxes
    BY DEF Init
  <2> QED BY <2>1, <2>2, <2>3, <2>4 DEF MachineType
<1>7. d = [at |-> "read", plan |-> <<>>, done |-> {}, failed |-> "none", own |-> 0,
           already |-> FALSE, waited |-> 0, base |-> 0, window |-> Least, end |-> NotSaid]
  BY DEF Init
<1>8. d \in DeployType
  <2>1. /\ NotSaid \in [how : {"nothing", "refused", "planned", "deployed", "interrupted", "untold"},
                        switch : {"nothing", "already off", "may", "off", "unchanged", "as it was", "could not be put back"},
                        unit : {"nothing", "may", "started", "stopped", "not stopped"}]
        /\ <<>> \in Seq(Names) /\ {} \in SUBSET Names /\ "read" \in Places
    BY DEF NotSaid, Places
  <2> HIDE DEF NotSaid
  <2>2. Least \in Nat /\ 0 \in Nat /\ 0 \in Int
    BY DeployAssumption
  <2> QED BY <1>7, <2>1, <2>2 DEF DeployType
<1>9. found \in [on : BOOLEAN, unit : {"active", "activating", "inactive", "failed"}]
  <2>1. unit.state \in {"active", "activating", "inactive", "failed"}
    BY <1>6, UnitsAreTyped
  <2> QED BY <1>5, <2>1 DEF Init
<1>10. word = NoWord /\ NoWord \in [said : {"nothing", "on", "off"}, late : BOOLEAN, on : BOOLEAN]
  BY DEF Init, NoWord
<1>11. TypeOK
  BY <1>4, <1>6, <1>8, <1>9, <1>10 DEF TypeOK
<1>12. d.at = "read" /\ d.done = {} /\ d.plan = <<>> /\ d.own = 0
  BY <1>7
<1>13. Plan /\ Fresh
  BY <1>10, <1>12 DEF Plan, Fresh, Deploying
<1> QED BY <1>11, <1>13

\* What a deploy sets out to do.
LEMMA WhatIsPlanned ==
  ASSUME TypeOK, Fresh, Planning
  PROVE  /\ d.at = "read" /\ d'.at = "begin" /\ d'.done = {} /\ d'.plan # <<>> /\ Ordered(d'.plan)
         /\ Left' = Planned'
         /\ Planned' = {x \in Names : \/ x \in {"install", "check_venv", "start"}
                                      \/ x = "backup" /\ exists
                                      \/ x \in {"switch_off", "restore_switch"} /\ exists /\ Reads
                                      \/ x = "drain" /\ exists /\ unit.state = "active"
                                      \/ x = "stop" /\ unit.state = "active"}
         /\ found' = [on |-> Reads, unit |-> unit.state] /\ UNCHANGED <<switchVars, machineVars, word>>
<1> DEFINE on == exists /\ Reads
           active == unit.state = "active"
           p == PlanSteps(on, active)
<1>1. /\ d.at = "read" /\ d'.at = "begin" /\ d'.done = {} /\ d'.plan = p
      /\ found' = [on |-> Reads, unit |-> unit.state] /\ UNCHANGED <<switchVars, machineVars, word>>
  BY DEF Planning, Read, Fresh
<1>2. exists \in BOOLEAN /\ on \in BOOLEAN /\ active \in BOOLEAN
  BY DEF TypeOK, SwitchType, MachineType, Reads
<1>3. /\ p # <<>> /\ Ordered(p)
      /\ StepsOf(p) = {x \in Names : \/ x \in {"install", "check_venv", "start"}
                                     \/ x = "backup" /\ exists
                                     \/ x \in {"switch_off", "restore_switch"} /\ on
                                     \/ x = "drain" /\ exists /\ active
                                     \/ x = "stop" /\ active}
  <2> HIDE DEF on, active
  <2> QED BY <1>2, ThePlan
<1>4. Left' = StepsOf(p) /\ Planned' = StepsOf(p)
  BY <1>1 DEF Planned, Left
<1>5. StepsOf(p) = {x \in Names : \/ x \in {"install", "check_venv", "start"}
                                  \/ x = "backup" /\ exists
                                  \/ x \in {"switch_off", "restore_switch"} /\ exists /\ Reads
                                  \/ x = "drain" /\ exists /\ unit.state = "active"
                                  \/ x = "stop" /\ unit.state = "active"}
  BY <1>3, Zenon
<1> HIDE DEF p
<1> QED BY <1>1, <1>3, <1>4, <1>5

\* What is done and what is left stay apart, and together they are what was planned.
LEMMA ThePlanIsKept ==
  ASSUME TypeOK, Plan, Fresh, [Next]_vars
  PROVE  Plan' /\ Fresh'
<1>1. Moves
  BY EveryMove
<1>2. CASE d' = d /\ found' = found
  <2>1. Plan'
    BY <1>2 DEF Plan, Deploying, PlannedIsWhole, Planned, Left, PlaceOfStep, Step, Recovers
  <2>2. d.at = "read" => word' = word
    <3> QED
      BY EveryStep
         DEF Rest, Read, Backup, SwitchOff, Drain, Sleep, Stop, Install, SeedSwitch, CheckVenv, Start, CountRestarts,
             AwaitActive, SettleState, SettleCount, RestoreSwitch, Answered, Recover, Recovered, CommandFails, Interrupt,
             RecoverFails, RecoverInterrupted, Exit, Revive, Hear, Take, LetGo, Speak, vars
  <2> QED BY <1>2, <2>1, <2>2 DEF Fresh
<1>3. CASE d'.at = "ended"
  BY <1>3 DEF Plan, Fresh, Deploying
<1>4. CASE Planning
  <2>1. /\ d'.at = "begin" /\ d'.done = {} /\ d'.plan # <<>> /\ Ordered(d'.plan)
        /\ found' = [on |-> Reads, unit |-> unit.state]
        /\ Planned' = {x \in Names : \/ x \in {"install", "check_venv", "start"}
                                     \/ x = "backup" /\ exists
                                     \/ x \in {"switch_off", "restore_switch"} /\ exists /\ Reads
                                     \/ x = "drain" /\ exists /\ unit.state = "active"
                                     \/ x = "stop" /\ unit.state = "active"}
    BY <1>4, WhatIsPlanned
  <2>2. PlannedIsWhole'
    BY <2>1 DEF PlannedIsWhole, Names
  <2>3. PlaceOfStep'
    BY <2>1 DEF PlaceOfStep, Starting, Settling
  <2> QED BY <2>1, <2>2, <2>3 DEF Plan, Fresh
<1>5. CASE Within
  <2>1. /\ d'.plan = d.plan /\ d'.done = d.done /\ found' = found /\ PlaceOfStep' /\ d'.at # "read"
        /\ Plan /\ Deploying
    BY <1>5 DEF Within
  <2>2. Planned' = Planned /\ Left' = Left
    BY <2>1 DEF Planned, Left
  <2>3. PlannedIsWhole'
    BY <2>1, <2>2 DEF Plan, PlannedIsWhole
  <2> QED BY <2>1, <2>2, <2>3 DEF Plan, Fresh
<1>6. CASE NextStep
  <2>1. /\ d'.at = "begin" /\ found' = found /\ d'.plan = Tail(d.plan) /\ d'.plan # <<>>
        /\ d'.done = d.done \cup {Step} /\ Deploying
    BY <1>6 DEF NextStep, Deploying
  <2>2. /\ d.plan \in Seq(Names) /\ d.plan # <<>> /\ Ordered(d.plan) /\ Left \subseteq Names /\ d.done \subseteq Names
        /\ Step \in Left /\ Left = StepsOf(Tail(d.plan)) \cup {Step}
        /\ \A x \in d.done, y \in Left : Rank[x] < Rank[y]
    BY <2>1, Standing DEF Plan
  <2>3. Ordered(d'.plan) /\ \A y \in Left' : Rank[Step] < Rank[y]
    BY <2>1, <2>2, TheFirstOfThem DEF Left, Step
  <2>4. Left' \subseteq Left /\ Planned' = Planned
    BY <2>1, <2>2 DEF Left, Planned
  <2>5. \A x \in d'.done, y \in Left' : Rank[x] < Rank[y]
    BY <2>1, <2>2, <2>3, <2>4
  <2>6. PlannedIsWhole'
    BY <2>1, <2>4 DEF Plan, PlannedIsWhole
  <2>7. PlaceOfStep'
    BY <2>1 DEF PlaceOfStep, Starting, Settling
  <2> QED BY <2>1, <2>3, <2>5, <2>6, <2>7 DEF Plan, Fresh
<1> QED BY <1>1, <1>2, <1>3, <1>4, <1>5, <1>6 DEF Moves
-----------------------------------------------------------------------------
(* Whose word stands *)

\* The steps that touch neither the switch nor what a person said.
LEMMA WhoWrites ==
  ASSUME [Next]_vars
  PROVE  \/ UNCHANGED <<switchVars, exists, word>> /\ ~SwitchOff
         \/ SwitchOff \/ SeedSwitch \/ RestoreSwitch \/ Recover \/ (\E on \in BOOLEAN : Speak(on))
<1>1. CASE \/ Read \/ Backup \/ Drain \/ Sleep \/ Stop \/ Install \/ CheckVenv
           \/ Start \/ CountRestarts \/ AwaitActive \/ SettleState \/ SettleCount \/ Answered
           \/ Recovered \/ CommandFails \/ Interrupt \/ RecoverFails \/ RecoverInterrupted
           \/ Exit \/ Revive \/ Hear \/ (\E b \in Boxes : Take(b) \/ LetGo(b)) \/ UNCHANGED vars
  BY <1>1 DEF Rest, machineVars, Read, Backup, Drain, Sleep, Stop, Install, CheckVenv, Start, CountRestarts,
              AwaitActive, SettleState, SettleCount, Answered, Recovered, CommandFails, Interrupt,
              RecoverFails, RecoverInterrupted, Exit, Revive, Hear, Take, LetGo, vars
<1> QED BY <1>1, EveryStep

\* The house is where it is, once it is there, and a person speaks of a house that is there.
LEMMA TheWordIsKept ==
  ASSUME TypeOK, Plan, Fresh, OwnStamp, Words, TheirWordStands, [Next]_vars
  PROVE  OwnStamp' /\ Words' /\ TheirWordStands'
<1>1. /\ SwitchType /\ writes \in Nat /\ row.at = writes /\ row.on \in BOOLEAN /\ d.own \in Nat
      /\ exists \in BOOLEAN /\ word.said \in {"nothing", "on", "off"}
  BY FieldsOfADeploy DEF TypeOK, SwitchType, MachineType
<1>2. Moves
  BY EveryMove
<1>3. Deploying => Step \notin d.done /\ \A x \in Planned : Rank[x] < Rank[Step] => x \in d.done
  BY Standing
<1>4. "deploy" \in Who /\ "person" \in Who
  BY DeployAssumption
<1>5. CASE UNCHANGED <<switchVars, exists, word>> /\ ~SwitchOff
  <2>1. /\ row' = row /\ writes' = writes /\ answer' = answer /\ exists' = exists /\ word' = word
        /\ Words /\ OwnStamp
    BY <1>5 DEF switchVars
  <2>2. TheirWordStands'
    BY <2>1 DEF TheirWordStands, Reads
  <2>3. CASE d' = d
    BY <2>1, <2>2, <2>3 DEF OwnStamp, Words, Deploying, Obeyed, Step
  <2>4. CASE d'.at = "ended"
    BY <2>1, <2>2, <2>4 DEF OwnStamp, Words
  <2>5. CASE Planning
    <3>1. d.own = 0 /\ word = NoWord /\ d'.own = 0
      BY <2>5 DEF Planning, Read, Fresh
    <3> QED BY <1>1, <2>1, <2>2, <3>1 DEF OwnStamp, Words, NoWord
  <2>6. CASE Within
    <3>1. /\ d'.own = d.own /\ d'.done = d.done /\ d'.plan = d.plan /\ Deploying /\ Deploying' /\ d.at # "ended"
          /\ d.at = "answer" => Recovers'
      BY <1>5, <2>6 DEF Within, Deploying, PlaceOfStep
    <3>2. Step' = Step /\ Step \notin d.done
      BY <1>3, <3>1 DEF Step
    <3>3. d.own # 0 => "switch_off" \in d.done
      BY <2>1, <3>1, <3>2 DEF OwnStamp, Obeyed, Recovers
    <3>4. OwnStamp'
      BY <2>1, <3>1, <3>3 DEF OwnStamp, Obeyed
    <3>5. Words'
      BY <2>1, <3>1 DEF Words
    <3> QED BY <2>2, <3>4, <3>5
  <2>7. CASE NextStep
    <3>1. /\ d'.done = d.done \cup {Step} /\ d'.at = "begin" /\ d.at = "answer" /\ Deploying /\ Deploying'
          /\ \/ d'.own = d.own /\ (Step = "switch_off" => answer["deploy"].changed)
             \/ d'.own = 0 /\ Step = "switch_off"
      BY <2>7 DEF NextStep, Deploying
    <3>2. Step \notin d.done
      BY <1>3, <3>1
    <3>3. OwnStamp'
      BY <1>1, <2>1, <3>1, <3>2 DEF OwnStamp, Obeyed
    <3>4. Words'
      BY <2>1, <3>1 DEF Words
    <3> QED BY <2>2, <3>3, <3>4
  <2> QED BY <1>2, <2>3, <2>4, <2>5, <2>6, <2>7 DEF Moves
<1>6. CASE SwitchOff
  <2>1. /\ writes' = writes + 1 /\ row' = [on |-> FALSE, at |-> writes + 1]
        /\ answer'["deploy"] = [written |-> TRUE, changed |-> Reads # FALSE, at |-> writes + 1]
        /\ exists' = exists /\ word' = word /\ d.at = "begin" /\ Step = "switch_off" /\ Deploying
    BY <1>1, <1>4, <1>6, SetsAreTyped DEF SwitchOff, Rest, machineVars, Begins, Deploying
  <2>2. /\ d'.own = writes + 1 /\ d'.at = "answer" /\ d'.plan = d.plan /\ d'.done = d.done
    <3>1. d \in DeployType
      BY DEF TypeOK
    <3> QED BY <1>6, <3>1 DEF SwitchOff, DeployType
  <2>3. "switch_off" \notin d.done /\ d.own = 0
    BY <1>3, <2>1 DEF OwnStamp, Obeyed
  <2>4. ~word.late
    BY <2>1, <2>3 DEF Words
  <2>5. TheirWordStands'
    BY <2>1, <2>4 DEF TheirWordStands, Reads
  <2>6. Words'
    BY <2>1, <2>4 DEF Words
  <2>7. Obeyed("switch_off")' /\ Deploying'
    BY <2>1, <2>2 DEF Obeyed, Step, Deploying
  <2>8. answer'["deploy"].changed => word'.said # "off"
    <3>1. answer'["deploy"].changed = (Reads # FALSE)
      BY <2>1
    <3>2. answer'["deploy"].changed => Reads
      BY <3>1, <1>1 DEF Reads
    <3> QED BY <3>2, <2>1 DEF TheirWordStands
  <2>9. "switch_off" \notin d'.done /\ d'.own <= writes'
    BY <1>1, <2>1, <2>2, <2>3
  <2> QED BY <2>5, <2>6, <2>7, <2>8, <2>9 DEF OwnStamp
<1>7. ASSUME NEW on \in BOOLEAN, Speak(on)
      PROVE  OwnStamp' /\ Words' /\ TheirWordStands'
  <2>1. /\ writes' = writes + 1 /\ row' = [on |-> on, at |-> writes + 1] /\ exists /\ exists' /\ d' = d
        /\ word' = [said |-> IF on THEN "on" ELSE "off", late |-> "switch_off" \in d.done \/ d.own # 0, on |-> on \/ word.on]
    BY <1>1, <1>4, <1>7, SetsAreTyped DEF Speak, machineVars
  <2>2. TheirWordStands'
    BY <2>1 DEF TheirWordStands, Reads
  <2>3. Words'
    BY <2>1 DEF Words
  <2>4. OwnStamp'
    <3>1. d.at # "ended" => d.own <= writes
      BY DEF OwnStamp
    <3>2. d'.at # "ended" => d'.own <= writes' /\ row'.at # d'.own
      BY <1>1, <2>1, <3>1
    <3>3. d'.own # 0 /\ d'.at # "ended" => Deploying' /\ Obeyed("switch_off")'
      BY <2>1 DEF OwnStamp, Deploying, Obeyed, Step
    <3> QED BY <3>2, <3>3 DEF OwnStamp
  <2> QED BY <2>2, <2>3, <2>4
<1>8. CASE SeedSwitch \/ RestoreSwitch \/ Recover
  <2>1. \E p \in {"answer", "recovered"} : d' = [d EXCEPT !.at = p]
    BY <1>8 DEF SeedSwitch, RestoreSwitch, Recover, At, Begins
  <2>2. /\ d'.own = d.own /\ d'.done = d.done /\ d'.plan = d.plan /\ Deploying' /\ Deploying
        /\ d.at # "answer" /\ word' = word
    <3>1. d \in DeployType
      BY DEF TypeOK
    <3> QED BY <1>8, <2>1, <3>1 DEF DeployType, SeedSwitch, RestoreSwitch, Recover, Begins, Rest, Deploying
  <2>3. d.own # 0 => "switch_off" \in d.done
    BY <2>2 DEF OwnStamp, Obeyed, Deploying
  <2>4. d.own <= writes
    BY <2>2 DEF OwnStamp, Deploying
  <2>5. d'.own # 0 => Obeyed("switch_off")'
    BY <2>2, <2>3 DEF Obeyed
  <2>6. CASE SeedSwitch
    <3>1. exists' = TRUE
      BY <2>6 DEF SeedSwitch
    <3>2. CASE exists
      <4>1. row' = row /\ writes' = writes /\ answer' = answer
        BY <2>6, <3>2 DEF SeedSwitch, switchVars
      <4> QED BY <2>2, <2>4, <2>5, <3>1, <4>1 DEF OwnStamp, Words, TheirWordStands, Reads, Deploying
    <3>3. CASE ~exists
      <4>1. writes' = writes + 1 /\ row'.at = writes + 1 /\ word = NoWord
        BY <1>1, <2>6, <3>3, SeedsAreTyped DEF SeedSwitch, Words
      <4>2. d'.own <= writes' /\ row'.at # d'.own
        BY <1>1, <2>2, <2>4, <4>1
      <4> QED BY <2>2, <2>5, <3>1, <4>1, <4>2 DEF OwnStamp, Words, TheirWordStands, NoWord
    <3> QED BY <3>2, <3>3
  <2>7. CASE RestoreSwitch \/ Recover
    <3>1. PutBack /\ exists' = exists
      BY <2>7 DEF RestoreSwitch, Recover, machineVars
    <3>2. Words'
      BY <2>2, <3>1 DEF Words, Deploying
    <3>3. CASE d.own # 0 /\ row.at = d.own /\ writes' = writes + 1 /\ row' = [on |-> TRUE, at |-> writes + 1]
      <4>1. word.said # "off"
        BY <2>2, <2>3, <3>3 DEF OwnStamp, Deploying
      <4>2. TheirWordStands'
        BY <2>2, <3>3, <4>1 DEF TheirWordStands, Reads
      <4>3. d'.own <= writes' /\ row'.at # d'.own
        <5>1. row'.at = writes + 1 /\ writes' = writes + 1
          BY <3>3
        <5> QED BY <1>1, <2>2, <2>4, <5>1
      <4> QED BY <2>2, <2>5, <3>2, <4>2, <4>3 DEF OwnStamp
    <3>4. CASE row' = row /\ writes' = writes /\ (d.own = 0 \/ row.at # d.own)
      BY <2>2, <2>4, <2>5, <3>2, <3>4 DEF OwnStamp, TheirWordStands, Reads
    <3>5. CASE d.own # 0 /\ row.at = d.own
      <4>1. Set("deploy", TRUE)
        BY <3>1, <3>5 DEF PutBack, SetIfUnchanged
      <4> QED BY <1>1, <1>4, <3>3, <3>5, <4>1, SetsAreTyped
    <3> QED BY <1>1, <3>1, <3>4, <3>5, PutsBack
  <2> QED BY <1>8, <2>6, <2>7
<1> QED BY <1>5, <1>6, <1>7, <1>8, WhoWrites

\* At first nobody has spoken and the deploy has written nothing.
LEMMA AFreshWord ==
  ASSUME Init
  PROVE  WordInv
<1>1. d.own = 0 /\ word = NoWord /\ writes \in {0, 1}
  BY DEF Init, SwitchInit
<1> QED BY <1>1 DEF WordInv, OwnStamp, Words, TheirWordStands, NoWord

\* A person who sets the switch while a deploy runs has the last word: put_the_switch_back writes
\* only over the stamp of a switch-off that changed what the service reads.
THEOREM TheLastWordIsTheirs == Spec => []TheirWordStands
<1>1. Init => PlanInv /\ WordInv
  BY AFreshWord, AFreshDeploy DEF PlanInv
<1>2. PlanInv /\ WordInv /\ [Next]_vars => PlanInv' /\ WordInv'
  BY TypesAreKept, ThePlanIsKept, TheWordIsKept DEF PlanInv, WordInv
<1>3. WordInv => TheirWordStands
  BY DEF WordInv
<1> QED BY <1>1, <1>2, <1>3, PTL DEF Spec

\* Every variable of a deploy keeps its type.
THEOREM TypeCorrect == Spec => []TypeOK
<1>1. Init => PlanInv
  BY AFreshDeploy DEF PlanInv
<1>2. PlanInv /\ [Next]_vars => PlanInv'
  BY TypesAreKept, ThePlanIsKept DEF PlanInv
<1>3. PlanInv => TypeOK
  BY DEF PlanInv
<1> QED BY <1>1, <1>2, <1>3, PTL DEF Spec

\* The deploy and the person set the switch only as HouseSwitch allows: one set at a moment, a
\* conditional one over a stamp the switch has had, a seed only of a switch nobody ever set.
THEOREM TheyOnlySetTheSwitch == Spec => SwitchSpec
<1>1. Init => SwitchInit
  BY DEF Init
<1>2. PlanInv /\ WordInv /\ [Next]_vars => [SwitchNext]_switchVars
  <2> SUFFICES ASSUME TypeOK, OwnStamp, [Next]_vars PROVE [SwitchNext]_switchVars
    BY DEF PlanInv, WordInv
  <2>1. writes \in Nat /\ d.own \in Nat /\ "deploy" \in Who /\ "person" \in Who
    BY DeployAssumption, FieldsOfADeploy DEF TypeOK, SwitchType
  <2>2. CASE SwitchOff
    BY <2>1, <2>2 DEF SwitchOff, SwitchNext
  <2>3. ASSUME NEW on \in BOOLEAN, Speak(on) PROVE [SwitchNext]_switchVars
    BY <2>1, <2>3 DEF Speak, SwitchNext
  <2>4. CASE SeedSwitch
    BY <2>4 DEF SeedSwitch, SwitchNext
  <2>5. CASE RestoreSwitch \/ Recover
    <3>1. PutBack /\ d.at # "ended"
      BY <2>5 DEF RestoreSwitch, Recover, Begins
    <3>2. CASE d.own = 0
      BY <3>1, <3>2 DEF PutBack
    <3>3. CASE d.own # 0
      <4>1. d.own <= writes
        BY <3>1 DEF OwnStamp
      <4>2. d.own \in 1 .. writes
        BY <2>1, <3>3, <4>1
      <4>3. SetIfUnchanged("deploy", TRUE, d.own)
        BY <3>1, <3>3 DEF PutBack
      <4> QED BY <2>1, <4>2, <4>3 DEF SwitchNext
    <3> QED BY <3>2, <3>3
  <2> QED BY <2>2, <2>3, <2>4, <2>5, WhoWrites
<1>3. Init => PlanInv /\ WordInv
  BY AFreshWord, AFreshDeploy DEF PlanInv
<1>4. PlanInv /\ WordInv /\ [Next]_vars => PlanInv' /\ WordInv'
  BY TypesAreKept, ThePlanIsKept, TheWordIsKept DEF PlanInv, WordInv
<1> QED BY <1>1, <1>2, <1>3, <1>4, PTL DEF Spec, SwitchSpec
-----------------------------------------------------------------------------
(* What is obeyed *)

\* A deploy that goes on has the plan it had.
LEMMA GoingOn ==
  ASSUME TypeOK, Plan, [Next]_vars, Deploying'
  PROVE  \/ Planning /\ ~Deploying
         \/ /\ Deploying /\ Planned' = Planned /\ found' = found
            /\ \/ d' = d
               \/ Within /\ Step' = Step
               \/ NextStep /\ Step' \in Left /\ Step' # Step
<1>1. Moves
  BY EveryMove
<1>2. CASE d' = d /\ found' = found
  BY <1>2 DEF Deploying, Planned, Left
<1>3. CASE Planning
  BY <1>3 DEF Planning, Read, Deploying
<1>4. CASE Within
  <2>1. Deploying /\ d'.plan = d.plan /\ d'.done = d.done /\ found' = found
    BY <1>4 DEF Within
  <2> QED BY <1>4, <2>1 DEF Planned, Left, Step
<1>5. CASE NextStep
  <2>1. /\ Deploying /\ d'.plan = Tail(d.plan) /\ d'.plan # <<>> /\ d'.done = d.done \cup {Step} /\ found' = found
    BY <1>5 DEF NextStep, Deploying
  <2>2. /\ d.plan \in Seq(Names) /\ d.plan # <<>> /\ Ordered(d.plan) /\ Step \in Names
        /\ Left = StepsOf(Tail(d.plan)) \cup {Step}
    BY <2>1, Standing
  <2>3. /\ Tail(d.plan) \in Seq(Names) /\ Ordered(Tail(d.plan))
        /\ \A y \in StepsOf(Tail(d.plan)) : Rank[Step] < Rank[y]
    BY <2>2, TheFirstOfThem DEF Step
  <2>4. Step' \in StepsOf(Tail(d.plan))
    BY <2>1, <2>3, TheFirstOfThem DEF Step
  <2>5. Rank[Step] \in Int
    BY <2>2 DEF Names, Rank
  <2>6. Step' # Step
    BY <2>3, <2>4, <2>5
  <2>7. Planned' = Planned
    BY <2>1, <2>2 DEF Planned, Left
  <2> QED BY <1>5, <2>1, <2>2, <2>4, <2>6, <2>7
<1> QED BY <1>1, <1>2, <1>3, <1>4, <1>5 DEF Moves, Deploying

\* The answer of a step is on its way when the step took effect.
LEMMA WhoIsAnswered ==
  ASSUME TypeOK, Plan, [Next]_vars, d'.at = "answer", d' # d
  PROVE  \/ (Backup /\ Step = "backup") \/ (SwitchOff /\ Step = "switch_off")
         \/ (Drain /\ Step = "drain" /\ members = {}) \/ (Stop /\ Step = "stop")
         \/ (SeedSwitch /\ Step = "install" /\ d.at = "seed")
         \/ (CheckVenv /\ Step = "check_venv" /\ ~Finding)
         \/ (SettleCount /\ Step = "start" /\ d.at = "settle count" /\ d.base \in Restarts /\ ~(d.waited < d.window))
         \/ (RestoreSwitch /\ Step = "restore_switch")
<1>1. d \in DeployType /\ (Deploying => PlaceOfStep)
  BY DEF TypeOK, Plan
<1>2. ASSUME NEW how, NEW switch, NEW left, Ended(how, switch, left) PROVE d'.at = "ended"
  BY <1>1, <1>2 DEF Ended, DeployType
<1>3. Failed => d'.at \in {"recover", "ended"}
  BY <1>1 DEF Failed, DeployType
<1>4. ASSUME NEW p, At(p) PROVE d'.at = p
  BY <1>1, <1>4 DEF At, DeployType
<1>5. CASE Backup \/ SwitchOff \/ Stop \/ RestoreSwitch
  BY <1>5 DEF Backup, SwitchOff, Stop, RestoreSwitch, Begins
<1>6. CASE Drain
  BY <1>3, <1>4, <1>6 DEF Drain, Begins
<1>7. CASE SeedSwitch
  BY <1>1, <1>7 DEF SeedSwitch, PlaceOfStep, Deploying
<1>8. CASE CheckVenv
  BY <1>3, <1>8 DEF CheckVenv, Begins
<1>9. CASE SettleCount
  <2>1. Step = "start" /\ d.at = "settle count"
    BY <1>1, <1>9 DEF SettleCount, PlaceOfStep, Starting, Settling, Deploying
  <2> QED BY <1>3, <1>4, <1>9, <2>1 DEF SettleCount
<1>10. CASE Answered
  <2>1. d'.at \in {"ended", "begin"}
    BY <1>10, AnswersAreTyped
  <2> QED BY <2>1
<1>11. CASE Read
  <2>1. d' = [d EXCEPT !.at = "begin", !.plan = PlanSteps(exists /\ Reads, unit.state = "active")] => d'.at = "begin"
    BY <1>1 DEF DeployType
  <2> QED BY <1>2, <1>11, <2>1 DEF Read
<1>12. CASE Sleep
  <2>1. d'.at \in {"begin", "up", "settle"}
    BY <1>1, <1>12 DEF Sleep, DeployType
  <2> QED BY <2>1
<1>13. CASE CountRestarts \/ AwaitActive
  <2>1. \A n : [d EXCEPT !.at = "up", !.base = n].at = "up"
    BY <1>1 DEF DeployType
  <2>2. CountRestarts => d'.at = "up"
    BY <2>1 DEF CountRestarts
  <2>3. AwaitActive => d'.at \in {"sleep settled", "sleep up", "recover", "ended"}
    <3>1. AwaitActive =>
            \/ Failed \/ At("sleep up")
            \/ \E w \in {Window, Least} : d' = [d EXCEPT !.at = "sleep settled", !.waited = 0, !.window = w]
      BY DEF AwaitActive
    <3>2. ASSUME NEW w \in {Window, Least}, d' = [d EXCEPT !.at = "sleep settled", !.waited = 0, !.window = w]
          PROVE  d'.at = "sleep settled"
      BY <1>1, <3>2 DEF DeployType
    <3>3. At("sleep up") => d'.at = "sleep up"
      BY <1>4
    <3> QED BY <1>3, <3>1, <3>2, <3>3
  <2> QED BY <1>13, <2>2, <2>3
<1>14. CASE Install \/ Start \/ SettleState \/ Recover
  BY <1>3, <1>4, <1>14 DEF Install, Applied, Start, SettleState, Recover
<1>15. CASE CommandFails \/ Interrupt \/ Recovered \/ RecoverFails \/ RecoverInterrupted
  BY <1>2, <1>3, <1>15 DEF CommandFails, Interrupt, Recovered, RecoverFails, RecoverInterrupted
<1> QED
  BY <1>5, <1>6, <1>7, <1>8, <1>9, <1>10, <1>11, <1>12, <1>13, <1>14, <1>15, EveryStep
     DEF Exit, Revive, Hear, Take, LetGo, Speak, vars

\* What a deploy has had obeyed since.
LEMMA NewlyObeyed ==
  ASSUME TypeOK, Plan, Fresh, [Next]_vars, Deploying', NEW s \in Names, Obeyed(s)'
  PROVE  /\ Deploying
         /\ Obeyed(s) \/ (Step = s /\ d'.at = "answer" /\ d' # d)
<1>1. CASE Planning /\ ~Deploying
  <2>1. d'.done = {} /\ d'.at = "begin"
    BY <1>1 DEF Planning, Read, Fresh
  <2> QED BY <2>1 DEF Obeyed
<1>2. CASE Deploying /\ d' = d
  BY <1>2 DEF Obeyed, Step
<1>3. CASE Deploying /\ Within /\ Step' = Step
  BY <1>3 DEF Obeyed, Within
<1>4. CASE Deploying /\ NextStep
  BY <1>4 DEF Obeyed, NextStep
<1> QED BY <1>1, <1>2, <1>3, <1>4, GoingOn

\* A stop that took effect is not taken back.
LEMMA AStopStays ==
  ASSUME TypeOK, Plan, [Next]_vars, Deploying, Deploying', Obeyed("stop")
  PROVE  Obeyed("stop")'
<1>1. CASE d' = d
  BY <1>1 DEF Obeyed, Step
<1>2. CASE Within /\ Step' = Step
  BY <1>2 DEF Obeyed, Within, PlaceOfStep, Recovers
<1>3. CASE NextStep
  BY <1>3 DEF Obeyed, NextStep
<1> QED BY <1>1, <1>2, <1>3, GoingOn
-----------------------------------------------------------------------------
(* Nobody is cut off *)

\* Where there is no house nothing runs, and nothing is drained or stopped.
LEMMA TheHouseComesFirst ==
  ASSUME TypeOK, Plan, Fresh, HouseFirst, [Next]_vars
  PROVE  HouseFirst'
<1>1. /\ exists \in BOOLEAN /\ unit.state \in {"active", "activating", "inactive", "failed"} /\ unit \in UnitType
  BY UnitsAreTyped DEF TypeOK, MachineType
<1>2. exists => exists'
  BY EveryStep
     DEF Rest, machineVars, vars, Read, Backup, SwitchOff, Drain, Sleep, Stop, Install, SeedSwitch, CheckVenv, Start,
         CountRestarts, AwaitActive, SettleState, SettleCount, RestoreSwitch, Answered, Recover, Recovered, CommandFails,
         Interrupt, RecoverFails, RecoverInterrupted, Exit, Revive, Hear, Take, LetGo, Speak
<1>3. ~exists' => unit'.state = "inactive"
  <2> SUFFICES ASSUME ~exists' PROVE unit'.state = "inactive"
    OBVIOUS
  <2>1. ~exists /\ unit.state = "inactive"
    BY <1>1, <1>2 DEF HouseFirst
  <2>2. ~Exit /\ ~Revive
    BY <2>1 DEF Exit, Revive
  <2>3. Sleep => unit' = unit
    BY <2>1 DEF Sleep, Aged
  <2>4. Stop => unit'.state = "inactive"
    BY <1>1 DEF Stop, UnitType
  <2>5. ~Start
    <3> SUFFICES ASSUME Start PROVE FALSE
      OBVIOUS
    <3>1. Step = "start" /\ Deploying
      BY DEF Start, Begins, Deploying
    <3>2. "install" \in Planned /\ Rank["install"] < Rank["start"]
      BY <3>1 DEF Plan, PlannedIsWhole, Rank
    <3>3. "install" \in d.done
      BY <3>1, <3>2, Standing
    <3> QED BY <2>1, <3>1, <3>3 DEF HouseFirst, Obeyed
  <2>6. UNCHANGED unit \/ Stop
    BY <2>2, <2>3, <2>5, EveryStep
       DEF Rest, machineVars, vars, Read, Backup, SwitchOff, Drain, Install, SeedSwitch, CheckVenv,
           CountRestarts, AwaitActive, SettleState, SettleCount, RestoreSwitch, Answered, Recover, Recovered,
           CommandFails, Interrupt, RecoverFails, RecoverInterrupted, Hear, Take, LetGo, Speak
  <2> QED BY <2>1, <2>4, <2>6
<1>4. ASSUME Deploying', Obeyed("install")' PROVE exists'
  <2>1. Deploying /\ (Obeyed("install") \/ (Step = "install" /\ d'.at = "answer" /\ d' # d))
    BY <1>4, NewlyObeyed DEF Names
  <2>2. CASE Obeyed("install")
    BY <1>2, <2>1, <2>2 DEF HouseFirst
  <2>3. CASE Step = "install" /\ d'.at = "answer" /\ d' # d
    BY <2>3, WhoIsAnswered DEF SeedSwitch
  <2> QED BY <2>1, <2>2, <2>3
<1>5. ASSUME Deploying' PROVE (~exists' => "backup" \notin Planned') /\ ("stop" \in Planned' => "backup" \in Planned')
  <2>1. CASE Planning
    <3>1. /\ exists' = exists
          /\ Planned' = {x \in Names : \/ x \in {"install", "check_venv", "start"}
                                       \/ x = "backup" /\ exists
                                       \/ x \in {"switch_off", "restore_switch"} /\ exists /\ Reads
                                       \/ x = "drain" /\ exists /\ unit.state = "active"
                                       \/ x = "stop" /\ unit.state = "active"}
      BY <2>1, WhatIsPlanned DEF machineVars
    <3> QED BY <1>1, <3>1 DEF HouseFirst, Names
  <2>2. CASE Deploying /\ Planned' = Planned
    BY <1>2, <2>2 DEF HouseFirst
  <2> QED BY <1>5, <2>1, <2>2, GoingOn
<1> QED BY <1>3, <1>4, <1>5 DEF HouseFirst

\* The step a deploy comes to is the first that is left, and after the one it was at.
LEMMA TheNextStep ==
  ASSUME TypeOK, Plan, Fresh, [Next]_vars, Deploying'
  PROVE  /\ Step' \in Names /\ Step' \in Planned'
         /\ \A x \in Planned' : Rank[x] < Rank[Step'] => x \in d'.done
         /\ Deploying => /\ Step \in Names /\ Step \in Planned
                         /\ Step' = Step \/ Rank[Step] < Rank[Step']
<1>1. d'.plan \in Seq(Names) /\ d'.plan # <<>> /\ Ordered(d'.plan)
  BY EveryMove, ThePlanIsKept DEF Plan, DeployType
<1>2. /\ Step' \in StepsOf(d'.plan) /\ StepsOf(d'.plan) = StepsOf(Tail(d'.plan)) \cup {Step'}
      /\ \A y \in StepsOf(Tail(d'.plan)) : Rank[Step'] < Rank[y]
  BY <1>1, TheFirstOfThem DEF Step
<1>3. StepsOf(d'.plan) \subseteq Names /\ Left' = StepsOf(d'.plan) /\ Planned' = d'.done \cup StepsOf(d'.plan)
  BY <1>1 DEF StepsOf, Left, Planned
<1>4. \A x \in Names : Rank[x] \in Int
  BY DEF Names, Rank
<1>5. \A x \in Planned' : Rank[x] < Rank[Step'] => x \in d'.done
  <2> SUFFICES ASSUME NEW x \in StepsOf(d'.plan), Rank[x] < Rank[Step'] PROVE FALSE
    BY <1>3
  <2>1. Rank[Step'] <= Rank[x]
    BY <1>2, <1>3, <1>4
  <2> QED BY <2>1, <1>2, <1>3, <1>4
<1>6. ASSUME Deploying PROVE Step \in Names /\ Step \in Planned /\ (Step' = Step \/ Rank[Step] < Rank[Step'])
  <2>1. /\ Step \in Names /\ Step \in Left /\ \A y \in Left : y # Step => Rank[Step] < Rank[y]
    BY <1>6, Standing
  <2>2. Step' = Step \/ (Step' \in Left /\ Step' # Step)
    BY <1>6, GoingOn DEF Step
  <2> QED BY <2>1, <2>2 DEF Planned
<1> QED BY <1>2, <1>3, <1>5, <1>6

\* Before the install the switch is turned on by a person alone.
LEMMA TheSwitchStaysOff ==
  ASSUME TypeOK, Plan, [Next]_vars, Running, Step \in {"backup", "switch_off", "drain", "stop"}, ~Reads \/ word.on
  PROVE  ~Reads' \/ word'.on
<1>1. d \in DeployType /\ (Deploying => PlaceOfStep) /\ word.on \in BOOLEAN /\ Deploying
  BY DEF TypeOK, Plan, Running, Deploying
<1>2. CASE UNCHANGED <<switchVars, exists, word>>
  BY <1>2 DEF switchVars, Reads
<1>3. CASE SwitchOff
  BY <1>3 DEF SwitchOff, Set, Write, Reads
<1>4. CASE SeedSwitch \/ RestoreSwitch \/ Recover
  BY <1>1, <1>4 DEF SeedSwitch, RestoreSwitch, Recover, Begins, Running, PlaceOfStep
<1>5. ASSUME NEW on \in BOOLEAN, Speak(on)
      PROVE  ~Reads' \/ word'.on
  <2>1. row' = [on |-> on, at |-> writes + 1] /\ word'.on = (on \/ word.on)
    BY <1>5 DEF Speak, Set, Write
  <2> QED BY <2>1 DEF Reads
<1> QED BY <1>2, <1>3, <1>4, <1>5, WhoWrites

\* The boxes are let go of, or a person turned the house back on, before the unit is stopped: what
\* the deploy waits for the service to do.
LEMMA TheDrainHolds ==
  ASSUME TypeOK, Plan, Fresh, HouseFirst, OffUntilTheStop, EmptyBeforeTheStop, [Next]_vars
  PROVE  OffUntilTheStop' /\ EmptyBeforeTheStop'
<1> DEFINE Early == {"backup", "switch_off", "drain", "stop"}
           Off == ~Reads \/ word.on
           Empty == members \subseteq late \/ word.on
           AtTheStop == Step = "stop" \/ (Step = "drain" /\ d.at = "answer")
<1>1. /\ exists \in BOOLEAN /\ Reads \in BOOLEAN /\ unit.state \in {"active", "activating", "inactive", "failed"}
  BY UnitsAreTyped DEF TypeOK, SwitchType, MachineType, Reads
<1>2. /\ \A x \in Names : Rank[x] \in 1 .. 8 /\ (x \in Early <=> Rank[x] <= 4)
      /\ Rank["switch_off"] = 2 /\ Rank["drain"] = 3 /\ Rank["stop"] = 4
      /\ \A x \in Names : Rank[x] = 3 => x = "drain"
  BY DEF Names, Rank
<1>3. ASSUME Deploying, Running' PROVE Running
  <2>1. Deploying' /\ Deploying
    BY <1>3 DEF Running, Deploying
  <2>2. d' = d \/ Within \/ NextStep
    BY <2>1, GoingOn
  <2> QED BY <1>3, <2>1, <2>2 DEF Running, Deploying, Within, NextStep
<1>4. Running' => Deploying'
  BY DEF Running, Deploying
<1>5. OffUntilTheStop'
  <2> SUFFICES ASSUME Running', "backup" \in Planned', Step' \in Early,
                      "switch_off" \in Planned' => Obeyed("switch_off")'
               PROVE  ~Reads' \/ word'.on
    BY DEF OffUntilTheStop
  <2>1. CASE Planning
    <3>1. /\ d'.done = {} /\ d'.at = "begin" /\ UNCHANGED switchVars
          /\ "switch_off" \in Planned' <=> exists /\ Reads
          /\ "backup" \in Planned' => exists
      BY <2>1, WhatIsPlanned DEF Names
    <3>2. ~Reads
      BY <3>1 DEF Obeyed
    <3> QED BY <3>1, <3>2 DEF switchVars, Reads
  <2>2. CASE Deploying /\ Planned' = Planned
    <3>1. Running /\ Step \in Early
      <4>1. Step \in Names /\ Step' \in Names /\ (Step' = Step \/ Rank[Step] < Rank[Step'])
        BY <2>2, <1>4, TheNextStep
      <4>2. Rank[Step] <= 4
        BY <1>2, <4>1
      <4> QED BY <1>2, <1>3, <2>2, <4>1, <4>2
    <3>2. CASE "switch_off" \in Planned => Obeyed("switch_off")
      <4>1. ~Reads \/ word.on
        BY <2>2, <3>1, <3>2 DEF OffUntilTheStop
      <4> QED BY <3>1, <4>1, TheSwitchStaysOff
    <3>3. CASE "switch_off" \in Planned /\ ~Obeyed("switch_off")
      <4>1. Step = "switch_off" /\ d'.at = "answer" /\ d' # d
        BY <1>4, <2>2, <3>3, NewlyObeyed DEF Names
      <4>2. SwitchOff
        BY <4>1, WhoIsAnswered
      <4> QED BY <4>2 DEF SwitchOff, Set, Write, Reads
    <3> QED BY <3>2, <3>3
  <2> QED BY <1>4, <2>1, <2>2, GoingOn
<1>6. ASSUME Running, AtTheStop PROVE (~Reads \/ word.on) /\ Empty
  <2>1. Deploying /\ Step \in {"drain", "stop"}
    BY <1>6 DEF Running, Deploying
  <2>2. /\ Step \in Planned /\ \A x \in Planned : Rank[x] < Rank[Step] => x \in d.done
    BY <2>1, Standing DEF Planned
  <2>3. "backup" \in Planned
    BY <2>1, <2>2 DEF HouseFirst, Plan, PlannedIsWhole
  <2>4. "switch_off" \in Planned => Obeyed("switch_off")
    BY <1>2, <2>1, <2>2 DEF Obeyed
  <2> QED BY <1>6, <2>1, <2>3, <2>4 DEF OffUntilTheStop, EmptyBeforeTheStop
<1>7. ASSUME Running, AtTheStop PROVE Empty'
  <2>1. (~Reads \/ word.on) /\ Empty
    BY <1>6, <1>7
  <2>2. word.on => word'.on
    <3>1. \A on \in BOOLEAN : Speak(on) => word'.on = (on \/ word.on)
      BY DEF Speak
    <3>2. SwitchOff \/ SeedSwitch \/ RestoreSwitch \/ Recover => word' = word
      BY DEF SwitchOff, SeedSwitch, RestoreSwitch, Recover, Rest
    <3> QED BY <3>1, <3>2, WhoWrites
  <2>3. ASSUME NEW b \in Boxes, Take(b) PROVE word.on \/ (members' = members \cup {b} /\ late' = late \cup {b})
    BY <2>1, <2>3 DEF Take
  <2>4. CASE Drain
    BY <1>7, <2>1, <2>2, <2>4 DEF Drain, Begins, Running
  <2>5. CASE Stop \/ \E b \in Boxes : LetGo(b)
    <3>1. word' = word /\ (members \subseteq late => members' \subseteq late')
      BY <2>5 DEF Stop, LetGo, Rest
    <3> QED BY <2>1, <3>1
  <2>6. \/ UNCHANGED <<members, late>> \/ Drain \/ Stop
        \/ \E b \in Boxes : Take(b) \/ LetGo(b)
    BY EveryStep
       DEF Rest, machineVars, vars, Read, Backup, SwitchOff, Drain, Sleep, Stop, Install, SeedSwitch, CheckVenv, Start,
           CountRestarts, AwaitActive, SettleState, SettleCount, RestoreSwitch, Answered, Recover, Recovered, CommandFails,
           Interrupt, RecoverFails, RecoverInterrupted, Exit, Revive, Hear, Speak
  <2> QED BY <2>1, <2>2, <2>3, <2>4, <2>5, <2>6
<1>8. EmptyBeforeTheStop'
  <2> SUFFICES ASSUME Running', AtTheStop' PROVE Empty'
    BY DEF EmptyBeforeTheStop
  <2>1. CASE Planning
    <3>1. /\ d'.at = "begin" /\ d'.done = {}
          /\ "drain" \in Planned' <=> exists /\ unit.state = "active"
          /\ "stop" \in Planned' => unit.state = "active"
      BY <2>1, WhatIsPlanned DEF Names
    <3>2. Step' = "stop" /\ Step' \in Planned' /\ \A x \in Planned' : Rank[x] < Rank[Step'] => x \in d'.done
      BY <1>4, <3>1, TheNextStep
    <3>3. "drain" \in Planned'
      BY <1>1, <3>1, <3>2 DEF HouseFirst
    <3> QED BY <1>2, <3>1, <3>2, <3>3
  <2>2. CASE Deploying /\ d' = d
    BY <1>3, <1>7, <2>2 DEF Step
  <2>3. CASE Deploying /\ Within /\ Step' = Step
    <3>1. CASE AtTheStop
      BY <1>3, <1>7, <2>3, <3>1
    <3>2. CASE ~AtTheStop
      <4>1. Step = "drain" /\ d'.at = "answer" /\ d' # d
        BY <2>3, <3>2
      <4>2. Drain /\ members = {}
        BY <4>1, WhoIsAnswered
      <4> QED BY <4>2 DEF Drain
    <3> QED BY <3>1, <3>2
  <2>4. CASE Deploying /\ NextStep
    <3>1. d'.at = "begin" /\ Step' = "stop" /\ d'.done = d.done \cup {Step} /\ d.at = "answer"
      BY <2>4 DEF NextStep
    <3>2. /\ Step \in Names /\ Step # Step' /\ Rank[Step] < Rank[Step'] /\ Step' \in Planned'
          /\ \A x \in Planned' : Rank[x] < Rank[Step'] => x \in d'.done
          /\ Planned' = Planned
      <4>1. Step' # Step
        BY <1>4, <2>4, GoingOn DEF NextStep, Within
      <4>2. Planned' = Planned
        BY <1>4, <2>4, GoingOn DEF NextStep
      <4> QED BY <1>4, <2>4, <4>1, <4>2, TheNextStep
    <3>3. "drain" \in Planned
      BY <2>4, <3>1, <3>2 DEF HouseFirst, Plan, PlannedIsWhole
    <3>4. \A x \in d.done : Rank[x] < Rank[Step]
      BY <2>4, Standing
    <3>5. Step = "drain"
      <4>1. "drain" \in d.done \cup {Step}
        BY <1>2, <3>1, <3>2, <3>3
      <4>2. "drain" \in d.done => 3 < Rank[Step] /\ Rank[Step] < 4 /\ Rank[Step] \in Int
        BY <1>2, <3>1, <3>2, <3>4
      <4> QED BY <4>1, <4>2
    <3> QED BY <1>3, <1>7, <2>4, <3>1, <3>5
  <2> QED BY <1>4, <2>1, <2>2, <2>3, <2>4, GoingOn
<1> QED BY <1>5, <1>8

\* The unit is stopped by the deploy alone.
LEMMA WhoStops ==
  ASSUME TypeOK, [Next]_vars, unit.state = "active", unit'.state = "inactive"
  PROVE  Stop
<1>1. /\ MachineType /\ Restarted.state = "active" /\ unit \in UnitType
  BY UnitsAreTyped DEF TypeOK, MachineType
<1>2. Sleep => unit'.state = "active"
  BY <1>1 DEF Sleep, Aged, UnitType
<1>3. Exit => unit'.state \in {"failed", "active", "activating"}
  BY <1>1 DEF Exit, UnitType
<1>4. ~Revive /\ (Start => unit' = unit)
  BY DEF Revive, Start
<1> QED
  BY <1>2, <1>3, <1>4, EveryStep
     DEF Rest, machineVars, vars, Read, Backup, SwitchOff, Drain, Install, SeedSwitch, CheckVenv,
         CountRestarts, AwaitActive, SettleState, SettleCount, RestoreSwitch, Answered, Recover, Recovered,
         CommandFails, Interrupt, RecoverFails, RecoverInterrupted, Hear, Take, LetGo, Speak

\* The unit is stopped only under boxes that a pass which had read the switch before took in after
\* the drain had seen the zone empty, unless a person turned the house back on: so much, and no
\* more, the drain step promises.
THEOREM TheDrainIsEnough == Spec => NobodyIsCutOff
<1> DEFINE Inv == PlanInv /\ DrainInv
           Stopped == StopsTheUnit => members \subseteq late \/ word.on
<1>1. Init => Inv
  <2> SUFFICES ASSUME Init PROVE Inv
    OBVIOUS
  <2>1. TypeOK /\ Plan /\ Fresh
    BY AFreshDeploy
  <2>2. d.at = "read" /\ (~exists => unit.state = "inactive")
    BY DEF Init
  <2> QED BY <2>1, <2>2 DEF PlanInv, DrainInv, HouseFirst, OffUntilTheStop, EmptyBeforeTheStop, Deploying, Running
<1>2. Inv /\ [Next]_vars => Inv'
  BY TypesAreKept, ThePlanIsKept, TheHouseComesFirst, TheDrainHolds DEF PlanInv, DrainInv
<1>3. Inv /\ [Next]_vars => [Stopped]_vars
  <2> SUFFICES ASSUME Inv, [Next]_vars, unit.state = "active", unit'.state = "inactive"
               PROVE  members \subseteq late \/ word.on
    BY DEF StopsTheUnit
  <2>1. Stop
    BY WhoStops DEF PlanInv
  <2>2. Running /\ Step = "stop"
    BY <2>1 DEF Stop, Begins, Running
  <2> QED BY <2>2 DEF DrainInv, EmptyBeforeTheStop
<1> HIDE DEF Inv
<1>4. Spec => [][Stopped]_vars
  <2> HIDE DEF Stopped
  <2> QED BY <1>1, <1>2, <1>3, PTL DEF Spec
<1> QED BY <1>4 DEF NobodyIsCutOff
-----------------------------------------------------------------------------
(* Only what is proved is handed back *)

\* What becomes of the unit at a step.
LEMMA WhatTheUnitDoes ==
  ASSUME TypeOK, [Next]_vars
  PROVE  /\ Window' = Window /\ Window \in Nat
         /\ \/ unit' = unit
            \/ /\ unit' = Restarted /\ unit.state \in {"active", "activating"}
               /\ (Exit /\ unit.code = "new") \/ Revive \/ (Sleep /\ unit.state = "activating")
            \/ /\ unit'.state # "active" /\ unit'.code \in {"none", unit.code}
               /\ unit'.state = "activating" => unit.state \in {"active", "activating"}
               /\ unit'.up = unit.up /\ unit'.longest = unit.longest /\ unit'.restarts = unit.restarts
               /\ (Exit /\ unit.code = "new") \/ Stop \/ (Sleep /\ unit.state = "activating")
            \/ /\ Sleep /\ unit.state = "active" /\ unit.up < Window
               /\ unit'.state = "active" /\ unit'.code = unit.code /\ unit'.restarts = unit.restarts
               /\ unit'.up = unit.up + 1 /\ unit'.longest = Longer(unit.up + 1)
            \/ Start /\ unit.state # "active" /\ unit' = Up(installed)
<1>1. unit \in UnitType /\ Window \in Nat
  BY UnitsAreTyped DEF TypeOK, MachineType
<1>2. Window' = Window
  BY EveryStep
     DEF Window, Rest, machineVars, vars, Read, Backup, SwitchOff, Drain, Sleep, Stop, Install, SeedSwitch, CheckVenv,
         Start, CountRestarts, AwaitActive, SettleState, SettleCount, RestoreSwitch, Answered, Recover, Recovered,
         CommandFails, Interrupt, RecoverFails, RecoverInterrupted, Exit, Revive, Hear, Take, LetGo, Speak
<1>3. CASE Exit
  <2>1. /\ unit.state = "active" /\ unit.code = "new"
        /\ \/ unit' = [unit EXCEPT !.state = "failed", !.code = "none"]
           \/ unit' = Restarted
           \/ unit' = [unit EXCEPT !.state = "activating", !.code = "none", !.wait = restartSec]
    BY <1>3 DEF Exit
  <2> QED BY <1>1, <1>2, <1>3, <2>1 DEF UnitType
<1>4. CASE Revive
  BY <1>1, <1>2, <1>4 DEF Revive
<1>5. CASE Stop
  BY <1>1, <1>2, <1>5 DEF Stop, UnitType
<1>6. CASE Start
  BY <1>1, <1>2, <1>6 DEF Start
<1>7. CASE Sleep
  <2>1. CASE unit.state = "active" /\ unit.up < Window
    <3>1. unit' = [unit EXCEPT !.up = @ + 1, !.longest = Longer(unit.up + 1)]
      BY <1>7, <2>1 DEF Sleep, Aged
    <3> QED BY <1>1, <1>2, <1>7, <2>1, <3>1 DEF UnitType
  <2>2. CASE unit.state = "activating"
    <3>1. unit' = Restarted \/ unit' = [unit EXCEPT !.wait = @ - 1]
      BY <1>7, <2>2 DEF Sleep, Aged
    <3> QED BY <1>1, <1>2, <1>7, <2>2, <3>1 DEF UnitType
  <2>3. CASE unit.state # "activating" /\ ~(unit.state = "active" /\ unit.up < Window)
    BY <1>1, <1>2, <1>7, <2>3 DEF Sleep, Aged
  <2> QED BY <2>1, <2>2, <2>3
<1>8. CASE UNCHANGED unit
  BY <1>1, <1>2, <1>8
<1> QED
  BY <1>3, <1>4, <1>5, <1>6, <1>7, <1>8, EveryStep
     DEF Rest, machineVars, vars, Read, Backup, SwitchOff, Drain, Install, SeedSwitch, CheckVenv,
         CountRestarts, AwaitActive, SettleState, SettleCount, RestoreSwitch, Answered, Recover, Recovered,
         CommandFails, Interrupt, RecoverFails, RecoverInterrupted, Hear, Take, LetGo, Speak

\* The venv gets new code from the install, and nothing else changes it.
LEMMA WhoInstalls ==
  ASSUME [Next]_vars
  PROVE  wheel' = wheel /\ (installed' = installed \/ (Install /\ installed' = "new"))
BY EveryStep
   DEF Rest, machineVars, vars, Read, Backup, SwitchOff, Drain, Sleep, Stop, Install, Applied, SeedSwitch, CheckVenv,
       Start, CountRestarts, AwaitActive, SettleState, SettleCount, RestoreSwitch, Answered, Recover, Recovered,
       CommandFails, Interrupt, RecoverFails, RecoverInterrupted, Exit, Revive, Hear, Take, LetGo, Speak

\* How a deploy comes to wait for what it started.
LEMMA WhoWaits ==
  ASSUME d \in DeployType, [Next]_vars, d' # d, d'.at \in Starting \cup {"seed"}
  PROVE  \/ Install /\ d'.at = "seed"
         \/ Start /\ d'.at = "count"
         \/ CountRestarts /\ d'.at = "up" /\ d'.base \in Restarts
         \/ /\ AwaitActive /\ d.at = "up" /\ d'.at = "sleep settled" /\ unit.state = "active"
            /\ d'.waited = 0 /\ d'.base = d.base
         \/ AwaitActive /\ d.at = "up" /\ d'.at = "sleep up" /\ d'.base = d.base
         \/ Sleep /\ d.at = "sleep up" /\ d'.at = "up" /\ d'.base = d.base
         \/ Sleep /\ d.at = "sleep settled" /\ d'.at = "settle" /\ d'.waited = d.waited + 1 /\ d'.base = d.base
         \/ /\ SettleState /\ d.at = "settle" /\ d'.at = "settle count" /\ unit.state = "active"
            /\ d'.waited = d.waited /\ d'.base = d.base
         \/ /\ SettleCount /\ d.at = "settle count" /\ d'.at = "sleep settled"
            /\ d'.waited = d.waited /\ d'.base = d.base
<1>1. Starting \cup {"seed"} = {"count", "up", "sleep up", "sleep settled", "settle", "settle count", "seed"}
  BY DEF Starting, Settling
<1>2. ASSUME NEW how, NEW switch, NEW left, Ended(how, switch, left) PROVE d'.at = "ended"
  BY <1>2 DEF Ended, DeployType
<1>3. Failed => d'.at \in {"recover", "ended"}
  BY DEF Failed, DeployType
<1>4. ASSUME NEW p, At(p) PROVE d'.at = p /\ d'.waited = d.waited /\ d'.base = d.base
  BY <1>4 DEF At, DeployType
<1>5. CASE Backup \/ Drain \/ Stop \/ SeedSwitch \/ CheckVenv \/ RestoreSwitch \/ Recover
  BY <1>1, <1>3, <1>4, <1>5 DEF Backup, Drain, Stop, SeedSwitch, CheckVenv, RestoreSwitch, Recover
<1>6. CASE SwitchOff
  <2>1. d'.at = "answer"
    BY <1>6 DEF SwitchOff, DeployType
  <2> QED BY <1>1, <2>1
<1>7. CASE Install \/ Start
  BY <1>4, <1>7 DEF Install, Applied, Start
<1>8. CASE Answered
  <2>1. Kept(d) \in [at : Places, plan : Seq(Names), done : SUBSET Names, failed : Names \cup {"none"}, own : Nat,
                     already : BOOLEAN, waited : Nat, base : Int, window : Nat, end : {d.end}]
    BY DEF Kept, DeployType
  <2>2. d'.at \in {"ended", "begin"}
    BY <1>8, <2>1 DEF Answered, Done
  <2> QED BY <1>1, <2>2
<1>9. CASE Read
  <2>1. d' = [d EXCEPT !.at = "begin", !.plan = PlanSteps(exists /\ Reads, unit.state = "active")] => d'.at = "begin"
    BY DEF DeployType
  <2> QED BY <1>1, <1>2, <1>9, <2>1 DEF Read
<1>10. CASE Sleep
  <2>1. /\ d.at = "sleep" => d'.at = "begin"
        /\ d.at = "sleep up" => d'.at = "up"
        /\ d.at = "sleep settled" => d'.at = "settle"
        /\ d'.waited = d.waited + 1 /\ d'.base = d.base
    BY <1>10 DEF Sleep, DeployType
  <2> QED BY <1>1, <1>10, <2>1 DEF Sleep
<1>11. CASE CountRestarts
  BY <1>11 DEF CountRestarts, DeployType
<1>12. CASE AwaitActive
  <2>1. CASE Verdict(unit.state) = "ready"
    <3>1. unit.state = "active" /\ \E w : d' = [d EXCEPT !.at = "sleep settled", !.waited = 0, !.window = w]
      BY <1>12, <2>1 DEF AwaitActive, Verdict
    <3> QED BY <1>12, <3>1 DEF AwaitActive, DeployType
  <2>2. CASE Verdict(unit.state) # "ready"
    <3>1. At("sleep up") \/ Failed
      BY <1>12, <2>2 DEF AwaitActive
    <3> QED BY <1>1, <1>3, <1>4, <1>12, <3>1 DEF AwaitActive
  <2> QED BY <2>1, <2>2
<1>13. CASE SettleState
  BY <1>1, <1>3, <1>4, <1>13 DEF SettleState
<1>14. CASE SettleCount
  <2>1. d.at = "settle count" /\ (Failed \/ At("sleep settled") \/ At("answer"))
    BY <1>14 DEF SettleCount
  <2> QED BY <1>1, <1>3, <1>4, <1>14, <2>1
<1>15. CASE CommandFails \/ Interrupt \/ Recovered \/ RecoverFails \/ RecoverInterrupted
  BY <1>1, <1>2, <1>3, <1>15 DEF CommandFails, Interrupt, Recovered, RecoverFails, RecoverInterrupted
<1> QED
  BY <1>5, <1>6, <1>7, <1>8, <1>9, <1>10, <1>11, <1>12, <1>13, <1>14, <1>15, EveryStep
     DEF Exit, Revive, Hear, Take, LetGo, Speak, vars

\* Restarts are counted, and the window is chosen, in one place each.
LEMMA WhatIsWatched ==
  ASSUME TypeOK, [Next]_vars, d'.at # "ended"
  PROVE  /\ d'.base = d.base \/ (CountRestarts /\ d.at = "count")
         /\ \/ d'.window = d.window
            \/ AwaitActive /\ d.at = "up" /\ d'.window \in {Window, Least}
<1>1. d \in DeployType /\ d'.at # "ended"
  BY DEF TypeOK
<1>2. ASSUME NEW how, NEW switch, NEW left, Ended(how, switch, left) PROVE FALSE
  BY <1>1, <1>2 DEF Ended, DeployType
<1>3. Failed => d'.base = d.base /\ d'.window = d.window
  BY <1>1 DEF Failed, DeployType
<1>4. ASSUME NEW p, At(p) PROVE d'.base = d.base /\ d'.window = d.window
  BY <1>1, <1>4 DEF At, DeployType
<1>5. CASE Answered
  <2>1. Kept(d) \in DeployType /\ Kept(d).base = d.base /\ Kept(d).window = d.window
    <3>1. CASE Kept(d) = d
      BY <1>1, <3>1
    <3>2. CASE Kept(d) = [d EXCEPT !.own = 0, !.already = TRUE]
      <4>1. [d EXCEPT !.own = 0, !.already = TRUE] \in DeployType
        BY <1>1, FieldsOfADeploy
      <4>2. /\ [d EXCEPT !.own = 0, !.already = TRUE].base = d.base
            /\ [d EXCEPT !.own = 0, !.already = TRUE].window = d.window
        BY <1>1 DEF DeployType
      <4> QED BY <3>2, <4>1, <4>2
    <3> QED BY <3>1, <3>2 DEF Kept
  <2>2. CASE Len(Kept(d).plan) = 1
    BY <1>1, <1>5, <2>1, <2>2 DEF Answered, Done, DeployType
  <2>3. CASE Len(Kept(d).plan) # 1
    BY <1>1, <1>5, <2>1, <2>3 DEF Answered, Done, DeployType
  <2> QED BY <2>2, <2>3
<1>6. CASE SwitchOff \/ Sleep
  BY <1>1, <1>6 DEF SwitchOff, Sleep, DeployType
<1>7. CASE Read
  BY <1>1, <1>2, <1>7 DEF Read, DeployType
<1>8. CASE CountRestarts
  <2>1. d.at = "count" /\ d'.window = d.window
    BY <1>1, <1>8 DEF CountRestarts, DeployType
  <2> QED BY <1>8, <2>1
<1>9. CASE AwaitActive
  <2>1. \/ Failed \/ At("sleep up")
        \/ \E w \in {Window, Least} : d' = [d EXCEPT !.at = "sleep settled", !.waited = 0, !.window = w]
    BY <1>9 DEF AwaitActive
  <2>2. \A w : /\ [d EXCEPT !.at = "sleep settled", !.waited = 0, !.window = w].window = w
               /\ [d EXCEPT !.at = "sleep settled", !.waited = 0, !.window = w].base = d.base
    BY <1>1 DEF DeployType
  <2> QED BY <1>3, <1>4, <1>9, <2>1, <2>2 DEF AwaitActive
<1>10. CASE Backup \/ Drain \/ Stop \/ Install \/ SeedSwitch \/ CheckVenv \/ Start
  BY <1>3, <1>4, <1>10 DEF Backup, Drain, Stop, Install, Applied, SeedSwitch, CheckVenv, Start
<1>11. CASE SettleState \/ SettleCount \/ RestoreSwitch \/ Recover
  BY <1>3, <1>4, <1>11 DEF SettleState, SettleCount, RestoreSwitch, Recover
<1>12. CASE CommandFails \/ Interrupt \/ Recovered \/ RecoverFails \/ RecoverInterrupted
  BY <1>2, <1>3, <1>12 DEF CommandFails, Interrupt, Recovered, RecoverFails, RecoverInterrupted
<1> QED
  BY <1>5, <1>6, <1>7, <1>8, <1>9, <1>10, <1>11, <1>12, EveryStep
     DEF Exit, Revive, Hear, Take, LetGo, Speak, vars

\* Till the stop the unit that was found running runs the code it was found with.
LEMMA TheOldOneRuns ==
  ASSUME TypeOK, Plan, Fresh, OldRuns, [Next]_vars
  PROVE  OldRuns'
<1>1. unit' = unit \/ Exit \/ Revive \/ Sleep \/ Stop \/ Start
  BY WhatTheUnitDoes
<1>2. unit.state \in {"active", "activating", "inactive", "failed"} /\ exists \in BOOLEAN
  BY UnitsAreTyped DEF TypeOK, MachineType
<1>3. ASSUME d'.at = "read"
      PROVE  d.at = "read" /\ unit' = unit /\ exists' = exists /\ installed' = installed /\ row' = row
  <2>1. d.at = "read" /\ d' = d
    BY <1>3, EveryMove DEF Moves, Planning, Within, NextStep
  <2>2. ~Exit /\ ~Revive
    BY <2>1 DEF OldRuns, Exit, Revive
  <2>3. ~Sleep /\ ~Stop /\ ~Start /\ ~SwitchOff /\ ~SeedSwitch /\ ~RestoreSwitch /\ ~Recover /\ ~Install
    BY <2>1 DEF Sleep, Stop, Start, SwitchOff, SeedSwitch, RestoreSwitch, Recover, Install, Begins
  <2>4. ~\E on \in BOOLEAN : Speak(on)
    BY <2>1 DEF Speak
  <2>5. UNCHANGED <<switchVars, exists, word>>
    BY <2>3, <2>4, WhoWrites
  <2> QED BY <1>1, <2>1, <2>2, <2>3, <2>5, WhoInstalls DEF switchVars
<1>4. CASE Planning
  <2>1. /\ d.at = "read" /\ d'.at = "begin" /\ d'.done = {} /\ UNCHANGED machineVars
        /\ found' = [on |-> Reads, unit |-> unit.state]
        /\ "switch_off" \in Planned' => exists /\ Reads
    BY <1>4, WhatIsPlanned DEF Names
  <2> QED BY <2>1 DEF OldRuns, machineVars
<1>5. CASE Deploying /\ Deploying' /\ Planned' = Planned /\ found' = found
  <2> SUFFICES ASSUME "switch_off" \in Planned
               PROVE  /\ found.unit = "active"
                      /\ ~Obeyed("stop")' => unit'.state = "active" /\ unit'.code = "old" /\ installed' = "old"
    BY <1>3, <1>5 DEF OldRuns, Deploying
  <2>1. found.unit = "active"
    BY <1>5 DEF OldRuns
  <2> SUFFICES ASSUME ~Obeyed("stop")' PROVE unit'.state = "active" /\ unit'.code = "old" /\ installed' = "old"
    BY <2>1
  <2>2. unit.state = "active" /\ unit.code = "old" /\ installed = "old" /\ ~Obeyed("stop")
    BY <1>5, AStopStays DEF OldRuns
  <2>3. ~Stop
    <3> SUFFICES ASSUME Stop PROVE FALSE
      OBVIOUS
    <3>1. d'.at = "answer" /\ d'.plan = d.plan /\ Step = "stop"
      BY DEF Stop, Begins, At, TypeOK, DeployType
    <3> QED BY <3>1 DEF Obeyed, Step
  <2>4. ~Install
    <3> SUFFICES ASSUME Install PROVE FALSE
      OBVIOUS
    <3>1. Step = "install" /\ "stop" \in Planned /\ Rank["stop"] < Rank["install"]
      BY <1>5, <2>1 DEF Install, Begins, Plan, PlannedIsWhole, Rank
    <3> QED BY <1>5, <2>2, <3>1, Standing DEF Obeyed
  <2>5. unit'.state = unit.state /\ unit'.code = unit.code
    BY <2>2, <2>3, WhatTheUnitDoes DEF Revive
  <2> QED BY <2>2, <2>4, <2>5, WhoInstalls
<1>6. CASE ~Deploying'
  BY <1>3, <1>6 DEF OldRuns, Reads
<1> QED BY <1>4, <1>5, <1>6, GoingOn

\* After the stop the old code runs no more, and after the install the venv holds the new.
LEMMA TheNewOneRuns ==
  ASSUME TypeOK, Plan, Fresh, NewRuns, [Next]_vars
  PROVE  NewRuns'
<1>1. /\ unit.state \in {"active", "activating", "inactive", "failed"} /\ installed \in {"old", "new", "none"}
      /\ unit.up \in Nat /\ unit.longest \in Nat /\ unit.longest >= unit.up
      /\ Restarted.state = "active" /\ Restarted.code = installed /\ Restarted.up = 0 /\ Restarted.longest = unit.longest
  BY UnitsAreTyped DEF TypeOK, MachineType, NewRuns
<1>2. Up(installed).state = "active" /\ Up(installed).code = installed /\ Up(installed).up = 0 /\ Up(installed).longest = 0
  BY DEF Up
<1>3. Longer(unit.up + 1) >= unit.up + 1
  BY <1>1 DEF Longer
<1>4. unit'.longest >= unit'.up
  BY <1>1, <1>2, <1>3, WhatTheUnitDoes
<1>5. ASSUME Deploying', d'.at = "seed" \/ Obeyed("install")' PROVE installed' = "new"
  <2>1. CASE Deploying /\ (d.at = "seed" \/ Obeyed("install"))
    BY <2>1, WhoInstalls DEF NewRuns
  <2>2. CASE Deploying /\ d.at # "seed" /\ ~Obeyed("install") /\ Obeyed("install")'
    <3>1. d'.at = "answer" /\ d' # d /\ Step = "install"
      BY <1>5, <2>2, NewlyObeyed DEF Names
    <3> QED BY <2>2, <3>1, WhoIsAnswered
  <2>3. CASE d'.at = "seed" /\ d.at # "seed"
    <3>1. Install
      BY <2>3, WhoWaits DEF TypeOK
    <3> QED BY <3>1 DEF Install, Applied
  <2>4. Obeyed("install")' => Deploying
    BY <1>5, NewlyObeyed DEF Names
  <2>5. d.at = "seed" => Deploying
    BY DEF Deploying
  <2> QED BY <1>5, <2>1, <2>2, <2>3, <2>4, <2>5
<1>6. ASSUME Deploying', Obeyed("check_venv")' PROVE ~Finding'
  <2>1. Deploying /\ (Obeyed("check_venv") \/ (Step = "check_venv" /\ d'.at = "answer" /\ d' # d))
    BY <1>6, NewlyObeyed DEF Names
  <2>2. ~Finding
    BY <2>1, WhoIsAnswered DEF NewRuns
  <2> QED BY <2>2, WhoInstalls DEF Finding
<1>7. ASSUME Deploying', Obeyed("stop")'
      PROVE  unit'.code # "old" /\ (unit'.state \in {"active", "activating"} => installed' = "new")
  <2>1. Deploying /\ (Obeyed("stop") \/ (Step = "stop" /\ d'.at = "answer" /\ d' # d))
    BY <1>7, NewlyObeyed DEF Names
  <2>2. CASE Obeyed("stop")
    <3>1. unit.code # "old" /\ (unit.state \in {"active", "activating"} => installed = "new")
      BY <2>1, <2>2 DEF NewRuns
    <3>2. Start => installed = "new"
      <4> SUFFICES ASSUME Start PROVE installed = "new"
        OBVIOUS
      <4>1. Step = "start" /\ "install" \in Planned /\ Rank["install"] < Rank["start"]
        BY <2>1 DEF Start, Begins, Plan, PlannedIsWhole, Rank
      <4> QED BY <2>1, <4>1, Standing DEF NewRuns, Obeyed
    <3>3. installed = "new" => installed' = "new"
      BY WhoInstalls
    <3> QED BY <1>1, <1>2, <3>1, <3>2, <3>3, WhatTheUnitDoes
  <2>3. CASE Step = "stop" /\ d'.at = "answer" /\ d' # d
    <3>1. Stop /\ unit \in UnitType
      BY <2>3, WhoIsAnswered DEF TypeOK, MachineType
    <3>2. unit'.state = "inactive" /\ unit'.code = "none"
      BY <3>1 DEF Stop, UnitType
    <3> QED BY <3>2
  <2> QED BY <2>1, <2>2, <2>3
<1> QED BY <1>4, <1>5, <1>6, <1>7 DEF NewRuns

\* What the settle has seen: no restart since the count, and one run as long as it waited.
LEMMA TheSettleSeesIt ==
  ASSUME TypeOK, Plan, Fresh, NewRuns, Proved, [Next]_vars
  PROVE  Proved'
<1>1. /\ unit.state \in {"active", "activating", "inactive", "failed"} /\ unit.up \in Nat /\ unit.longest \in Nat
      /\ unit.restarts \in Nat /\ unit.longest >= unit.up
      /\ Restarted.state = "active" /\ Restarted.up = 0 /\ Restarted.longest = unit.longest
      /\ Restarted.restarts = unit.restarts + 1
      /\ d.waited \in Nat /\ d.base \in Int /\ d.window \in Nat /\ d \in DeployType
  BY UnitsAreTyped, FieldsOfADeploy DEF TypeOK, MachineType, NewRuns
<1>2. Window' = Window /\ Window \in Nat
  BY WhatTheUnitDoes
<1>3. /\ Longer(unit.up + 1) \in Nat /\ Longer(unit.up + 1) >= unit.longest /\ Longer(unit.up + 1) >= unit.up + 1
  BY <1>1 DEF Longer
<1> DEFINE GoesOn ==
             /\ unit'.longest >= unit.longest /\ unit'.restarts >= unit.restarts
             /\ {unit'.up, unit'.longest, unit'.restarts} \subseteq Nat
             /\ unit'.restarts = unit.restarts /\ unit'.state = "active" =>
                  /\ unit.state = "active" /\ unit'.up >= unit.up
                  /\ Sleep => unit'.up >= unit.up + 1 \/ unit.up >= Window
<1>4. GoesOn \/ (Start /\ d.at = "begin" /\ Step = "start")
  <2>1. CASE unit' = unit
    <3>1. Sleep /\ unit.state = "active" => unit.up >= Window
      <4> SUFFICES ASSUME Sleep, unit.state = "active", unit.up < Window PROVE FALSE
        BY <1>1, <1>2
      <4>1. unit' = [unit EXCEPT !.up = @ + 1, !.longest = Longer(unit.up + 1)] /\ unit \in UnitType
        BY DEF Sleep, Aged, TypeOK, MachineType
      <4>2. unit'.up = unit.up + 1
        BY <4>1 DEF UnitType
      <4> QED BY <1>1, <2>1, <4>2
    <3> QED BY <1>1, <2>1, <3>1
  <2>2. CASE unit' = Restarted
    BY <1>1, <2>2
  <2>3. CASE unit'.state # "active" /\ unit'.up = unit.up /\ unit'.longest = unit.longest /\ unit'.restarts = unit.restarts
    BY <1>1, <2>3
  <2>4. CASE /\ Sleep /\ unit.state = "active" /\ unit'.restarts = unit.restarts /\ unit'.up = unit.up + 1
             /\ unit'.longest = Longer(unit.up + 1)
    BY <1>1, <1>3, <2>4
  <2>5. CASE Start
    BY <2>5 DEF Start, Begins
  <2> QED BY <2>1, <2>2, <2>3, <2>4, <2>5, WhatTheUnitDoes
<1> HIDE DEF GoesOn
<1>5. UNCHANGED unit => GoesOn \/ Sleep
  BY <1>1 DEF GoesOn
<1>6. ASSUME Deploying', Obeyed("start")' PROVE unit'.longest >= d'.window \/ d'.base = Unread
  <2>1. Deploying /\ (Obeyed("start") \/ (Step = "start" /\ d'.at = "answer" /\ d' # d))
    BY <1>6, NewlyObeyed DEF Names
  <2>2. CASE Obeyed("start")
    <3>1. unit.longest >= d.window \/ d.base = Unread
      BY <2>1, <2>2 DEF Proved
    <3>2. ~(Start /\ d.at = "begin" /\ Step = "start")
      BY <2>1, <2>2, Standing DEF Obeyed
    <3>3. GoesOn
      BY <1>4, <3>2
    <3>4. Step # "start" \/ d.at = "answer"
      BY <2>1, <2>2, Standing DEF Obeyed
    <3>5. d'.base = d.base /\ d'.window = d.window
      <4>1. d.at \notin {"count", "up"}
        BY <2>1, <3>4 DEF Plan, PlaceOfStep, Starting
      <4> QED BY <1>6, <4>1, WhatIsWatched DEF Deploying
    <3>6. unit'.longest >= unit.longest /\ {unit'.longest} \subseteq Nat
      BY <3>3 DEF GoesOn
    <3> QED BY <1>1, <3>1, <3>5, <3>6
  <2>3. CASE Step = "start" /\ d'.at = "answer" /\ d' # d
    <3>1. SettleCount /\ d.at = "settle count" /\ d.base \in Restarts /\ ~(d.waited < d.window)
      BY <2>3, WhoIsAnswered
    <3>2. /\ unit.restarts = d.base => unit.longest >= Least2(d.waited, Window)
          /\ d.window <= Window /\ unit' = unit
      BY <2>1, <3>1 DEF Proved, Settling, SettleCount, machineVars
    <3>3. d'.base = d.base /\ d'.window = d.window
      BY <1>6, <3>1, WhatIsWatched DEF Deploying, CountRestarts, AwaitActive
    <3>4. CASE d.base = Unread
      BY <3>3, <3>4
    <3>5. CASE d.base = unit.restarts
      <4>1. unit.longest >= d.window
        <5>1. unit.longest >= Least2(d.waited, Window)
          BY <3>2, <3>5
        <5>2. /\ {unit.longest, d.waited, d.window, Window} \subseteq Nat
              /\ ~(d.waited < d.window) /\ d.window <= Window
          BY <1>1, <1>2, <3>1, <3>2
        <5> QED BY ONLY <5>1, <5>2 DEF Least2
      <4> QED BY <3>2, <3>3, <4>1
    <3> QED BY <3>1, <3>4, <3>5 DEF Restarts
  <2> QED BY <2>1, <2>2, <2>3
<1> DEFINE Waits == {"sleep settled", "settle", "settle count", "up", "sleep up"}
           Counted == d.base <= unit.restarts
           Seen == unit.restarts = d.base =>
                     /\ unit.state = "active" => unit.up >= Least2(d.waited, Window)
                     /\ d.at = "settle count" => unit.longest >= Least2(d.waited, Window)
<1>7. ASSUME d.at \in Waits PROVE Deploying /\ Counted /\ (d.at \in Settling => Seen)
  <2>1. Deploying
    BY <1>7 DEF Deploying
  <2> QED BY <1>7, <2>1 DEF Proved, Settling
<1>8. ASSUME d'.at \in Waits PROVE Counted' /\ (d'.at \in Settling => Seen')
  <2> HIDE DEF Counted, Seen
  <2>1. ASSUME Counted, GoesOn, d'.base = d.base PROVE Counted'
    <3>1. /\ d.base \in Int /\ unit.restarts \in Nat /\ {unit'.restarts} \subseteq Nat
          /\ d.base <= unit.restarts /\ unit'.restarts >= unit.restarts
      BY <1>1, <2>1 DEF GoesOn, Counted
    <3>2. d.base <= unit'.restarts
      BY <3>1
    <3> QED BY <2>1, <3>2 DEF Counted
  <2>2. ASSUME GoesOn, Counted, d'.base = d.base, unit'.restarts = d'.base
        PROVE  unit.restarts = d.base /\ unit'.restarts = unit.restarts
    <3>1. /\ d.base \in Int /\ unit.restarts \in Nat /\ {unit'.restarts} \subseteq Nat
          /\ d.base <= unit.restarts /\ unit'.restarts >= unit.restarts
      BY <1>1, <2>2 DEF GoesOn, Counted
    <3>2. d.base = unit'.restarts
      BY <2>2
    <3> QED BY <3>1, <3>2
  <2>3. \A n \in Nat, m \in Nat, w \in Nat :
           /\ n >= m => (m >= Least2(w, Window) => n >= Least2(w, Window))
           /\ n >= m + 1 => (m >= Least2(w, Window) => n >= Least2(w + 1, Window))
           /\ m >= Window => (n >= m => n >= Least2(w + 1, Window))
    BY <1>2 DEF Least2
  <2>4. CASE d' = d
    <3>1. GoesOn
      <4>1. Start => d'.at = "count"
        BY <1>1 DEF Start, At, DeployType
      <4> QED BY <1>4, <1>8, <2>4, <4>1
    <3>2. Counted /\ (d.at \in Settling => Seen) /\ d'.base = d.base /\ d'.at = d.at /\ d'.waited = d.waited
      BY <1>7, <1>8, <2>4
    <3>3. Counted'
      BY <2>1, <3>1, <3>2
    <3>4. ASSUME d.at \in Settling PROVE Seen'
      <4> SUFFICES ASSUME unit'.restarts = d'.base
                   PROVE  /\ unit'.state = "active" => unit'.up >= Least2(d.waited, Window)
                          /\ d.at = "settle count" => unit'.longest >= Least2(d.waited, Window)
        BY <1>2, <3>2 DEF Seen
      <4>1. unit.restarts = d.base /\ unit'.restarts = unit.restarts
        BY <2>2, <3>1, <3>2
      <4>2. unit'.state = "active" => unit'.up >= unit.up /\ unit.up >= Least2(d.waited, Window)
        BY <3>1, <3>2, <3>4, <4>1 DEF GoesOn, Seen
      <4>3. d.at = "settle count" => unit'.longest >= unit.longest /\ unit.longest >= Least2(d.waited, Window)
        BY <3>1, <3>2, <3>4, <4>1 DEF GoesOn, Seen
      <4>4. {unit'.up, unit'.longest} \subseteq Nat
        BY <3>1 DEF GoesOn
      <4>5. unit'.state = "active" => unit'.up >= Least2(d.waited, Window)
        BY <1>1, <2>3, <4>2, <4>4
      <4>6. d.at = "settle count" => unit'.longest >= Least2(d.waited, Window)
        BY <1>1, <2>3, <4>3, <4>4
      <4> QED BY <4>5, <4>6
    <3> QED BY <3>2, <3>3, <3>4
  <2>5. CASE CountRestarts /\ d'.at = "up" /\ d'.base \in Restarts
    <3>1. d'.base <= unit'.restarts
      <4>1. unit' = unit
        BY <2>5 DEF CountRestarts, machineVars
      <4>2. unit.restarts <= unit.restarts /\ Unread <= unit.restarts
        BY <1>1 DEF Unread
      <4> QED BY <2>5, <4>1, <4>2 DEF Restarts
    <3> QED BY <2>5, <3>1 DEF Counted, Settling
  <2>6. CASE /\ AwaitActive /\ d.at = "up" /\ d'.at = "sleep settled" /\ unit.state = "active"
             /\ d'.waited = 0 /\ d'.base = d.base
    <3>1. unit' = unit /\ Counted
      BY <1>7, <2>6 DEF AwaitActive, machineVars
    <3>2. unit.up >= Least2(0, Window)
      BY <1>1, <1>2 DEF Least2
    <3>3. Counted' /\ d'.waited = 0 /\ d'.at # "settle count"
      BY <2>6, <3>1 DEF Counted
    <3> QED BY <1>2, <3>1, <3>2, <3>3 DEF Seen
  <2>7. CASE AwaitActive /\ d.at = "up" /\ d'.at = "sleep up" /\ d'.base = d.base
    <3>1. unit' = unit /\ Counted
      BY <1>7, <2>7 DEF AwaitActive, machineVars
    <3> QED BY <2>7, <3>1 DEF Settling, Counted
  <2>8. CASE Sleep /\ d.at = "sleep up" /\ d'.at = "up" /\ d'.base = d.base
    <3>1. GoesOn /\ Counted
      BY <1>4, <1>7, <2>8
    <3> QED BY <2>1, <2>8, <3>1 DEF Settling
  <2>9. CASE /\ Sleep /\ d.at = "sleep settled" /\ d'.at = "settle"
             /\ d'.waited = d.waited + 1 /\ d'.base = d.base
    <3>1. GoesOn /\ Counted /\ Seen
      BY <1>4, <1>7, <2>9 DEF Settling
    <3>2. Counted' /\ d'.waited = d.waited + 1 /\ d'.base = d.base /\ d'.at # "settle count" /\ Sleep
      BY <2>1, <2>9, <3>1
    <3>3. ASSUME unit'.restarts = d'.base, unit'.state = "active" PROVE unit'.up >= Least2(d.waited + 1, Window)
      <4>1. unit.restarts = d.base /\ unit'.restarts = unit.restarts
        BY <2>2, <3>1, <3>2, <3>3
      <4>2. /\ unit.up >= Least2(d.waited, Window) /\ unit'.up >= unit.up
            /\ unit'.up >= unit.up + 1 \/ unit.up >= Window
        BY <3>1, <3>2, <3>3, <4>1 DEF GoesOn, Seen
      <4>3. {unit'.up} \subseteq Nat /\ unit.up \in Nat /\ d.waited \in Nat
        BY <1>1, <3>1 DEF GoesOn
      <4> QED BY <2>3, <4>2, <4>3
    <3> QED BY <1>2, <3>2, <3>3 DEF Seen
  <2>10. CASE /\ SettleState /\ d.at = "settle" /\ d'.at = "settle count" /\ unit.state = "active"
              /\ d'.waited = d.waited /\ d'.base = d.base
    <3>1. unit' = unit /\ Counted /\ Seen
      BY <1>7, <2>10 DEF SettleState, machineVars, Settling
    <3>2. Counted' /\ d'.waited = d.waited /\ d'.base = d.base
      BY <2>10, <3>1 DEF Counted
    <3>3. unit.restarts = d.base => /\ unit.up >= Least2(d.waited, Window)
                                    /\ unit.longest >= Least2(d.waited, Window)
      <4>1. unit.restarts = d.base => unit.up >= Least2(d.waited, Window)
        BY <2>10, <3>1 DEF Seen
      <4> QED BY <1>1, <2>3, <4>1
    <3> QED BY <1>2, <3>1, <3>2, <3>3 DEF Seen
  <2>11. CASE /\ SettleCount /\ d.at = "settle count" /\ d'.at = "sleep settled"
              /\ d'.waited = d.waited /\ d'.base = d.base
    <3>1. unit' = unit /\ Counted /\ Seen
      BY <1>7, <2>11 DEF SettleCount, machineVars, Settling
    <3>2. Counted' /\ d'.waited = d.waited /\ d'.base = d.base /\ d'.at # "settle count"
      BY <2>11, <3>1 DEF Counted
    <3> QED BY <1>2, <3>1, <3>2 DEF Seen
  <2>12. d' # d => d'.at \in Starting \cup {"seed"} /\ d'.at \notin {"seed", "count"}
    BY <1>8 DEF Starting, Settling
  <2>13. ASSUME d' # d
         PROVE  \/ CountRestarts /\ d'.at = "up" /\ d'.base \in Restarts
                \/ /\ AwaitActive /\ d.at = "up" /\ d'.at = "sleep settled" /\ unit.state = "active"
                   /\ d'.waited = 0 /\ d'.base = d.base
                \/ AwaitActive /\ d.at = "up" /\ d'.at = "sleep up" /\ d'.base = d.base
                \/ Sleep /\ d.at = "sleep up" /\ d'.at = "up" /\ d'.base = d.base
                \/ Sleep /\ d.at = "sleep settled" /\ d'.at = "settle" /\ d'.waited = d.waited + 1 /\ d'.base = d.base
                \/ /\ SettleState /\ d.at = "settle" /\ d'.at = "settle count" /\ unit.state = "active"
                   /\ d'.waited = d.waited /\ d'.base = d.base
                \/ /\ SettleCount /\ d.at = "settle count" /\ d'.at = "sleep settled"
                   /\ d'.waited = d.waited /\ d'.base = d.base
    BY <1>1, <2>12, <2>13, WhoWaits
  <2> QED BY <2>4, <2>5, <2>6, <2>7, <2>8, <2>9, <2>10, <2>11, <2>13
<1>9. ASSUME d'.at # "ended" PROVE d'.window <= Window
  <2>1. d.at # "ended"
    <3>1. Moves
      BY EveryMove
    <3> QED BY <1>9, <3>1 DEF Moves, Planning, Within, NextStep, Deploying, Read
  <2>2. d.window <= Window /\ Window <= Window /\ Least <= Window
    <3>1. d.window <= Window
      BY <2>1 DEF Proved
    <3>2. restartSec \in Nat /\ Least \in Nat
      BY DeployAssumption DEF TypeOK, MachineType
    <3>3. Least <= Window /\ Window <= Window
      BY <1>2, <3>2 DEF Window
    <3> QED BY <3>1, <3>3
  <2> QED BY <1>9, <2>2, WhatIsWatched
<1>10. d'.at # "ended" => d'.window <= Window'
  BY <1>2, <1>9
<1> QED BY <1>6, <1>8, <1>10 DEF Proved, Settling

\* The deploy turns the house on only for a unit it never stopped and installed nothing under, or
\* for the new code after one run of it lasted the whole settle window, but where the restarts
\* could not be counted at all, where a house that is on
\* is found with its unit running.
THEOREM NothingUnprovedIsHandedBack == FoundOn \subseteq {"active"} => (Spec => OnlyProvedIsHandedBack)
<1> SUFFICES ASSUME FoundOn \subseteq {"active"} PROVE Spec => OnlyProvedIsHandedBack
  OBVIOUS
<1> DEFINE Inv == PlanInv /\ WordInv /\ HandInv
           OldOrProved ==
             \/ unit.state = "active" /\ unit.code = "old" /\ installed = "old"
             \/ /\ installed = "new" /\ ~Finding /\ unit.code # "old"
                /\ unit.longest >= d.window \/ d.base = Unread
           HandedBack == HandsBack => OldOrProved
<1>1. Init => Inv
  <2> SUFFICES ASSUME Init PROVE Inv
    OBVIOUS
  <2>1. TypeOK /\ Plan /\ Fresh
    BY AFreshDeploy
  <2>2. d.at = "read"
    BY DEF Init
  <2>3. WordInv
    BY AFreshWord
  <2>4. /\ unit.longest = 0 /\ unit.up = 0
        /\ exists /\ Reads => unit.state = "active"
        /\ unit.state = "active" => unit.code = "old"
        /\ unit.state # "activating" /\ installed = IF exists THEN "old" ELSE "none"
    BY DEF Init
  <2>6. d.window <= Window
    <3>1. d.window = Least /\ restartSec \in Nat
      BY <2>1 DEF Init, TypeOK, MachineType
    <3> QED BY <3>1, DeployAssumption DEF Window
  <2>5. OldRuns /\ NewRuns /\ Proved
    BY <2>2, <2>4, <2>6 DEF OldRuns, NewRuns, Proved, Deploying
  <2> QED BY <2>1, <2>3, <2>5 DEF PlanInv, HandInv
<1>2. Inv /\ [Next]_vars => Inv'
  BY TypesAreKept, ThePlanIsKept, TheWordIsKept, TheOldOneRuns, TheNewOneRuns, TheSettleSeesIt
     DEF PlanInv, WordInv, HandInv
<1>3. Inv /\ [Next]_vars => [HandedBack]_vars
  <2> SUFFICES ASSUME TypeOK, Plan, Fresh, OldRuns, NewRuns, Proved, [Next]_vars, HandsBack
               PROVE  OldOrProved
    BY DEF PlanInv, HandInv
  <2>1. row' # row /\ row'.on /\ answer'["deploy"].at = writes'
    BY DEF HandsBack
  <2>2. /\ SwitchType /\ writes \in Nat /\ "deploy" \in Who /\ "person" \in Who
        /\ answer["deploy"].at \in Nat /\ answer["deploy"].at <= writes
    BY DeployAssumption DEF TypeOK, SwitchType
  <2>3. ~SwitchOff
    <3>1. SwitchOff => row'.on = FALSE
      BY DEF SwitchOff, Set, Write
    <3> QED BY <2>1, <3>1
  <2>4. ~SeedSwitch
    <3> SUFFICES ASSUME SeedSwitch PROVE FALSE
      OBVIOUS
    <3>1. ~exists /\ \E on \in BOOLEAN : Seed(on)
      BY <2>1 DEF SeedSwitch, switchVars
    <3>2. answer' = answer /\ writes' = writes + 1
      BY <2>2, <3>1, SeedsAreTyped
    <3> QED BY <2>1, <2>2, <3>2
  <2>5. ~\E on \in BOOLEAN : Speak(on)
    <3> SUFFICES ASSUME NEW on \in BOOLEAN, Speak(on) PROVE FALSE
      OBVIOUS
    <3>1. answer'["deploy"] = answer["deploy"] /\ writes' = writes + 1
      BY <2>2, SetsAreTyped DEF Speak
    <3> QED BY <2>1, <2>2, <3>1
  <2>6. CASE Recover
    <3>1. /\ Deploying /\ "switch_off" \in d.done /\ "stop" \notin d.done /\ Step # "stop"
      BY <2>6 DEF Recover, Deploying, Plan, PlaceOfStep, Recovers
    <3> QED BY <3>1 DEF OldRuns, Planned, Obeyed
  <2>7. CASE RestoreSwitch
    <3>1. Deploying /\ Step = "restore_switch"
      BY <2>7 DEF RestoreSwitch, Begins, Deploying
    <3>2. Step \in Left /\ \A x \in Planned : Rank[x] < Rank[Step] => x \in d.done
      BY <3>1, Standing
    <3>3. "switch_off" \in Planned /\ {"install", "check_venv", "start", "stop"} \subseteq Planned
      BY <3>1, <3>2 DEF Planned, Plan, PlannedIsWhole, OldRuns
    <3>4. \A x \in {"install", "check_venv", "start", "stop"} : Rank[x] < Rank["restore_switch"]
      BY DEF Rank
    <3>5. {"install", "check_venv", "start", "stop"} \subseteq d.done
      BY <3>1, <3>2, <3>3, <3>4
    <3> QED BY <3>1, <3>5 DEF NewRuns, Proved, Obeyed
  <2>8. CASE UNCHANGED <<switchVars, exists, word>>
    BY <2>1, <2>8 DEF switchVars
  <2> QED BY <2>3, <2>4, <2>5, <2>6, <2>7, <2>8, WhoWrites
<1> HIDE DEF Inv
<1>4. Spec => [][HandedBack]_vars
  <2> HIDE DEF HandedBack
  <2> QED BY <1>1, <1>2, <1>3, PTL DEF Spec
<1> QED BY <1>4 DEF OnlyProvedIsHandedBack
=============================================================================
