------------------------- MODULE VolumeGuardProofs -------------------------
(***************************************************************************)
(* Proofs about VolumeGuard for every scale, every climb, any number of    *)
(* house steps, joins, failed calls and runs: the steps up that a box is   *)
(* owed are taken once, and a box that nobody turned comes back to its     *)
(* level.                                                                  *)
(*                                                                         *)
(* A step is in one of a few hands from the moment somebody makes it until *)
(* it is in a level: the box is owed it, the pass has taken it, the house  *)
(* writer has it.  Every level that anybody may still write, with all that *)
(* is in the hands, is at most what the room is due; and so is every level *)
(* with what a save that may yet be read back says is owed.  For the       *)
(* second theorem: a box off its level, or about to be, is noted, and so   *)
(* is every save that the next run may read.                               *)
(***************************************************************************)
EXTENDS VolumeGuard, TLAPS

\* Every step somebody makes is one up, nothing is owed from before, and no box
\* leaves and comes back while its fade runs.
OnlyUp == Moves \subseteq {1} /\ OwedBefore \subseteq {0} /\ "return" \notin Faults

States  == [note : Levels \cup {None}, owed : Nat]
Entries == [state : States, by : {Nobody, Pass} \cup Fades]

BoxTypeOK ==
  /\ vol \in Levels /\ due \in Levels
  /\ reported \in Levels \cup {None} /\ note \in Levels \cup {None} /\ written \in Levels \cup {None}
  /\ {owed, pending, taken, steps} \subseteq Nat
  /\ durable \in States /\ queue \in Seq(Entries)
  /\ writer \in {"none", "turning", "reading", "writing"}
  /\ writer = "writing" => written # None

FadeTypeOK ==
  /\ fadeAt \in [Fades -> {"none", "resting", "climbing", "landing", "saving", "undoing", "done"}]
  /\ fadeFrom \in [Fades -> Levels] /\ fadeWrite \in [Fades -> Levels]
  /\ fadeStep \in [Fades -> Nat] /\ fading \in {0} \cup Fades

\* The phases of a pass that waits for a save, and that is taking a box in: one
\* that has nothing to put back is at zero as it is.
Waiting  == {"rescued", "noting", "owing", "returned"}
JoinsNow == {"reading", "noting", "muting", "owing", "joining", "returning", "returned"}

PassTypeOK ==
  /\ pass \in {"idle", "looking", "rescuing", "deciding", "standing"} \cup Waiting \cup JoinsNow
  /\ passLevel \in Levels \cup {None} /\ {passOwed} \subseteq Nat
  /\ passSaved \in {"none", "waiting", "ok", "failed"}
  /\ pass \in Waiting <=> passSaved # "none"
  /\ service \in {"up", "stopping", "closing", "closed", "stopped", "crashed"}
  /\ service # "up" => pass = "idle"
  /\ pass \in {"looking", "rescuing", "returning"} => passLevel # None
-----------------------------------------------------------------------------
(* The hands a step may be in *)

\* With the house writer, before it is in a level that the writer sends.
InHand == pending + (IF writer = "reading" THEN taken ELSE 0)

\* With the pass, which may have to owe them again.
TakenUp == IF pass \in {"noting", "muting"} THEN passOwed ELSE 0

Saves == {durable} \cup {queue[i].state : i \in DOMAIN queue}

\* Where the box is, or the house writer may put it.
BoxIsDue  == \A level \in {vol, reported, written} : level + owed + TakenUp + InHand <= due
NoteIsDue == note + owed + InHand <= due /\ passLevel + owed + InHand <= due
SaveIsDue ==
  \A s \in Saves :
    /\ s.note + s.owed <= due
    /\ \A level \in {vol, reported, written} : level + s.owed + InHand <= due
FadeIsDue ==
  \A f \in Fades :
    /\ Alive(f) => fadeFrom[f] + owed + InHand <= due
    /\ fadeAt[f] \in {"climbing", "landing", "undoing"} => fadeWrite[f] + owed + InHand <= due

\* Before anybody writes a noted level, the saves with more owed are history.
Settled == service = "up" /\ (pass = "noting" => passSaved = "ok")
Fresh   == Settled \/ Fading => \A s \in Saves : s.owed <= owed

\* The pass waits for one save, and what is saved after it owes no more.
OneSave ==
  service = "up" =>
    /\ passSaved # "waiting" => \A i \in DOMAIN queue : queue[i].by # Pass
    /\ \A i, j \in DOMAIN queue : queue[i].by = Pass /\ queue[j].by = Pass => i = j
    /\ pass = "noting" =>
         \A i, j \in DOMAIN queue : queue[i].by = Pass /\ i <= j => queue[j].state.owed <= owed

\* A box is taken in while none of its fades runs.
OneFade ==
  /\ \A f \in Fades : Alive(f) => fading = f
  /\ pass = "standing" => \A f \in Fades : Alive(f) => fadeAt[f] = "undoing"
  /\ pass \in JoinsNow => ~joined /\ ~Fading
  /\ service = "up" /\ ~joined /\ Fading => ~belongs

\* Between two runs nothing of the last one is left.
Gone ==
  service \in {"stopped", "crashed"} =>
    /\ queue = <<>> /\ ~Fading /\ owed = 0 /\ pending = 0 /\ writer = "none"
    /\ reported = None /\ written = None /\ passLevel = None /\ passSaved = "none"

IInv ==
  /\ BoxTypeOK /\ FadeTypeOK /\ PassTypeOK
  /\ BoxIsDue /\ NoteIsDue /\ SaveIsDue /\ FadeIsDue
  /\ Fresh /\ OneSave /\ OneFade /\ Gone
-----------------------------------------------------------------------------
(* Levels *)

\* The scale, as the provers' arithmetic wants it.
LEMMA Scale == Top \in Nat /\ Levels = 0 .. Top /\ Levels \subseteq Nat /\ None = -1 /\ None \notin Levels
               /\ FadeSteps \in Nat \ {0} /\ MaxJoins \in Nat
BY VolumeAssumption DEF Levels, None

\* A level moved up is on the scale, and moved no further.
LEMMA SteppedUp ==
  ASSUME NEW level \in Levels, NEW step \in Nat
  PROVE  /\ Stepped(level, step) \in Levels /\ Stepped(level, step) <= level + step
         /\ level + step <= Top => Stepped(level, step) = level + step
BY Scale DEF Stepped

\* What a division leaves.
LEMMA Division ==
  ASSUME NEW a \in Nat, NEW d \in Nat \ {0}
  PROVE  a \div d \in Nat /\ a % d \in 0 .. d - 1 /\ a = (d * (a \div d)) + (a % d)
BY Z3

\* A product grows with its factor ...
LEMMA PartOf ==
  ASSUME NEW n \in Nat, NEW k \in Nat, NEW d \in Nat, k <= d
  PROVE  n * k <= n * d
BY Z3

\* ... and only with it.
LEMMA PartsAreLess ==
  ASSUME NEW n \in Nat, NEW q \in Nat, NEW d \in Nat \ {0}, d * q <= n * d
  PROVE  q <= n
BY Z3

\* A part of a level, rounded to the even neighbour, is no louder than it.
LEMMA RoundedPart ==
  ASSUME NEW n \in Nat, NEW k \in Nat, NEW d \in Nat \ {0}, k <= d
  PROVE  Rounded(n * k, d) \in 0 .. n
<1> DEFINE a == n * k
<1> DEFINE q == a \div d
<1> DEFINE r == a % d
<1>1. a \in Nat BY Z3
<1>2. q \in Nat /\ r \in 0 .. d - 1 /\ a = (d * q) + r BY <1>1, Division
<1>3. a <= n * d BY PartOf
<1>4. n * d \in Nat /\ d * q \in Nat /\ d * n = n * d /\ d * (q + 1) = (d * q) + d BY <1>2, Z3
<1>5. q <= n
  <2>1. d * q <= n * d BY <1>1, <1>2, <1>3, <1>4
  <2> HIDE DEF q
  <2> QED BY <1>2, <2>1, PartsAreLess
<1>6. CASE q = n
  <2>1. r = 0 BY <1>2, <1>3, <1>6, <1>4
  <2> QED BY <1>2, <1>6, <2>1 DEF Rounded
<1>7. CASE q < n BY <1>2, <1>7 DEF Rounded
<1> QED BY <1>2, <1>5, <1>6, <1>7
-----------------------------------------------------------------------------
(* The types *)

\* What is in the hands is a number, and what the invariant says of the box.
LEMMA Hands ==
  ASSUME IInv
  PROVE  /\ InHand \in Nat /\ TakenUp \in Nat
         /\ vol + owed + TakenUp + InHand <= due /\ vol + owed <= due /\ due <= Top
<1>1. InHand \in Nat /\ TakenUp \in Nat BY DEF IInv, BoxTypeOK, PassTypeOK, InHand, TakenUp
<1>2. vol + owed + TakenUp + InHand <= due BY DEF IInv, BoxIsDue
<1>3. vol \in Nat /\ owed \in Nat /\ due \in Nat /\ due <= Top BY Scale DEF IInv, BoxTypeOK
<1> QED BY <1>1, <1>2, <1>3

\* A save is of the state as it is.
LEMMA SavedIsAState ==
  ASSUME NEW n \in Levels \cup {None}, NEW o \in Nat, NEW by \in {Nobody, Pass} \cup Fades, queue \in Seq(Entries),
         Save(n, o, by)
  PROVE  queue' \in Seq(Entries)
<1>1. [state |-> State(n, o), by |-> by] \in Entries BY DEF State, States, Entries
<1> QED BY <1>1 DEF Save

\* The pass's phases and levels.
LEMMA PassTypeStep ==
  ASSUME OnlyUp, IInv, [Next]_vars
  PROVE  PassTypeOK'
<1>0. ASSUME UNCHANGED <<passVars, service>> PROVE PassTypeOK' BY <1>0 DEF IInv, PassTypeOK, passVars
<1> USE DEF PassTypeOK, Waiting, JoinsNow
<1>1. PassTypeOK /\ note \in Levels \cup {None} /\ vol \in Levels /\ owed \in Nat BY DEF IInv, BoxTypeOK
<1>2. CASE Around \/ WriterStep
  BY <1>0, <1>2 DEF Around, BelongsChanges, SwitchChanges, Reported, HouseStep, WriterStep, WriterTurns, WriterRead,
                    WriterWrote, WriterGivesUp
<1>3. ASSUME NEW f \in Fades, FadeStep(f) PROVE PassTypeOK'
  BY <1>0, <1>3 DEF FadeStep, FadeGoesOn, FadeClimbed, FadeBreaksOff, FadeLanded, FadeFailed, FadeSaved, FadeUndone,
                    FadeUndoneFailed
<1>4. CASE StoreWrites BY <1>1, <1>4 DEF StoreWrites
<1>5. CASE PassStarts \/ RescueTurn \/ Rescued \/ RescueFailed
  BY <1>1, <1>5 DEF PassStarts, RescueTurn, PassAt, Rescued, RescueFailed, PassSaves
<1>6. CASE PassGoesOn BY <1>1, <1>6 DEF PassGoesOn
<1>7. CASE StandsDown \/ StoodDown \/ LetsGo \/ LetsBe \/ TakesIn \/ ReadFailed
  BY <1>1, <1>7 DEF StandsDown, StoodDown, LetsGo, LetsBe, TakesIn, ReadFailed, PassAt, Idle
<1>8. CASE Noting
  <2>1. Stepped(vol, owed) \in Levels BY <1>1, SteppedUp
  <2> QED BY <1>1, <1>8, <2>1 DEF Noting, PassSaves
<1>9. CASE JoinsSilent
  <2>1. Stepped(vol, owed) = vol + owed BY <1>1, Hands, SteppedUp, Scale DEF IInv, BoxTypeOK
  <2>2. vol = 0 /\ owed = 0 BY <1>1, <1>9, <2>1, Scale DEF JoinsSilent
  <2> QED BY <1>1, <1>9, <2>2 DEF JoinsSilent, PassSaves
<1>10. CASE Muted \/ SilencedOnce \/ NotTurnedDown
  BY <1>1, <1>10 DEF Muted, SilencedOnce, NotTurnedDown, PassAt, PassSaves
<1>11. CASE Joined \/ JoinRefused \/ Returned \/ NotReturned
  BY <1>1, <1>11 DEF Joined, JoinRefused, Noted, Idle, Returned, NotReturned, PassSaves
<1>12. CASE Stops \/ StopsFading \/ Closes \/ Stopped \/ Crashes \/ Starts
  BY <1>1, <1>12 DEF Stops, StopsFading, Closes, Stopped, Crashes, Starts, Forgotten, Idle, passVars
<1>13. CASE Over \/ UNCHANGED vars BY <1>0, <1>13 DEF Over, vars
<1> QED
  BY <1>2, <1>3, <1>4, <1>5, <1>6, <1>7, <1>8, <1>9, <1>10, <1>11, <1>12, <1>13
  DEF Next, PassStep, Ending

\* A climb's levels are on the scale.
LEMMA FadeTypeStep ==
  ASSUME OnlyUp, IInv, [Next]_vars
  PROVE  FadeTypeOK'
<1>0. ASSUME UNCHANGED fadeVars PROVE FadeTypeOK' BY <1>0 DEF IInv, FadeTypeOK, fadeVars
<1>1. FadeTypeOK /\ note \in Levels \cup {None} /\ passLevel \in Levels \cup {None} BY DEF IInv, BoxTypeOK, PassTypeOK
<1>2. \A f \in Fades : Noted(fadeFrom[f]) \in Levels BY <1>1 DEF Noted, FadeTypeOK
<1> USE <1>1 DEF FadeTypeOK
<1>3. CASE Around \/ WriterStep \/ StoreWrites
  BY <1>0, <1>3 DEF Around, BelongsChanges, SwitchChanges, Reported, HouseStep, WriterStep, WriterTurns, WriterRead,
                    WriterWrote, WriterGivesUp, StoreWrites
<1>4. ASSUME NEW f \in Fades, FadeGoesOn(f) PROVE FadeTypeOK'
  <2>1. fadeStep' \in [Fades -> Nat] BY <1>4 DEF FadeGoesOn
  <2>2. CASE fadeStep'[f] < FadeSteps
    <3>1. Rounded(Noted(fadeFrom[f]) * fadeStep'[f], FadeSteps) \in Levels
      <4>1. Noted(fadeFrom[f]) \in Nat /\ Noted(fadeFrom[f]) <= Top BY <1>2, Scale
      <4>2. fadeStep'[f] \in Nat /\ fadeStep'[f] <= FadeSteps BY <2>1, <2>2, Scale
      <4>3. Rounded(Noted(fadeFrom[f]) * fadeStep'[f], FadeSteps) \in 0 .. Noted(fadeFrom[f])
        BY <4>1, <4>2, Scale, RoundedPart
      <4> QED BY <4>1, <4>3, Scale
    <3> QED BY <1>4, <2>1, <2>2, <3>1 DEF FadeGoesOn
  <2>3. CASE ~(fadeStep'[f] < FadeSteps) BY <1>2, <1>4, <2>1, <2>3 DEF FadeGoesOn
  <2> QED BY <2>2, <2>3
<1>5. ASSUME NEW f \in Fades, FadeClimbed(f) \/ FadeLanded(f) PROVE FadeTypeOK'
  BY <1>5 DEF FadeClimbed, FadeLanded
<1>6. ASSUME NEW f \in Fades, FadeBreaksOff(f) PROVE FadeTypeOK' BY <1>2, <1>6 DEF FadeBreaksOff
<1>7. ASSUME NEW f \in Fades, FadeFailed(f) \/ FadeSaved(f) \/ FadeUndone(f) \/ FadeUndoneFailed(f) PROVE FadeTypeOK'
  <2>1. FadeEnds(f) BY <1>7 DEF FadeFailed, FadeSaved, FadeUndone, FadeUndoneFailed
  <2>2. 0 \in Levels BY Scale
  <2> QED BY <2>1, <2>2 DEF FadeEnds
<1>8. CASE PassStarts \/ RescueTurn \/ Rescued \/ RescueFailed \/ PassGoesOn \/ StoodDown \/ LetsGo \/ LetsBe
  BY <1>0, <1>8 DEF PassStarts, RescueTurn, Rescued, RescueFailed, PassGoesOn, StoodDown, LetsGo, LetsBe
<1>9. CASE TakesIn \/ ReadFailed \/ Noting \/ JoinsSilent \/ Muted \/ SilencedOnce \/ NotTurnedDown
           \/ JoinRefused \/ Returned \/ NotReturned
  BY <1>0, <1>9 DEF TakesIn, ReadFailed, Noting, JoinsSilent, Muted, SilencedOnce, NotTurnedDown, JoinRefused, Returned,
                    NotReturned
<1>10. CASE Joined BY <1>0, <1>10 DEF Joined, fadeVars
<1>11. ASSUME NEW which, Cancelled(which) PROVE FadeTypeOK'
  <2>1. fadeAt' \in [Fades -> {"none", "resting", "climbing", "landing", "saving", "undoing", "done"}]
    BY <1>11 DEF Cancelled
  <2>2. fadeWrite' \in [Fades -> Levels] BY <1>2, <1>11 DEF Cancelled
  <2>3. fading' \in {0} \cup Fades /\ UNCHANGED <<fadeFrom, fadeStep>> BY <1>11 DEF Cancelled
  <2> QED BY <2>1, <2>2, <2>3
<1>12. CASE StandsDown \/ StopsFading \/ Closes BY <1>11, <1>12 DEF StandsDown, StopsFading, Closes
<1>13. CASE Stopped \/ Crashes BY <1>13, Scale DEF Stopped, Crashes, Forgotten
<1>14. CASE Stops \/ Starts \/ Over \/ UNCHANGED vars BY <1>0, <1>14 DEF Stops, Starts, Over, vars
<1> QED
  BY <1>3, <1>4, <1>5, <1>6, <1>7, <1>8, <1>9, <1>10, <1>12, <1>13, <1>14 DEF Next, FadeStep, PassStep, Ending

\* The levels that are on their way to the box are on the scale.
LEMMA SentAreLevels ==
  ASSUME IInv
  PROVE  SentByPass \subseteq Levels /\ SentByFades \subseteq Levels /\ SentByWriter \subseteq Levels
BY Scale DEF IInv, BoxTypeOK, FadeTypeOK, PassTypeOK, SentByPass, SentByFades, SentByWriter

\* The box's levels, and the saves.
LEMMA BoxTypeStep ==
  ASSUME OnlyUp, IInv, [Next]_vars
  PROVE  BoxTypeOK'
<1>0. ASSUME UNCHANGED <<vol, due, reported, note, written, owed, pending, taken, steps, durable, queue, writer>>
      PROVE  BoxTypeOK'
  BY <1>0 DEF IInv, BoxTypeOK
<1>1. BoxTypeOK BY DEF IInv
<1>2. vol \in Levels /\ owed \in Nat /\ pending \in Nat /\ taken \in Nat /\ note \in Levels \cup {None}
      /\ passLevel \in Levels \cup {None} /\ passOwed \in Nat /\ queue \in Seq(Entries)
  BY DEF IInv, BoxTypeOK, PassTypeOK
<1>3. ASSUME NEW level \in Levels, NEW step \in Nat PROVE Stepped(level, step) \in Levels
  BY <1>3, SteppedUp
<1> USE DEF BoxTypeOK
<1>4. CASE BelongsChanges \/ SwitchChanges \/ Reported
  BY <1>1, <1>4 DEF BelongsChanges, SwitchChanges, Reported, boxVars, stateVars, stepVars
<1>5. ASSUME NEW move \in Moves, HouseStep(move) PROVE BoxTypeOK'
  <2>1. move = 1 BY DEF OnlyUp
  <2>2. note # None => Stepped(note, move) \in Levels BY <1>2, <1>3, <2>1
  <2>3. queue' \in Seq(Entries)
    <3>1. owed' \in Nat /\ note' \in Levels \cup {None} BY <1>2, <1>5, <2>1, <2>2 DEF HouseStep, stepVars
    <3>2. CASE \E n \in Levels \cup {None}, o \in Nat : Save(n, o, Nobody)
      BY <1>2, <3>2, SavedIsAState
    <3> QED BY <1>2, <1>5, <3>1, <3>2 DEF HouseStep
  <2>4. due' \in Levels /\ {steps'} \subseteq Nat BY <1>1, <1>5, <2>1 DEF HouseStep
  <2>5. {owed', pending', taken'} \subseteq Nat /\ note' \in Levels \cup {None}
    BY <1>2, <1>5, <2>1, <2>2 DEF HouseStep, stepVars
  <2>6. writer' \in {writer, "turning"} /\ written' \in {written, None} /\ (writer' = "turning" \/ written' = written)
    BY <1>5 DEF HouseStep, stepVars
  <2>7. UNCHANGED <<vol, reported, durable>> BY <1>5 DEF HouseStep, boxVars
  <2> QED BY <1>1, <2>3, <2>4, <2>5, <2>6, <2>7
<1>6. CASE StoreWrites
  <2>1. Head(queue) \in Entries /\ queue' \in Seq(Entries) BY <1>2, <1>6 DEF StoreWrites
  <2>2. durable' \in States BY <1>1, <1>6, <2>1 DEF StoreWrites, Entries
  <2> QED BY <1>1, <1>6, <2>1, <2>2 DEF StoreWrites, boxVars, stepVars
<1>7. CASE WriterTurns
  <2>1. written' \in Levels \cup {None} /\ (writer' = "writing" => written' # None)
        /\ writer' \in {"none", "turning", "reading", "writing"}
    BY <1>1, <1>2, <1>3, <1>7, Scale DEF WriterTurns
  <2> QED BY <1>1, <1>7, <2>1 DEF WriterTurns, boxVars, stateVars
<1>8. CASE WriterRead BY <1>1, <1>2, <1>3, <1>8, Scale DEF WriterRead, boxVars, stateVars
<1>9. CASE WriterWrote BY <1>1, <1>9 DEF WriterWrote, Obeyed, stateVars
<1>10. CASE WriterGivesUp BY <1>1, <1>10 DEF WriterGivesUp, Refused, WriterCancelled, stateVars
<1>11. ASSUME NEW f \in Fades, FadeStep(f) PROVE BoxTypeOK'
  <2>1. fadeWrite[f] \in Levels BY DEF IInv, FadeTypeOK
  <2>2. CASE FadeGoesOn(f) \/ FadeSaved(f) BY <1>0, <2>2 DEF FadeGoesOn, FadeSaved, boxVars, stateVars, stepVars
  <2>3. CASE FadeClimbed(f) \/ FadeBreaksOff(f) \/ FadeFailed(f) \/ FadeUndoneFailed(f)
    BY <1>1, <2>1, <2>3 DEF FadeClimbed, FadeBreaksOff, FadeFailed, FadeUndoneFailed, Obeyed, Refused, stateVars, stepVars
  <2>4. CASE FadeLanded(f) \/ FadeUndone(f)
    <3>1. queue' \in Seq(Entries)
      BY <1>2, <2>4, SavedIsAState DEF FadeLanded, FadeUndone
    <3> QED BY <1>1, <2>1, <2>4, <3>1 DEF FadeLanded, FadeUndone, Obeyed, stepVars
  <2> QED BY <1>11, <2>2, <2>3, <2>4 DEF FadeStep
<1>12. CASE PassStarts \/ RescueTurn \/ PassGoesOn \/ LetsGo \/ LetsBe \/ TakesIn \/ Joined
  BY <1>0, <1>12 DEF PassStarts, RescueTurn, PassGoesOn, LetsGo, LetsBe, TakesIn, Joined, boxVars, stateVars, stepVars
<1>13. CASE RescueFailed \/ ReadFailed \/ Muted \/ JoinRefused \/ NotReturned
  <2>1. vol' \in Levels
    BY <1>2, <1>13, Scale DEF RescueFailed, ReadFailed, Muted, JoinRefused, NotReturned, Obeyed, Refused, IInv, PassTypeOK
  <2> QED
    BY <1>1, <1>13, <2>1 DEF RescueFailed, ReadFailed, Muted, JoinRefused, NotReturned, stateVars, stepVars
<1>14. CASE Rescued \/ Returned
  <2>1. vol' \in Levels /\ note' = None /\ UNCHANGED owed
    BY <1>2, <1>14 DEF Rescued, Returned, Obeyed, IInv, PassTypeOK
  <2>2. queue' \in Seq(Entries) BY <1>2, <1>14, SavedIsAState DEF Rescued, Returned, PassSaves
  <2> QED BY <1>1, <1>14, <2>1, <2>2 DEF Rescued, Returned, stepVars
<1>15. CASE Noting
  <2>1. Stepped(vol, owed) \in Levels BY <1>2, <1>3
  <2>2. queue' \in Seq(Entries) BY <1>2, <1>15, <2>1, SavedIsAState DEF Noting, PassSaves
  <2> QED BY <1>1, <1>15, <2>1, <2>2 DEF Noting, boxVars, stepVars
<1>16. CASE JoinsSilent \/ SilencedOnce
  <2>1. queue' \in Seq(Entries) BY <1>2, <1>16, SavedIsAState DEF JoinsSilent, SilencedOnce, PassSaves
  <2>2. JoinsSilent BY <1>16 DEF SilencedOnce, IInv, PassTypeOK, Waiting, JoinsNow
  <2> QED BY <1>1, <2>1, <2>2 DEF JoinsSilent, boxVars, stepVars
<1>17. CASE NotTurnedDown
  <2>1. note' \in Levels \cup {None} /\ owed' \in Nat /\ vol' \in Levels
    BY <1>2, <1>17, Scale DEF NotTurnedDown, Refused
  <2>2. queue' \in Seq(Entries) BY <1>2, <1>17, <2>1, SavedIsAState DEF NotTurnedDown, PassSaves
  <2> QED BY <1>1, <1>17, <2>1, <2>2 DEF NotTurnedDown, stepVars
<1>18. CASE StandsDown \/ StoodDown \/ Stops \/ StopsFading \/ Closes
  <2>1. vol' \in Levels
    BY <1>2, <1>18, SentAreLevels DEF StandsDown, StoodDown, Stops, StopsFading, Closes, CutOff
  <2> QED
    BY <1>1, <1>18, <2>1
    DEF StandsDown, StoodDown, Stops, StopsFading, Closes, WriterCancelled, stateVars, stepVars
<1>19. CASE Stopped \/ Crashes
  <2>1. vol' \in Levels BY <1>2, <1>19, SentAreLevels DEF Stopped, Crashes, CutOff
  <2>2. Forgotten BY <1>19 DEF Stopped, Crashes
  <2>3. queue' \in Seq(Entries) BY <2>2 DEF Forgotten
  <2> QED BY <1>1, <2>1, <2>2, <2>3 DEF Forgotten, WriterCancelled
<1>20. CASE Starts BY <1>1, <1>20 DEF Starts, States, boxVars, stepVars
<1>21. CASE Over \/ UNCHANGED vars BY <1>0, <1>21 DEF Over, vars, boxVars, stateVars, stepVars
<1> QED
  BY <1>4, <1>5, <1>6, <1>7, <1>8, <1>9, <1>10, <1>11, <1>12, <1>13, <1>14, <1>15, <1>16, <1>17, <1>18, <1>19, <1>20,
     <1>21
  DEF Next, Around, WriterStep, PassStep, Ending
-----------------------------------------------------------------------------
(* What a step does to the levels and the hands *)

\* A level that is no louder than one of the box's, with what leaves the hands.
Below(level) ==
  \/ level + InHand' <= vol + InHand
  \/ level + InHand' <= reported + InHand
  \/ level + InHand' <= written + InHand

\* Nothing gets louder but by what was in a hand ...
Lowers ==
  /\ due' = due /\ InHand' <= InHand /\ owed' + TakenUp' <= owed + TakenUp
  /\ Below(vol') /\ Below(reported') /\ Below(written')

\* ... or by a level that the pass or a fade sent ...
Raises ==
  /\ due' = due /\ InHand' <= InHand /\ owed' <= owed /\ TakenUp' = 0
  /\ Settled \/ Fading
  /\ vol' + owed + InHand <= due
  /\ Below(reported') /\ Below(written')

\* ... or somebody makes a step up, which is in one hand then or in the note.
StepsUp ==
  /\ due' = due + 1
  /\ vol' = vol /\ reported' = reported /\ written' \in {written, None} /\ UNCHANGED <<taken, passLevel, fadeVars>>
  /\ TakenUp' = TakenUp
  /\ \/ note # None /\ note' <= note + 1 /\ owed' = owed /\ InHand' = InHand
     \/ note' = note /\ owed' = owed /\ InHand' = InHand + 1
     \/ note' = note /\ owed' = owed + 1 /\ InHand' = InHand

\* Every level is a number.
LEMMA Numbers ==
  ASSUME IInv
  PROVE  /\ vol \in Nat /\ owed \in Nat /\ due \in Nat /\ InHand \in Nat /\ TakenUp \in Nat
         /\ reported \in Int /\ written \in Int /\ note \in Int /\ passLevel \in Int
         /\ reported >= -1 /\ written >= -1 /\ note >= -1 /\ passLevel >= -1
         /\ vol + owed + TakenUp + InHand <= due
         /\ reported + owed + TakenUp + InHand <= due
         /\ written + owed + TakenUp + InHand <= due
<1>1. InHand \in Nat /\ TakenUp \in Nat BY Hands
<1>2. vol \in Nat /\ owed \in Nat /\ due \in Nat BY Scale DEF IInv, BoxTypeOK
<1>3. \A level \in Levels \cup {None} : level \in Int /\ level >= -1 BY Scale
<1> QED BY <1>1, <1>2, <1>3 DEF IInv, BoxTypeOK, PassTypeOK, BoxIsDue

\* The box's own levels, and none, with hands that do not fill.
LEMMA BelowItself ==
  ASSUME IInv, {InHand'} \subseteq Nat, InHand' <= InHand
  PROVE  Below(vol) /\ Below(reported) /\ Below(written) /\ Below(None) /\ Below(0)
<1>1. vol \in Nat /\ InHand \in Nat /\ reported \in Int /\ written \in Int /\ None = -1 BY Numbers, Scale
<1> QED BY <1>1 DEF Below

\* A level that was on its way arrives, or does not.
LEMMA ArrivesOrNot ==
  ASSUME IInv, due' = due, {InHand', owed'} \subseteq Nat, InHand' <= InHand, owed' <= owed, TakenUp' = 0,
         reported' \in {reported, None}, written' \in {written, None},
         vol' \in {vol} \cup SentByPass \cup SentByFades \cup SentByWriter
  PROVE  Lowers \/ Raises
<1>0. /\ vol \in Nat /\ owed \in Nat /\ InHand \in Nat /\ TakenUp \in Nat
      /\ reported \in Int /\ written \in Int /\ None = -1
  BY Numbers, Scale
<1>1. Below(reported') /\ Below(written') BY BelowItself
<1>a. owed' + TakenUp' <= owed + TakenUp BY <1>0
<1>2. CASE vol' = vol \/ vol' = 0
  <2>1. Below(vol') BY <1>2, BelowItself
  <2> QED BY <1>1, <1>a, <2>1 DEF Lowers
<1>3. CASE vol' \in SentByWriter
  <2>1. vol' = written BY <1>3 DEF SentByWriter
  <2>2. Below(vol') BY <2>1, BelowItself
  <2> QED BY <1>1, <1>a, <2>2 DEF Lowers
<1>4. CASE vol' \in SentByFades
  <2>1. PICK f \in Fades : fadeAt[f] \in {"climbing", "landing", "undoing"} /\ vol' = fadeWrite[f]
    BY <1>4 DEF SentByFades
  <2>2. vol' + owed + InHand <= due BY <2>1 DEF IInv, FadeIsDue
  <2>3. Fading BY <2>1 DEF Fading, Alive
  <2> QED BY <1>1, <2>2, <2>3 DEF Raises
<1>5. CASE vol' \in SentByPass /\ vol' # 0
  <2>1. pass \in {"rescuing", "returning"} /\ vol' = passLevel BY <1>5 DEF SentByPass
  <2>2. vol' + owed + InHand <= due BY <2>1 DEF IInv, NoteIsDue
  <2>3. Settled BY <2>1 DEF Settled, IInv, PassTypeOK
  <2> QED BY <1>1, <2>2, <2>3 DEF Raises
<1> QED BY <1>2, <1>3, <1>4, <1>5

\* Nobody's level and nobody's hand moves.
LEMMA Still ==
  ASSUME IInv, UNCHANGED <<vol, reported, written, owed, pending, taken, writer, due>>, {TakenUp'} \subseteq Nat, TakenUp' <= TakenUp
  PROVE  Lowers /\ InHand' = InHand
<1>1. InHand' = InHand BY DEF InHand
<1> QED BY <1>1, Numbers DEF Lowers, Below

\* What the pass has taken up.
LEMMA TakenUpStep ==
  ASSUME IInv, PassTypeOK'
  PROVE  /\ {TakenUp'} \subseteq Nat
         /\ UNCHANGED <<pass, passOwed>> => TakenUp' = TakenUp
         /\ pass' \notin {"noting", "muting"} => TakenUp' = 0
BY DEF TakenUp, IInv, PassTypeOK

\* While a fade runs the pass has taken up nothing.
LEMMA NothingTakenUp ==
  ASSUME IInv, Fading \/ pass \notin {"noting", "muting"}
  PROVE  TakenUp = 0
BY DEF IInv, OneFade, JoinsNow, TakenUp

\* A step of the house writer.
LEMMA WriterStepKind ==
  ASSUME IInv, WriterStep, BoxTypeOK', PassTypeOK'
  PROVE  Lowers
<1>0. /\ vol \in Nat /\ owed \in Nat /\ InHand \in Nat /\ TakenUp \in Nat
      /\ reported \in Int /\ written \in Int /\ None = -1
  BY Numbers, Scale
<1>1. pending \in Nat /\ taken \in Nat /\ vol \in Levels /\ {pending', taken'} \subseteq Nat
      /\ reported \in Levels \cup {None} /\ written \in Levels \cup {None} /\ (writer = "writing" => written # None)
  BY DEF IInv, BoxTypeOK
<1>2. TakenUp' = TakenUp
  BY TakenUpStep DEF WriterStep, WriterTurns, WriterRead, WriterWrote, WriterGivesUp, passVars
<1>3. CASE WriterTurns
  <2>1. InHand = pending BY <1>1, <1>3 DEF WriterTurns, InHand
  <2>2. UNCHANGED <<vol, reported, owed, due>> BY <1>3 DEF WriterTurns, boxVars, stateVars
  <2>3. CASE pending = 0
    <3>1. InHand' = 0 /\ written' = None BY <1>3, <2>3 DEF WriterTurns, InHand
    <3> QED BY <1>0, <1>2, <2>1, <2>2, <2>3, <3>1 DEF Lowers, Below
  <2>4. CASE writer' = "reading" /\ written' = written
    <3>1. InHand' = pending BY <1>1, <1>3, <2>4 DEF WriterTurns, InHand
    <3> QED BY <1>0, <1>2, <2>1, <2>2, <2>4, <3>1 DEF Lowers, Below
  <2>5. CASE \E base \in {written, reported} \ {None} : writer' = "writing" /\ written' = Stepped(base, pending)
    <3>1. InHand' = 0 BY <1>1, <1>3, <2>5 DEF WriterTurns, InHand
    <3>2. PICK base \in {written, reported} \ {None} : written' = Stepped(base, pending) BY <2>5
    <3>3. written' <= base + pending /\ written' \in Levels BY <1>1, <3>2, SteppedUp
    <3>4. Below(written') BY <1>0, <1>1, <2>1, <3>1, <3>2, <3>3, Scale DEF Below
    <3>5. Below(vol') /\ Below(reported') BY <1>0, <2>1, <2>2, <3>1 DEF Below
    <3> QED BY <1>0, <1>2, <2>2, <3>1, <3>4, <3>5 DEF Lowers
  <2> QED BY <1>3, <2>3, <2>4, <2>5 DEF WriterTurns
<1>4. CASE WriterRead
  <2>1. InHand = pending + taken /\ InHand' = pending BY <1>1, <1>4 DEF WriterRead, InHand
  <2>2. written' <= vol + taken /\ {written'} \subseteq Int BY <1>1, <1>4, SteppedUp, Scale DEF WriterRead
  <2>3. UNCHANGED <<vol, reported, owed, due>> BY <1>4 DEF WriterRead, boxVars, stateVars
  <2>4. written' + InHand' <= vol + InHand
    <3>1. {pending, taken, vol, written'} \subseteq Int BY <1>1, <2>2, Scale
    <3> QED BY <2>1, <2>2, <3>1
  <2>5. Below(vol') /\ Below(reported') /\ Below(written')
    <3>1. {InHand'} \subseteq Nat /\ InHand' <= InHand BY <1>1, <2>1
    <3> QED BY <2>3, <2>4, <3>1, BelowItself DEF Below
  <2> QED BY <1>0, <1>1, <1>2, <2>1, <2>3, <2>5 DEF Lowers
<1>5. CASE WriterWrote
  <2>1. InHand' = InHand BY <1>5 DEF WriterWrote, InHand
  <2>2. vol' = written /\ UNCHANGED <<reported, written, owed, due>> BY <1>5 DEF WriterWrote, Obeyed, stateVars
  <2> QED BY <1>0, <1>2, <2>1, <2>2 DEF Lowers, Below
<1>6. CASE WriterGivesUp
  <2>1. InHand' = 0 BY <1>6 DEF WriterGivesUp, WriterCancelled, InHand
  <2>2. vol' = vol \/ vol' = written BY <1>6 DEF WriterGivesUp, Refused
  <2>3. written' = None /\ UNCHANGED <<reported, owed, due>> BY <1>6 DEF WriterGivesUp, WriterCancelled, stateVars
  <2>4. Below(vol') /\ Below(reported') /\ Below(written') BY <1>0, <2>1, <2>2, <2>3 DEF Below
  <2> QED BY <1>0, <1>2, <2>1, <2>3, <2>4 DEF Lowers
<1> QED BY <1>3, <1>4, <1>5, <1>6 DEF WriterStep

\* A step up is in the note, with the writer, or owed.
LEMMA HouseStepKind ==
  ASSUME OnlyUp, IInv, NEW move \in Moves, HouseStep(move), BoxTypeOK', PassTypeOK'
  PROVE  StepsUp
<1>1. move = 1 BY DEF OnlyUp
<1>2. TakenUp' = TakenUp BY TakenUpStep DEF HouseStep, passVars
<1>3. due' = due + 1 /\ vol' = vol /\ reported' = reported /\ UNCHANGED <<passLevel, fadeVars, passVars>>
  BY <1>1 DEF HouseStep, boxVars, passVars
<1>4. pending \in Nat /\ taken \in Nat /\ note \in Levels \cup {None} BY DEF IInv, BoxTypeOK
<1>5. CASE note # None
  <2>1. note' <= note + 1 BY <1>1, <1>4, <1>5, SteppedUp DEF HouseStep
  <2>2. owed' = owed /\ UNCHANGED stepVars BY <1>5 DEF HouseStep
  <2>3. InHand' = InHand /\ written' = written /\ taken' = taken BY <2>2 DEF InHand, stepVars
  <2> QED BY <1>2, <1>3, <1>5, <2>1, <2>2, <2>3 DEF StepsUp
<1>6. CASE note = None /\ joined
  <2>1. pending' = pending + 1 /\ taken' = taken /\ (writer' = writer \/ (writer = "none" /\ writer' = "turning"))
    BY <1>1, <1>6 DEF HouseStep
  <2>2. InHand' = InHand + 1 BY <1>4, <2>1 DEF InHand
  <2> QED BY <1>2, <1>3, <1>6, <2>2 DEF StepsUp, HouseStep
<1>7. CASE note = None /\ ~joined
  <2>1. InHand' = InHand /\ owed' = owed + 1 /\ note' = note /\ written' = written /\ taken' = taken
    BY <1>1, <1>7 DEF HouseStep, InHand, stepVars
  <2> QED BY <1>2, <1>3, <2>1 DEF StepsUp
<1> QED BY <1>5, <1>6, <1>7

\* What the house writer has in hand when it does nothing, or is cancelled.
LEMMA InHandStep ==
  ASSUME BoxTypeOK'
  PROVE  /\ {InHand'} \subseteq Nat
         /\ UNCHANGED stepVars => InHand' = InHand
         /\ WriterCancelled => InHand' = 0
<1>1. {InHand'} \subseteq Nat BY DEF InHand, BoxTypeOK
<1> QED BY <1>1 DEF InHand, stepVars, WriterCancelled

\* Every step is of one of the kinds, or starts the next run.
LEMMA StepKind ==
  ASSUME OnlyUp, IInv, [Next]_vars, BoxTypeOK', PassTypeOK'
  PROVE  Lowers \/ Raises \/ StepsUp \/ Starts
<1>0. /\ vol \in Nat /\ owed \in Nat /\ InHand \in Nat /\ TakenUp \in Nat /\ {owed'} \subseteq Nat
      /\ passOwed \in Nat
  BY Numbers DEF BoxTypeOK, IInv, PassTypeOK
<1>1. CASE BelongsChanges \/ SwitchChanges
  BY <1>0, <1>1, Still, TakenUpStep DEF BelongsChanges, SwitchChanges, boxVars, stateVars, passVars, stepVars
<1>2. CASE Reported
  <2>1. InHand' = InHand /\ TakenUp' = TakenUp BY <1>2, TakenUpStep, InHandStep DEF Reported, passVars
  <2>2. vol' = vol /\ reported' = vol /\ written' = written /\ owed' = owed /\ due' = due
    BY <1>2 DEF Reported, stateVars, stepVars
  <2> QED BY <1>0, <2>1, <2>2, InHandStep, BelowItself DEF Lowers
<1>3. CASE \E move \in Moves : HouseStep(move) BY <1>3, HouseStepKind
<1>4. CASE WriterStep BY <1>4, WriterStepKind
<1>5. CASE StoreWrites
  BY <1>0, <1>5, Still, TakenUpStep DEF StoreWrites, boxVars, stepVars
<1>6. ASSUME NEW f \in Fades, FadeGoesOn(f) \/ FadeSaved(f) PROVE Lowers
  BY <1>0, <1>6, Still, TakenUpStep DEF FadeGoesOn, FadeSaved, boxVars, stateVars, passVars, stepVars
<1>7. ASSUME NEW f \in Fades,
             FadeClimbed(f) \/ FadeBreaksOff(f) \/ FadeLanded(f) \/ FadeFailed(f) \/ FadeUndone(f) \/ FadeUndoneFailed(f)
      PROVE  Lowers \/ Raises
  <2>1. fadeAt[f] \in {"climbing", "landing", "undoing"} /\ vol' \in {vol, fadeWrite[f]}
    BY <1>7 DEF FadeClimbed, FadeBreaksOff, FadeLanded, FadeFailed, FadeUndone, FadeUndoneFailed, Obeyed, Refused
  <2>2. UNCHANGED <<passVars, stepVars>> /\ owed' = owed /\ due' = due /\ reported' = reported
    BY <1>7 DEF FadeClimbed, FadeBreaksOff, FadeLanded, FadeFailed, FadeUndone, FadeUndoneFailed, stateVars
  <2>3. TakenUp' = 0
    <3>1. TakenUp = 0 BY <2>1, NothingTakenUp DEF Fading, Alive
    <3> QED BY <2>2, <3>1, TakenUpStep DEF passVars
  <2>4. InHand' = InHand /\ written' = written BY <2>2, InHandStep DEF stepVars
  <2>5. vol' \in {vol} \cup SentByFades BY <2>1 DEF SentByFades
  <2>6. {InHand', owed'} \subseteq Nat /\ InHand' <= InHand /\ owed' <= owed BY <1>0, <2>2, <2>4
  <2> QED BY <2>2, <2>3, <2>4, <2>5, <2>6, ArrivesOrNot
<1>8. CASE PassStarts \/ RescueTurn \/ LetsGo \/ LetsBe \/ TakesIn \/ Joined
  <2>1. TakenUp' = 0
    BY <1>8, TakenUpStep DEF PassStarts, RescueTurn, PassAt, LetsGo, LetsBe, TakesIn, Joined, Idle
  <2>2. UNCHANGED <<boxVars, stateVars, stepVars, due>>
    BY <1>8 DEF PassStarts, RescueTurn, LetsGo, LetsBe, TakesIn, Joined
  <2> QED BY <1>0, <2>1, <2>2, Still DEF boxVars, stateVars, stepVars
<1>9. CASE PassGoesOn
  <2>1. TakenUp' = TakenUp \/ TakenUp' = 0
    BY <1>9 DEF PassGoesOn, TakenUp, IInv, PassTypeOK, Waiting
  <2> QED BY <1>0, <1>9, <2>1, Still DEF PassGoesOn, boxVars, stateVars, stepVars
<1>10. CASE Rescued \/ RescueFailed \/ Returned \/ NotReturned
  <2>1. TakenUp' = 0
    BY <1>10, TakenUpStep DEF Rescued, RescueFailed, Returned, NotReturned, PassAt, Idle
  <2>2. UNCHANGED stepVars /\ owed' = owed /\ due' = due /\ reported' = reported
    BY <1>10 DEF Rescued, RescueFailed, Returned, NotReturned, stateVars
  <2>3. InHand' = InHand /\ written' = written BY <2>2, InHandStep DEF stepVars
  <2>4. vol' \in {vol} \cup SentByPass
    BY <1>10 DEF Rescued, RescueFailed, Returned, NotReturned, Obeyed, Refused, SentByPass
  <2>5. {InHand', owed'} \subseteq Nat /\ InHand' <= InHand /\ owed' <= owed BY <1>0, <2>2, <2>3
  <2> QED BY <2>1, <2>2, <2>3, <2>4, <2>5, ArrivesOrNot
<1>11. CASE ReadFailed \/ JoinRefused
  <2>1. TakenUp' = 0 BY <1>11, TakenUpStep DEF ReadFailed, JoinRefused, Idle
  <2>2. UNCHANGED <<vol, reported, stateVars, stepVars, due>> BY <1>11 DEF ReadFailed, JoinRefused, Refused
  <2> QED BY <1>0, <2>1, <2>2, Still DEF stateVars, stepVars
<1>12. CASE Noting
  <2>1. TakenUp' = owed /\ owed' = 0 BY <1>12 DEF Noting, PassSaves, TakenUp
  <2>2. UNCHANGED <<vol, reported, stepVars, due>> BY <1>12 DEF Noting, boxVars
  <2>3. InHand' = InHand /\ written' = written BY <2>2, InHandStep DEF stepVars
  <2> QED BY <1>0, <2>1, <2>2, <2>3, InHandStep, BelowItself DEF Lowers
<1>13. CASE JoinsSilent
  <2>1. TakenUp' = 0 /\ owed' = 0 BY <1>13, TakenUpStep DEF JoinsSilent
  <2>2. UNCHANGED <<vol, reported, stepVars, due>> BY <1>13 DEF JoinsSilent, boxVars
  <2>3. InHand' = InHand /\ written' = written BY <2>2, InHandStep DEF stepVars
  <2> QED BY <1>0, <2>1, <2>2, <2>3, InHandStep, BelowItself DEF Lowers
<1>14. CASE Muted \/ SilencedOnce
  <2>1. Muted BY <1>14 DEF SilencedOnce, IInv, PassTypeOK, Waiting, JoinsNow
  <2>2. TakenUp' = 0 BY <2>1, TakenUpStep DEF Muted, PassAt
  <2>3. UNCHANGED stepVars /\ owed' = owed /\ due' = due /\ reported' = reported BY <2>1 DEF Muted, stateVars
  <2>4. InHand' = InHand /\ written' = written BY <2>3, InHandStep DEF stepVars
  <2>5. vol' = 0 BY <2>1 DEF Muted, Obeyed
  <2> QED BY <1>0, <2>2, <2>3, <2>4, <2>5, InHandStep, BelowItself DEF Lowers
<1>15. CASE NotTurnedDown
  <2>1. pass = "muting" BY <1>15 DEF NotTurnedDown, IInv, PassTypeOK, Waiting, JoinsNow
  <2>2. TakenUp = passOwed /\ TakenUp' = 0 BY <1>15, <2>1, TakenUpStep DEF NotTurnedDown, TakenUp
  <2>3. UNCHANGED stepVars /\ owed' = owed + passOwed /\ due' = due /\ reported' = reported
    BY <1>15 DEF NotTurnedDown
  <2>4. InHand' = InHand /\ written' = written BY <2>3, InHandStep DEF stepVars
  <2>5. vol' = 0 \/ vol' = vol BY <1>15 DEF NotTurnedDown, Refused
  <2>6. owed' + TakenUp' <= owed + TakenUp BY <1>0, <2>2, <2>3
  <2> QED BY <1>0, <2>3, <2>4, <2>5, <2>6, InHandStep, BelowItself DEF Lowers
<1>16. CASE StandsDown \/ StoodDown \/ Stops \/ StopsFading \/ Closes \/ Crashes \/ Stopped
  <2>1. TakenUp' = 0
    <3>1. pass' \in {"idle", "standing"}
      BY <1>16 DEF StandsDown, StoodDown, Stops, StopsFading, Closes, Crashes, Stopped, Forgotten, PassAt, Idle, passVars,
                   IInv, PassTypeOK
    <3> QED BY <3>1, TakenUpStep
  <2>2. owed' = owed \/ owed' = 0
    BY <1>16 DEF StandsDown, StoodDown, Stops, StopsFading, Closes, Crashes, Stopped, Forgotten, stateVars
  <2>3. due' = due /\ reported' \in {reported, None} /\ (UNCHANGED stepVars \/ WriterCancelled)
    BY <1>16 DEF StandsDown, StoodDown, Stops, StopsFading, Closes, Crashes, Stopped, Forgotten
  <2>4. InHand' \in {InHand, 0} /\ written' \in {written, None}
    BY <2>3, InHandStep DEF stepVars, WriterCancelled
  <2>5. vol' \in {vol} \cup SentByPass \cup SentByFades \cup SentByWriter
    BY <1>16 DEF StandsDown, StoodDown, Stops, StopsFading, Closes, Crashes, Stopped, CutOff
  <2>6. {InHand', owed'} \subseteq Nat /\ InHand' <= InHand /\ owed' <= owed BY <1>0, <2>2, <2>4
  <2> QED BY <2>1, <2>3, <2>4, <2>5, <2>6, ArrivesOrNot
<1>17. CASE Over \/ UNCHANGED vars
  BY <1>0, <1>17, Still, TakenUpStep DEF Over, vars, boxVars, stateVars, passVars, stepVars
<1> QED
  BY <1>1, <1>2, <1>3, <1>4, <1>5, <1>6, <1>7, <1>8, <1>9, <1>10, <1>11, <1>12, <1>13, <1>14, <1>15, <1>16, <1>17
  DEF Next, Around, FadeStep, PassStep, Ending
-----------------------------------------------------------------------------
(* Levels and saves are what is due *)

\* A save is added at the end.
LEMMA SaveAdds ==
  ASSUME NEW n, NEW o, NEW by, queue \in Seq(Entries), Save(n, o, by), durable' = durable
  PROVE  Saves' \subseteq Saves \cup {State(n, o)}
<1>1. DOMAIN queue' = 1 .. Len(queue) + 1 /\ DOMAIN queue = 1 .. Len(queue) /\ Len(queue) \in Nat BY DEF Save
<1>2. \A i \in DOMAIN queue' : (queue'[i] = queue[i] /\ i \in DOMAIN queue) \/ queue'[i].state = State(n, o)
  BY <1>1 DEF Save
<1> QED BY <1>2 DEF Saves

\* Every save is of a state.
LEMMA SavesAreStates == IInv => Saves \subseteq States
<1> SUFFICES ASSUME IInv PROVE Saves \subseteq States OBVIOUS
<1>1. \A i \in DOMAIN queue : queue[i] \in Entries BY DEF IInv, BoxTypeOK
<1> QED BY <1>1 DEF Saves, Entries, IInv, BoxTypeOK

\* What is saved is the state as it has become.
LEMMA SavesStep ==
  ASSUME OnlyUp, IInv, [Next]_vars
  PROVE  Saves' \subseteq Saves \cup {State(note', owed')}
<1>0. queue \in Seq(Entries) BY DEF IInv, BoxTypeOK
<1>1. ASSUME UNCHANGED <<queue, durable>> PROVE Saves' \subseteq Saves BY <1>1 DEF Saves
<1>2. CASE StoreWrites
  <2>1. durable' \in {durable, Head(queue).state} /\ queue' = Tail(queue) /\ queue # <<>> BY <1>2 DEF StoreWrites
  <2>2. Len(queue) \in Nat /\ DOMAIN queue = 1 .. Len(queue) /\ 1 \in DOMAIN queue /\ Head(queue) = queue[1]
        /\ DOMAIN queue' = 1 .. Len(queue) - 1
    BY <1>0, <2>1
  <2>3. \A i \in DOMAIN queue' : i + 1 \in DOMAIN queue /\ queue'[i] = queue[i + 1] BY <1>0, <2>1, <2>2
  <2> QED BY <2>1, <2>2, <2>3 DEF Saves
<1>3. CASE \/ BelongsChanges \/ SwitchChanges \/ Reported \/ WriterStep
           \/ PassStarts \/ RescueTurn \/ RescueFailed \/ PassGoesOn \/ StandsDown \/ StoodDown \/ LetsGo \/ LetsBe
  BY <1>1, <1>3 DEF BelongsChanges, SwitchChanges, Reported, WriterStep, WriterTurns, WriterRead, WriterWrote,
     WriterGivesUp, PassStarts, RescueTurn, RescueFailed, PassGoesOn, StandsDown, StoodDown, LetsGo, LetsBe, stateVars
<1>4. CASE \/ TakesIn \/ ReadFailed \/ Muted \/ Joined \/ JoinRefused \/ NotReturned
           \/ Stops \/ StopsFading \/ Closes \/ Starts \/ Over \/ UNCHANGED vars
  BY <1>1, <1>4 DEF TakesIn, ReadFailed, Muted, Joined, JoinRefused, NotReturned, Stops, StopsFading, Closes, Starts, Over,
     stateVars, vars
<1>5. ASSUME NEW move \in Moves, HouseStep(move) PROVE Saves' \subseteq Saves \cup {State(note', owed')}
  <2>1. durable' = durable BY <1>5 DEF HouseStep
  <2>2. CASE UNCHANGED queue BY <1>1, <2>1, <2>2
  <2>3. CASE Save(note', owed', Nobody) BY <1>0, <2>1, <2>3, SaveAdds
  <2> QED BY <1>5, <2>2, <2>3 DEF HouseStep, stateVars
<1>6. ASSUME NEW f \in Fades, FadeStep(f) PROVE Saves' \subseteq Saves \cup {State(note', owed')}
  <2>1. durable' = durable
    BY <1>6 DEF FadeStep, FadeGoesOn, FadeClimbed, FadeBreaksOff, FadeLanded, FadeFailed, FadeSaved, FadeUndone,
                FadeUndoneFailed, stateVars
  <2>2. CASE UNCHANGED queue BY <1>1, <2>1, <2>2
  <2>3. CASE \E by : Save(note', owed', by) BY <1>0, <2>1, <2>3, SaveAdds
  <2> QED
    BY <1>6, <2>2, <2>3
    DEF FadeStep, FadeGoesOn, FadeClimbed, FadeBreaksOff, FadeLanded, FadeFailed, FadeSaved, FadeUndone,
        FadeUndoneFailed, stateVars
<1>7. CASE Rescued \/ Returned \/ Noting \/ JoinsSilent \/ SilencedOnce \/ NotTurnedDown
  <2>1. durable' = durable
    BY <1>7 DEF Rescued, Returned, Noting, JoinsSilent, SilencedOnce, NotTurnedDown
  <2>2. CASE UNCHANGED queue BY <1>1, <2>1, <2>2
  <2>3. CASE Save(note', owed', Pass) BY <1>0, <2>1, <2>3, SaveAdds
  <2> QED
    BY <1>7, <2>2, <2>3 DEF Rescued, Returned, Noting, JoinsSilent, SilencedOnce, NotTurnedDown, PassSaves
<1>8. CASE Stopped \/ Crashes
  <2>1. durable' = durable /\ queue' = <<>> BY <1>8 DEF Stopped, Crashes, Forgotten
  <2> QED BY <2>1 DEF Saves
<1> QED BY <1>2, <1>3, <1>4, <1>5, <1>6, <1>7, <1>8 DEF Next, Around, PassStep, Ending

\* The next run starts with what was saved, and nothing in its hands.
LEMMA StartsAgain ==
  ASSUME IInv, Starts
  PROVE  /\ InHand = 0 /\ InHand' = 0 /\ TakenUp' = 0 /\ due' = due /\ vol' = vol /\ ~Fading
         /\ reported' = None /\ written' = None /\ passLevel' = None
         /\ note' = durable.note /\ owed' = durable.owed /\ queue' = <<>> /\ queue = <<>> /\ durable' = durable
         /\ pass' = "idle" /\ passSaved' = "none" /\ UNCHANGED <<fadeVars, passVars, pending>> /\ writer' = "none"
BY DEF Starts, Gone, IInv, PassTypeOK, InHand, TakenUp, boxVars, passVars, stepVars

\* Where the box is, or its writer may put it.
LEMMA BoxIsDueStep ==
  ASSUME OnlyUp, IInv, [Next]_vars, BoxTypeOK', PassTypeOK'
  PROVE  BoxIsDue'
<1>0. /\ vol \in Nat /\ owed \in Nat /\ due \in Nat /\ InHand \in Nat /\ TakenUp \in Nat
      /\ reported \in Int /\ written \in Int /\ None = -1
      /\ vol + owed + TakenUp + InHand <= due
      /\ reported + owed + TakenUp + InHand <= due
      /\ written + owed + TakenUp + InHand <= due
  BY Numbers, Scale
<1>1. {owed', InHand', TakenUp', vol', reported', written'} \subseteq Int
  <2>1. {InHand'} \subseteq Int /\ {TakenUp'} \subseteq Int BY TakenUpStep, InHandStep
  <2>2. {owed'} \subseteq Int BY DEF BoxTypeOK
  <2>3. Levels \cup {None} \subseteq Int BY Scale
  <2>4. {vol', reported', written'} \subseteq Levels \cup {None} BY DEF BoxTypeOK
  <2> QED BY <2>1, <2>2, <2>3, <2>4
<1>2. SUFFICES ASSUME NEW level \in {vol', reported', written'}
               PROVE  level + owed' + TakenUp' + InHand' <= due'
  BY DEF BoxIsDue
<1>a. level \in Int BY <1>1
<1>3. CASE Lowers
  <2>1. level + InHand' <= vol + InHand \/ level + InHand' <= reported + InHand \/ level + InHand' <= written + InHand
    BY <1>3 DEF Lowers, Below
  <2>2. owed' + TakenUp' <= owed + TakenUp /\ due' = due BY <1>3 DEF Lowers
  <2> QED BY <1>0, <1>1, <1>a, <2>1, <2>2
<1>4. CASE Raises
  <2>1. \/ level + owed + InHand <= due
        \/ level + InHand' <= vol + InHand \/ level + InHand' <= reported + InHand \/ level + InHand' <= written + InHand
    BY <1>4 DEF Raises, Below
  <2>2. owed' <= owed /\ TakenUp' = 0 /\ due' = due /\ InHand' <= InHand BY <1>4 DEF Raises
  <2> QED BY <1>0, <1>1, <1>a, <2>1, <2>2
<1>5. CASE StepsUp
  <2>1. level \in {vol, reported, written, None} BY <1>5 DEF StepsUp
  <2>2. due' = due + 1 /\ TakenUp' = TakenUp /\ owed' + InHand' <= owed + InHand + 1 BY <1>0, <1>1, <1>5 DEF StepsUp
  <2> QED BY <1>0, <1>1, <1>a, <2>1, <2>2
<1>6. CASE Starts
  <2>1. level \in {vol, None} /\ owed' = durable.owed /\ InHand' = 0 /\ TakenUp' = 0 /\ due' = due /\ InHand = 0
    BY <1>6, StartsAgain
  <2>2. vol + durable.owed + InHand <= due BY DEF IInv, SaveIsDue, Saves
  <2> QED BY <1>0, <1>1, <1>a, <2>1, <2>2
<1> QED BY <1>3, <1>4, <1>5, <1>6, StepKind

\* What the step leaves owed: a hand may be emptied into a level, and only what
\* the pass took up is owed again.
LEMMA OwedStep ==
  ASSUME OnlyUp, IInv, [Next]_vars, BoxTypeOK', PassTypeOK', ~NotTurnedDown, ~Starts
  PROVE  owed' + InHand' + due <= owed + InHand + due'
<1>0. /\ owed \in Nat /\ due \in Nat /\ InHand \in Nat /\ {owed', InHand', due'} \subseteq Nat
  <2>1. {owed'} \subseteq Nat /\ due' \in Levels BY DEF BoxTypeOK
  <2> QED BY <2>1, Numbers, InHandStep, Scale
<1>1. owed' = owed \/ owed' = 0 \/ \E move \in Moves : HouseStep(move)
  <2>1. CASE \/ BelongsChanges \/ SwitchChanges \/ Reported \/ WriterStep \/ StoreWrites
             \/ PassStarts \/ RescueTurn \/ Rescued \/ RescueFailed \/ PassGoesOn \/ StandsDown \/ StoodDown
    BY <2>1 DEF BelongsChanges, SwitchChanges, Reported, WriterStep, WriterTurns, WriterRead, WriterWrote,
       WriterGivesUp, StoreWrites, PassStarts, RescueTurn, Rescued, RescueFailed, PassGoesOn, StandsDown, StoodDown,
       stateVars
  <2>2. CASE \/ LetsGo \/ LetsBe \/ TakesIn \/ ReadFailed \/ Noting \/ JoinsSilent \/ Muted \/ SilencedOnce
             \/ Joined \/ JoinRefused \/ Returned \/ NotReturned
    BY <2>2 DEF LetsGo, LetsBe, TakesIn, ReadFailed, Noting, JoinsSilent, Muted, SilencedOnce, Joined, JoinRefused,
       Returned, NotReturned, stateVars
  <2>3. CASE Stops \/ StopsFading \/ Closes \/ Stopped \/ Crashes \/ Over \/ UNCHANGED vars
    BY <2>3 DEF Stops, StopsFading, Closes, Stopped, Crashes, Forgotten, Over, vars, stateVars
  <2>4. ASSUME NEW f \in Fades, FadeStep(f) PROVE owed' = owed
    BY <2>4 DEF FadeStep, FadeGoesOn, FadeClimbed, FadeBreaksOff, FadeLanded, FadeFailed, FadeSaved, FadeUndone,
       FadeUndoneFailed, stateVars
  <2> QED BY <2>1, <2>2, <2>3, <2>4 DEF Next, Around, PassStep, Ending
<1>2. CASE StepsUp
  <2>1. due' = due + 1 /\ owed' + InHand' <= owed + InHand + 1 BY <1>0, <1>2 DEF StepsUp
  <2> QED BY <1>0, <2>1
<1>3. CASE owed' <= owed /\ (Lowers \/ Raises)
  <2>1. due' = due /\ InHand' <= InHand BY <1>3 DEF Lowers, Raises
  <2> QED BY <1>0, <1>3, <2>1
<1>4. (\E move \in Moves : HouseStep(move)) => StepsUp BY HouseStepKind
<1>5. owed' <= owed \/ StepsUp BY <1>0, <1>1, <1>4
<1> QED BY <1>2, <1>3, <1>5, StepKind

\* The saves: an old one with what is on the box or may be, a new one as it is.
LEMMA SaveIsDueStep ==
  ASSUME OnlyUp, IInv, [Next]_vars, BoxTypeOK', PassTypeOK', BoxIsDue', NoteIsDue'
  PROVE  SaveIsDue'
<1>0. /\ vol \in Nat /\ owed \in Nat /\ due \in Nat /\ InHand \in Nat /\ TakenUp \in Nat
      /\ reported \in Int /\ written \in Int /\ None = -1
  BY Numbers, Scale
<1>1. {owed', InHand', TakenUp', vol', due', reported', written', note'} \subseteq Int
      /\ {InHand', TakenUp'} \subseteq Nat
  <2>1. {InHand'} \subseteq Nat /\ {TakenUp'} \subseteq Nat BY TakenUpStep, InHandStep
  <2>2. {owed'} \subseteq Nat BY DEF BoxTypeOK
  <2>3. Levels \cup {None} \subseteq Int BY Scale
  <2>4. {vol', due', reported', written', note'} \subseteq Levels \cup {None} BY DEF BoxTypeOK
  <2> QED BY <2>1, <2>2, <2>3, <2>4
<1>2. ASSUME NEW s \in Saves
      PROVE  /\ s.note \in Int /\ s.owed \in Nat /\ s.note + s.owed <= due
             /\ \A level \in {vol, reported, written} : level + s.owed + InHand <= due
  <2>1. s \in States BY SavesAreStates
  <2> QED BY <2>1, Scale DEF States, IInv, SaveIsDue
<1>3. due' = due \/ due' = due + 1 BY StepKind, StartsAgain DEF Lowers, Raises, StepsUp
<1>4. ASSUME NEW s \in Saves, NEW level \in {vol', reported', written'}
      PROVE  level + s.owed + InHand' <= due'
  <2>0. level \in Int BY <1>1
  <2>1. /\ s.owed \in Nat /\ vol + s.owed + InHand <= due /\ reported + s.owed + InHand <= due
        /\ written + s.owed + InHand <= due
    BY <1>2
  <2>2. CASE Lowers
    <3>1. level + InHand' <= vol + InHand \/ level + InHand' <= reported + InHand \/ level + InHand' <= written + InHand
      BY <2>2 DEF Lowers, Below
    <3>2. due' = due BY <2>2 DEF Lowers
    <3> QED BY <1>0, <1>1, <2>0, <2>1, <3>1, <3>2
  <2>3. CASE Raises
    <3>1. s.owed <= owed BY <2>3 DEF Raises, IInv, Fresh
    <3>2. \/ level + owed + InHand <= due
          \/ level + InHand' <= vol + InHand \/ level + InHand' <= reported + InHand \/ level + InHand' <= written + InHand
      BY <2>3 DEF Raises, Below
    <3>3. due' = due /\ InHand' <= InHand BY <2>3 DEF Raises
    <3> QED BY <1>0, <1>1, <2>0, <2>1, <3>1, <3>2, <3>3
  <2>4. CASE StepsUp
    <3>1. level \in {vol, reported, written, None} BY <2>4 DEF StepsUp
    <3>2. due' = due + 1 /\ InHand' <= InHand + 1 BY <1>0, <2>4 DEF StepsUp
    <3> QED BY <1>0, <1>1, <2>0, <2>1, <3>1, <3>2
  <2>5. CASE Starts
    <3>1. level \in {vol, None} /\ InHand' = 0 /\ due' = due /\ InHand = 0 BY <2>5, StartsAgain
    <3> QED BY <1>0, <1>1, <2>0, <2>1, <3>1
  <2> QED BY <2>2, <2>3, <2>4, <2>5, StepKind
<1>5. ASSUME NEW s, s = State(note', owed')
      PROVE  /\ s.note + s.owed <= due'
             /\ \A level \in {vol', reported', written'} : level + s.owed + InHand' <= due'
  <2>1. s.note = note' /\ s.owed = owed' BY <1>5 DEF State
  <2>2. note' + owed' + InHand' <= due' BY DEF NoteIsDue
  <2>3. \A level \in {vol', reported', written'} : level \in Int /\ level + owed' + TakenUp' + InHand' <= due'
    BY <1>1 DEF BoxIsDue
  <2> QED BY <1>1, <2>1, <2>2, <2>3
<1>6. ASSUME NEW s \in Saves PROVE s.note + s.owed <= due' BY <1>0, <1>1, <1>2, <1>3
<1>7. \A s \in Saves' : s \in Saves \/ s = State(note', owed') BY SavesStep
<1> QED BY <1>4, <1>5, <1>6, <1>7 DEF SaveIsDue

\* What is noted, and what the pass holds of it.
LEMMA NoteIsDueStep ==
  ASSUME OnlyUp, IInv, [Next]_vars, BoxTypeOK', PassTypeOK', BoxIsDue'
  PROVE  NoteIsDue'
<1>0. /\ vol \in Nat /\ owed \in Nat /\ due \in Nat /\ InHand \in Nat /\ TakenUp \in Nat
      /\ note \in Int /\ passLevel \in Int /\ None = -1
      /\ vol + owed + TakenUp + InHand <= due
      /\ note + owed + InHand <= due /\ passLevel + owed + InHand <= due
  BY Numbers, Scale DEF IInv, NoteIsDue
<1>1. {owed', InHand', TakenUp', vol', due'} \subseteq Nat
  <2>1. {InHand'} \subseteq Nat /\ {TakenUp'} \subseteq Nat BY TakenUpStep, InHandStep
  <2>2. {owed'} \subseteq Nat /\ {vol', due'} \subseteq Levels BY DEF BoxTypeOK
  <2> QED BY <2>1, <2>2, Scale
<1>2. None + owed' + InHand' <= due'
  <2>1. vol' + owed' + TakenUp' + InHand' <= due' BY DEF BoxIsDue
  <2> QED BY <1>0, <1>1, <2>1
<1>3. ASSUME ~NotTurnedDown, ~Starts, NEW level \in {note, passLevel}
      PROVE  level + owed' + InHand' <= due'
  <2>1. owed' + InHand' + due <= owed + InHand + due' BY <1>3, OwedStep
  <2> QED BY <1>0, <1>1, <2>1
<1>4. ASSUME note' \in {note, None}, passLevel' \in {passLevel, note, None}, ~NotTurnedDown, ~Starts
      PROVE  NoteIsDue'
  BY <1>2, <1>3, <1>4 DEF NoteIsDue
<1>5. CASE NotTurnedDown
  <2>1. note' = None /\ passLevel' = None BY <1>5 DEF NotTurnedDown, IInv, PassTypeOK, Waiting, JoinsNow
  <2> QED BY <1>2, <2>1 DEF NoteIsDue
<1>6. CASE Starts
  <2>1. note' = durable.note /\ owed' = durable.owed /\ InHand' = 0 /\ due' = due /\ passLevel' = None
    BY <1>6, StartsAgain
  <2>2. durable.note + durable.owed <= due /\ durable.note \in Int /\ durable.owed \in Nat
    <3>1. durable \in States /\ durable.note + durable.owed <= due
      BY DEF Saves, IInv, SaveIsDue, BoxTypeOK
    <3> QED BY <3>1, Scale DEF States
  <2>3. note' + owed' + InHand' <= due' BY <1>0, <2>1, <2>2
  <2> QED BY <1>2, <2>1, <2>3 DEF NoteIsDue
<1>7. CASE Noting
  <2>1. Stepped(vol, owed) <= vol + owed /\ Stepped(vol, owed) \in Levels
    BY SteppedUp DEF IInv, BoxTypeOK
  <2>2. note' = Stepped(vol, owed) /\ passLevel' = Stepped(vol, owed) /\ owed' = 0 /\ due' = due BY <1>7 DEF Noting
  <2>3. InHand' = InHand BY <1>7, InHandStep DEF Noting
  <2>4. Stepped(vol, owed) + 0 + InHand <= due BY <1>0, <2>1, Scale
  <2> QED BY <2>2, <2>3, <2>4 DEF NoteIsDue
<1>8. ASSUME NEW move \in Moves, HouseStep(move) PROVE NoteIsDue'
  <2>1. StepsUp BY <1>8, HouseStepKind
  <2>2. due' = due + 1 /\ passLevel' = passLevel BY <2>1 DEF StepsUp
  <2>3. {note'} \subseteq Int BY Scale DEF BoxTypeOK
  <2>4. note' + owed' + InHand' <= due' BY <1>0, <1>1, <2>1, <2>2, <2>3 DEF StepsUp
  <2>5. passLevel' + owed' + InHand' <= due' BY <1>0, <1>1, <2>1, <2>2 DEF StepsUp
  <2> QED BY <2>4, <2>5 DEF NoteIsDue
<1>9. CASE \/ BelongsChanges \/ SwitchChanges \/ Reported \/ WriterStep \/ StoreWrites
           \/ PassStarts \/ RescueTurn \/ Rescued \/ RescueFailed \/ PassGoesOn \/ StandsDown \/ StoodDown
  <2>1. note' \in {note, None} /\ passLevel' \in {passLevel, note, None}
    BY <1>9 DEF BelongsChanges, SwitchChanges, Reported, WriterStep, WriterTurns, WriterRead, WriterWrote,
       WriterGivesUp, StoreWrites, PassStarts, RescueTurn, Rescued, RescueFailed, PassGoesOn, StandsDown, StoodDown,
       PassAt, Idle, stateVars, passVars
  <2> QED BY <1>4, <1>5, <1>6, <2>1
<1>10. CASE \/ LetsGo \/ LetsBe \/ TakesIn \/ ReadFailed \/ JoinsSilent \/ Muted \/ SilencedOnce \/ Joined
            \/ JoinRefused \/ Returned \/ NotReturned
  <2>1. note' \in {note, None} /\ passLevel' \in {passLevel, note, None}
    BY <1>10 DEF LetsGo, LetsBe, TakesIn, ReadFailed, JoinsSilent, Muted, SilencedOnce, Joined, JoinRefused, Returned,
       NotReturned, PassAt, Idle, Noted, stateVars, passVars
  <2> QED BY <1>4, <1>5, <1>6, <2>1
<1>11. CASE Stops \/ StopsFading \/ Closes \/ Stopped \/ Crashes \/ Over \/ UNCHANGED vars
  <2>1. note' \in {note, None} /\ passLevel' \in {passLevel, note, None}
    BY <1>11 DEF Stops, StopsFading, Closes, Stopped, Crashes, Forgotten, Over, Idle, vars, stateVars, passVars
  <2> QED BY <1>4, <1>5, <1>6, <2>1
<1>12. ASSUME NEW f \in Fades, FadeStep(f) PROVE NoteIsDue'
  <2>1. note' \in {note, None} /\ passLevel' \in {passLevel, note, None}
    BY <1>12 DEF FadeStep, FadeGoesOn, FadeClimbed, FadeBreaksOff, FadeLanded, FadeFailed, FadeSaved, FadeUndone,
       FadeUndoneFailed, stateVars, passVars
  <2> QED BY <1>4, <1>5, <1>6, <2>1
<1> QED
  BY <1>5, <1>6, <1>7, <1>8, <1>9, <1>10, <1>11, <1>12 DEF Next, Around, PassStep, Ending

\* Where a fade has sent a level and waits for the answer.
Sending == {"climbing", "landing", "undoing"}

\* A fade's levels are its note's, or parts of it.
LEMMA FadeLevels ==
  ASSUME OnlyUp, IInv, [Next]_vars, FadeTypeOK', NEW f \in Fades
  PROVE  /\ fadeAt'[f] \in {"resting", "climbing", "landing", "saving", "undoing"} =>
              fadeFrom'[f] = passLevel \/ (Alive(f) /\ fadeFrom'[f] = fadeFrom[f])
         /\ fadeAt'[f] \in Sending =>
              \/ fadeAt[f] \in Sending /\ fadeWrite'[f] = fadeWrite[f]
              \/ Alive(f) /\ fadeWrite'[f] <= Noted(fadeFrom[f])
<1>0. FadeTypeOK /\ Noted(fadeFrom[f]) \in Levels BY DEF IInv, FadeTypeOK, BoxTypeOK, Noted
<1>1. ASSUME UNCHANGED <<fadeAt, fadeFrom, fadeWrite>>
      PROVE  /\ fadeAt'[f] \in {"resting", "climbing", "landing", "saving", "undoing"} =>
                  Alive(f) /\ fadeFrom'[f] = fadeFrom[f]
             /\ fadeAt'[f] \in Sending => fadeAt[f] \in Sending /\ fadeWrite'[f] = fadeWrite[f]
  BY <1>1 DEF Alive
<1>2. CASE \/ Around \/ WriterStep \/ StoreWrites
           \/ PassStarts \/ RescueTurn \/ Rescued \/ RescueFailed \/ PassGoesOn \/ StoodDown \/ LetsGo \/ LetsBe
  BY <1>1, <1>2 DEF Around, BelongsChanges, SwitchChanges, Reported, HouseStep, WriterStep, WriterTurns, WriterRead,
     WriterWrote, WriterGivesUp, StoreWrites, PassStarts, RescueTurn, Rescued, RescueFailed, PassGoesOn, StoodDown,
     LetsGo, LetsBe, fadeVars
<1>3. CASE \/ TakesIn \/ ReadFailed \/ Noting \/ JoinsSilent \/ Muted \/ SilencedOnce \/ NotTurnedDown
           \/ JoinRefused \/ Returned \/ NotReturned \/ Stops \/ Starts \/ Over \/ UNCHANGED vars
  BY <1>1, <1>3 DEF TakesIn, ReadFailed, Noting, JoinsSilent, Muted, SilencedOnce, NotTurnedDown, JoinRefused, Returned,
     NotReturned, Stops, Starts, Over, vars, fadeVars
<1>4. CASE Joined
  BY <1>0, <1>4 DEF Joined, FadeTypeOK, Alive, Sending, fadeVars
<1>5. ASSUME NEW g \in Fades, FadeStep(g)
      PROVE  /\ fadeAt'[f] \in {"resting", "climbing", "landing", "saving", "undoing"} =>
                  Alive(f) /\ fadeFrom'[f] = fadeFrom[f]
             /\ fadeAt'[f] \in Sending =>
                  \/ fadeAt[f] \in Sending /\ fadeWrite'[f] = fadeWrite[f]
                  \/ Alive(f) /\ fadeWrite'[f] <= Noted(fadeFrom[f])
  <2>1. CASE FadeGoesOn(g)
    <3>1. fadeFrom' = fadeFrom /\ (f # g => fadeAt'[f] = fadeAt[f] /\ fadeWrite'[f] = fadeWrite[f])
      BY <1>0, <2>1 DEF FadeGoesOn, FadeTypeOK
    <3>2. f = g => Alive(f) BY <2>1 DEF FadeGoesOn, Alive
    <3>3. f = g => fadeWrite'[f] <= Noted(fadeFrom[f])
      <4> SUFFICES ASSUME f = g PROVE fadeWrite'[f] <= Noted(fadeFrom[f]) OBVIOUS
      <4>1. fadeStep'[f] \in Nat BY DEF FadeTypeOK
      <4>2. CASE fadeStep'[f] < FadeSteps
        <5>1. fadeWrite'[f] = Rounded(Noted(fadeFrom[f]) * fadeStep'[f], FadeSteps)
          BY <1>0, <2>1, <4>2 DEF FadeGoesOn, FadeTypeOK
        <5>2. fadeStep'[f] <= FadeSteps BY <4>1, <4>2, Scale
        <5>3. Rounded(Noted(fadeFrom[f]) * fadeStep'[f], FadeSteps) \in 0 .. Noted(fadeFrom[f])
          BY <1>0, <4>1, <5>2, Scale, RoundedPart
        <5> QED BY <5>1, <5>3
      <4>3. CASE ~(fadeStep'[f] < FadeSteps)
        <5>1. fadeWrite'[f] = Noted(fadeFrom[f]) BY <1>0, <2>1, <4>3 DEF FadeGoesOn, FadeTypeOK
        <5> QED BY <1>0, <5>1, Scale
      <4> QED BY <4>2, <4>3
    <3> QED BY <3>1, <3>2, <3>3 DEF Alive
  <2>2. CASE FadeClimbed(g) \/ FadeLanded(g)
    BY <1>0, <2>2 DEF FadeClimbed, FadeLanded, FadeTypeOK, Alive, Sending
  <2>3. CASE FadeBreaksOff(g)
    <3>1. Noted(fadeFrom[f]) <= Noted(fadeFrom[f]) BY <1>0, Scale
    <3> QED BY <1>0, <2>3, <3>1 DEF FadeBreaksOff, FadeTypeOK, Alive, Sending
  <2>4. CASE FadeFailed(g) \/ FadeSaved(g) \/ FadeUndone(g) \/ FadeUndoneFailed(g)
    <3>1. FadeEnds(g) BY <2>4 DEF FadeFailed, FadeSaved, FadeUndone, FadeUndoneFailed
    <3> QED BY <1>0, <3>1 DEF FadeEnds, FadeTypeOK, Alive, Sending
  <2> QED BY <1>5, <2>1, <2>2, <2>3, <2>4 DEF FadeStep
<1>6. CASE StandsDown \/ StopsFading \/ Closes
  <2>1. PICK which : Cancelled(which) BY <1>6 DEF StandsDown, StopsFading, Closes
  <2>2. Noted(fadeFrom[f]) <= Noted(fadeFrom[f]) BY <1>0, Scale
  <2> QED BY <1>0, <2>1, <2>2 DEF Cancelled, Alive, Sending
<1>7. CASE Stopped \/ Crashes
  <2>1. fadeAt'[f] \in {"none", "done"} BY <1>7 DEF Stopped, Crashes, Forgotten
  <2> QED BY <2>1 DEF Sending
<1> QED BY <1>2, <1>3, <1>4, <1>5, <1>6, <1>7 DEF Next, PassStep, Ending

\* What a fade sends, or will.
LEMMA FadeIsDueStep ==
  ASSUME OnlyUp, IInv, [Next]_vars, BoxTypeOK', FadeTypeOK', PassTypeOK'
  PROVE  FadeIsDue'
<1>1. CASE NotTurnedDown \/ Starts
  <2>1. ~Fading /\ UNCHANGED fadeVars
    <3>1. CASE NotTurnedDown
      <4>1. pass \in JoinsNow BY <3>1 DEF NotTurnedDown, IInv, PassTypeOK, Waiting, JoinsNow
      <4> QED BY <3>1, <4>1 DEF NotTurnedDown, IInv, OneFade
    <3>2. CASE Starts BY <3>2, StartsAgain
    <3> QED BY <1>1, <3>1, <3>2
  <2> QED BY <2>1 DEF FadeIsDue, Fading, Alive, fadeVars
<1>2. CASE ~NotTurnedDown /\ ~Starts
  <2> SUFFICES ASSUME NEW f \in Fades
               PROVE  /\ (Alive(f))' => fadeFrom'[f] + owed' + InHand' <= due'
                      /\ fadeAt'[f] \in Sending => fadeWrite'[f] + owed' + InHand' <= due'
    BY DEF FadeIsDue, Sending
  <2>0. owed \in Nat /\ due \in Nat /\ InHand \in Nat /\ {owed', InHand', due'} \subseteq Nat
    <3>1. {owed'} \subseteq Nat /\ {due'} \subseteq Levels BY DEF BoxTypeOK
    <3> QED BY <3>1, Numbers, InHandStep, Scale
  <2>1. owed' + InHand' + due <= owed + InHand + due' BY <1>2, OwedStep
  <2>2. ASSUME NEW level, NEW old, level \in Int, old \in Int, level <= old, old + owed + InHand <= due
        PROVE  level + owed' + InHand' <= due'
    BY <2>0, <2>1, <2>2
  <2>3. {fadeFrom'[f], fadeWrite'[f], fadeFrom[f], fadeWrite[f], passLevel, note} \subseteq Int
    BY Scale DEF IInv, BoxTypeOK, FadeTypeOK, PassTypeOK
  <2>4. passLevel + owed + InHand <= due /\ note + owed + InHand <= due BY DEF IInv, NoteIsDue
  <2>5. Alive(f) => fadeFrom[f] + owed + InHand <= due BY DEF IInv, FadeIsDue
  <2>6. fadeAt[f] \in Sending => fadeWrite[f] + owed + InHand <= due BY DEF IInv, FadeIsDue, Sending
  <2>7. Alive(f) => Noted(fadeFrom[f]) + owed + InHand <= due /\ {Noted(fadeFrom[f])} \subseteq Int
    BY <2>3, <2>4, <2>5 DEF Noted
  <2>8. (Alive(f))' => fadeFrom'[f] + owed' + InHand' <= due'
    <3>1. (Alive(f))' => fadeFrom'[f] = passLevel \/ (Alive(f) /\ fadeFrom'[f] = fadeFrom[f])
      BY FadeLevels DEF Alive
    <3>2. passLevel <= passLevel /\ fadeFrom[f] <= fadeFrom[f] BY <2>3
    <3> QED BY <2>2, <2>3, <2>4, <2>5, <3>1, <3>2
  <2>9. fadeAt'[f] \in Sending => fadeWrite'[f] + owed' + InHand' <= due'
    <3>1. fadeAt'[f] \in Sending =>
            \/ fadeAt[f] \in Sending /\ fadeWrite'[f] = fadeWrite[f]
            \/ Alive(f) /\ fadeWrite'[f] <= Noted(fadeFrom[f])
      BY FadeLevels
    <3>2. fadeWrite[f] <= fadeWrite[f] BY <2>3
    <3> QED BY <2>2, <2>3, <2>6, <2>7, <3>1, <3>2
  <2> QED BY <2>8, <2>9
<1> QED BY <1>1, <1>2
-----------------------------------------------------------------------------
(* Old saves, the save the pass waits for, the fade that runs *)

\* A pass that settles was settled, and owes no less.
LEMMA SettledStep ==
  ASSUME OnlyUp, IInv, [Next]_vars, ~Starts, ~StoreWrites, Settled' \/ Fading'
  PROVE  (Settled \/ Fading) /\ owed <= owed'
<1>0. /\ PassTypeOK /\ owed \in Nat /\ passOwed \in Nat /\ vol \in Levels
  BY DEF IInv, BoxTypeOK, PassTypeOK
<1>1. ASSUME UNCHANGED <<owed, fadeAt, service, pass, passSaved>> PROVE (Settled \/ Fading) /\ owed <= owed'
  BY <1>0, <1>1 DEF Settled, Fading, Alive
<1>2. CASE \/ BelongsChanges \/ SwitchChanges \/ Reported \/ WriterStep
  BY <1>1, <1>2 DEF BelongsChanges, SwitchChanges, Reported, WriterStep, WriterTurns, WriterRead, WriterWrote,
     WriterGivesUp, stateVars, passVars, fadeVars
<1>3. ASSUME NEW move \in Moves, HouseStep(move) PROVE (Settled \/ Fading) /\ owed <= owed'
  <2>1. owed <= owed'
    <3>1. owed' = owed \/ owed' = owed + 1 BY <1>3 DEF HouseStep, OnlyUp
    <3> QED BY <1>0, <3>1
  <2> QED BY <1>3, <2>1 DEF HouseStep, Settled, Fading, Alive, passVars, fadeVars
<1>4. ASSUME NEW f \in Fades, FadeStep(f) PROVE (Settled \/ Fading) /\ owed <= owed'
  <2>1. Alive(f) /\ owed' = owed
    BY <1>4 DEF FadeStep, FadeGoesOn, FadeClimbed, FadeBreaksOff, FadeLanded, FadeFailed, FadeSaved, FadeUndone,
       FadeUndoneFailed, stateVars, Alive
  <2> QED BY <1>0, <2>1 DEF Fading
<1>5. CASE \/ PassStarts \/ RescueTurn \/ Rescued \/ RescueFailed \/ StoodDown \/ LetsGo \/ LetsBe
           \/ TakesIn \/ ReadFailed
  <2>1. service = "up" /\ pass # "noting" /\ owed' = owed
    BY <1>0, <1>5 DEF PassTypeOK, PassStarts, RescueTurn, Rescued, RescueFailed, StoodDown, LetsGo, LetsBe, TakesIn,
       ReadFailed, stateVars
  <2> QED BY <1>0, <2>1 DEF Settled
<1>6. CASE \/ Muted \/ SilencedOnce \/ Joined \/ JoinRefused \/ Returned \/ NotReturned
  <2>1. service = "up" /\ pass # "noting" /\ owed' = owed
    BY <1>0, <1>6 DEF PassTypeOK, Muted, SilencedOnce, Joined, JoinRefused, Returned, NotReturned, stateVars
  <2> QED BY <1>0, <2>1 DEF Settled
<1>7. CASE PassGoesOn
  <2>1. service = "up" /\ passSaved = "ok" /\ owed' = owed
    BY <1>0, <1>7 DEF PassTypeOK, PassGoesOn, Waiting, stateVars
  <2> QED BY <1>0, <2>1 DEF Settled
<1>8. CASE Noting
  <2>1. pass \in JoinsNow /\ pass' = "noting" /\ passSaved' = "waiting" /\ UNCHANGED fadeVars
    BY <1>8 DEF Noting, JoinsNow, PassSaves
  <2>2. ~Fading' BY <2>1 DEF IInv, OneFade, Fading, Alive, fadeVars
  <2> QED BY <2>1, <2>2 DEF Settled
<1>9. CASE JoinsSilent
  <2>1. service = "up" /\ pass = "reading" /\ owed' = 0 BY <1>0, <1>9 DEF JoinsSilent, PassTypeOK
  <2>2. owed = 0
    <3>1. vol + owed <= Top BY Hands, Numbers, Scale
    <3>2. Stepped(vol, owed) = vol + owed BY <1>0, <3>1, SteppedUp
    <3> QED BY <1>0, <1>9, <3>2, Scale DEF JoinsSilent
  <2> QED BY <2>1, <2>2 DEF Settled
<1>10. CASE NotTurnedDown
  <2>1. service = "up" /\ pass # "noting" /\ owed' = owed + passOwed BY <1>0, <1>10 DEF NotTurnedDown, PassTypeOK
  <2> QED BY <1>0, <2>1 DEF Settled
<1>11. CASE Stops
  <2>1. owed' = owed /\ fadeAt' = fadeAt /\ service' # "up" BY <1>11 DEF Stops, stateVars, fadeVars
  <2> QED BY <1>0, <2>1 DEF Settled, Fading, Alive
<1>12. CASE StandsDown \/ StopsFading \/ Closes
  <2>1. PICK which : Cancelled(which) BY <1>12 DEF StandsDown, StopsFading, Closes
  <2>2. Fading' => Fading BY <2>1 DEF Cancelled, Fading, Alive
  <2>3. owed' = owed /\ (service' = "up" => service = "up" /\ pass # "noting")
    BY <1>12 DEF StandsDown, StopsFading, Closes, stateVars
  <2> QED BY <1>0, <2>2, <2>3 DEF Settled
<1>13. CASE Stopped \/ Crashes
  <2>1. ~Fading' /\ service' # "up" BY <1>13 DEF Stopped, Crashes, Forgotten, Fading, Alive
  <2> QED BY <2>1 DEF Settled
<1>14. CASE Over \/ UNCHANGED vars BY <1>1, <1>14 DEF Over, vars, stateVars, passVars, fadeVars
<1> QED
  BY <1>2, <1>3, <1>4, <1>5, <1>6, <1>7, <1>8, <1>9, <1>10, <1>11, <1>12, <1>13, <1>14
  DEF Next, Around, PassStep, Ending

\* The first save on its way is written, and the others move up.
LEMMA Written ==
  ASSUME IInv, StoreWrites
  PROVE  /\ 1 \in DOMAIN queue /\ Head(queue) = queue[1] /\ durable' \in {durable, queue[1].state}
         /\ \A i \in DOMAIN queue' : i + 1 \in DOMAIN queue /\ queue'[i] = queue[i + 1] /\ i \in Nat \ {0}
         /\ durable' = queue[1].state \/ (queue[1].by = Pass /\ passSaved = "waiting" => passSaved' = "failed")
<1>0. queue \in Seq(Entries) BY DEF IInv, BoxTypeOK
<1>1. queue' = Tail(queue) /\ queue # <<>> BY DEF StoreWrites
<1>2. Len(queue) \in Nat /\ DOMAIN queue = 1 .. Len(queue) /\ 1 \in DOMAIN queue /\ Head(queue) = queue[1]
      /\ DOMAIN queue' = 1 .. Len(queue) - 1
  BY <1>0, <1>1
<1>3. \A i \in DOMAIN queue' : i + 1 \in DOMAIN queue /\ queue'[i] = queue[i + 1] /\ i \in Nat \ {0} BY <1>0, <1>1, <1>2
<1> QED BY <1>2, <1>3 DEF StoreWrites

\* A pass that has settled knows of no save with more owed.
LEMMA FreshStep ==
  ASSUME OnlyUp, IInv, [Next]_vars, BoxTypeOK', PassTypeOK'
  PROVE  Fresh'
<1> SUFFICES ASSUME Settled' \/ Fading', NEW s \in Saves' PROVE s.owed <= owed'
  BY DEF Fresh
<1>0. {owed'} \subseteq Nat /\ owed \in Nat BY DEF BoxTypeOK, IInv
<1>1. CASE s = State(note', owed') BY <1>0, <1>1 DEF State
<1>2. CASE Starts
  <2>1. durable' = durable /\ queue' = <<>> /\ owed' = durable.owed BY <1>2, StartsAgain
  <2>2. s = durable BY <2>1 DEF Saves
  <2> QED BY <1>0, <2>1, <2>2
<1>3. CASE StoreWrites /\ (Settled \/ Fading)
  <2>1. owed' = owed BY <1>3 DEF StoreWrites
  <2>2. s \in Saves \/ s = State(note', owed') BY SavesStep
  <2> QED BY <1>1, <1>3, <2>1, <2>2 DEF IInv, Fresh
<1>4. CASE StoreWrites /\ ~Settled /\ ~Fading
  <2>1. owed' = owed /\ service' = service /\ pass' = pass /\ ~Fading'
    BY <1>4 DEF StoreWrites, Fading, Alive, fadeVars
  <2>2. service = "up" /\ pass = "noting" /\ passSaved # "ok" /\ passSaved' = "ok" BY <1>4, <2>1 DEF Settled
  <2>3. queue[1].by = Pass /\ passSaved = "waiting" BY <1>4, <2>2, Written DEF StoreWrites
  <2>4. durable' = queue[1].state BY <1>4, <2>2, <2>3, Written
  <2>5. \A j \in DOMAIN queue : queue[j].state.owed <= owed
    <3>1. 1 \in DOMAIN queue /\ \A j \in DOMAIN queue : 1 <= j
      <4>1. queue \in Seq(Entries) BY DEF IInv, BoxTypeOK
      <4>2. DOMAIN queue = 1 .. Len(queue) /\ Len(queue) \in Nat BY <4>1
      <4> QED BY <1>4, <4>2, Written
    <3> QED BY <2>2, <2>3, <3>1 DEF IInv, OneSave
  <2>6. s = queue[1].state \/ \E i \in DOMAIN queue' : s = queue[i + 1].state
    BY <1>4, <2>4, Written DEF Saves
  <2> QED BY <1>4, <2>1, <2>5, <2>6, Written
<1>5. CASE ~Starts /\ ~StoreWrites
  <2>1. (Settled \/ Fading) /\ owed <= owed' BY <1>5, SettledStep
  <2>2. s \in Saves \/ s = State(note', owed') BY SavesStep
  <2>3. CASE s \in Saves
    <3>1. s.owed <= owed BY <2>1, <2>3 DEF IInv, Fresh
    <3>2. s.owed \in Nat BY <2>3, SavesAreStates DEF States
    <3> QED BY <1>0, <2>1, <3>1, <3>2
  <2> QED BY <1>1, <2>2, <2>3
<1> QED BY <1>2, <1>3, <1>4, <1>5

\* A save that is added stands behind the others.
LEMMA Queued ==
  ASSUME IInv, NEW n, NEW o, NEW by, Save(n, o, by)
  PROVE  /\ \A i \in DOMAIN queue : i \in DOMAIN queue' /\ queue'[i] = queue[i] /\ i < Len(queue) + 1
         /\ Len(queue) + 1 \in DOMAIN queue'
         /\ queue'[Len(queue) + 1].by = by /\ queue'[Len(queue) + 1].state.note = n /\ queue'[Len(queue) + 1].state.owed = o
         /\ \A i \in DOMAIN queue' : i \in DOMAIN queue \/ i = Len(queue) + 1
<1>1. queue \in Seq(Entries) BY DEF IInv, BoxTypeOK
<1>2. queue' = Append(queue, [state |-> State(n, o), by |-> by]) BY DEF Save
<1>3. DOMAIN queue' = 1 .. Len(queue) + 1 /\ DOMAIN queue = 1 .. Len(queue) /\ Len(queue) \in Nat BY <1>1, <1>2
<1>4. queue'[Len(queue) + 1] = [state |-> State(n, o), by |-> by] BY <1>1, <1>2, <1>3
<1>5. \A i \in DOMAIN queue : queue'[i] = queue[i] BY <1>1, <1>2, <1>3
<1> QED BY <1>3, <1>4, <1>5 DEF State

\* Nobody but the pass waits as the pass.
LEMMA NotThePass == Nobody # Pass /\ \A f \in Fades : f # Pass
BY Scale DEF Nobody, Pass, Fades

\* The saves on their way, when one is added for somebody else.
LEMMA SavedForOthers ==
  ASSUME IInv, NEW n, NEW o \in Nat, NEW by, by # Pass, Save(n, o, by), owed <= owed', {owed'} \subseteq Nat,
         o = owed', UNCHANGED <<pass, passSaved, service>>
  PROVE  OneSave'
<1> SUFFICES ASSUME service = "up" PROVE OneSave' BY DEF OneSave
<1>1. \A i \in DOMAIN queue' : queue'[i].by = Pass => i \in DOMAIN queue /\ queue[i].by = Pass BY Queued
<1>2. passSaved # "waiting" => \A i \in DOMAIN queue' : queue'[i].by # Pass BY <1>1 DEF IInv, OneSave
<1>3. \A i, j \in DOMAIN queue' : queue'[i].by = Pass /\ queue'[j].by = Pass => i = j
  BY <1>1 DEF IInv, OneSave
<1>4. ASSUME pass = "noting", NEW i \in DOMAIN queue', NEW j \in DOMAIN queue', queue'[i].by = Pass, i <= j
      PROVE  queue'[j].state.owed <= owed'
  <2>1. i \in DOMAIN queue /\ queue[i].by = Pass BY <1>1, <1>4
  <2>2. CASE j \in DOMAIN queue
    <3>1. queue'[j] = queue[j] /\ queue[j].state.owed <= owed BY <1>4, <2>1, <2>2, Queued DEF IInv, OneSave
    <3>2. queue[j].state \in States
      <4>1. queue \in Seq(Entries) BY DEF IInv, BoxTypeOK
      <4>2. queue[j] \in Entries BY <2>2, <4>1
      <4> QED BY <4>2 DEF Entries
    <3>3. queue[j].state.owed \in Nat /\ owed \in Nat BY <3>2 DEF States, IInv, BoxTypeOK
    <3> QED BY <3>1, <3>3
  <2>3. CASE j = Len(queue) + 1 BY <2>3, Queued
  <2> QED BY <2>2, <2>3, Queued
<1> QED BY <1>2, <1>3, <1>4 DEF OneSave

\* ... and when it is the pass that saves, which waited for none.
LEMMA SavedForThePass ==
  ASSUME IInv, service = "up", passSaved = "none", NEW n, NEW o \in Nat, PassSaves(n, o),
         pass' = "noting" => o <= owed'
  PROVE  OneSave'
<1>1. Save(n, o, Pass) /\ passSaved' = "waiting" BY DEF PassSaves
<1>2. \A i \in DOMAIN queue' : queue'[i].by = Pass => i = Len(queue) + 1
  BY <1>1, Queued DEF IInv, OneSave
<1>3. \A j \in DOMAIN queue' : Len(queue) + 1 <= j => j = Len(queue) + 1
  <2>1. \A j \in DOMAIN queue : j < Len(queue) + 1 BY <1>1, Queued
  <2>2. Len(queue) \in Nat /\ DOMAIN queue \subseteq Nat
    <3>1. queue \in Seq(Entries) BY DEF IInv, BoxTypeOK
    <3> QED BY <3>1
  <2> QED BY <1>1, <2>1, <2>2, Queued
<1>4. queue'[Len(queue) + 1].state.owed = o BY <1>1, Queued
<1> QED BY <1>1, <1>2, <1>3, <1>4 DEF OneSave

\* The pass waits for one save at a time.
LEMMA OneSaveStep ==
  ASSUME OnlyUp, IInv, [Next]_vars, BoxTypeOK', PassTypeOK'
  PROVE  OneSave'
<1>0. PassTypeOK /\ owed \in Nat /\ {owed'} \subseteq Nat BY DEF IInv, BoxTypeOK
<1>1. ASSUME UNCHANGED <<queue, owed, service, pass, passSaved>> PROVE OneSave' BY <1>1 DEF IInv, OneSave
<1>2. ASSUME UNCHANGED <<queue, service>>, passSaved # "waiting", pass' # "noting" PROVE OneSave'
  BY <1>2 DEF IInv, OneSave
<1>3. ASSUME service' # "up" PROVE OneSave' BY <1>3 DEF OneSave
<1>4. CASE \/ BelongsChanges \/ SwitchChanges \/ Reported \/ WriterStep
  BY <1>1, <1>4 DEF BelongsChanges, SwitchChanges, Reported, WriterStep, WriterTurns, WriterRead, WriterWrote,
     WriterGivesUp, stateVars, passVars
<1>5. ASSUME NEW move \in Moves, HouseStep(move) PROVE OneSave'
  <2>1. UNCHANGED <<service, passVars>> BY <1>5 DEF HouseStep
  <2>2. (owed' = owed \/ owed' = owed + 1) BY <1>5 DEF HouseStep, OnlyUp
  <2>3. CASE \E n : Save(n, owed', Nobody)
    <3>1. PICK n : Save(n, owed', Nobody) BY <2>3
    <3>2. owed <= owed' BY <1>0, <2>2
    <3>3. \E o \in Nat : Save(n, o, Nobody) /\ o = owed' BY <1>0, <3>1
    <3> QED BY <1>0, <2>1, <3>2, <3>3, NotThePass, SavedForOthers DEF passVars
  <2>4. CASE UNCHANGED <<queue, owed>> BY <1>1, <2>1, <2>4 DEF passVars
  <2> QED BY <1>5, <2>3, <2>4 DEF HouseStep
<1>6. CASE StoreWrites
  <2>1. service' = service /\ pass' = pass /\ owed' = owed BY <1>6 DEF StoreWrites
  <2> SUFFICES ASSUME service = "up" PROVE OneSave' BY <2>1 DEF OneSave
  <2>2. ASSUME passSaved' # "waiting", NEW i \in DOMAIN queue' PROVE queue'[i].by # Pass
    <3>1. i + 1 \in DOMAIN queue /\ queue'[i] = queue[i + 1] /\ i \in Nat \ {0} /\ 1 \in DOMAIN queue
      BY <1>6, Written
    <3>2. CASE passSaved # "waiting" BY <3>1, <3>2 DEF IInv, OneSave
    <3>3. CASE queue[1].by = Pass
      <4>1. i + 1 # 1 BY <3>1
      <4> QED BY <3>1, <3>3, <4>1 DEF IInv, OneSave
    <3>4. passSaved # "waiting" \/ queue[1].by = Pass BY <1>6, <2>2, Written DEF StoreWrites
    <3> QED BY <3>2, <3>3, <3>4
  <2>3. ASSUME NEW i \in DOMAIN queue', NEW j \in DOMAIN queue', queue'[i].by = Pass, queue'[j].by = Pass
        PROVE  i = j
    <3>1. i + 1 \in DOMAIN queue /\ queue'[i] = queue[i + 1] /\ i \in Nat BY <1>6, Written
    <3>2. j + 1 \in DOMAIN queue /\ queue'[j] = queue[j + 1] /\ j \in Nat BY <1>6, Written
    <3>3. i + 1 = j + 1 BY <2>3, <3>1, <3>2 DEF IInv, OneSave
    <3> QED BY <3>1, <3>2, <3>3
  <2>4. ASSUME pass = "noting", NEW i \in DOMAIN queue', NEW j \in DOMAIN queue', queue'[i].by = Pass, i <= j
        PROVE  queue'[j].state.owed <= owed
    <3>1. i + 1 \in DOMAIN queue /\ queue'[i] = queue[i + 1] /\ i \in Nat BY <1>6, Written
    <3>2. j + 1 \in DOMAIN queue /\ queue'[j] = queue[j + 1] /\ j \in Nat BY <1>6, Written
    <3>3. i + 1 <= j + 1 BY <2>4, <3>1, <3>2
    <3> QED BY <2>4, <3>1, <3>2, <3>3 DEF IInv, OneSave
  <2> QED BY <2>1, <2>2, <2>3, <2>4 DEF OneSave
<1>7. ASSUME NEW f \in Fades, FadeStep(f) PROVE OneSave'
  <2>1. UNCHANGED <<service, passVars>> /\ owed' = owed
    BY <1>7 DEF FadeStep, FadeGoesOn, FadeClimbed, FadeBreaksOff, FadeLanded, FadeFailed, FadeSaved, FadeUndone,
       FadeUndoneFailed, stateVars
  <2>2. CASE \E by \in {Nobody, f} : Save(None, owed, by)
    <3>1. PICK by \in {Nobody, f} : Save(None, owed, by) BY <2>2
    <3>2. owed <= owed' /\ by # Pass BY <1>0, <2>1, NotThePass
    <3> QED BY <1>0, <2>1, <3>1, <3>2, SavedForOthers DEF passVars
  <2>3. CASE UNCHANGED queue BY <1>1, <2>1, <2>3 DEF passVars
  <2> QED
    BY <1>7, <2>2, <2>3
    DEF FadeStep, FadeGoesOn, FadeClimbed, FadeBreaksOff, FadeLanded, FadeFailed, FadeSaved, FadeUndone,
        FadeUndoneFailed, stateVars
<1>8. CASE \/ PassStarts \/ RescueTurn \/ RescueFailed \/ StandsDown \/ StoodDown \/ LetsGo \/ LetsBe
  <2>1. UNCHANGED <<queue, service>> /\ pass \notin Waiting /\ pass' # "noting"
    BY <1>8 DEF PassStarts, RescueTurn, RescueFailed, StandsDown, StoodDown, LetsGo, LetsBe, PassAt, Idle, stateVars,
       Waiting
  <2>2. passSaved # "waiting" BY <1>0, <2>1 DEF PassTypeOK
  <2> QED BY <1>2, <2>1, <2>2
<1>9. CASE \/ TakesIn \/ ReadFailed \/ Muted \/ Joined \/ JoinRefused \/ NotReturned
  <2>1. UNCHANGED <<queue, service>> /\ pass \notin Waiting /\ pass' # "noting"
    BY <1>9 DEF TakesIn, ReadFailed, Muted, Joined, JoinRefused, NotReturned, PassAt, Idle, stateVars, Waiting
  <2>2. passSaved # "waiting" BY <1>0, <2>1 DEF PassTypeOK
  <2> QED BY <1>2, <2>1, <2>2
<1>10. CASE PassGoesOn
  <2>1. UNCHANGED <<queue, service>> /\ passSaved # "waiting" /\ pass' # "noting"
    BY <1>0, <1>10 DEF PassGoesOn, PassTypeOK, Waiting, stateVars
  <2> QED BY <1>2, <2>1
<1>11. CASE Rescued \/ Returned \/ Noting \/ NotTurnedDown
  <2>1. service = "up" /\ passSaved = "none"
    BY <1>0, <1>11 DEF PassTypeOK, Waiting, Rescued, Returned, Noting, NotTurnedDown
  <2>2. \E n, o : PassSaves(n, o) /\ o = owed'
    BY <1>11 DEF Rescued, Returned, Noting, NotTurnedDown
  <2>3. PICK n, o : PassSaves(n, o) /\ o = owed' BY <2>2
  <2>4. o \in Nat /\ o <= owed' BY <1>0, <2>3
  <2> QED BY <2>1, <2>3, <2>4, SavedForThePass
<1>12. CASE JoinsSilent \/ SilencedOnce
  <2>0. JoinsSilent BY <1>0, <1>12 DEF SilencedOnce, PassTypeOK, Waiting, JoinsNow
  <2>1. service = "up" /\ passSaved = "none" /\ service' = service
    BY <1>0, <2>0 DEF PassTypeOK, Waiting, JoinsSilent
  <2>2. CASE PassSaves(note, 0)
    <3>1. pass' # "noting" BY <2>0 DEF JoinsSilent
    <3> QED BY <2>1, <2>2, <3>1, SavedForThePass
  <2>3. CASE UNCHANGED queue
    <3>1. pass' # "noting" BY <2>0 DEF JoinsSilent
    <3> QED BY <1>2, <2>1, <2>3, <3>1
  <2> QED BY <2>0, <2>2, <2>3 DEF JoinsSilent
<1>13. CASE Stops \/ StopsFading \/ Closes \/ Stopped \/ Crashes
  BY <1>3, <1>13 DEF Stops, StopsFading, Closes, Stopped, Crashes
<1>14. CASE Starts
  <2>1. queue' = <<>> BY <1>14, StartsAgain
  <2> QED BY <2>1 DEF OneSave
<1>15. CASE Over \/ UNCHANGED vars BY <1>1, <1>15 DEF Over, vars, stateVars, passVars
<1> QED
  BY <1>4, <1>5, <1>6, <1>7, <1>8, <1>9, <1>10, <1>11, <1>12, <1>13, <1>14, <1>15 DEF Next, Around, PassStep, Ending

\* A fade that is over leaves none behind.
LEMMA FadeEnded ==
  ASSUME IInv, NEW f \in Fades, Alive(f), FadeEnds(f)
  PROVE  ~Fading'
BY DEF IInv, FadeTypeOK, OneFade, FadeEnds, Fading, Alive

\* One fade runs, and none while a box is taken in.
LEMMA OneFadeStep ==
  ASSUME OnlyUp, IInv, [Next]_vars, PassTypeOK', FadeTypeOK'
  PROVE  OneFade'
<1>0. PassTypeOK /\ FadeTypeOK /\ OneFade BY DEF IInv
<1>1. ASSUME UNCHANGED <<fadeAt, fading, pass, joined, service, belongs>> PROVE OneFade'
  BY <1>0, <1>1 DEF OneFade, Alive, Fading
<1>2. ASSUME ~Fading', pass' \in JoinsNow => ~joined' PROVE OneFade'
  BY <1>2 DEF OneFade, Fading
<1>3. ASSUME UNCHANGED <<fadeAt, fading, joined, service, belongs>>, pass' # "standing",
             pass' \in JoinsNow => pass \in JoinsNow
      PROVE  OneFade'
  BY <1>0, <1>3 DEF OneFade, Alive, Fading
<1>4. CASE SwitchChanges \/ Reported \/ WriterStep \/ StoreWrites \/ \E move \in Moves : HouseStep(move)
  BY <1>1, <1>4 DEF SwitchChanges, Reported, WriterStep, WriterTurns, WriterRead, WriterWrote, WriterGivesUp,
     StoreWrites, HouseStep, boxVars, passVars, fadeVars
<1>5. CASE BelongsChanges
  <2>1. belongs' = ~belongs /\ (~belongs => ~Fading) /\ UNCHANGED <<fadeAt, fading, pass, joined, service>>
    BY <1>5 DEF BelongsChanges, OnlyUp, passVars, fadeVars
  <2>2. Fading' = Fading /\ \A f \in Fades : (Alive(f))' = Alive(f) BY <2>1 DEF Fading, Alive
  <2>3. belongs' => ~Fading BY <2>1
  <2> QED BY <1>0, <2>1, <2>2, <2>3 DEF OneFade
<1>6. ASSUME NEW f \in Fades, FadeStep(f) PROVE OneFade'
  <2>0. Alive(f) /\ UNCHANGED <<pass, joined, service, belongs>> /\ pass \notin JoinsNow
    BY <1>0, <1>6
    DEF FadeStep, FadeGoesOn, FadeClimbed, FadeBreaksOff, FadeLanded, FadeFailed, FadeSaved, FadeUndone,
        FadeUndoneFailed, boxVars, passVars, OneFade, Fading, Alive
  <2>1. CASE FadeGoesOn(f) \/ FadeClimbed(f) \/ FadeBreaksOff(f) \/ FadeLanded(f)
    <3>1. fading' = fading /\ fadeAt[f] # "undoing" /\ \A g \in Fades : g # f => fadeAt'[g] = fadeAt[g]
      BY <1>0, <2>1 DEF FadeGoesOn, FadeClimbed, FadeBreaksOff, FadeLanded, FadeTypeOK
    <3>2. pass # "standing" BY <1>0, <2>0, <3>1 DEF OneFade
    <3>3. \A g \in Fades : (Alive(g))' => Alive(g) BY <2>0, <3>1 DEF Alive
    <3> QED BY <1>0, <2>0, <3>1, <3>2, <3>3 DEF OneFade, Fading
  <2>2. CASE FadeFailed(f) \/ FadeSaved(f) \/ FadeUndone(f) \/ FadeUndoneFailed(f)
    <3>1. FadeEnds(f) BY <2>2 DEF FadeFailed, FadeSaved, FadeUndone, FadeUndoneFailed
    <3> QED BY <1>2, <2>0, <3>1, FadeEnded
  <2> QED BY <1>6, <2>1, <2>2 DEF FadeStep
<1>7. CASE PassStarts \/ RescueTurn \/ Rescued \/ RescueFailed \/ LetsBe
  <2>1. UNCHANGED <<fadeAt, fading, joined, service, belongs>> /\ pass' \notin JoinsNow /\ pass' # "standing"
    BY <1>7 DEF PassStarts, RescueTurn, Rescued, RescueFailed, LetsBe, PassAt, Idle, JoinsNow, boxVars, fadeVars
  <2> QED BY <1>3, <2>1
<1>8. CASE PassGoesOn
  <2>1. UNCHANGED <<fadeAt, fading, joined, service, belongs>> /\ pass \in Waiting
    BY <1>0, <1>8 DEF PassGoesOn, PassTypeOK, boxVars, fadeVars
  <2>2. pass' # "standing" /\ (pass' \in JoinsNow => pass \in JoinsNow)
    BY <1>8, <2>1 DEF PassGoesOn, Waiting, JoinsNow
  <2> QED BY <1>3, <2>1, <2>2
<1>9. CASE LetsGo
  <2>1. UNCHANGED <<fadeAt, fading, service, belongs>> /\ pass' = "idle" /\ ~belongs
    BY <1>9 DEF LetsGo, Idle, boxVars, fadeVars
  <2> QED BY <1>0, <2>1 DEF OneFade, JoinsNow, Alive
<1>10. CASE TakesIn
  <2>1. UNCHANGED <<fadeAt, fading>> /\ pass' = "reading" /\ ~joined' /\ ~joined /\ belongs /\ service = "up"
    BY <1>0, <1>10 DEF TakesIn, PassAt, PassTypeOK, boxVars, fadeVars
  <2>2. ~Fading BY <1>0, <2>1 DEF OneFade
  <2>3. ~Fading' BY <2>1, <2>2 DEF Fading, Alive
  <2> QED BY <1>2, <2>1, <2>3
<1>11. CASE ReadFailed \/ Noting \/ JoinsSilent \/ Muted \/ SilencedOnce \/ NotTurnedDown \/ JoinRefused
            \/ Returned \/ NotReturned
  <2>1. UNCHANGED <<fadeAt, fading, joined, service, belongs>>
    BY <1>11 DEF ReadFailed, Noting, JoinsSilent, Muted, SilencedOnce, NotTurnedDown, JoinRefused, Returned,
       NotReturned, boxVars, fadeVars
  <2>2. pass' # "standing" /\ pass \in JoinsNow
    BY <1>0, <1>11 DEF ReadFailed, Noting, JoinsSilent, Muted, SilencedOnce, NotTurnedDown, JoinRefused, Returned,
       NotReturned, PassAt, Idle, PassSaves, JoinsNow, PassTypeOK, Waiting
  <2> QED BY <1>3, <2>1, <2>2
<1>12. CASE Joined
  <2>1. ~Fading /\ joined' /\ pass' = "idle" BY <1>0, <1>12 DEF OneFade, JoinsNow, Joined, Idle
  <2>2. CASE UNCHANGED fadeVars
    <3>1. ~Fading' BY <2>1, <2>2 DEF Fading, Alive, fadeVars
    <3> QED BY <1>2, <2>1, <3>1 DEF JoinsNow
  <2>3. CASE \E f \in Fades : fadeAt' = [fadeAt EXCEPT ![f] = "resting"] /\ fading' = f
    <3>1. PICK f \in Fades : fadeAt' = [fadeAt EXCEPT ![f] = "resting"] /\ fading' = f BY <2>3
    <3>2. \A g \in Fades : (Alive(g))' => g = f BY <1>0, <2>1, <3>1 DEF Alive, Fading, FadeTypeOK
    <3> QED BY <2>1, <3>1, <3>2 DEF OneFade, JoinsNow
  <2> QED BY <1>12, <2>2, <2>3 DEF Joined
<1>13. ASSUME NEW which, Cancelled(which), fading \in which, which \subseteq {0} \cup Fades, pass' \notin JoinsNow, service' = "up" => joined' = joined,
              UNCHANGED belongs, service' = "up" => service = "up"
       PROVE  OneFade'
  <2>1. \A f \in Fades : (Alive(f))' => Alive(f) /\ fadeAt'[f] = "undoing" /\ fadeAt[f] # "undoing"
    <3>1. \A f \in Fades : Alive(f) => f \in which \ {0} BY <1>0, <1>13, Scale DEF OneFade, Fades
    <3> QED BY <1>13, <3>1 DEF Cancelled, Alive
  <2>2. \A f \in Fades : (Alive(f))' => fading' = fading
    <3>1. \A f \in Fades, g \in Fades : Alive(f) /\ Alive(g) => f = g BY <1>0 DEF OneFade
    <3>2. \A f \in Fades : (Alive(f))' => ~\E g \in {h \in which \ {0} : Alive(h)} : g \in Fades /\ fadeAt[g] = "undoing"
      BY <2>1, <3>1
    <3>3. \A g \in {h \in which \ {0} : Alive(h)} : fadeAt[g] = "undoing" => g \in Fades BY <1>13
    <3> QED BY <1>13, <3>2, <3>3 DEF Cancelled
  <2> QED BY <1>0, <1>13, <2>1, <2>2 DEF OneFade, Fading
<1>14. CASE StandsDown \/ StopsFading
  <2>1. Cancelled({fading}) /\ pass' \notin JoinsNow /\ joined' = joined /\ belongs' = belongs
        /\ (service' = "up" => service = "up")
    BY <1>0, <1>14 DEF StandsDown, StopsFading, PassAt, JoinsNow, passVars, PassTypeOK
  <2>2. {fading} \subseteq {0} \cup Fades BY <1>0 DEF FadeTypeOK
  <2> QED BY <1>13, <2>1, <2>2
<1>15. CASE Closes
  <2>1. pass' = "idle" /\ service' = "closed" BY <1>0, <1>15 DEF Closes, passVars, PassTypeOK
  <2>2. Cancelled(Fades) /\ UNCHANGED belongs BY <1>15 DEF Closes
  <2>3. CASE fading \in Fades BY <1>13, <2>1, <2>2, <2>3 DEF JoinsNow
  <2>4. CASE fading = 0
    <3>1. ~Fading BY <1>0, <2>4, Scale DEF OneFade, Fading, Fades
    <3>2. ~Fading' BY <2>2, <3>1 DEF Cancelled, Fading, Alive
    <3> QED BY <1>2, <2>1, <3>2 DEF JoinsNow
  <2> QED BY <1>0, <2>3, <2>4 DEF FadeTypeOK
<1>16. CASE StoodDown
  <2>1. ~Fading BY <1>0, <1>16 DEF StoodDown, OneFade, Fading
  <2>2. ~Fading' /\ pass' = "idle" BY <1>16, <2>1 DEF StoodDown, Idle, Fading, Alive, fadeVars
  <2> QED BY <1>2, <2>2 DEF JoinsNow
<1>17. CASE Stops
  <2>1. pass' = "idle" /\ service' # "up" /\ UNCHANGED <<fadeAt, fading>> BY <1>17 DEF Stops, Idle, fadeVars
  <2> QED BY <1>0, <2>1 DEF OneFade, JoinsNow, Alive
<1>18. CASE Stopped \/ Crashes
  <2>1. ~Fading' /\ pass' = "idle" BY <1>18 DEF Stopped, Crashes, Forgotten, Fading, Alive, Idle
  <2> QED BY <1>2, <2>1 DEF JoinsNow
<1>19. CASE Starts
  <2>1. ~Fading /\ pass' = "idle" /\ UNCHANGED fadeVars BY <1>19, StartsAgain
  <2>2. ~Fading' BY <2>1 DEF Fading, Alive, fadeVars
  <2> QED BY <1>2, <2>1, <2>2 DEF JoinsNow
<1>20. CASE Over \/ UNCHANGED vars BY <1>1, <1>20 DEF Over, vars, boxVars, passVars, fadeVars
<1> QED
  BY <1>4, <1>5, <1>6, <1>7, <1>8, <1>9, <1>10, <1>11, <1>12, <1>14, <1>15, <1>16, <1>17, <1>18, <1>19, <1>20
  DEF Next, Around, PassStep, Ending

\* A run that is over does nothing more.
LEMMA GoneStep ==
  ASSUME OnlyUp, IInv, [Next]_vars
  PROVE  Gone'
<1>1. CASE Stopped \/ Crashes
  <2>1. Forgotten BY <1>1 DEF Stopped, Crashes
  <2> QED BY <2>1 DEF Forgotten, Idle, WriterCancelled, Gone, Fading, Alive
<1>2. CASE service \in {"stopped", "crashed"}
  <2>0. pass = "idle" /\ passSaved = "none" /\ writer = "none" /\ queue = <<>> /\ ~Fading BY <1>2 DEF IInv, PassTypeOK, Gone
  <2>1. ~Around /\ ~StoreWrites /\ ~WriterStep
    BY <1>2, <2>0 DEF Around, BelongsChanges, SwitchChanges, Reported, HouseStep, StoreWrites, WriterStep, WriterTurns,
       WriterRead, WriterWrote, WriterGivesUp
  <2>2. ~\E f \in Fades : FadeStep(f)
    BY <2>0 DEF FadeStep, FadeGoesOn, FadeClimbed, FadeBreaksOff, FadeLanded, FadeFailed, FadeSaved, FadeUndone,
       FadeUndoneFailed, Fading, Alive
  <2>3. ~PassStep
    BY <1>2, <2>0 DEF PassStep, PassStarts, RescueTurn, Rescued, RescueFailed, PassGoesOn, StandsDown, StoodDown, LetsGo,
       LetsBe, TakesIn, ReadFailed, Noting, JoinsSilent, Muted, SilencedOnce, NotTurnedDown, Joined, JoinRefused,
       Returned, NotReturned
  <2>4. CASE Starts BY <2>4 DEF Starts, Gone
  <2>5. CASE Over \/ UNCHANGED vars
    BY <2>5 DEF Over, vars, boxVars, stateVars, passVars, fadeVars, stepVars, IInv, Gone, Fading, Alive
  <2>6. ~Stops /\ ~StopsFading /\ ~Closes BY <1>2 DEF Stops, StopsFading, Closes
  <2> QED BY <1>1, <2>1, <2>2, <2>3, <2>4, <2>5, <2>6 DEF Next, Ending
<1>3. CASE ~Stopped /\ ~Crashes /\ service \notin {"stopped", "crashed"}
  <2>1. service' \notin {"stopped", "crashed"}
    <3>1. CASE \/ Around \/ WriterStep \/ StoreWrites \/ PassStarts \/ RescueTurn \/ Rescued \/ RescueFailed \/ PassGoesOn
               \/ StandsDown \/ StoodDown
      BY <1>3, <3>1 DEF Around, BelongsChanges, SwitchChanges, Reported, HouseStep, StoreWrites, WriterStep, WriterTurns,
         WriterRead, WriterWrote, WriterGivesUp, PassStarts, RescueTurn, Rescued, RescueFailed, PassGoesOn, StandsDown,
         StoodDown
    <3>2. CASE \/ LetsGo \/ LetsBe \/ TakesIn \/ ReadFailed \/ Noting \/ JoinsSilent \/ Muted \/ SilencedOnce
               \/ NotTurnedDown \/ Joined \/ JoinRefused \/ Returned \/ NotReturned
      BY <1>3, <3>2 DEF LetsGo, LetsBe, TakesIn, ReadFailed, Noting, JoinsSilent, Muted, SilencedOnce, NotTurnedDown,
         Joined, JoinRefused, Returned, NotReturned
    <3>3. ASSUME NEW f \in Fades, FadeStep(f) PROVE service' = service
      BY <3>3 DEF FadeStep, FadeGoesOn, FadeClimbed, FadeBreaksOff, FadeLanded, FadeFailed, FadeSaved, FadeUndone,
         FadeUndoneFailed
    <3>4. CASE Stops \/ StopsFading \/ Closes \/ Starts \/ Over \/ UNCHANGED vars
      BY <1>3, <3>4 DEF Stops, StopsFading, Closes, Starts, Over, vars
    <3> QED BY <1>3, <3>1, <3>2, <3>3, <3>4 DEF Next, PassStep, Ending
  <2> QED BY <2>1 DEF Gone
<1> QED BY <1>1, <1>2, <1>3
-----------------------------------------------------------------------------
(* The theorem *)

\* The first run starts with nothing owed and nothing noted.
LEMMA InvInit == OnlyUp /\ Init => IInv
<1> SUFFICES ASSUME OnlyUp, Init PROVE IInv OBVIOUS
<1>1. owed = 0 /\ vol \in Levels /\ None = -1 /\ Levels = 0 .. Top /\ Top \in Nat BY Scale DEF Init, OnlyUp
<1>2. due = vol
  <2>1. Stepped(vol, 0) = vol BY <1>1 DEF Stepped
  <2> QED BY <1>1, <2>1 DEF Init
<1>3. Saves = {State(None, 0)} BY <1>1 DEF Init, Saves
<1>4. InHand = 0 /\ TakenUp = 0 /\ ~Fading BY DEF Init, InHand, TakenUp, Fading, Alive
<1>5. BoxTypeOK
  <2>1. queue \in Seq(Entries) /\ durable \in States BY <1>1 DEF Init, State, States
  <2> QED BY <1>1, <1>2, <2>1 DEF Init, BoxTypeOK
<1>6. FadeTypeOK BY <1>1 DEF Init, FadeTypeOK
<1>7. PassTypeOK BY DEF Init, PassTypeOK, Waiting, JoinsNow
<1>8. BoxIsDue /\ NoteIsDue BY <1>1, <1>2, <1>4 DEF Init, BoxIsDue, NoteIsDue
<1>9. SaveIsDue /\ Fresh
  <2>1. State(None, 0).note = -1 /\ State(None, 0).owed = 0 BY <1>1 DEF State
  <2> QED BY <1>1, <1>2, <1>3, <1>4, <2>1 DEF Init, SaveIsDue, Fresh
<1>10. FadeIsDue BY DEF Init, FadeIsDue, Alive
<1>11. OneSave /\ OneFade /\ Gone BY <1>4 DEF Init, OneSave, OneFade, Gone, Fading, JoinsNow
<1> QED BY <1>5, <1>6, <1>7, <1>8, <1>9, <1>10, <1>11 DEF IInv

\* Every step keeps it.
LEMMA InvStep == OnlyUp /\ IInv /\ [Next]_vars => IInv'
<1> SUFFICES ASSUME OnlyUp, IInv, [Next]_vars PROVE IInv' OBVIOUS
<1>1. BoxTypeOK' /\ FadeTypeOK' /\ PassTypeOK' BY BoxTypeStep, FadeTypeStep, PassTypeStep
<1>2. BoxIsDue' BY <1>1, BoxIsDueStep
<1>3. NoteIsDue' BY <1>1, <1>2, NoteIsDueStep
<1>4. SaveIsDue' /\ FadeIsDue' BY <1>1, <1>2, <1>3, SaveIsDueStep, FadeIsDueStep
<1>5. Fresh' /\ OneSave' /\ OneFade' /\ Gone' BY <1>1, FreshStep, OneSaveStep, OneFadeStep, GoneStep
<1> QED BY <1>1, <1>2, <1>3, <1>4, <1>5 DEF IInv

\* Where every step somebody makes is one up, and no box leaves and returns
\* while it fades, what is noted, saved, owed and sent is at most what the room
\* is due: the invariant that "the box takes them when it next joins" rests on.
THEOREM InvariantHolds == OnlyUp => (Spec => []IInv)
<1> SUFFICES ASSUME OnlyUp PROVE Spec => []IInv OBVIOUS
<1>1. Init => IInv BY InvInit
<1>2. IInv /\ [Next]_vars => IInv' BY InvStep
<1> QED BY <1>1, <1>2, PTL DEF Spec

\* The steps up a box is owed are taken once, whichever join, failed call,
\* refused save, stop or crash of the service comes between.
THEOREM StepsUpAreTakenOnce == OnlyUp => (Spec => []NoStepTwice)
<1> SUFFICES ASSUME OnlyUp PROVE Spec => []NoStepTwice OBVIOUS
<1>1. IInv => NoStepTwice
  <2> SUFFICES ASSUME IInv PROVE NoStepTwice OBVIOUS
  <2> QED BY Hands DEF NoStepTwice
<1>2. Spec => []IInv BY InvariantHolds
<1> QED BY <1>1, <1>2, PTL
-----------------------------------------------------------------------------
(* A box that nobody turned, and that answered every call *)

Quiet  == fails = 0 /\ steps = 0
AllDue == \A s \in Saves : s.note = due

\* Nothing is owed, and every level that is written down is the box's own.
ItsOwn ==
  /\ owed = 0 /\ passOwed = 0 /\ pending = 0 /\ writer = "none"
  /\ {note, passLevel} \subseteq {None, due}
SavesItsOwn == \A s \in Saves : s.owed = 0 /\ s.note \in {None, due}
FadesItsOwn ==
  \A f \in Fades : (Alive(f) => fadeFrom[f] = due) /\ (fadeAt[f] \in {"landing", "undoing"} => fadeWrite[f] = due)

\* A box off its level is noted, here and wherever a next run would read it.
Remembered ==
  vol # due => AllDue /\ (service \in {"up", "stopping", "closing", "closed"} => note = due)

\* So is one that may be off its level with the next step.
MuteStands == pass = "muting" \/ (pass = "joining" /\ passLevel # None)

Lent ==
  /\ (MuteStands \/ \E f \in Fades : fadeAt[f] \in {"resting", "climbing", "landing"}) => note = due /\ AllDue
  /\ pass = "muting" => passLevel = due
  /\ pass = "noting" =>
       /\ vol = due /\ note = due /\ passLevel = due
       /\ \A i, j \in DOMAIN queue : queue[i].by = Pass /\ i <= j => queue[j].state.note = due
       /\ passSaved = "ok" => AllDue

\* A pass takes in no box that has a note: the note is of a fade that runs.
WhoReturnsIt ==
  /\ pass \in {"looking", "rescuing"} => passLevel = due
  /\ pass \in {"rescuing", "rescued"} => ~Fading
  /\ (pass = "rescued" \/ \E f \in Fades : fadeAt[f] = "saving") => note = None
  /\ pass = "deciding" /\ note # None => Fading
  /\ pass = "reading" \/ (pass = "joining" /\ passLevel = None) => note = None
  /\ pass \notin {"owing", "silencing", "silenced", "returning", "returned"}

QuietInv ==
  /\ {fails} \subseteq Nat
  /\ Quiet => ItsOwn /\ SavesItsOwn /\ FadesItsOwn /\ Remembered /\ Lent /\ WhoReturnsIt

\* The steps that nobody's turning and no failed call is part of.
QuietAround == BelongsChanges \/ SwitchChanges \/ Reported
QuietFade(f) == FadeGoesOn(f) \/ FadeClimbed(f) \/ FadeLanded(f) \/ FadeSaved(f) \/ FadeUndone(f)
QuietPass ==
  \/ PassStarts \/ RescueTurn \/ Rescued \/ PassGoesOn \/ StandsDown \/ StoodDown \/ LetsGo \/ LetsBe
  \/ TakesIn \/ Noting \/ JoinsSilent \/ Muted \/ Joined

\* In a quiet run only those happen.
LEMMA QuietSteps ==
  ASSUME OnlyUp, IInv, QuietInv, [Next]_vars, Quiet'
  PROVE  /\ Quiet /\ due' = due
         /\ \/ QuietAround \/ StoreWrites \/ (\E f \in Fades : QuietFade(f)) \/ QuietPass
            \/ Stops \/ Ending \/ Crashes \/ UNCHANGED vars
<1>0. steps \in Nat /\ fails \in Nat /\ steps' = 0 /\ fails' = 0 BY DEF IInv, BoxTypeOK, QuietInv, Quiet
<1>1. ~\E move \in Moves : HouseStep(move)
  <2> SUFFICES ASSUME NEW move \in Moves, HouseStep(move) PROVE FALSE OBVIOUS
  <2>1. move = 1 /\ steps' = steps + move BY DEF OnlyUp, HouseStep
  <2> QED BY <1>0, <2>1
<1>2. ASSUME NEW level, Refused(level) PROVE FALSE BY <1>0, <1>2 DEF Refused
<1>3. steps' = steps
  <2>1. CASE Around BY <1>1, <2>1 DEF Around, BelongsChanges, SwitchChanges, Reported
  <2>2. CASE StoreWrites \/ WriterStep \/ \E f \in Fades : FadeStep(f)
    BY <2>2 DEF StoreWrites, WriterStep, WriterTurns, WriterRead, WriterWrote, WriterGivesUp, FadeStep, FadeGoesOn,
       FadeClimbed, FadeBreaksOff, FadeLanded, FadeFailed, FadeSaved, FadeUndone, FadeUndoneFailed
  <2>3. CASE PassStep
    BY <2>3 DEF PassStep, PassStarts, RescueTurn, Rescued, RescueFailed, PassGoesOn, StandsDown, StoodDown, LetsGo,
       LetsBe, TakesIn, ReadFailed, Noting, JoinsSilent, Muted, SilencedOnce, NotTurnedDown, Joined, JoinRefused,
       Returned, NotReturned
  <2>4. CASE Stops \/ Ending \/ Crashes \/ Over \/ UNCHANGED vars
    BY <2>4 DEF Stops, Ending, StopsFading, Closes, Stopped, Starts, Crashes, Forgotten, Over, vars
  <2> QED BY <2>1, <2>2, <2>3, <2>4 DEF Next
<1>4. fails = 0
  <2>1. CASE Around \/ StoreWrites BY <1>0, <1>1, <2>1 DEF Around, BelongsChanges, SwitchChanges, Reported, StoreWrites
  <2>2. CASE WriterStep BY <1>0, <1>2, <2>2 DEF WriterStep, WriterTurns, WriterRead, WriterWrote, WriterGivesUp, Obeyed
  <2>3. ASSUME NEW f \in Fades, FadeStep(f) PROVE fails = 0
    BY <1>0, <1>2, <2>3
    DEF FadeStep, FadeGoesOn, FadeClimbed, FadeBreaksOff, FadeLanded, FadeFailed, FadeSaved, FadeUndone,
        FadeUndoneFailed, Obeyed
  <2>4. CASE PassStep
    BY <1>0, <1>2, <2>4
    DEF PassStep, PassStarts, RescueTurn, Rescued, RescueFailed, PassGoesOn, StandsDown, StoodDown, LetsGo,
       LetsBe, TakesIn, ReadFailed, Noting, JoinsSilent, Muted, SilencedOnce, NotTurnedDown, Joined, JoinRefused,
       Returned, NotReturned, Obeyed
  <2>5. CASE Stops \/ Ending \/ Crashes \/ Over \/ UNCHANGED vars
    BY <1>0, <2>5 DEF Stops, Ending, StopsFading, Closes, Stopped, Starts, Crashes, Forgotten, Over, vars
  <2> QED BY <2>1, <2>2, <2>3, <2>4, <2>5 DEF Next
<1>5. Quiet BY <1>0, <1>3, <1>4 DEF Quiet
<1>6. writer = "none" /\ pass \notin {"owing", "silencing", "silenced", "returning", "returned"}
  BY <1>5 DEF QuietInv, ItsOwn, WhoReturnsIt
<1>7. ~WriterStep BY <1>6 DEF WriterStep, WriterTurns, WriterRead, WriterWrote, WriterGivesUp
<1>8. \A f \in Fades : FadeStep(f) => QuietFade(f)
  BY <1>2 DEF FadeStep, QuietFade, FadeBreaksOff, FadeFailed, FadeUndoneFailed
<1>9. PassStep => QuietPass
  BY <1>2, <1>6
  DEF PassStep, QuietPass, RescueFailed, ReadFailed, SilencedOnce, NotTurnedDown, JoinRefused, Returned, NotReturned
<1>10. due' = due
  <2>1. CASE QuietAround \/ StoreWrites BY <2>1 DEF QuietAround, BelongsChanges, SwitchChanges, Reported, StoreWrites
  <2>2. ASSUME NEW f \in Fades, QuietFade(f) PROVE due' = due
    BY <2>2 DEF QuietFade, FadeGoesOn, FadeClimbed, FadeLanded, FadeSaved, FadeUndone
  <2>3. CASE QuietPass
    BY <2>3 DEF QuietPass, PassStarts, RescueTurn, Rescued, PassGoesOn, StandsDown, StoodDown, LetsGo, LetsBe, TakesIn,
       Noting, JoinsSilent, Muted, Joined
  <2>4. CASE Stops \/ Ending \/ Crashes \/ Over \/ UNCHANGED vars
    BY <2>4 DEF Stops, Ending, StopsFading, Closes, Stopped, Starts, Crashes, Forgotten, Over, vars
  <2> QED BY <1>1, <1>7, <1>8, <1>9, <2>1, <2>2, <2>3, <2>4 DEF Next, Around, QuietAround
<1> QED BY <1>1, <1>5, <1>7, <1>8, <1>9, <1>10 DEF Next, Around, QuietAround, Over

\* With nothing owed, the level that is noted is the one the box is on.
LEMMA QuietLevel ==
  ASSUME IInv, QuietInv, Quiet
  PROVE  Stepped(vol, owed) = vol /\ owed = 0 /\ vol \in Levels /\ due \in Levels
<1>1. owed = 0 /\ vol \in Levels /\ due \in Levels BY DEF QuietInv, ItsOwn, IInv, BoxTypeOK
<1> QED BY <1>1, Scale DEF Stepped

\* What is written down stays the box's own.
LEMMA ItsOwnStep ==
  ASSUME OnlyUp, IInv, QuietInv, [Next]_vars, Quiet'
  PROVE  ItsOwn' /\ SavesItsOwn'
<1>0. Quiet /\ due' = due BY QuietSteps
<1>1. ItsOwn /\ SavesItsOwn /\ Remembered /\ WhoReturnsIt /\ PassTypeOK BY <1>0 DEF QuietInv, IInv
<1>2. ItsOwn'
  <2>1. CASE QuietAround \/ StoreWrites
    BY <1>0, <1>1, <2>1 DEF QuietAround, BelongsChanges, SwitchChanges, Reported, StoreWrites, ItsOwn, stateVars,
       passVars, stepVars
  <2>2. ASSUME NEW f \in Fades, QuietFade(f) PROVE ItsOwn'
    BY <1>0, <1>1, <2>2 DEF QuietFade, FadeGoesOn, FadeClimbed, FadeLanded, FadeSaved, FadeUndone, ItsOwn, stateVars,
       passVars, stepVars
  <2>3. CASE PassStarts \/ RescueTurn \/ Rescued \/ PassGoesOn \/ StandsDown \/ StoodDown
    BY <1>0, <1>1, <2>3 DEF PassStarts, RescueTurn, Rescued, PassGoesOn, StandsDown, StoodDown, PassAt, Idle,
       WriterCancelled, PassSaves, ItsOwn, stateVars, stepVars
  <2>4. CASE LetsGo \/ LetsBe \/ TakesIn \/ JoinsSilent \/ Muted \/ Joined
    BY <1>0, <1>1, <2>4 DEF LetsGo, LetsBe, TakesIn, JoinsSilent, Muted, Joined, PassAt, Idle, ItsOwn, stateVars,
       stepVars
  <2>5. CASE Noting
    <3>1. vol = due BY <1>0, <1>1, <2>5, QuietLevel, Scale DEF Noting, Remembered, WhoReturnsIt, PassTypeOK
    <3>2. note' = due /\ passLevel' = due /\ owed' = 0 /\ passOwed' = 0
      BY <1>0, <2>5, <3>1, QuietLevel DEF Noting
    <3> QED BY <1>0, <1>1, <2>5, <3>2 DEF Noting, ItsOwn, stepVars
  <2>6. CASE Stops \/ StopsFading \/ Closes
    BY <1>0, <1>1, <2>6 DEF Stops, StopsFading, Closes, Idle, WriterCancelled, ItsOwn, stateVars, stepVars, passVars
  <2>7. CASE Stopped \/ Crashes
    BY <1>0, <2>7 DEF Stopped, Crashes, Forgotten, Idle, WriterCancelled, ItsOwn
  <2>8. CASE Starts
    <3>1. durable \in Saves BY DEF Saves
    <3>2. note' \in {None, due} /\ owed' = 0 BY <1>1, <2>8, <3>1 DEF Starts, SavesItsOwn
    <3> QED BY <1>0, <1>1, <2>8, <3>2 DEF Starts, ItsOwn, passVars, stepVars
  <2>9. CASE UNCHANGED vars BY <1>0, <1>1, <2>9 DEF vars, stateVars, passVars, stepVars, ItsOwn
  <2> QED BY <2>1, <2>2, <2>3, <2>4, <2>5, <2>6, <2>7, <2>8, <2>9, QuietSteps DEF QuietPass, Ending
<1>3. SavesItsOwn'
  <2> SUFFICES ASSUME NEW s \in Saves' PROVE s.owed = 0 /\ s.note \in {None, due'}
    BY DEF SavesItsOwn
  <2>1. CASE s \in Saves BY <1>0, <1>1, <2>1 DEF SavesItsOwn
  <2>2. CASE s = State(note', owed') BY <1>2, <2>2 DEF State, ItsOwn
  <2> QED BY <2>1, <2>2, SavesStep
<1> QED BY <1>2, <1>3

\* A fade returns the box to its own level.
LEMMA FadesItsOwnStep ==
  ASSUME OnlyUp, IInv, QuietInv, [Next]_vars, Quiet', FadeTypeOK'
  PROVE  FadesItsOwn'
<1>0. Quiet /\ due' = due /\ due \in Levels /\ None \notin Levels BY QuietSteps, QuietLevel, Scale
<1>1. ItsOwn /\ FadesItsOwn /\ FadeTypeOK BY <1>0 DEF QuietInv, IInv
<1>2. \A f \in Fades : Alive(f) => Noted(fadeFrom[f]) = due BY <1>0, <1>1 DEF ItsOwn, FadesItsOwn, Noted
<1> SUFFICES ASSUME NEW f \in Fades
             PROVE  /\ (Alive(f))' => fadeFrom'[f] = due
                    /\ fadeAt'[f] \in {"landing", "undoing"} => fadeWrite'[f] = due
  BY <1>0 DEF FadesItsOwn
<1>3. (Alive(f))' => fadeFrom'[f] = due
  <2>1. (Alive(f))' => fadeFrom'[f] = passLevel \/ (Alive(f) /\ fadeFrom'[f] = fadeFrom[f]) BY FadeLevels DEF Alive
  <2>2. {fadeFrom'[f]} \subseteq Levels BY DEF FadeTypeOK
  <2> QED BY <1>0, <1>1, <2>1, <2>2 DEF ItsOwn, FadesItsOwn
<1>4. fadeAt'[f] \in {"landing", "undoing"} => fadeWrite'[f] = due
  <2>1. ASSUME UNCHANGED <<fadeAt, fadeWrite>> PROVE fadeAt'[f] \in {"landing", "undoing"} => fadeWrite'[f] = due
    BY <1>1, <2>1 DEF FadesItsOwn
  <2>2. CASE QuietAround \/ StoreWrites
    BY <2>1, <2>2 DEF QuietAround, BelongsChanges, SwitchChanges, Reported, StoreWrites, fadeVars
  <2>3. ASSUME NEW g \in Fades, QuietFade(g) PROVE fadeAt'[f] \in {"landing", "undoing"} => fadeWrite'[f] = due
    <3>1. CASE FadeGoesOn(g)
      <4>1. Alive(g) BY <3>1 DEF FadeGoesOn, Alive
      <4>2. CASE f = g BY <1>1, <1>2, <3>1, <4>1, <4>2 DEF FadeGoesOn, FadeTypeOK
      <4>3. CASE f # g BY <1>1, <3>1, <4>3 DEF FadeGoesOn, FadeTypeOK, FadesItsOwn
      <4> QED BY <4>2, <4>3
    <3>2. CASE FadeClimbed(g) \/ FadeLanded(g)
      BY <1>1, <3>2 DEF FadeClimbed, FadeLanded, FadeTypeOK, FadesItsOwn
    <3>3. CASE FadeSaved(g) \/ FadeUndone(g)
      <4>1. FadeEnds(g) BY <3>3 DEF FadeSaved, FadeUndone
      <4> QED BY <1>1, <4>1 DEF FadeEnds, FadeTypeOK, FadesItsOwn
    <3> QED BY <2>3, <3>1, <3>2, <3>3 DEF QuietFade
  <2>4. CASE PassStarts \/ RescueTurn \/ Rescued \/ PassGoesOn \/ StoodDown \/ LetsGo \/ LetsBe
             \/ TakesIn \/ Noting \/ JoinsSilent \/ Muted
    BY <2>1, <2>4 DEF PassStarts, RescueTurn, Rescued, PassGoesOn, StoodDown, LetsGo, LetsBe, TakesIn, Noting,
       JoinsSilent, Muted, fadeVars
  <2>5. CASE Joined BY <1>1, <2>1, <2>5 DEF Joined, FadeTypeOK, FadesItsOwn, fadeVars
  <2>6. CASE StandsDown \/ StopsFading \/ Closes
    <3>1. PICK which : Cancelled(which) BY <2>6 DEF StandsDown, StopsFading, Closes
    <3>2. \/ Alive(f) /\ fadeWrite'[f] = Noted(fadeFrom[f])
          \/ fadeAt'[f] = fadeAt[f] /\ fadeWrite'[f] = fadeWrite[f]
      BY <3>1 DEF Cancelled
    <3> QED BY <1>1, <1>2, <3>2 DEF FadesItsOwn
  <2>7. CASE Stopped \/ Crashes BY <2>7 DEF Stopped, Crashes, Forgotten
  <2>8. CASE Stops \/ Starts \/ UNCHANGED vars BY <2>1, <2>8 DEF Stops, Starts, vars, fadeVars
  <2> QED BY <2>2, <2>3, <2>4, <2>5, <2>6, <2>7, <2>8, QuietSteps DEF QuietPass, Ending
<1> QED BY <1>3, <1>4

\* A level that arrives at a box in a quiet run is its own, or the box is noted.
LEMMA QuietArrival ==
  ASSUME OnlyUp, IInv, QuietInv, Quiet, vol' # due, vol' \in {vol} \cup SentByPass \cup SentByFades \cup SentByWriter
  PROVE  AllDue /\ (service \in {"up", "stopping", "closing", "closed"} => note = due)
<1>1. ItsOwn /\ FadesItsOwn /\ Remembered /\ Lent /\ WhoReturnsIt BY DEF QuietInv
<1>2. CASE vol' = vol BY <1>1, <1>2 DEF Remembered
<1>3. CASE vol' \in SentByPass
  <2>1. pass \in {"rescuing", "returning"} => vol' = passLevel BY <1>3 DEF SentByPass
  <2>2. pass = "muting"
    BY <1>1, <1>3, <2>1 DEF SentByPass, WhoReturnsIt
  <2> QED BY <1>1, <2>2 DEF Lent, MuteStands
<1>4. CASE vol' \in SentByFades
  <2>1. PICK f \in Fades : fadeAt[f] \in {"climbing", "landing", "undoing"} /\ vol' = fadeWrite[f]
    BY <1>4 DEF SentByFades
  <2>2. fadeAt[f] = "climbing" BY <1>1, <2>1 DEF FadesItsOwn
  <2> QED BY <1>1, <2>2 DEF Lent
<1>5. CASE vol' \in SentByWriter BY <1>1, <1>5 DEF SentByWriter, ItsOwn
<1> QED BY <1>2, <1>3, <1>4, <1>5

\* The saves of a noted box stay so while its note does.
LEMMA AllDueStep ==
  ASSUME OnlyUp, IInv, [Next]_vars, due' = due, AllDue,
         note' = due \/ UNCHANGED <<queue, durable>> \/ (queue' = <<>> /\ durable' = durable)
  PROVE  AllDue'
<1>1. CASE note' = due
  <2>1. State(note', owed').note = due BY <1>1 DEF State
  <2> QED BY <2>1, SavesStep DEF AllDue
<1>2. CASE UNCHANGED <<queue, durable>> BY <1>2 DEF AllDue, Saves
<1>3. CASE queue' = <<>> /\ durable' = durable BY <1>3 DEF AllDue, Saves
<1> QED BY <1>1, <1>2, <1>3

\* The levels and notes of a quiet run's steps.
LEMMA RememberedStep ==
  ASSUME OnlyUp, IInv, QuietInv, [Next]_vars, Quiet'
  PROVE  Remembered'
<1>0. Quiet /\ due' = due /\ due \in Levels /\ None \notin Levels BY QuietSteps, QuietLevel, Scale
<1>1. ItsOwn /\ FadesItsOwn /\ Remembered /\ Lent /\ WhoReturnsIt /\ PassTypeOK BY <1>0 DEF QuietInv, IInv
<1> SUFFICES ASSUME vol' # due
             PROVE  AllDue' /\ (service' \in {"up", "stopping", "closing", "closed"} => note' = due)
  BY <1>0 DEF Remembered
<1>2. ASSUME vol' \in {vol} \cup SentByPass \cup SentByFades \cup SentByWriter, note' = note,
             service \in {"up", "stopping", "closing", "closed"}
      PROVE  AllDue' /\ note' = due
  <2>1. AllDue /\ note = due BY <1>0, <1>2, QuietArrival
  <2> QED BY <1>0, <1>2, <2>1, AllDueStep
<1>3. CASE QuietAround \/ StoreWrites
  <2>1. vol' = vol /\ note' = note /\ service \in {"up", "stopping", "closing", "closed"}
    BY <1>3 DEF QuietAround, BelongsChanges, SwitchChanges, Reported, StoreWrites, boxVars, stateVars
  <2> QED BY <1>2, <2>1
<1>4. ASSUME NEW f \in Fades, QuietFade(f)
      PROVE  AllDue' /\ note' = due
  <2>1. service \in {"up", "stopping", "closing", "closed"}
    <3>1. Fading BY <1>4 DEF QuietFade, FadeGoesOn, FadeClimbed, FadeLanded, FadeSaved, FadeUndone, Fading, Alive
    <3> QED BY <1>1, <3>1 DEF IInv, Gone, PassTypeOK
  <2>2. CASE FadeLanded(f) \/ FadeUndone(f)
    BY <1>1, <2>2 DEF FadeLanded, FadeUndone, Obeyed, FadesItsOwn
  <2>3. CASE FadeGoesOn(f) \/ FadeSaved(f) \/ FadeClimbed(f)
    <3>1. vol' \in {vol} \cup SentByFades /\ note' = note
      BY <2>3 DEF FadeGoesOn, FadeSaved, FadeClimbed, Obeyed, SentByFades, boxVars, stateVars
    <3> QED BY <1>2, <2>1, <3>1
  <2> QED BY <1>4, <2>2, <2>3 DEF QuietFade
<1>5. CASE QuietPass
  <2>1. service \in {"up", "stopping", "closing", "closed"}
    <3>1. service = "up" BY <1>1, <1>5 DEF PassTypeOK, Waiting, QuietPass, PassStarts, RescueTurn, Rescued, PassGoesOn,
          StandsDown, StoodDown, LetsGo, LetsBe, TakesIn, Noting, JoinsSilent, Muted, Joined
    <3> QED BY <3>1
  <2>2. CASE Rescued BY <1>1, <2>2 DEF Rescued, Obeyed, WhoReturnsIt
  <2>3. CASE Noting
    <3>1. vol = due BY <1>0, <1>1, <2>1, <2>3 DEF Noting, Remembered, WhoReturnsIt, PassTypeOK
    <3> QED BY <2>3, <3>1 DEF Noting, boxVars
  <2>4. CASE PassStarts \/ RescueTurn \/ PassGoesOn \/ LetsGo \/ LetsBe \/ TakesIn \/ JoinsSilent \/ Joined
    <3>1. vol' = vol /\ note' = note
      BY <2>4 DEF PassStarts, RescueTurn, PassGoesOn, LetsGo, LetsBe, TakesIn, JoinsSilent, Joined, boxVars, stateVars
    <3> QED BY <1>2, <2>1, <3>1
  <2>5. CASE Muted \/ StandsDown \/ StoodDown
    <3>1. vol' \in {vol} \cup SentByPass \cup SentByFades \cup SentByWriter /\ note' = note
      BY <2>5 DEF Muted, StandsDown, StoodDown, Obeyed, CutOff, SentByPass, stateVars
    <3> QED BY <1>2, <2>1, <3>1
  <2> QED BY <1>5, <2>2, <2>3, <2>4, <2>5 DEF QuietPass
<1>6. CASE Stops \/ StopsFading \/ Closes
  <2>1. vol' \in {vol} \cup SentByPass \cup SentByFades \cup SentByWriter /\ note' = note
        /\ service \in {"up", "stopping", "closing", "closed"}
    BY <1>6 DEF Stops, StopsFading, Closes, CutOff, stateVars
  <2> QED BY <1>2, <2>1
<1>7. CASE Stopped \/ Crashes
  <2>1. vol' \in {vol} \cup SentByPass \cup SentByFades \cup SentByWriter /\ queue' = <<>> /\ durable' = durable
        /\ service' \in {"stopped", "crashed"}
    BY <1>7 DEF Stopped, Crashes, Forgotten, CutOff
  <2>2. AllDue BY <1>0, <2>1, QuietArrival
  <2> QED BY <1>0, <2>1, <2>2, AllDueStep
<1>8. CASE Starts
  <2>1. vol' = vol /\ queue' = <<>> /\ durable' = durable /\ note' = durable.note BY <1>8, StartsAgain
  <2>2. AllDue BY <1>1, <2>1 DEF Remembered
  <2>3. note' = due BY <2>1, <2>2 DEF AllDue, Saves
  <2> QED BY <1>0, <2>2, <2>3, AllDueStep
<1>9. CASE UNCHANGED vars
  <2>1. vol' = vol /\ note' = note /\ service' = service /\ UNCHANGED <<queue, durable>>
    BY <1>9 DEF vars, boxVars, stateVars
  <2>2. AllDue /\ (service \in {"up", "stopping", "closing", "closed"} => note = due) BY <1>1, <2>1 DEF Remembered
  <2> QED BY <1>0, <2>1, <2>2, AllDueStep
<1> QED BY <1>3, <1>4, <1>5, <1>6, <1>7, <1>8, <1>9, QuietSteps DEF Ending

\* A fade raises the box, or is about to.
Climbing == \E f \in Fades : fadeAt[f] \in {"resting", "climbing", "landing"}

\* What may be off its level with the next step was so before, or is noted now.
LEMMA LentBefore ==
  ASSUME OnlyUp, IInv, QuietInv, [Next]_vars, Quiet', MuteStands' \/ Climbing'
  PROVE  /\ MuteStands \/ Climbing \/ (pass = "noting" /\ passSaved = "ok")
         /\ note' = note
<1>0. Quiet /\ PassTypeOK /\ FadeTypeOK /\ OneFade BY QuietSteps DEF IInv
<1>1. ASSUME UNCHANGED <<fadeAt, pass, passLevel, note>>
      PROVE  (MuteStands \/ Climbing) /\ note' = note
  BY <1>1 DEF MuteStands, Climbing
<1>2. ASSUME UNCHANGED <<fadeAt, note>>, ~MuteStands' PROVE Climbing /\ note' = note BY <1>2 DEF Climbing
<1>3. CASE QuietAround \/ StoreWrites
  BY <1>1, <1>3 DEF QuietAround, BelongsChanges, SwitchChanges, Reported, StoreWrites, stateVars, passVars, fadeVars
<1>4. ASSUME NEW f \in Fades, QuietFade(f) PROVE (MuteStands \/ Climbing) /\ note' = note
  <2>0. Alive(f) /\ UNCHANGED <<pass, passLevel>>
    BY <1>4 DEF QuietFade, FadeGoesOn, FadeClimbed, FadeLanded, FadeSaved, FadeUndone, Alive, passVars
  <2>1. ~MuteStands' BY <1>0, <2>0 DEF MuteStands, OneFade, JoinsNow, Fading
  <2>2. CASE FadeGoesOn(f) \/ FadeClimbed(f)
    <3>1. Climbing BY <2>2 DEF FadeGoesOn, FadeClimbed, Climbing
    <3>2. note' = note BY <2>2 DEF FadeGoesOn, FadeClimbed, stateVars
    <3> QED BY <3>1, <3>2
  <2>3. CASE FadeLanded(f) \/ FadeSaved(f) \/ FadeUndone(f)
    <3>1. fadeAt' \in {[fadeAt EXCEPT ![f] = "saving"], [fadeAt EXCEPT ![f] = "done"]}
      BY <2>3 DEF FadeLanded, FadeSaved, FadeUndone, FadeEnds
    <3>2. ~Climbing' BY <1>0, <2>0, <3>1 DEF Climbing, OneFade, Alive, FadeTypeOK
    <3> QED BY <2>1, <3>2
  <2> QED BY <1>4, <2>2, <2>3 DEF QuietFade
<1>5. CASE PassStarts \/ RescueTurn \/ StoodDown \/ LetsGo \/ LetsBe \/ TakesIn \/ JoinsSilent
  <2>1. UNCHANGED <<fadeAt, note>>
    BY <1>5 DEF PassStarts, RescueTurn, StoodDown, LetsGo, LetsBe, TakesIn, JoinsSilent, fadeVars, stateVars
  <2>2. ~MuteStands'
    BY <1>5 DEF PassStarts, RescueTurn, StoodDown, LetsGo, LetsBe, TakesIn, JoinsSilent, PassAt, Idle, MuteStands
  <2> QED BY <1>2, <2>1, <2>2
<1>6. CASE Rescued
  <2>1. ~Fading BY <1>0, <1>6 DEF QuietInv, WhoReturnsIt, Rescued
  <2>2. ~MuteStands' /\ ~Climbing' BY <1>6, <2>1 DEF Rescued, MuteStands, Climbing, Fading, Alive, fadeVars
  <2> QED BY <2>2
<1>7. CASE Noting
  <2>1. ~Fading BY <1>0, <1>7 DEF OneFade, JoinsNow, Noting
  <2>2. ~MuteStands' /\ ~Climbing' BY <1>7, <2>1 DEF Noting, MuteStands, Climbing, Fading, Alive, fadeVars
  <2> QED BY <2>2
<1>8. CASE PassGoesOn
  <2>1. pass \in Waiting /\ passSaved = "ok" /\ UNCHANGED <<fadeAt, note, passLevel>>
    BY <1>0, <1>8 DEF PassGoesOn, PassTypeOK, stateVars, fadeVars
  <2>2. pass \in {"rescued", "noting"} BY <1>0, <2>1 DEF QuietInv, WhoReturnsIt, Waiting
  <2>3. CASE pass = "noting" BY <2>1, <2>3
  <2>4. CASE pass = "rescued"
    <3>1. ~MuteStands' BY <1>8, <2>4 DEF PassGoesOn, MuteStands
    <3> QED BY <1>2, <2>1, <3>1
  <2> QED BY <2>2, <2>3, <2>4
<1>9. CASE Muted
  <2>1. MuteStands /\ note' = note BY <1>9 DEF Muted, MuteStands, stateVars
  <2> QED BY <2>1
<1>10. CASE Joined
  <2>1. note' = note /\ ~MuteStands' /\ (passLevel = None => UNCHANGED fadeAt) /\ pass = "joining"
    BY <1>10 DEF Joined, Idle, MuteStands, stateVars, fadeVars
  <2>2. CASE passLevel = None BY <1>2, <2>1, <2>2
  <2>3. CASE passLevel # None BY <2>1, <2>3 DEF MuteStands
  <2> QED BY <2>2, <2>3
<1>11. CASE StandsDown \/ StopsFading \/ Closes
  <2>1. PICK which : Cancelled(which) BY <1>11 DEF StandsDown, StopsFading, Closes
  <2>2. Climbing' => Climbing BY <2>1 DEF Cancelled, Climbing, Alive
  <2>3. note' = note /\ ~MuteStands'
    BY <1>0, <1>11 DEF StandsDown, StopsFading, Closes, PassAt, MuteStands, stateVars, passVars, PassTypeOK
  <2> QED BY <2>2, <2>3
<1>12. CASE Stops
  <2>1. UNCHANGED <<fadeAt, note>> /\ ~MuteStands' BY <1>12 DEF Stops, Idle, MuteStands, stateVars, fadeVars
  <2> QED BY <1>2, <2>1
<1>13. CASE Stopped \/ Crashes
  <2>1. ~Climbing' /\ ~MuteStands' BY <1>13 DEF Stopped, Crashes, Forgotten, Idle, Climbing, MuteStands
  <2> QED BY <2>1
<1>14. CASE Starts
  <2>1. ~Fading /\ fadeAt' = fadeAt /\ pass' = "idle" BY <1>14, StartsAgain DEF fadeVars
  <2>2. ~Climbing' /\ ~MuteStands' BY <2>1 DEF Climbing, MuteStands, Fading, Alive
  <2> QED BY <2>2
<1>15. CASE UNCHANGED vars BY <1>1, <1>15 DEF vars, stateVars, passVars, fadeVars
<1> QED
  BY <1>3, <1>4, <1>5, <1>6, <1>7, <1>8, <1>9, <1>10, <1>11, <1>12, <1>13, <1>14, <1>15, QuietSteps
  DEF QuietPass, Ending

\* The save of a note is the last one on its way.
LEMMA NotingStep ==
  ASSUME OnlyUp, IInv, QuietInv, [Next]_vars, Quiet', pass' = "noting"
  PROVE  /\ vol' = due /\ note' = due /\ passLevel' = due
         /\ \A i, j \in DOMAIN queue' : queue'[i].by = Pass /\ i <= j => queue'[j].state.note = due
         /\ passSaved' = "ok" => AllDue'
<1>0. Quiet /\ due' = due /\ due \in Levels /\ None \notin Levels BY QuietSteps, QuietLevel, Scale
<1>1. Remembered /\ Lent /\ WhoReturnsIt /\ PassTypeOK /\ OneFade BY <1>0 DEF QuietInv, IInv
<1>2. ASSUME UNCHANGED <<vol, note, passLevel, queue, durable, pass, passSaved>>
      PROVE  /\ vol' = due /\ note' = due /\ passLevel' = due
             /\ \A i, j \in DOMAIN queue' : queue'[i].by = Pass /\ i <= j => queue'[j].state.note = due
             /\ passSaved' = "ok" => AllDue'
  <2>1. pass = "noting" BY <1>2
  <2>2. AllDue' = AllDue BY <1>0, <1>2 DEF AllDue, Saves
  <2> QED BY <1>1, <1>2, <2>1, <2>2 DEF Lent
<1>3. CASE QuietAround
  BY <1>2, <1>3 DEF QuietAround, BelongsChanges, SwitchChanges, Reported, boxVars, stateVars, passVars
<1>4. CASE StoreWrites
  <2>1. pass = "noting" /\ UNCHANGED <<vol, note, passLevel>> BY <1>4 DEF StoreWrites, boxVars
  <2>2. \A i, j \in DOMAIN queue : queue[i].by = Pass /\ i <= j => queue[j].state.note = due BY <1>1, <2>1 DEF Lent
  <2>3. ASSUME NEW i \in DOMAIN queue', NEW j \in DOMAIN queue', queue'[i].by = Pass, i <= j
        PROVE  queue'[j].state.note = due
    <3>1. i + 1 \in DOMAIN queue /\ queue'[i] = queue[i + 1] /\ i \in Nat BY <1>4, Written
    <3>2. j + 1 \in DOMAIN queue /\ queue'[j] = queue[j + 1] /\ j \in Nat BY <1>4, Written
    <3>3. i + 1 <= j + 1 BY <2>3, <3>1, <3>2
    <3> QED BY <2>2, <2>3, <3>1, <3>2, <3>3
  <2>4. ASSUME passSaved' = "ok" PROVE AllDue'
    <3>1. note' = due BY <1>1, <2>1 DEF Lent
    <3>2. CASE passSaved = "ok"
      <4>1. AllDue BY <1>1, <2>1, <3>2 DEF Lent
      <4> QED BY <1>0, <3>1, <4>1, AllDueStep
    <3>3. CASE passSaved # "ok"
      <4>1. queue[1].by = Pass /\ durable' = queue[1].state
        BY <1>4, <2>4, <3>3, Written DEF StoreWrites
      <4>2. 1 \in DOMAIN queue /\ \A i \in DOMAIN queue : 1 <= i
        <5>1. queue \in Seq(Entries) BY DEF IInv, BoxTypeOK
        <5>2. DOMAIN queue = 1 .. Len(queue) /\ Len(queue) \in Nat BY <5>1
        <5> QED BY <1>4, <5>2, Written
      <4>3. \A j \in DOMAIN queue : queue[j].state.note = due BY <2>2, <4>1, <4>2
      <4>4. \A s \in Saves' : s = durable' \/ \E i \in DOMAIN queue' : s = queue[i + 1].state
        BY <1>4, Written DEF Saves
      <4>5. \A i \in DOMAIN queue' : i + 1 \in DOMAIN queue BY <1>4, Written
      <4>6. \A s \in Saves' : s.note = due BY <4>1, <4>2, <4>3, <4>4, <4>5
      <4> QED BY <1>0, <4>6 DEF AllDue
    <3> QED BY <3>2, <3>3
  <2> QED BY <1>1, <2>1, <2>3, <2>4 DEF Lent
<1>5. ASSUME NEW f \in Fades, QuietFade(f) PROVE FALSE
  <2>1. Fading BY <1>5 DEF QuietFade, FadeGoesOn, FadeClimbed, FadeLanded, FadeSaved, FadeUndone, Fading, Alive
  <2>2. pass = "noting"
    BY <1>5 DEF QuietFade, FadeGoesOn, FadeClimbed, FadeLanded, FadeSaved, FadeUndone, passVars
  <2> QED BY <1>1, <2>1, <2>2 DEF OneFade, JoinsNow
<1>6. CASE Noting
  <2>1. vol = due BY <1>0, <1>1, <1>6 DEF Noting, Remembered, WhoReturnsIt, PassTypeOK
  <2>2. Stepped(vol, owed) = due BY <1>0, <2>1, QuietLevel
  <2>3. vol' = due /\ note' = due /\ passLevel' = due /\ passSaved' = "waiting" /\ Save(due, 0, Pass)
    BY <1>6, <2>1, <2>2 DEF Noting, PassSaves, boxVars
  <2>4. \A i \in DOMAIN queue : queue[i].by # Pass
    <3>1. passSaved = "none" /\ service = "up" BY <1>1, <1>6 DEF Noting, PassTypeOK, Waiting
    <3> QED BY <3>1 DEF IInv, OneSave
  <2>5. \A i \in DOMAIN queue' : queue'[i].by = Pass => i = Len(queue) + 1 BY <2>3, <2>4, Queued
  <2>6. \A j \in DOMAIN queue' : Len(queue) + 1 <= j => j = Len(queue) + 1
    <3>1. \A j \in DOMAIN queue : j < Len(queue) + 1 BY <2>3, Queued
    <3>2. Len(queue) \in Nat /\ DOMAIN queue \subseteq Nat
      <4>1. queue \in Seq(Entries) BY DEF IInv, BoxTypeOK
      <4> QED BY <4>1
    <3> QED BY <2>3, <3>1, <3>2, Queued
  <2>7. queue'[Len(queue) + 1].state.note = due BY <2>3, Queued
  <2> QED BY <2>3, <2>5, <2>6, <2>7
<1>7. CASE QuietPass /\ ~Noting
  <2>1. FALSE
    BY <1>1, <1>7
    DEF QuietPass, PassStarts, RescueTurn, Rescued, PassGoesOn, StandsDown, StoodDown, LetsGo, LetsBe, TakesIn,
        JoinsSilent, Muted, Joined, PassAt, Idle, PassTypeOK, Waiting
  <2> QED BY <2>1
<1>8. CASE Stops \/ Ending \/ Crashes
  <2>1. FALSE
    BY <1>1, <1>8 DEF Stops, Ending, StopsFading, Closes, Stopped, Starts, Crashes, Forgotten, Idle, passVars, PassTypeOK
  <2> QED BY <2>1
<1>9. CASE UNCHANGED vars BY <1>2, <1>9 DEF vars, boxVars, stateVars, passVars
<1> QED BY <1>3, <1>4, <1>5, <1>6, <1>7, <1>8, <1>9, QuietSteps

\* A pass mutes after its note was saved.
LEMMA MutesStep ==
  ASSUME OnlyUp, IInv, QuietInv, [Next]_vars, Quiet', pass' = "muting"
  PROVE  (pass = "noting" \/ pass = "muting") /\ passLevel' = passLevel
<1>1. PassTypeOK /\ WhoReturnsIt BY QuietSteps DEF QuietInv, IInv
<1>2. CASE QuietAround \/ StoreWrites
  BY <1>2 DEF QuietAround, BelongsChanges, SwitchChanges, Reported, StoreWrites, passVars
<1>3. CASE \E f \in Fades : QuietFade(f)
  BY <1>3 DEF QuietFade, FadeGoesOn, FadeClimbed, FadeLanded, FadeSaved, FadeUndone, passVars
<1>4. CASE PassGoesOn BY <1>1, <1>4 DEF PassGoesOn, PassTypeOK, WhoReturnsIt, Waiting
<1>5. CASE QuietPass /\ ~PassGoesOn
  BY <1>5 DEF QuietPass, PassStarts, RescueTurn, Rescued, StandsDown, StoodDown, LetsGo, LetsBe, TakesIn, Noting,
     JoinsSilent, Muted, Joined, PassAt, Idle
<1>6. CASE Stops \/ Ending \/ Crashes \/ UNCHANGED vars
  BY <1>6 DEF Stops, Ending, StopsFading, Closes, Stopped, Starts, Crashes, Forgotten, Idle, passVars, vars
<1> QED BY <1>2, <1>3, <1>4, <1>5, <1>6, QuietSteps

\* A box that may be off its level with the next step is noted.
LEMMA LentStep ==
  ASSUME OnlyUp, IInv, QuietInv, [Next]_vars, Quiet'
  PROVE  Lent'
<1>0. Quiet /\ due' = due /\ Lent BY QuietSteps DEF QuietInv
<1>1. ASSUME MuteStands' \/ Climbing' PROVE note' = due /\ AllDue'
  <2>1. note' = note /\ (MuteStands \/ Climbing \/ (pass = "noting" /\ passSaved = "ok")) BY <1>1, LentBefore
  <2>2. note = due /\ AllDue BY <1>0, <2>1 DEF Lent, Climbing
  <2> QED BY <1>0, <2>1, <2>2, AllDueStep
<1>2. Climbing' = \E f \in Fades : fadeAt'[f] \in {"resting", "climbing", "landing"} BY DEF Climbing
<1>3. pass' = "noting" =>
        /\ vol' = due /\ note' = due /\ passLevel' = due
        /\ \A i, j \in DOMAIN queue' : queue'[i].by = Pass /\ i <= j => queue'[j].state.note = due
        /\ passSaved' = "ok" => AllDue'
  BY NotingStep
<1>4. pass' = "muting" => passLevel' = due BY <1>0, MutesStep DEF Lent
<1> QED BY <1>0, <1>1, <1>2, <1>3, <1>4 DEF Lent

\* A note goes with its fade.
LEMMA NoteGoesWithItsFade ==
  ASSUME OnlyUp, IInv, QuietInv, Quiet, NEW f \in Fades, QuietFade(f), FadeTypeOK'
  PROVE  /\ Fading' => Fading
         /\ note' = None \/ (note' = note /\ (Fading' \/ note = None))
         /\ (\E g \in Fades : fadeAt'[g] = "saving") => note' = None
<1>1. FadeTypeOK /\ OneFade /\ WhoReturnsIt BY DEF QuietInv, IInv
<1>2. Fading /\ Alive(f) BY DEF QuietFade, FadeGoesOn, FadeClimbed, FadeLanded, FadeSaved, FadeUndone, Fading, Alive
<1>3. CASE FadeGoesOn(f) \/ FadeClimbed(f)
  <2>1. fadeAt'[f] \in {"climbing", "landing", "resting"} /\ note' = note
        /\ \A g \in Fades : g # f => fadeAt'[g] = fadeAt[g]
    BY <1>1, <1>3 DEF FadeGoesOn, FadeClimbed, FadeTypeOK, stateVars
  <2>2. Fading' BY <2>1 DEF Fading, Alive
  <2>3. \A g \in Fades : fadeAt'[g] # "saving"
    <3>1. \A g \in Fades : g # f => ~Alive(g) BY <1>1, <1>2 DEF OneFade
    <3> QED BY <2>1, <3>1 DEF Alive
  <2> QED BY <1>2, <2>1, <2>2, <2>3
<1>4. CASE FadeLanded(f) \/ FadeUndone(f) BY <1>2, <1>4 DEF FadeLanded, FadeUndone
<1>5. CASE FadeSaved(f)
  <2>1. note = None /\ note' = note BY <1>1, <1>5 DEF FadeSaved, WhoReturnsIt, stateVars
  <2> QED BY <1>2, <2>1
<1> QED BY <1>3, <1>4, <1>5 DEF QuietFade

\* A pass returns a box to its own level, and takes in one that has no note.
LEMMA WhoReturnsItStep ==
  ASSUME OnlyUp, IInv, QuietInv, [Next]_vars, Quiet', FadeTypeOK'
  PROVE  WhoReturnsIt'
<1>0. Quiet /\ due' = due /\ due \in Levels /\ None \notin Levels BY QuietSteps, QuietLevel, Scale
<1>1. ItsOwn /\ WhoReturnsIt /\ PassTypeOK /\ FadeTypeOK /\ OneFade BY <1>0 DEF QuietInv, IInv
<1>2. ASSUME UNCHANGED <<pass, passLevel, note, fadeAt>> PROVE WhoReturnsIt'
  BY <1>0, <1>1, <1>2 DEF WhoReturnsIt, Fading, Alive
<1>3. CASE QuietAround \/ StoreWrites
  BY <1>2, <1>3 DEF QuietAround, BelongsChanges, SwitchChanges, Reported, StoreWrites, stateVars, passVars, fadeVars
<1>4. ASSUME NEW f \in Fades, QuietFade(f) PROVE WhoReturnsIt'
  <2>1. UNCHANGED <<pass, passLevel>>
    BY <1>4 DEF QuietFade, FadeGoesOn, FadeClimbed, FadeLanded, FadeSaved, FadeUndone, passVars
  <2>2. Fading BY <1>4 DEF QuietFade, FadeGoesOn, FadeClimbed, FadeLanded, FadeSaved, FadeUndone, Fading, Alive
  <2>3. /\ Fading' => Fading
        /\ note' = None \/ (note' = note /\ (Fading' \/ note = None))
        /\ (\E g \in Fades : fadeAt'[g] = "saving") => note' = None
    BY <1>0, <1>4, NoteGoesWithItsFade
  <2> QED BY <1>0, <1>1, <2>1, <2>2, <2>3 DEF WhoReturnsIt
<1>5. CASE PassStarts
  <2>1. UNCHANGED <<note, fadeAt>> /\ pass' \in {"deciding", "looking"} /\ passLevel' = note
        /\ (pass' = "looking" => note # None) /\ (pass' = "deciding" => note = None)
    BY <1>5 DEF PassStarts, stateVars, fadeVars
  <2>2. note \in {None, due} BY <1>1 DEF ItsOwn
  <2> QED BY <1>0, <1>1, <2>1, <2>2 DEF WhoReturnsIt
<1>6. CASE RescueTurn
  <2>1. UNCHANGED <<note, fadeAt, passLevel>> /\ pass = "looking"
        /\ pass' = IF fading # 0 /\ Alive(fading) THEN "deciding" ELSE "rescuing"
    BY <1>6 DEF RescueTurn, PassAt, stateVars, fadeVars
  <2>2. Fading' = Fading BY <2>1 DEF Fading, Alive
  <2>3. CASE fading # 0 /\ Alive(fading)
    <3>1. Fading BY <1>1, <2>3 DEF Fading, FadeTypeOK
    <3> QED BY <1>0, <1>1, <2>1, <2>2, <2>3, <3>1 DEF WhoReturnsIt
  <2>4. CASE ~(fading # 0 /\ Alive(fading))
    <3>1. ~Fading BY <1>1, <2>4, Scale DEF Fading, OneFade, Fades
    <3> QED BY <1>0, <1>1, <2>1, <2>2, <2>4, <3>1 DEF WhoReturnsIt
  <2> QED BY <2>3, <2>4
<1>7. CASE Rescued
  <2>1. note' = None /\ fadeAt' = fadeAt /\ pass = "rescuing" /\ pass' = "rescued"
    BY <1>7 DEF Rescued, fadeVars
  <2>2. ~Fading' BY <1>1, <2>1 DEF WhoReturnsIt, Fading, Alive
  <2> QED BY <2>1, <2>2 DEF WhoReturnsIt
<1>8. CASE PassGoesOn
  <2>1. pass \in {"rescued", "noting"} /\ UNCHANGED <<fadeAt, note, passLevel>>
    BY <1>1, <1>8 DEF PassGoesOn, PassTypeOK, WhoReturnsIt, Waiting, stateVars, fadeVars
  <2>2. (pass = "rescued" /\ pass' = "deciding") \/ pass' = "muting" BY <1>8, <2>1 DEF PassGoesOn
  <2>3. Fading' = Fading BY <2>1 DEF Fading, Alive
  <2> QED BY <1>1, <2>1, <2>2, <2>3 DEF WhoReturnsIt
<1>9. CASE TakesIn
  <2>1. UNCHANGED <<fadeAt, note>> /\ pass' = "reading" /\ pass = "deciding" /\ ~joined /\ belongs
    BY <1>9 DEF TakesIn, PassAt, boxVars, stateVars, fadeVars
  <2>2. service = "up" BY <1>1, <2>1 DEF PassTypeOK
  <2>3. ~Fading BY <1>1, <2>1, <2>2 DEF OneFade
  <2>4. note = None BY <1>1, <2>1, <2>3 DEF WhoReturnsIt
  <2> QED BY <2>1, <2>4 DEF WhoReturnsIt
<1>10. CASE Noting
  <2>1. pass = "reading" /\ pass' = "noting" /\ fadeAt' = fadeAt BY <1>10 DEF Noting, fadeVars
  <2>2. ~Fading BY <1>1, <2>1 DEF OneFade, JoinsNow
  <2>3. ~\E f \in Fades : fadeAt'[f] = "saving" BY <2>1, <2>2 DEF Fading, Alive
  <2> QED BY <2>1, <2>3 DEF WhoReturnsIt
<1>11. CASE JoinsSilent
  <2>1. vol = 0 /\ owed = 0 BY <1>0, <1>11, QuietLevel DEF JoinsSilent
  <2>2. pass = "reading" /\ pass' = "joining" /\ passLevel' = None /\ UNCHANGED <<note, fadeAt>>
    BY <1>11, <2>1 DEF JoinsSilent, fadeVars
  <2> QED BY <1>1, <2>2 DEF WhoReturnsIt
<1>12. CASE Muted
  <2>1. pass' = "joining" /\ passLevel' = passLevel /\ UNCHANGED <<note, fadeAt>> /\ pass = "muting"
    BY <1>12 DEF Muted, PassAt, stateVars, fadeVars
  <2>2. passLevel = due BY <1>0, <2>1 DEF QuietInv, Lent
  <2> QED BY <1>0, <1>1, <2>1, <2>2 DEF WhoReturnsIt
<1>13. CASE StoodDown \/ LetsGo \/ LetsBe \/ Joined \/ Stops \/ StandsDown \/ StopsFading \/ Closes
  <2>1. pass' \in {"idle", "standing"} /\ note' = note
    BY <1>1, <1>13 DEF StoodDown, LetsGo, LetsBe, Joined, Stops, StandsDown, StopsFading, Closes, PassAt, Idle, stateVars,
       passVars, PassTypeOK
  <2>2. (\E f \in Fades : fadeAt'[f] = "saving") => \E f \in Fades : fadeAt[f] = "saving"
    <3>1. CASE StoodDown \/ LetsGo \/ LetsBe \/ Stops
      BY <3>1 DEF StoodDown, LetsGo, LetsBe, Stops, fadeVars
    <3>2. CASE Joined BY <1>1, <3>2 DEF Joined, FadeTypeOK, fadeVars
    <3>3. CASE StandsDown \/ StopsFading \/ Closes
      BY <3>3 DEF StandsDown, StopsFading, Closes, Cancelled, Alive
    <3> QED BY <1>13, <3>1, <3>2, <3>3
  <2> QED BY <1>1, <2>1, <2>2 DEF WhoReturnsIt
<1>14. CASE Stopped \/ Crashes
  <2>1. pass' = "idle" /\ note' = None BY <1>14 DEF Stopped, Crashes, Forgotten, Idle
  <2> QED BY <2>1 DEF WhoReturnsIt
<1>15. CASE Starts
  <2>1. pass' = "idle" /\ fadeAt' = fadeAt /\ ~Fading BY <1>15, StartsAgain DEF fadeVars
  <2>2. ~\E f \in Fades : fadeAt'[f] = "saving" BY <2>1 DEF Fading, Alive
  <2> QED BY <2>1, <2>2 DEF WhoReturnsIt
<1>16. CASE UNCHANGED vars BY <1>2, <1>16 DEF vars, stateVars, passVars, fadeVars
<1> QED
  BY <1>3, <1>4, <1>5, <1>6, <1>7, <1>8, <1>9, <1>10, <1>11, <1>12, <1>13, <1>14, <1>15, <1>16, QuietSteps
  DEF QuietPass, Ending

\* A run begins with the box on its level.
LEMMA QuietInit == OnlyUp /\ Init => QuietInv
<1> SUFFICES ASSUME OnlyUp, Init PROVE QuietInv OBVIOUS
<1>1. owed = 0 /\ vol \in Levels /\ Levels = 0 .. Top /\ Top \in Nat BY Scale DEF Init, OnlyUp
<1>2. due = vol
  <2>1. Stepped(vol, 0) = vol BY <1>1 DEF Stepped
  <2> QED BY <1>1, <2>1 DEF Init
<1>3. Saves = {State(None, 0)} BY <1>1 DEF Init, Saves
<1>4. \A f \in Fades : fadeAt[f] = "none" BY DEF Init
<1>5. {fails} \subseteq Nat BY DEF Init
<1>6. ItsOwn BY <1>1 DEF Init, ItsOwn
<1>7. SavesItsOwn BY <1>3 DEF SavesItsOwn, State
<1>8. FadesItsOwn BY <1>4 DEF FadesItsOwn, Alive
<1>9. Remembered BY <1>2 DEF Remembered
<1>10. Lent /\ WhoReturnsIt BY <1>4 DEF Init, Lent, WhoReturnsIt, MuteStands
<1> QED BY <1>5, <1>6, <1>7, <1>8, <1>9, <1>10 DEF QuietInv

\* Every step keeps a quiet run's invariant.
LEMMA QuietStep == OnlyUp /\ IInv /\ IInv' /\ QuietInv /\ [Next]_vars => QuietInv'
<1> SUFFICES ASSUME OnlyUp, IInv, IInv', QuietInv, [Next]_vars PROVE QuietInv' OBVIOUS
<1>0. FadeTypeOK' BY DEF IInv
<1>1. {fails'} \subseteq Nat
  <2>1. fails' = fails \/ fails' = fails + 1
    <3>1. CASE Around \/ StoreWrites \/ WriterStep \/ \E f \in Fades : FadeStep(f)
      BY <3>1
      DEF Around, BelongsChanges, SwitchChanges, Reported, HouseStep, StoreWrites, WriterStep, WriterTurns, WriterRead,
          WriterWrote, WriterGivesUp, FadeStep, FadeGoesOn, FadeClimbed, FadeBreaksOff, FadeLanded, FadeFailed,
          FadeSaved, FadeUndone, FadeUndoneFailed, Obeyed, Refused
    <3>2. CASE PassStep
      BY <3>2
      DEF PassStep, PassStarts, RescueTurn, Rescued, RescueFailed, PassGoesOn, StandsDown, StoodDown, LetsGo, LetsBe,
          TakesIn, ReadFailed, Noting, JoinsSilent, Muted, SilencedOnce, NotTurnedDown, Joined, JoinRefused, Returned,
          NotReturned, Obeyed, Refused
    <3>3. CASE Stops \/ Ending \/ Crashes \/ Over \/ UNCHANGED vars
      BY <3>3 DEF Stops, Ending, StopsFading, Closes, Stopped, Starts, Crashes, Forgotten, Over, vars
    <3> QED BY <3>1, <3>2, <3>3 DEF Next
  <2>2. fails \in Nat BY DEF QuietInv
  <2> QED BY <2>1, <2>2
<1>2. ASSUME Quiet' PROVE (ItsOwn /\ SavesItsOwn /\ FadesItsOwn /\ Remembered /\ Lent /\ WhoReturnsIt)'
  BY <1>0, <1>2, ItsOwnStep, FadesItsOwnStep, RememberedStep, LentStep, WhoReturnsItStep
<1> QED BY <1>1, <1>2 DEF QuietInv

\* "Faded back to the level it was on": a box that answered every call, in a
\* house that nobody turned, is on its level whenever nothing is under way -
\* whichever stop, crash or refused save ended a join half way.
THEOREM ItComesBackToItsLevel == OnlyUp => (Spec => []ComesBackToItsLevel)
<1> SUFFICES ASSUME OnlyUp PROVE Spec => []ComesBackToItsLevel OBVIOUS
<1>1. Init => QuietInv BY QuietInit
<1>2. IInv /\ IInv' /\ QuietInv /\ [Next]_vars => QuietInv' BY QuietStep
<1>3. IInv /\ QuietInv => ComesBackToItsLevel
  <2> SUFFICES ASSUME IInv, QuietInv, AtRest, Quiet PROVE Stepped(vol, owed) = due
    BY DEF ComesBackToItsLevel, Quiet
  <2>1. service = "up" /\ note = None BY DEF AtRest
  <2>2. vol = due BY <2>1, QuietLevel, Scale DEF QuietInv, Remembered
  <2> QED BY <2>2, QuietLevel
<1>4. Spec => []IInv BY InvariantHolds
<1> QED BY <1>1, <1>2, <1>3, <1>4, PTL DEF Spec
=============================================================================
