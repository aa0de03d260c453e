--------------------------- MODULE ZonePassProofs ---------------------------
(***************************************************************************)
(* Proofs about ZonePass for every number of boxes, acts, flips and        *)
(* faults: its types; that a box which holds our document is on the list;  *)
(* that a stop, wherever it lands, leaves no box in the zone unless a      *)
(* fault that leaves one behind has happened; and that a pass misses       *)
(* nobody who belongs.                                                     *)
(*                                                                         *)
(* Each part of the invariant has a lemma of its own: the steps that touch *)
(* what it speaks of are taken one by one, the others together.            *)
(***************************************************************************)
EXTENDS ZonePass, SequenceTheorems, TLAPS

USE DEF Acts, Does, Idle, Fault, OnlyBy, SlaveLeft, BeingTakenIn, PassOver,
        vars, belongingVars, boxVars, houseVars, passVars, zoneVars, counts

\* The parts of TypeOK.
BoxesTyped == plays \in [Boxes -> Sources] /\ said \in [Boxes -> Seq(Sources)]
CallsTyped == doing \in [Boxes -> {"nothing", "release", "select", "mute", "info", "join"}]
FlagsTyped == {on, wanted, station} \subseteq BOOLEAN
SetsTyped  == {bound, outs, joined, refused, open, dialling, believed, arriving, waiting, untold, slaves}
                \subseteq SUBSET Boxes
StageTyped ==
  /\ pass \in {"resting", "asking", "writing", "binding", "letting", "fetching", "taking", "backing",
               "saving", "dissolving", "ended"}
  /\ master \in {"none", "held", "going"} /\ life \in {"running", "stopping", "ended"}
  /\ quiet \subseteq refused
CountsTyped == acts \in 0 .. MaxActs /\ flips \in 0 .. MaxFlips /\ faults \in SUBSET Faults

Typed == BelongingTypeOK /\ BoxesTyped /\ CallsTyped /\ FlagsTyped /\ SetsTyped /\ StageTyped /\ CountsTyped

\* TypeOK is its parts, now and after the step.
LEMMA TypedInParts == (TypeOK <=> Typed) /\ (TypeOK' <=> Typed')
BY DEF TypeOK, Typed, BoxesTyped, CallsTyped, FlagsTyped, SetsTyped, StageTyped, CountsTyped

\* The service starts well typed.
LEMMA TypeInit == Init => TypeOK
<1> SUFFICES ASSUME Init PROVE TypeOK OBVIOUS
<1> USE DEF Init
<1>1. \A b \in Boxes : Restored(Unheard) \in Entries /\ Named(Unheard, plays[b]) \in Entries
  BY DEF Entries, Unheard, Named, Restored, Sources, NoSource, RadioNames
<1>2. BelongingTypeOK BY <1>1, PassAssumption DEF BelongingTypeOK
<1>3. BoxesTyped BY DEF BoxesTyped, Sources
<1>4. CallsTyped /\ FlagsTyped /\ SetsTyped BY DEF CallsTyped, FlagsTyped, SetsTyped
<1>5. StageTyped /\ CountsTyped BY PassAssumption DEF StageTyped, CountsTyped
<1> QED BY <1>2, <1>3, <1>4, <1>5, TypedInParts DEF Typed

\* A frame that names a source makes an entry of an entry.
LEMMA NamedTyped == \A h \in Entries, s \in Sources : Named(h, s) \in Entries
BY DEF Entries, Named, Sources, NoSource, RadioNames

\* So does a wake, and its end.
LEMMA WokenTyped == \A h \in Entries : Woken(h) \in Entries /\ [h EXCEPT !.waking = FALSE] \in Entries
BY DEF Entries, Woken

\* A frame sent is a source among those on their way.
LEMMA SaysTyped ==
  ASSUME TypeOK, NEW b \in Boxes, NEW s \in Sources, Says(b, s)
  PROVE  said' \in [Boxes -> Seq(Sources)]
<1>1. said \in [Boxes -> Seq(Sources)] /\ said[b] \in Seq(Sources) BY DEF TypeOK
<1>2. Append(said[b], s) \in Seq(Sources) BY <1>1, AppendProperties
<1> QED BY <1>1, <1>2 DEF Says

\* A frame read is one, and leaves frames.
LEMMA ReadTyped ==
  ASSUME TypeOK, NEW b \in Boxes, said[b] # <<>>
  PROVE  Head(said[b]) \in Sources /\ [said EXCEPT ![b] = Tail(@)] \in [Boxes -> Seq(Sources)]
<1>1. said \in [Boxes -> Seq(Sources)] /\ said[b] \in Seq(Sources) BY DEF TypeOK
<1>2. Head(said[b]) \in Sources /\ Tail(said[b]) \in Seq(Sources) BY <1>1, HeadTailProperties
<1> QED BY <1>1, <1>2

\* An entry heard of one box leaves the others.
LEMMA HeardTyped ==
  ASSUME BelongingTypeOK, NEW b \in Boxes, NEW h \in Entries, Observes(b, h)
  PROVE  BelongingTypeOK'
BY DEF BelongingTypeOK, Observes

\* Whatever is heard of a box is an entry of its own.
LEMMA BelongingTypedStep ==
  ASSUME TypeOK, BelongingTypeOK, [Next]_vars
  PROVE  BelongingTypeOK'
<1>b. \A b \in Boxes : heard[b] \in Entries BY DEF BelongingTypeOK
<1>0. ASSUME UNCHANGED <<heard, allowed>> PROVE BelongingTypeOK' BY <1>0 DEF BelongingTypeOK
<1>1. CASE ConsolesChange
  BY <1>1 DEF ConsolesChange, BelongingTypeOK
<1>2. ASSUME NEW b \in Boxes, Read(b) PROVE BelongingTypeOK'
  BY <1>2, <1>b, HeardTyped, NamedTyped, ReadTyped DEF Read
<1>3. ASSUME NEW b \in Boxes, PressRead(b) PROVE BelongingTypeOK'
  BY <1>3, <1>b, HeardTyped, WokenTyped DEF PressRead, Returns, BelongingTypeOK
<1>4. ASSUME NEW b \in Boxes, Booked(b) PROVE BelongingTypeOK'
  BY <1>4, <1>b, HeardTyped, WokenTyped DEF Booked, DialledOnItsOwn, HandedTheChannel, BelongingTypeOK
<1>5. ASSUME NEW b \in Boxes, WakeEnds(b) PROVE BelongingTypeOK'
  BY <1>5, <1>b, HeardTyped, WokenTyped DEF WakeEnds, BelongingTypeOK
<1>6. ASSUME NEW b \in Boxes,
             PowerOn(b) \/ PowerOff(b) \/ ToOther(b) \/ Digit(b) \/ InOrOut(b)
               \/ NumberDue(b) \/ QuietEnds(b) \/ LetGo(b) \/ Released(b) \/ OnItsOwn(b)
               \/ Muted(b) \/ InfoAnswered(b) \/ Joins(b) \/ Refuses(b) \/ Unsaved(b)
               \/ Told(b)
      PROVE  BelongingTypeOK'
  BY <1>0, <1>6
  DEF PowerOn, PowerOff, ToOther, Digit, InOrOut, NumberDue, QuietEnds, LetGo,
      Released, OnItsOwn, Muted, InfoAnswered, Joins, Refuses, Unsaved, Told,
      HandedTheChannel, Letting, Quitting, Obeys, Returns
<1>7. CASE SwitchFlips \/ Poll \/ Asked \/ Believe \/ WrittenDown \/ Bind \/ TakeIn
         \/ Fetched \/ TakenIn \/ BackedUp \/ Dissolve \/ Dissolved \/ End \/ Stop
  BY <1>0, <1>7
  DEF SwitchFlips, Poll, Asked, Believe, WrittenDown, Bind, TakeIn, Fetched, TakenIn,
      BackedUp, Dissolve, Dissolved, End, Stop, AfterTheCalls, Reached,
      Letting, Quitting, Sends, NewMaster, PortsBusy, Rest, Sends,
      WhoBelongs, TargetMembers
<1>8. CASE UNCHANGED vars BY <1>0, <1>8
<1> QED
  BY <1>1, <1>2, <1>3, <1>4, <1>5, <1>6, <1>7, <1>8
  DEF Next, People, CallStep, PassStep, AllDone

\* A box plays and says sources.
LEMMA BoxesTypedStep ==
  ASSUME TypeOK, BoxesTyped, [Next]_vars
  PROVE  BoxesTyped'
<1>a. "standby" \in Sources /\ "radio" \in Sources /\ "zone" \in Sources /\ "other" \in Sources
  BY DEF Sources
<1>0. ASSUME UNCHANGED <<plays, said>> PROVE BoxesTyped' BY <1>0 DEF BoxesTyped
<1>1. ASSUME NEW b \in Boxes, PowerOn(b) PROVE BoxesTyped'
  BY <1>1, <1>a, SaysTyped DEF PowerOn, BoxesTyped
<1>2. ASSUME NEW b \in Boxes, PowerOff(b) PROVE BoxesTyped'
  BY <1>2, <1>a, SaysTyped DEF PowerOff, BoxesTyped
<1>3. ASSUME NEW b \in Boxes, ToOther(b) PROVE BoxesTyped'
  BY <1>3, <1>a, SaysTyped DEF ToOther, BoxesTyped
<1>4. ASSUME NEW b \in Boxes, Digit(b) PROVE BoxesTyped'
  BY <1>4, <1>a, SaysTyped DEF Digit, BoxesTyped
<1>5. ASSUME NEW b \in Boxes, Read(b) PROVE BoxesTyped'
  BY <1>5, <1>a, ReadTyped DEF Read, BoxesTyped
<1>6. ASSUME NEW b \in Boxes, Booked(b) PROVE BoxesTyped'
  BY <1>6, <1>a, SaysTyped DEF Booked, DialledOnItsOwn, HandedTheChannel, BoxesTyped
<1>7. ASSUME NEW b \in Boxes, Released(b) PROVE BoxesTyped'
  BY <1>7, <1>a, SaysTyped DEF Released, BoxesTyped
<1>8. ASSUME NEW b \in Boxes, OnItsOwn(b) PROVE BoxesTyped'
  BY <1>8, <1>a, SaysTyped DEF OnItsOwn, HandedTheChannel, BoxesTyped
<1>9. ASSUME NEW b \in Boxes, Joins(b) PROVE BoxesTyped'
  BY <1>9, <1>a, SaysTyped DEF Joins, Obeys, BoxesTyped
<1>10. ASSUME NEW b \in Boxes, Refuses(b) PROVE BoxesTyped'
  BY <1>10, <1>a, SaysTyped DEF Refuses, Obeys, BoxesTyped
<1>11. ASSUME NEW b \in Boxes, Unsaved(b) PROVE BoxesTyped'
  <2>1. CASE life = "running"
    <3>1. said' = [x \in Boxes |-> <<>>] /\ plays' = plays BY <1>11, <2>1 DEF Unsaved
    <3>2. <<>> \in Seq(Sources) OBVIOUS
    <3> QED BY <3>1, <3>2 DEF BoxesTyped
  <2>2. CASE life # "running" BY <1>11, <2>2 DEF Unsaved, BoxesTyped
  <2> QED BY <2>1, <2>2
<1>12. ASSUME NEW b \in Boxes, Told(b) PROVE BoxesTyped'
  BY <1>12, <1>a, SaysTyped DEF Told, BoxesTyped
<1>13. CASE End
  BY <1>13, <1>a DEF End, AfterTheCalls, Reached, BoxesTyped
<1>14. CASE Stop
  BY <1>14, <1>a DEF Stop, AfterTheCalls, Reached, BoxesTyped
<1>15. ASSUME NEW b \in Boxes,
             InOrOut(b) \/ PressRead(b) \/ NumberDue(b) \/ WakeEnds(b) \/ QuietEnds(b)
               \/ LetGo(b) \/ Muted(b) \/ InfoAnswered(b)
      PROVE  BoxesTyped'
  BY <1>0, <1>15
  DEF InOrOut, PressRead, NumberDue, WakeEnds, QuietEnds, LetGo, Muted, InfoAnswered,
      Letting, Quitting, Returns
<1>16. CASE SwitchFlips \/ ConsolesChange \/ Poll \/ Asked \/ Believe \/ WrittenDown \/ Bind
         \/ TakeIn \/ Fetched \/ TakenIn \/ BackedUp \/ Dissolve \/ Dissolved
  BY <1>0, <1>16
  DEF SwitchFlips, ConsolesChange, Poll, Asked, Believe, WrittenDown, Bind, TakeIn,
      Fetched, TakenIn, BackedUp, Dissolve, Dissolved, Letting, Quitting, Sends,
      NewMaster, PortsBusy, Rest, Sends, WhoBelongs, TargetMembers
<1>17. CASE UNCHANGED vars BY <1>0, <1>17
<1> QED
  BY <1>1, <1>2, <1>3, <1>4, <1>5, <1>6, <1>7, <1>8, <1>9, <1>10, <1>11, <1>12, <1>13,
     <1>14, <1>15, <1>16, <1>17
  DEF Next, People, CallStep, PassStep, AllDone

\* One call at a time is made to a box.
LEMMA CallsTypedStep ==
  ASSUME CallsTyped, [Next]_vars
  PROVE  CallsTyped'
<1>0. ASSUME UNCHANGED <<doing>> PROVE CallsTyped' BY <1>0 DEF CallsTyped
<1>1. ASSUME NEW b \in Boxes, LetGo(b) PROVE CallsTyped'
  BY <1>1 DEF LetGo, Letting, Quitting, CallsTyped
<1>2. ASSUME NEW b \in Boxes, Released(b) PROVE CallsTyped'
  BY <1>2 DEF Released, CallsTyped
<1>3. ASSUME NEW b \in Boxes, OnItsOwn(b) PROVE CallsTyped'
  BY <1>3 DEF OnItsOwn, HandedTheChannel, CallsTyped
<1>4. CASE TakeIn
  BY <1>4 DEF TakeIn, Letting, Quitting, Sends, CallsTyped
<1>5. CASE Fetched
  BY <1>5 DEF Fetched, Sends, CallsTyped
<1>6. ASSUME NEW b \in Boxes, Muted(b) PROVE CallsTyped'
  BY <1>6 DEF Muted, CallsTyped
<1>7. ASSUME NEW b \in Boxes, InfoAnswered(b) PROVE CallsTyped'
  BY <1>7 DEF InfoAnswered, CallsTyped
<1>8. ASSUME NEW b \in Boxes, Joins(b) PROVE CallsTyped'
  BY <1>8 DEF Joins, Obeys, CallsTyped
<1>9. ASSUME NEW b \in Boxes, Refuses(b) PROVE CallsTyped'
  BY <1>9 DEF Refuses, Obeys, CallsTyped
<1>10. ASSUME NEW b \in Boxes, Unsaved(b) PROVE CallsTyped'
  BY <1>10 DEF Unsaved, CallsTyped
<1>11. CASE End
  BY <1>11 DEF End, AfterTheCalls, Reached, CallsTyped
<1>12. CASE Stop
  BY <1>12 DEF Stop, AfterTheCalls, Reached, CallsTyped
<1>13. ASSUME NEW b \in Boxes,
             PowerOn(b) \/ PowerOff(b) \/ ToOther(b) \/ Digit(b) \/ InOrOut(b) \/ Read(b)
               \/ PressRead(b) \/ NumberDue(b) \/ Booked(b) \/ WakeEnds(b) \/ QuietEnds(b)
               \/ Told(b)
      PROVE  CallsTyped'
  BY <1>0, <1>13
  DEF PowerOn, PowerOff, ToOther, Digit, InOrOut, Read, PressRead, NumberDue, Booked,
      WakeEnds, QuietEnds, Told, DialledOnItsOwn, HandedTheChannel, Returns
<1>14. CASE SwitchFlips \/ ConsolesChange \/ Poll \/ Asked \/ Believe \/ WrittenDown \/ Bind
         \/ TakenIn \/ BackedUp \/ Dissolve \/ Dissolved
  BY <1>0, <1>14
  DEF SwitchFlips, ConsolesChange, Poll, Asked, Believe, WrittenDown, Bind, TakenIn,
      BackedUp, Dissolve, Dissolved, NewMaster, PortsBusy, Rest,
      WhoBelongs, TargetMembers
<1>15. CASE UNCHANGED vars BY <1>0, <1>15
<1> QED
  BY <1>1, <1>2, <1>3, <1>4, <1>5, <1>6, <1>7, <1>8, <1>9, <1>10, <1>11, <1>12, <1>13,
     <1>14, <1>15
  DEF Next, People, CallStep, PassStep, AllDone

\* The flags are flags.
LEMMA FlagsTypedStep ==
  ASSUME FlagsTyped, [Next]_vars
  PROVE  FlagsTyped'
<1>0. ASSUME UNCHANGED <<on, wanted, station>> PROVE FlagsTyped' BY <1>0 DEF FlagsTyped
<1>1. ASSUME NEW b \in Boxes, InOrOut(b) PROVE FlagsTyped'
  BY <1>1 DEF InOrOut, Returns, FlagsTyped
<1>2. CASE SwitchFlips
  BY <1>2 DEF SwitchFlips, FlagsTyped
<1>3. CASE ConsolesChange
  BY <1>3 DEF ConsolesChange, FlagsTyped
<1>4. ASSUME NEW b \in Boxes, Read(b) PROVE FlagsTyped'
  BY <1>4 DEF Read, FlagsTyped
<1>5. ASSUME NEW b \in Boxes, PressRead(b) PROVE FlagsTyped'
  BY <1>5 DEF PressRead, Returns, FlagsTyped
<1>6. ASSUME NEW b \in Boxes, Booked(b) PROVE FlagsTyped'
  BY <1>6 DEF Booked, DialledOnItsOwn, HandedTheChannel, FlagsTyped
<1>7. CASE Poll
  BY <1>7 DEF Poll, FlagsTyped
<1>8. CASE Asked
  BY <1>8 DEF Asked, FlagsTyped
<1>9. CASE Bind
  BY <1>9 DEF Bind, NewMaster, PortsBusy, FlagsTyped
<1>10. CASE Fetched
  BY <1>10 DEF Fetched, Sends, FlagsTyped
<1>11. CASE BackedUp
  BY <1>11 DEF BackedUp, FlagsTyped
<1>12. CASE Dissolved
  BY <1>12 DEF Dissolved, Rest, FlagsTyped
<1>13. ASSUME NEW b \in Boxes,
             PowerOn(b) \/ PowerOff(b) \/ ToOther(b) \/ Digit(b) \/ NumberDue(b)
               \/ WakeEnds(b) \/ QuietEnds(b) \/ LetGo(b) \/ Released(b) \/ OnItsOwn(b)
               \/ Muted(b) \/ InfoAnswered(b) \/ Joins(b) \/ Refuses(b) \/ Unsaved(b)
               \/ Told(b)
      PROVE  FlagsTyped'
  BY <1>0, <1>13
  DEF PowerOn, PowerOff, ToOther, Digit, NumberDue, WakeEnds, QuietEnds, LetGo,
      Released, OnItsOwn, Muted, InfoAnswered, Joins, Refuses, Unsaved, Told,
      HandedTheChannel, Letting, Quitting, Obeys
<1>14. CASE Believe \/ WrittenDown \/ TakeIn \/ TakenIn \/ Dissolve \/ End \/ Stop
  BY <1>0, <1>14
  DEF Believe, WrittenDown, TakeIn, TakenIn, Dissolve, End, Stop,
      AfterTheCalls, Reached, Letting, Quitting, Sends, Rest,
      WhoBelongs, TargetMembers
<1>15. CASE UNCHANGED vars BY <1>0, <1>15
<1> QED
  BY <1>1, <1>2, <1>3, <1>4, <1>5, <1>6, <1>7, <1>8, <1>9, <1>10, <1>11, <1>12, <1>13,
     <1>14, <1>15
  DEF Next, People, CallStep, PassStep, AllDone

\* What the service keeps boxes in, it keeps boxes in.
LEMMA SetsTypedStep ==
  ASSUME SetsTyped, [Next]_vars
  PROVE  SetsTyped'
<1>0. ASSUME UNCHANGED <<bound, outs, joined, refused, open, dialling, believed, arriving, waiting, untold, slaves>> PROVE SetsTyped' BY <1>0 DEF SetsTyped
<1>1. ASSUME NEW b \in Boxes, PowerOff(b) PROVE SetsTyped'
  BY <1>1 DEF PowerOff, SetsTyped
<1>2. ASSUME NEW b \in Boxes, ToOther(b) PROVE SetsTyped'
  BY <1>2 DEF ToOther, SetsTyped
<1>3. ASSUME NEW b \in Boxes, Digit(b) PROVE SetsTyped'
  BY <1>3 DEF Digit, SetsTyped
<1>4. ASSUME NEW b \in Boxes, InOrOut(b) PROVE SetsTyped'
  BY <1>4 DEF InOrOut, Returns, SetsTyped
<1>5. ASSUME NEW b \in Boxes, PressRead(b) PROVE SetsTyped'
  BY <1>5 DEF PressRead, Returns, SetsTyped
<1>6. ASSUME NEW b \in Boxes, NumberDue(b) PROVE SetsTyped'
  BY <1>6 DEF NumberDue, SetsTyped
<1>7. ASSUME NEW b \in Boxes, Booked(b) PROVE SetsTyped'
  BY <1>7 DEF Booked, DialledOnItsOwn, HandedTheChannel, SetsTyped
<1>8. CASE Believe
  BY <1>8 DEF Believe, WhoBelongs, TargetMembers, SetsTyped
<1>9. CASE Bind
  BY <1>9 DEF Bind, NewMaster, PortsBusy, SetsTyped
<1>10. ASSUME NEW b \in Boxes, LetGo(b) PROVE SetsTyped'
  BY <1>10 DEF LetGo, Letting, Quitting, SetsTyped
<1>11. ASSUME NEW b \in Boxes, Released(b) PROVE SetsTyped'
  BY <1>11 DEF Released, SetsTyped
<1>12. CASE TakeIn
  BY <1>12 DEF TakeIn, Letting, Quitting, Sends, SetsTyped
<1>13. CASE Fetched
  BY <1>13 DEF Fetched, Sends, SetsTyped
<1>14. CASE BackedUp
  BY <1>14 DEF BackedUp, SetsTyped
<1>15. ASSUME NEW b \in Boxes, InfoAnswered(b) PROVE SetsTyped'
  BY <1>15 DEF InfoAnswered, SetsTyped
<1>16. ASSUME NEW b \in Boxes, Joins(b) PROVE SetsTyped'
  BY <1>16 DEF Joins, Obeys, SetsTyped
<1>17. ASSUME NEW b \in Boxes, Refuses(b) PROVE SetsTyped'
  BY <1>17 DEF Refuses, Obeys, SetsTyped
<1>18. CASE Dissolve
  BY <1>18 DEF Dissolve, Rest, SetsTyped
<1>19. ASSUME NEW b \in Boxes, Told(b) PROVE SetsTyped'
  BY <1>19 DEF Told, SetsTyped
<1>20. CASE Dissolved
  BY <1>20 DEF Dissolved, Rest, SetsTyped
<1>21. CASE End
  BY <1>21 DEF End, AfterTheCalls, Reached, SetsTyped
<1>22. CASE Stop
  BY <1>22 DEF Stop, AfterTheCalls, Reached, SetsTyped
<1>23. ASSUME NEW b \in Boxes,
             PowerOn(b) \/ Read(b) \/ WakeEnds(b) \/ QuietEnds(b) \/ OnItsOwn(b) \/ Muted(b)
               \/ Unsaved(b)
      PROVE  SetsTyped'
  BY <1>0, <1>23
  DEF PowerOn, Read, WakeEnds, QuietEnds, OnItsOwn, Muted, Unsaved, HandedTheChannel
<1>24. CASE SwitchFlips \/ ConsolesChange \/ Poll \/ Asked \/ WrittenDown \/ TakenIn
  BY <1>0, <1>24
  DEF SwitchFlips, ConsolesChange, Poll, Asked, WrittenDown, TakenIn
<1>25. CASE UNCHANGED vars BY <1>0, <1>25
<1> QED
  BY <1>1, <1>2, <1>3, <1>4, <1>5, <1>6, <1>7, <1>8, <1>9, <1>10, <1>11, <1>12, <1>13,
     <1>14, <1>15, <1>16, <1>17, <1>18, <1>19, <1>20, <1>21, <1>22, <1>23, <1>24,
     <1>25
  DEF Next, People, CallStep, PassStep, AllDone

\* A box inside its quiet time has refused.
LEMMA StageTypedStep ==
  ASSUME StageTyped, [Next]_vars
  PROVE  StageTyped'
<1>0. ASSUME UNCHANGED <<pass, master, life, quiet, refused>> PROVE StageTyped' BY <1>0 DEF StageTyped
<1>1. ASSUME NEW b \in Boxes, QuietEnds(b) PROVE StageTyped'
  BY <1>1 DEF QuietEnds, StageTyped
<1>2. CASE Asked
  BY <1>2 DEF Asked, StageTyped
<1>3. CASE Believe
  BY <1>3 DEF Believe, WhoBelongs, TargetMembers, StageTyped
<1>4. CASE WrittenDown
  BY <1>4 DEF WrittenDown, StageTyped
<1>5. CASE Bind
  BY <1>5 DEF Bind, NewMaster, PortsBusy, StageTyped
<1>6. CASE TakeIn
  BY <1>6 DEF TakeIn, Letting, Quitting, Sends, StageTyped
<1>7. CASE Fetched
  BY <1>7 DEF Fetched, Sends, StageTyped
<1>8. CASE TakenIn
  BY <1>8 DEF TakenIn, StageTyped
<1>9. CASE BackedUp
  BY <1>9 DEF BackedUp, StageTyped
<1>10. ASSUME NEW b \in Boxes, Joins(b) PROVE StageTyped'
  BY <1>10 DEF Joins, Obeys, StageTyped
<1>11. ASSUME NEW b \in Boxes, Refuses(b) PROVE StageTyped'
  BY <1>11 DEF Refuses, Obeys, StageTyped
<1>12. ASSUME NEW b \in Boxes, Unsaved(b) PROVE StageTyped'
  BY <1>12 DEF Unsaved, StageTyped
<1>13. CASE Dissolve
  BY <1>13 DEF Dissolve, Rest, StageTyped
<1>14. CASE Dissolved
  BY <1>14 DEF Dissolved, Rest, StageTyped
<1>15. CASE End
  BY <1>15 DEF End, AfterTheCalls, Reached, StageTyped
<1>16. CASE Stop
  BY <1>16 DEF Stop, AfterTheCalls, Reached, StageTyped
<1>17. ASSUME NEW b \in Boxes,
             PowerOn(b) \/ PowerOff(b) \/ ToOther(b) \/ Digit(b) \/ InOrOut(b) \/ Read(b)
               \/ PressRead(b) \/ NumberDue(b) \/ Booked(b) \/ WakeEnds(b) \/ LetGo(b)
               \/ Released(b) \/ OnItsOwn(b) \/ Muted(b) \/ InfoAnswered(b) \/ Told(b)
      PROVE  StageTyped'
  BY <1>0, <1>17
  DEF PowerOn, PowerOff, ToOther, Digit, InOrOut, Read, PressRead, NumberDue, Booked,
      WakeEnds, LetGo, Released, OnItsOwn, Muted, InfoAnswered, Told,
      DialledOnItsOwn, HandedTheChannel, HandedTheChannel, Letting, Quitting, Returns
<1>18. CASE SwitchFlips \/ ConsolesChange \/ Poll
  BY <1>0, <1>18
  DEF SwitchFlips, ConsolesChange, Poll
<1>19. CASE UNCHANGED vars BY <1>0, <1>19
<1> QED
  BY <1>1, <1>2, <1>3, <1>4, <1>5, <1>6, <1>7, <1>8, <1>9, <1>10, <1>11, <1>12, <1>13,
     <1>14, <1>15, <1>16, <1>17, <1>18, <1>19
  DEF Next, People, CallStep, PassStep, AllDone

\* People, the switch and the faults keep their bounds.
LEMMA CountsTypedStep ==
  ASSUME CountsTyped, [Next]_vars
  PROVE  CountsTyped'
<1>0. ASSUME UNCHANGED <<acts, flips, faults>> PROVE CountsTyped' BY <1>0 DEF CountsTyped
<1>1. ASSUME NEW b \in Boxes, PowerOn(b) PROVE CountsTyped'
  BY <1>1, PassAssumption DEF PowerOn, CountsTyped
<1>2. ASSUME NEW b \in Boxes, PowerOff(b) PROVE CountsTyped'
  BY <1>2, PassAssumption DEF PowerOff, CountsTyped
<1>3. ASSUME NEW b \in Boxes, ToOther(b) PROVE CountsTyped'
  BY <1>3, PassAssumption DEF ToOther, CountsTyped
<1>4. ASSUME NEW b \in Boxes, Digit(b) PROVE CountsTyped'
  BY <1>4, PassAssumption DEF Digit, CountsTyped
<1>5. ASSUME NEW b \in Boxes, InOrOut(b) PROVE CountsTyped'
  BY <1>5, PassAssumption DEF InOrOut, Returns, CountsTyped
<1>6. CASE SwitchFlips
  BY <1>6, PassAssumption DEF SwitchFlips, CountsTyped
<1>7. CASE ConsolesChange
  BY <1>7, PassAssumption DEF ConsolesChange, CountsTyped
<1>8. ASSUME NEW b \in Boxes, Read(b) PROVE CountsTyped'
  BY <1>8, PassAssumption DEF Read, CountsTyped
<1>9. ASSUME NEW b \in Boxes, PressRead(b) PROVE CountsTyped'
  BY <1>9, PassAssumption DEF PressRead, Returns, CountsTyped
<1>10. CASE Bind
  BY <1>10, PassAssumption DEF Bind, NewMaster, PortsBusy, CountsTyped
<1>11. ASSUME NEW b \in Boxes, Released(b) PROVE CountsTyped'
  BY <1>11, PassAssumption DEF Released, CountsTyped
<1>12. CASE TakeIn
  BY <1>12, PassAssumption DEF TakeIn, Letting, Quitting, Sends, CountsTyped
<1>13. CASE Fetched
  BY <1>13, PassAssumption DEF Fetched, Sends, CountsTyped
<1>14. ASSUME NEW b \in Boxes, Refuses(b) PROVE CountsTyped'
  BY <1>14, PassAssumption DEF Refuses, Obeys, CountsTyped
<1>15. ASSUME NEW b \in Boxes, Unsaved(b) PROVE CountsTyped'
  BY <1>15, PassAssumption DEF Unsaved, CountsTyped
<1>16. ASSUME NEW b \in Boxes, Told(b) PROVE CountsTyped'
  BY <1>16, PassAssumption DEF Told, CountsTyped
<1>17. ASSUME NEW b \in Boxes,
             NumberDue(b) \/ Booked(b) \/ WakeEnds(b) \/ QuietEnds(b) \/ LetGo(b)
               \/ OnItsOwn(b) \/ Muted(b) \/ InfoAnswered(b) \/ Joins(b)
      PROVE  CountsTyped'
  BY <1>0, <1>17
  DEF NumberDue, Booked, WakeEnds, QuietEnds, LetGo, OnItsOwn, Muted, InfoAnswered,
      Joins, DialledOnItsOwn, HandedTheChannel, HandedTheChannel, Letting, Quitting,
      Obeys
<1>18. CASE Poll \/ Asked \/ Believe \/ WrittenDown \/ TakenIn \/ BackedUp \/ Dissolve
         \/ Dissolved \/ End \/ Stop
  BY <1>0, <1>18
  DEF Poll, Asked, Believe, WrittenDown, TakenIn, BackedUp, Dissolve, Dissolved, End,
      Stop, AfterTheCalls, Reached, Rest, WhoBelongs, TargetMembers
<1>19. CASE UNCHANGED vars BY <1>0, <1>19
<1> QED
  BY <1>1, <1>2, <1>3, <1>4, <1>5, <1>6, <1>7, <1>8, <1>9, <1>10, <1>11, <1>12, <1>13,
     <1>14, <1>15, <1>16, <1>17, <1>18, <1>19
  DEF Next, People, CallStep, PassStep, AllDone

\* Every step keeps every type.
LEMMA TypeStep == TypeOK /\ [Next]_vars => TypeOK'
<1> SUFFICES ASSUME TypeOK, [Next]_vars PROVE Typed' BY TypedInParts
<1>1. BelongingTypeOK /\ BoxesTyped /\ CallsTyped /\ FlagsTyped /\ SetsTyped /\ StageTyped /\ CountsTyped
  BY TypedInParts DEF Typed
<1>2. BelongingTypeOK' /\ BoxesTyped' BY <1>1, BelongingTypedStep, BoxesTypedStep
<1>3. CallsTyped' /\ FlagsTyped' /\ SetsTyped' BY <1>1, CallsTypedStep, FlagsTypedStep, SetsTypedStep
<1>4. StageTyped' /\ CountsTyped' BY <1>1, StageTypedStep, CountsTypedStep
<1> QED BY <1>2, <1>3, <1>4 DEF Typed

-----------------------------------------------------------------------------
(* What the faults, and the frames on their way, are told apart by *)

Harmless == faults \cap LeftBehind = {}
Running  == life = "running"

\* A fault that has happened has happened, and what leaves a box behind is not harmless.
LEMMA FaultsOnlyGrow ==
  ASSUME TypeOK, [Next]_vars, Harmless'
  PROVE  Harmless
<1>1. faults \subseteq faults'
  <2> USE DEF Next, People, CallStep, PassStep, AllDone
  <2>1. CASE UNCHANGED faults BY <2>1
  <2>2. CASE \E k \in Faults : faults' = faults \cup {k} BY <2>2
  <2> QED
    BY <2>1, <2>2 DEF
         PowerOn, PowerOff, ToOther, Digit, InOrOut, Returns, SwitchFlips, ConsolesChange, Read, PressRead,
         NumberDue, Booked, WakeEnds, QuietEnds, Poll, Released, OnItsOwn, Muted, InfoAnswered, Joins, Refuses,
         Unsaved, Told, Asked, Believe, WrittenDown, Bind, NewMaster, PortsBusy, TakeIn, Sends, Fetched, TakenIn,
         BackedUp, LetGo, Dissolve, Dissolved, End, Stop
<1> QED BY <1>1 DEF Harmless


-----------------------------------------------------------------------------
(* The frames on their way to us *)

\* A frame that is sent comes last, and the others stay where they are.
LEMMA SaidLast ==
  ASSUME TypeOK, Running, NEW b \in Boxes, NEW s \in Sources, Says(b, s)
  PROVE  /\ Len(said'[b]) = Len(said[b]) + 1 /\ said'[b] # <<>>
         /\ said'[b][Len(said[b]) + 1] = s
         /\ \A i \in 1 .. Len(said[b]) : said'[b][i] = said[b][i]
         /\ \A c \in Boxes \ {b} : said'[c] = said[c]
<1>1. said \in [Boxes -> Seq(Sources)] /\ said[b] \in Seq(Sources) BY DEF TypeOK
<1>2. said'[b] = Append(said[b], s) /\ \A c \in Boxes \ {b} : said'[c] = said[c]
  BY <1>1 DEF Says, Running
<1> QED BY <1>1, <1>2, AppendProperties

\* A frame that is read was the first, and the others move up.
LEMMA ReadFirst ==
  ASSUME TypeOK, NEW b \in Boxes, said[b] # <<>>, said' = [said EXCEPT ![b] = Tail(@)]
  PROVE  /\ Head(said[b]) = said[b][1] /\ Len(said[b]) \in Nat \ {0}
         /\ Len(said'[b]) = Len(said[b]) - 1
         /\ said'[b] = <<>> <=> Len(said[b]) = 1
         /\ \A i \in 1 .. Len(said[b]) - 1 : said'[b][i] = said[b][i + 1]
         /\ \A c \in Boxes \ {b} : said'[c] = said[c]
<1>1. said \in [Boxes -> Seq(Sources)] /\ said[b] \in Seq(Sources) BY DEF TypeOK
<1>2. said'[b] = Tail(said[b]) /\ \A c \in Boxes \ {b} : said'[c] = said[c] BY <1>1
<1>3. Len(said[b]) \in Nat \ {0} BY <1>1, EmptySeq
<1>4. /\ Tail(said[b]) \in Seq(Sources) /\ Len(Tail(said[b])) = Len(said[b]) - 1
      /\ \A i \in 1 .. Len(Tail(said[b])) : Tail(said[b])[i] = said[b][i + 1]
  BY <1>1, HeadTailProperties
<1>5. Tail(said[b]) = <<>> <=> Len(said[b]) = 1
  <2>1. ASSUME NEW t \in Seq(Sources) PROVE t = <<>> <=> Len(t) = 0 BY EmptySeq
  <2>2. Len(said[b]) = 1 <=> Len(said[b]) - 1 = 0 BY <1>3
  <2> QED BY <1>4, <2>1, <2>2
<1>6. Head(said[b]) = said[b][1] BY <1>1
<1> QED BY <1>2, <1>3, <1>4, <1>5, <1>6

\* A box holds our document exactly while it plays the zone.
PlaysZone == bound = {b \in Boxes : plays[b] = "zone"}

\* A member of the last run is remembered until it names a source.
Nameless == \A b \in Boxes : heard[b].remembered => heard[b].source = NoSource

\* The last frame a box sent says what it plays; read, it is what the box is
\* heard to play, unless nothing was heard of it but that it was a member.
LastWord ==
  Running => \A b \in Boxes :
    /\ said[b] = <<>> => heard[b].source = plays[b] \/ heard[b].remembered
    /\ said[b] # <<>> => said[b][Len(said[b])] = plays[b]

\* A box that has said "zone" says something else than its own station after it.
InTurn ==
  Running => \A b \in Boxes :
    /\ heard[b].source = "zone" /\ said[b] # <<>> => said[b][1] # "radio"
    /\ \A i \in 1 .. Len(said[b]) - 1 : said[b][i] = "zone" => said[b][i + 1] # "radio"

\* A wake that is marked, or is over, leaves the source as it was.
LEMMA WokenSource ==
  ASSUME TypeOK, NEW b \in Boxes, NEW h \in {Woken(heard[b]), [heard[b] EXCEPT !.waking = FALSE]}, Observes(b, h)
  PROVE  \A c \in Boxes : heard'[c].source = heard[c].source /\ heard'[c].remembered = heard[c].remembered
BY DEF TypeOK, BelongingTypeOK, Entries, Observes, Woken

\* Every step that binds a box has it play the zone, and every other leaves or frees it.
LEMMA PlaysZoneStep ==
  ASSUME TypeOK, PlaysZone, [Next]_vars
  PROVE  PlaysZone'
<1>0. ASSUME UNCHANGED <<plays, bound>> PROVE PlaysZone' BY <1>0 DEF PlaysZone
<1>1. ASSUME NEW b \in Boxes, PowerOn(b) PROVE PlaysZone'
  BY <1>1, PassAssumption DEF PowerOn, PlaysZone, TypeOK, Sources, Says
<1>2. ASSUME NEW b \in Boxes, PowerOff(b) PROVE PlaysZone'
  BY <1>2, PassAssumption DEF PowerOff, PlaysZone, TypeOK, Sources, Says
<1>3. ASSUME NEW b \in Boxes, ToOther(b) PROVE PlaysZone'
  BY <1>3 DEF ToOther, PlaysZone, TypeOK, RadioNames, Sources
<1>4. ASSUME NEW b \in Boxes, Digit(b) PROVE PlaysZone'
  BY <1>4, PassAssumption DEF Digit, PlaysZone, TypeOK, Sources, Says
<1>5. ASSUME NEW b \in Boxes, Booked(b) PROVE PlaysZone'
  BY <1>5, PassAssumption DEF Booked, DialledOnItsOwn, HandedTheChannel, PlaysZone, TypeOK, Sources, Says
<1>6. ASSUME NEW b \in Boxes, Released(b) PROVE PlaysZone'
  BY <1>6, PassAssumption DEF Released, PlaysZone, TypeOK, Sources, Says
<1>7. ASSUME NEW b \in Boxes, OnItsOwn(b) PROVE PlaysZone'
  BY <1>7, PassAssumption DEF OnItsOwn, HandedTheChannel, PlaysZone, TypeOK, Sources, Says
<1>8. ASSUME NEW b \in Boxes, Joins(b) PROVE PlaysZone'
  BY <1>8, PassAssumption DEF Joins, Obeys, PlaysZone, TypeOK, Sources, Says
<1>9. ASSUME NEW b \in Boxes, Refuses(b) PROVE PlaysZone'
  BY <1>9, PassAssumption DEF Refuses, Obeys, PlaysZone, TypeOK, Sources, Says
<1>10. ASSUME NEW b \in Boxes, Told(b) PROVE PlaysZone'
  BY <1>10, PassAssumption DEF Told, PlaysZone, TypeOK, Sources, Says
<1>11. CASE End
  BY <1>11 DEF End, AfterTheCalls, Reached, PlaysZone, TypeOK
<1>12. CASE Stop
  BY <1>12 DEF Stop, AfterTheCalls, Reached, PlaysZone, TypeOK
<1>13. ASSUME NEW b \in Boxes,
             InOrOut(b) \/ Read(b) \/ PressRead(b) \/ NumberDue(b) \/ WakeEnds(b)
               \/ QuietEnds(b) \/ LetGo(b) \/ Muted(b) \/ InfoAnswered(b) \/ Unsaved(b)
      PROVE  PlaysZone'
  BY <1>0, <1>13
  DEF InOrOut, Read, PressRead, NumberDue, WakeEnds, QuietEnds, LetGo, Muted,
      InfoAnswered, Unsaved, Letting, Quitting, Returns
<1>14. CASE SwitchFlips \/ ConsolesChange \/ Poll \/ Asked \/ Believe \/ WrittenDown \/ Bind
         \/ TakeIn \/ Fetched \/ TakenIn \/ BackedUp \/ Dissolve \/ Dissolved
  BY <1>0, <1>14
  DEF SwitchFlips, ConsolesChange, Poll, Asked, Believe, WrittenDown, Bind, TakeIn,
      Fetched, TakenIn, BackedUp, Dissolve, Dissolved, Letting, Quitting, Sends,
      NewMaster, PortsBusy, Rest, Sends, WhoBelongs, TargetMembers
<1>15. CASE UNCHANGED vars BY <1>0, <1>15
<1> QED
  BY <1>1, <1>2, <1>3, <1>4, <1>5, <1>6, <1>7, <1>8, <1>9, <1>10, <1>11, <1>12, <1>13,
     <1>14, <1>15
  DEF Next, People, CallStep, PassStep, AllDone

\* Only a frame that names a source changes the source, and it ends the remembrance.
LEMMA NamelessStep ==
  ASSUME TypeOK, Nameless, [Next]_vars
  PROVE  Nameless'
<1>0. ASSUME UNCHANGED <<heard>> PROVE Nameless' BY <1>0 DEF Nameless
<1>1. ASSUME NEW b \in Boxes, Read(b) PROVE Nameless'
  <2>1. Observes(b, Named(heard[b], Head(said[b]))) BY <1>1 DEF Read
  <2> QED BY <2>1 DEF Observes, Named, Nameless, TypeOK, BelongingTypeOK
<1>2. ASSUME NEW b \in Boxes, PressRead(b) PROVE Nameless'
  <2>1. CASE UNCHANGED heard BY <1>0, <2>1
  <2>2. CASE Observes(b, Woken(heard[b]))
    <3>1. \A c \in Boxes : heard'[c].source = heard[c].source /\ heard'[c].remembered = heard[c].remembered
      BY <2>2, WokenSource
    <3> QED BY <3>1 DEF Nameless
  <2> QED BY <1>2, <2>1, <2>2 DEF PressRead, Returns
<1>3. ASSUME NEW b \in Boxes, Booked(b) PROVE Nameless'
  <2>1. CASE UNCHANGED heard BY <1>0, <2>1
  <2>2. CASE Observes(b, Woken(heard[b]))
    <3>1. \A c \in Boxes : heard'[c].source = heard[c].source /\ heard'[c].remembered = heard[c].remembered
      BY <2>2, WokenSource
    <3> QED BY <3>1 DEF Nameless
  <2> QED BY <1>3, <2>1, <2>2 DEF Booked, DialledOnItsOwn, HandedTheChannel
<1>4. ASSUME NEW b \in Boxes, WakeEnds(b) PROVE Nameless'
  <2>1. \A c \in Boxes : heard'[c].source = heard[c].source /\ heard'[c].remembered = heard[c].remembered
    BY <1>4, WokenSource DEF WakeEnds
  <2> QED BY <2>1 DEF Nameless
<1>5. ASSUME NEW b \in Boxes,
             PowerOn(b) \/ PowerOff(b) \/ ToOther(b) \/ Digit(b) \/ InOrOut(b)
               \/ NumberDue(b) \/ QuietEnds(b) \/ LetGo(b) \/ Released(b) \/ OnItsOwn(b)
               \/ Muted(b) \/ InfoAnswered(b) \/ Joins(b) \/ Refuses(b) \/ Unsaved(b)
               \/ Told(b)
      PROVE  Nameless'
  BY <1>0, <1>5
  DEF PowerOn, PowerOff, ToOther, Digit, InOrOut, NumberDue, QuietEnds, LetGo,
      Released, OnItsOwn, Muted, InfoAnswered, Joins, Refuses, Unsaved, Told,
      HandedTheChannel, Letting, Quitting, Obeys, Returns
<1>6. CASE SwitchFlips \/ ConsolesChange \/ Poll \/ Asked \/ Believe \/ WrittenDown \/ Bind
         \/ TakeIn \/ Fetched \/ TakenIn \/ BackedUp \/ Dissolve \/ Dissolved \/ End
         \/ Stop
  BY <1>0, <1>6
  DEF SwitchFlips, ConsolesChange, Poll, Asked, Believe, WrittenDown, Bind, TakeIn,
      Fetched, TakenIn, BackedUp, Dissolve, Dissolved, End, Stop,
      AfterTheCalls, Reached, Letting, Quitting, Sends, NewMaster, PortsBusy, Rest,
      Sends, WhoBelongs, TargetMembers
<1>7. CASE UNCHANGED vars BY <1>0, <1>7
<1> QED
  BY <1>1, <1>2, <1>3, <1>4, <1>5, <1>6, <1>7
  DEF Next, People, CallStep, PassStep, AllDone


\* A box that does something, and says so, is heard to play that in the end.
LEMMA LastWordSaid ==
  ASSUME TypeOK, LastWord, NEW b \in Boxes, NEW s \in Sources, Says(b, s),
         plays' = [plays EXCEPT ![b] = s], UNCHANGED <<heard, life>>
  PROVE  LastWord'
<1> SUFFICES ASSUME Running, NEW c \in Boxes
             PROVE  /\ said'[c] = <<>> => heard[c].source = plays'[c] \/ heard[c].remembered
                    /\ said'[c] # <<>> => said'[c][Len(said'[c])] = plays'[c]
  BY DEF LastWord, Running
<1>1. CASE c = b
  <2>1. said'[b] # <<>> /\ said'[b][Len(said'[b])] = s
    <3>1. Len(said'[b]) = Len(said[b]) + 1 /\ said'[b] # <<>> /\ said'[b][Len(said[b]) + 1] = s BY SaidLast
    <3> QED BY <3>1
  <2>2. plays'[b] = s BY DEF TypeOK
  <2> QED BY <1>1, <2>1, <2>2
<1>2. CASE c # b
  <2>1. said'[c] = said[c] BY <1>2, SaidLast
  <2>2. plays'[c] = plays[c] BY <1>2 DEF TypeOK
  <2> QED BY <2>1, <2>2 DEF LastWord
<1> QED BY <1>1, <1>2

\* A box that says it plays its own station did not play the zone before.
LEMMA InTurnSaid ==
  ASSUME TypeOK, LastWord, Nameless, InTurn, NEW b \in Boxes, NEW s \in Sources, Says(b, s),
         s = "radio" => plays[b] # "zone", UNCHANGED <<heard, life>>
  PROVE  InTurn'
<1> SUFFICES ASSUME Running, NEW c \in Boxes
             PROVE  /\ heard[c].source = "zone" /\ said'[c] # <<>> => said'[c][1] # "radio"
                    /\ \A i \in 1 .. Len(said'[c]) - 1 : said'[c][i] = "zone" => said'[c][i + 1] # "radio"
  BY DEF InTurn, Running
<1>1. CASE c = b
  <2>1. /\ Len(said'[b]) = Len(said[b]) + 1 /\ said'[b][Len(said[b]) + 1] = s
        /\ \A i \in 1 .. Len(said[b]) : said'[b][i] = said[b][i]
    BY SaidLast
  <2>2. said[b] \in Seq(Sources) /\ Len(said[b]) \in Nat BY DEF TypeOK
  <2>3. CASE said[b] = <<>>
    <3>1. Len(said[b]) = 0 /\ said'[b][1] = s BY <2>1, <2>3
    <3>2. heard[b].source = "zone" => plays[b] = "zone"
      BY <2>3 DEF LastWord, Nameless, NoSource
    <3> QED BY <1>1, <2>1, <3>1, <3>2
  <2>4. CASE said[b] # <<>>
    <3>1. Len(said[b]) \in Nat \ {0} BY <2>2, <2>4, EmptySeq
    <3>2. said'[b][1] = said[b][1] BY <2>1, <3>1
    <3>3. heard[b].source = "zone" => said[b][1] # "radio" BY <2>4 DEF InTurn
    <3>4. said[b][Len(said[b])] = plays[b] BY <2>4 DEF LastWord
    <3>5. ASSUME NEW i \in 1 .. Len(said[b]), said[b][i] = "zone" PROVE said'[b][i + 1] # "radio"
      <4>1. CASE i = Len(said[b]) BY <2>1, <3>4, <3>5, <4>1
      <4>2. CASE i # Len(said[b])
        <5>1. i \in 1 .. Len(said[b]) - 1 /\ i + 1 \in 1 .. Len(said[b]) BY <3>1, <4>2
        <5>2. said[b][i + 1] # "radio" BY <3>5, <5>1 DEF InTurn
        <5> QED BY <2>1, <5>1, <5>2
      <4> QED BY <4>1, <4>2
    <3>6. \A i \in 1 .. Len(said'[b]) - 1 : said'[b][i] = "zone" => said'[b][i + 1] # "radio"
      BY <2>1, <3>1, <3>5
    <3> QED BY <1>1, <3>2, <3>3, <3>6
  <2> QED BY <2>3, <2>4
<1>2. CASE c # b
  <2>1. said'[c] = said[c] BY <1>2, SaidLast
  <2> QED BY <2>1 DEF InTurn
<1> QED BY <1>1, <1>2

\* Whoever does something at a box, or calls it, what it says last is what it plays.
LEMMA LastWordStep ==
  ASSUME TypeOK, PlaysZone, Nameless, LastWord, [Next]_vars
  PROVE  LastWord'
<1>0. ASSUME UNCHANGED <<plays, said, heard, life>> PROVE LastWord' BY <1>0 DEF LastWord, Running
<1>1. ASSUME NEW b \in Boxes, PowerOn(b) PROVE LastWord'
  <2>1. "radio" \in Sources BY DEF Sources
  <2> QED BY <1>1, <2>1, LastWordSaid DEF PowerOn
<1>2. ASSUME NEW b \in Boxes, PowerOff(b) PROVE LastWord'
  <2>1. "standby" \in Sources BY DEF Sources
  <2> QED BY <1>2, <2>1, LastWordSaid DEF PowerOff
<1>3. ASSUME NEW b \in Boxes, ToOther(b) PROVE LastWord'
  <2>1. "other" \in Sources BY DEF Sources
  <2> QED BY <1>3, <2>1, LastWordSaid DEF ToOther
<1>4. ASSUME NEW b \in Boxes, Digit(b) PROVE LastWord'
  <2>1. CASE UNCHANGED <<plays, said>> BY <1>0, <1>4, <2>1 DEF Digit
  <2>2. CASE b \notin bound /\ plays' = [plays EXCEPT ![b] = "radio"] /\ Says(b, "radio")
    <3>1. "radio" \in Sources /\ plays[b] # "zone" BY <2>2 DEF Sources, PlaysZone
    <3> QED BY <1>4, <2>2, <3>1, LastWordSaid DEF Digit
  <2> QED BY <1>4, <2>1, <2>2 DEF Digit
<1>5. ASSUME NEW b \in Boxes, Read(b) PROVE LastWord'
  <2>1. /\ Observes(b, Named(heard[b], Head(said[b]))) /\ said[b] # <<>>
        /\ said' = [said EXCEPT ![b] = Tail(@)] /\ UNCHANGED <<plays, life>>
    BY <1>5 DEF Read
  <2>2. /\ Head(said[b]) = said[b][1] /\ Len(said[b]) \in Nat \ {0} /\ Len(said'[b]) = Len(said[b]) - 1
        /\ said'[b] = <<>> <=> Len(said[b]) = 1
        /\ \A i \in 1 .. Len(said[b]) - 1 : said'[b][i] = said[b][i + 1]
        /\ \A c \in Boxes \ {b} : said'[c] = said[c]
    BY <2>1, ReadFirst
  <2>3. heard'[b].source = said[b][1] /\ \A c \in Boxes \ {b} : heard'[c] = heard[c]
    BY <2>1, <2>2 DEF TypeOK, BelongingTypeOK, Observes, Named
  <2> SUFFICES ASSUME Running, NEW c \in Boxes
               PROVE  /\ said'[c] = <<>> => heard'[c].source = plays'[c] \/ heard'[c].remembered
                      /\ said'[c] # <<>> => said'[c][Len(said'[c])] = plays'[c]
    BY <2>1 DEF LastWord, Running
  <2>4. CASE c = b
    <3>1. said[b][Len(said[b])] = plays[b] BY <2>1 DEF LastWord
    <3>2. CASE Len(said[b]) = 1 BY <2>1, <2>2, <2>3, <2>4, <3>1, <3>2
    <3>3. CASE Len(said[b]) # 1
      <4>1. said'[b][Len(said[b]) - 1] = said[b][Len(said[b])] BY <2>2, <3>3
      <4> QED BY <2>1, <2>2, <2>4, <3>1, <3>3, <4>1
    <3> QED BY <3>2, <3>3
  <2>5. CASE c # b BY <2>1, <2>2, <2>3, <2>5 DEF LastWord
  <2> QED BY <2>4, <2>5
<1>6. ASSUME NEW b \in Boxes, PressRead(b) PROVE LastWord'
  <2>1. CASE Observes(b, Woken(heard[b]))
    <3>1. \A c \in Boxes : heard'[c].source = heard[c].source /\ heard'[c].remembered = heard[c].remembered
      BY <2>1, WokenSource
    <3> QED BY <1>6, <2>1, <3>1 DEF PressRead, Returns, LastWord, Running
  <2>2. CASE UNCHANGED heard BY <1>0, <1>6, <2>2 DEF PressRead, Returns
  <2> QED BY <1>6, <2>1, <2>2 DEF PressRead, Returns
<1>7. ASSUME NEW b \in Boxes, Booked(b) PROVE LastWord'
  <2>1. CASE Observes(b, Woken(heard[b])) /\ UNCHANGED <<plays, said>>
    <3>1. \A c \in Boxes : heard'[c].source = heard[c].source /\ heard'[c].remembered = heard[c].remembered
      BY <2>1, WokenSource
    <3> QED BY <1>7, <2>1, <3>1 DEF Booked, DialledOnItsOwn, HandedTheChannel, LastWord, Running
  <2>2. CASE UNCHANGED <<heard, plays, said>> BY <1>0, <1>7, <2>2 DEF Booked, DialledOnItsOwn, HandedTheChannel
  <2>3. CASE b \notin bound /\ plays' = [plays EXCEPT ![b] = "radio"] /\ Says(b, "radio") /\ UNCHANGED heard
    <3>1. "radio" \in Sources /\ plays[b] # "zone" BY <2>3 DEF Sources, PlaysZone
    <3> QED BY <1>7, <2>3, <3>1, LastWordSaid DEF Booked, DialledOnItsOwn, HandedTheChannel
  <2> QED BY <1>7, <2>1, <2>2, <2>3 DEF Booked, DialledOnItsOwn, HandedTheChannel
<1>8. ASSUME NEW b \in Boxes, WakeEnds(b) PROVE LastWord'
  <2>1. Observes(b, [heard[b] EXCEPT !.waking = FALSE]) BY <1>8 DEF WakeEnds
  <2>2. LastWord'
    <3>1. \A c \in Boxes : heard'[c].source = heard[c].source /\ heard'[c].remembered = heard[c].remembered
      BY <2>1, WokenSource
    <3> QED BY <1>8, <2>1, <3>1 DEF WakeEnds, LastWord, Running
  <2> QED BY <2>2
<1>9. ASSUME NEW b \in Boxes, Released(b) PROVE LastWord'
  <2>1. CASE UNCHANGED <<plays, said>> BY <1>0, <1>9, <2>1 DEF Released
  <2>2. CASE plays' = [plays EXCEPT ![b] = "standby"] /\ Says(b, "standby")
    <3>1. "standby" \in Sources BY DEF Sources
    <3> QED BY <1>9, <2>2, <3>1, LastWordSaid DEF Released
  <2> QED BY <1>9, <2>1, <2>2 DEF Released
<1>10. ASSUME NEW b \in Boxes, OnItsOwn(b) PROVE LastWord'
  <2>1. CASE UNCHANGED <<plays, said>> BY <1>0, <1>10, <2>1 DEF OnItsOwn, HandedTheChannel
  <2>2. CASE b \notin bound /\ plays' = [plays EXCEPT ![b] = "radio"] /\ Says(b, "radio")
    <3>1. "radio" \in Sources /\ plays[b] # "zone" BY <2>2 DEF Sources, PlaysZone
    <3> QED BY <1>10, <2>2, <3>1, LastWordSaid DEF OnItsOwn, HandedTheChannel
  <2> QED BY <1>10, <2>1, <2>2 DEF OnItsOwn, HandedTheChannel
<1>11. ASSUME NEW b \in Boxes, Joins(b) PROVE LastWord'
  <2>1. "zone" \in Sources BY DEF Sources
  <2> QED BY <1>11, <2>1, LastWordSaid DEF Joins, Obeys
<1>12. ASSUME NEW b \in Boxes, Refuses(b) PROVE LastWord'
  <2>1. CASE UNCHANGED <<plays, said>> BY <1>0, <1>12, <2>1 DEF Refuses, Obeys
  <2>2. CASE plays' = [plays EXCEPT ![b] = "zone"] /\ Says(b, "zone")
    <3>1. "zone" \in Sources BY DEF Sources
    <3> QED BY <1>12, <2>2, <3>1, LastWordSaid DEF Refuses, Obeys
  <2> QED BY <1>12, <2>1, <2>2 DEF Refuses, Obeys
<1>13. ASSUME NEW b \in Boxes, Unsaved(b) PROVE LastWord'
  <2>1. CASE ~Running' BY <2>1 DEF LastWord
  <2>2. CASE Running' BY <1>0, <1>13, <2>2 DEF Unsaved, Running
  <2> QED BY <2>1, <2>2
<1>14. ASSUME NEW b \in Boxes, Told(b) PROVE LastWord'
  <2>1. CASE UNCHANGED <<plays, said>> BY <1>0, <1>14, <2>1 DEF Told
  <2>2. CASE plays' = [plays EXCEPT ![b] = "standby"] /\ UNCHANGED said /\ plays[b] = "standby"
    <3>1. plays' = plays BY <2>2 DEF TypeOK
    <3> QED BY <1>0, <1>14, <2>2, <3>1 DEF Told
  <2>3. CASE plays' = [plays EXCEPT ![b] = "standby"] /\ Says(b, "standby")
    <3>1. "standby" \in Sources BY DEF Sources
    <3> QED BY <1>14, <2>3, <3>1, LastWordSaid DEF Told
  <2> QED BY <1>14, <2>1, <2>2, <2>3 DEF Told
<1>15. CASE End
  <2>1. ~Running' BY <1>15 DEF End, AfterTheCalls, Reached, Running
  <2> QED BY <2>1 DEF LastWord
<1>16. CASE Stop
  <2>1. ~Running' BY <1>16 DEF Stop, AfterTheCalls, Reached, Running
  <2> QED BY <2>1 DEF LastWord
<1>17. ASSUME NEW b \in Boxes,
             InOrOut(b) \/ NumberDue(b) \/ QuietEnds(b) \/ LetGo(b) \/ Muted(b)
               \/ InfoAnswered(b)
      PROVE  LastWord'
  BY <1>0, <1>17
  DEF InOrOut, NumberDue, QuietEnds, LetGo, Muted, InfoAnswered, Letting, Quitting,
      Returns
<1>18. CASE SwitchFlips \/ ConsolesChange \/ Poll \/ Asked \/ Believe \/ WrittenDown \/ Bind
         \/ TakeIn \/ Fetched \/ TakenIn \/ BackedUp \/ Dissolve \/ Dissolved
  BY <1>0, <1>18
  DEF SwitchFlips, ConsolesChange, Poll, Asked, Believe, WrittenDown, Bind, TakeIn,
      Fetched, TakenIn, BackedUp, Dissolve, Dissolved, Letting, Quitting, Sends,
      NewMaster, PortsBusy, Rest, Sends, WhoBelongs, TargetMembers
<1>19. CASE UNCHANGED vars BY <1>0, <1>19
<1> QED
  BY <1>1, <1>2, <1>3, <1>4, <1>5, <1>6, <1>7, <1>8, <1>9, <1>10, <1>11, <1>12, <1>13,
     <1>14, <1>15, <1>16, <1>17, <1>18, <1>19
  DEF Next, People, CallStep, PassStep, AllDone

\* A slave has been heard to say "zone", and says its own station only after something else.
LEMMA InTurnStep ==
  ASSUME TypeOK, PlaysZone, Nameless, LastWord, InTurn, [Next]_vars
  PROVE  InTurn'
<1>0. ASSUME UNCHANGED <<plays, said, heard, life>> PROVE InTurn' BY <1>0 DEF InTurn, Running
<1>1. ASSUME NEW b \in Boxes, PowerOn(b) PROVE InTurn'
  <2>1. "radio" \in Sources BY DEF Sources
  <2> QED BY <1>1, <2>1, InTurnSaid DEF PowerOn
<1>2. ASSUME NEW b \in Boxes, PowerOff(b) PROVE InTurn'
  <2>1. "standby" \in Sources BY DEF Sources
  <2> QED BY <1>2, <2>1, InTurnSaid DEF PowerOff
<1>3. ASSUME NEW b \in Boxes, ToOther(b) PROVE InTurn'
  <2>1. "other" \in Sources BY DEF Sources
  <2> QED BY <1>3, <2>1, InTurnSaid DEF ToOther
<1>4. ASSUME NEW b \in Boxes, Digit(b) PROVE InTurn'
  <2>1. CASE UNCHANGED <<plays, said>> BY <1>0, <1>4, <2>1 DEF Digit
  <2>2. CASE b \notin bound /\ plays' = [plays EXCEPT ![b] = "radio"] /\ Says(b, "radio")
    <3>1. "radio" \in Sources /\ plays[b] # "zone" BY <2>2 DEF Sources, PlaysZone
    <3> QED BY <1>4, <2>2, <3>1, InTurnSaid DEF Digit
  <2> QED BY <1>4, <2>1, <2>2 DEF Digit
<1>5. ASSUME NEW b \in Boxes, Read(b) PROVE InTurn'
  <2>1. /\ Observes(b, Named(heard[b], Head(said[b]))) /\ said[b] # <<>>
        /\ said' = [said EXCEPT ![b] = Tail(@)] /\ UNCHANGED <<plays, life>>
    BY <1>5 DEF Read
  <2>2. /\ Head(said[b]) = said[b][1] /\ Len(said[b]) \in Nat \ {0} /\ Len(said'[b]) = Len(said[b]) - 1
        /\ said'[b] = <<>> <=> Len(said[b]) = 1
        /\ \A i \in 1 .. Len(said[b]) - 1 : said'[b][i] = said[b][i + 1]
        /\ \A c \in Boxes \ {b} : said'[c] = said[c]
    BY <2>1, ReadFirst
  <2>3. heard'[b].source = said[b][1] /\ \A c \in Boxes \ {b} : heard'[c] = heard[c]
    BY <2>1, <2>2 DEF TypeOK, BelongingTypeOK, Observes, Named
  <2> SUFFICES ASSUME Running, NEW c \in Boxes
               PROVE  /\ heard'[c].source = "zone" /\ said'[c] # <<>> => said'[c][1] # "radio"
                      /\ \A i \in 1 .. Len(said'[c]) - 1 : said'[c][i] = "zone" => said'[c][i + 1] # "radio"
    BY <2>1 DEF InTurn, Running
  <2>4. CASE c = b
    <3>1. \A i \in 1 .. Len(said[b]) - 1 : said[b][i] = "zone" => said[b][i + 1] # "radio" BY DEF InTurn
    <3>2. said'[b] # <<>> => said'[b][1] = said[b][2] /\ 1 \in 1 .. Len(said[b]) - 1 BY <2>2
    <3>3. ASSUME NEW i \in 1 .. Len(said'[b]) - 1, said'[b][i] = "zone" PROVE said'[b][i + 1] # "radio"
      <4>1. i + 1 \in 1 .. Len(said[b]) - 1 /\ i \in 1 .. Len(said[b]) - 1 BY <2>2
      <4>2. said'[b][i] = said[b][i + 1] /\ said'[b][i + 1] = said[b][(i + 1) + 1] BY <2>2, <4>1
      <4> QED BY <3>1, <3>3, <4>1, <4>2
    <3>4. 1 + 1 = 2 OBVIOUS
    <3> QED BY <2>3, <2>4, <3>1, <3>2, <3>3, <3>4
  <2>5. CASE c # b BY <2>1, <2>2, <2>3, <2>5 DEF InTurn
  <2> QED BY <2>4, <2>5
<1>6. ASSUME NEW b \in Boxes, PressRead(b) PROVE InTurn'
  <2>1. CASE Observes(b, Woken(heard[b]))
    <3>1. \A c \in Boxes : heard'[c].source = heard[c].source /\ heard'[c].remembered = heard[c].remembered
      BY <2>1, WokenSource
    <3> QED BY <1>6, <2>1, <3>1 DEF PressRead, Returns, InTurn, Running
  <2>2. CASE UNCHANGED heard BY <1>0, <1>6, <2>2 DEF PressRead, Returns
  <2> QED BY <1>6, <2>1, <2>2 DEF PressRead, Returns
<1>7. ASSUME NEW b \in Boxes, Booked(b) PROVE InTurn'
  <2>1. CASE Observes(b, Woken(heard[b])) /\ UNCHANGED <<plays, said>>
    <3>1. \A c \in Boxes : heard'[c].source = heard[c].source /\ heard'[c].remembered = heard[c].remembered
      BY <2>1, WokenSource
    <3> QED BY <1>7, <2>1, <3>1 DEF Booked, DialledOnItsOwn, HandedTheChannel, InTurn, Running
  <2>2. CASE UNCHANGED <<heard, plays, said>> BY <1>0, <1>7, <2>2 DEF Booked, DialledOnItsOwn, HandedTheChannel
  <2>3. CASE b \notin bound /\ plays' = [plays EXCEPT ![b] = "radio"] /\ Says(b, "radio") /\ UNCHANGED heard
    <3>1. "radio" \in Sources /\ plays[b] # "zone" BY <2>3 DEF Sources, PlaysZone
    <3> QED BY <1>7, <2>3, <3>1, InTurnSaid DEF Booked, DialledOnItsOwn, HandedTheChannel
  <2> QED BY <1>7, <2>1, <2>2, <2>3 DEF Booked, DialledOnItsOwn, HandedTheChannel
<1>8. ASSUME NEW b \in Boxes, WakeEnds(b) PROVE InTurn'
  <2>1. Observes(b, [heard[b] EXCEPT !.waking = FALSE]) BY <1>8 DEF WakeEnds
  <2>2. InTurn'
    <3>1. \A c \in Boxes : heard'[c].source = heard[c].source /\ heard'[c].remembered = heard[c].remembered
      BY <2>1, WokenSource
    <3> QED BY <1>8, <2>1, <3>1 DEF WakeEnds, InTurn, Running
  <2> QED BY <2>2
<1>9. ASSUME NEW b \in Boxes, Released(b) PROVE InTurn'
  <2>1. CASE UNCHANGED <<plays, said>> BY <1>0, <1>9, <2>1 DEF Released
  <2>2. CASE plays' = [plays EXCEPT ![b] = "standby"] /\ Says(b, "standby")
    <3>1. "standby" \in Sources BY DEF Sources
    <3> QED BY <1>9, <2>2, <3>1, InTurnSaid DEF Released
  <2> QED BY <1>9, <2>1, <2>2 DEF Released
<1>10. ASSUME NEW b \in Boxes, OnItsOwn(b) PROVE InTurn'
  <2>1. CASE UNCHANGED <<plays, said>> BY <1>0, <1>10, <2>1 DEF OnItsOwn, HandedTheChannel
  <2>2. CASE b \notin bound /\ plays' = [plays EXCEPT ![b] = "radio"] /\ Says(b, "radio")
    <3>1. "radio" \in Sources /\ plays[b] # "zone" BY <2>2 DEF Sources, PlaysZone
    <3> QED BY <1>10, <2>2, <3>1, InTurnSaid DEF OnItsOwn, HandedTheChannel
  <2> QED BY <1>10, <2>1, <2>2 DEF OnItsOwn, HandedTheChannel
<1>11. ASSUME NEW b \in Boxes, Joins(b) PROVE InTurn'
  <2>1. "zone" \in Sources BY DEF Sources
  <2> QED BY <1>11, <2>1, InTurnSaid DEF Joins, Obeys
<1>12. ASSUME NEW b \in Boxes, Refuses(b) PROVE InTurn'
  <2>1. CASE UNCHANGED <<plays, said>> BY <1>0, <1>12, <2>1 DEF Refuses, Obeys
  <2>2. CASE plays' = [plays EXCEPT ![b] = "zone"] /\ Says(b, "zone")
    <3>1. "zone" \in Sources BY DEF Sources
    <3> QED BY <1>12, <2>2, <3>1, InTurnSaid DEF Refuses, Obeys
  <2> QED BY <1>12, <2>1, <2>2 DEF Refuses, Obeys
<1>13. ASSUME NEW b \in Boxes, Unsaved(b) PROVE InTurn'
  <2>1. CASE ~Running' BY <2>1 DEF InTurn
  <2>2. CASE Running' BY <1>0, <1>13, <2>2 DEF Unsaved, Running
  <2> QED BY <2>1, <2>2
<1>14. ASSUME NEW b \in Boxes, Told(b) PROVE InTurn'
  <2>1. CASE UNCHANGED <<plays, said>> BY <1>0, <1>14, <2>1 DEF Told
  <2>2. CASE plays' = [plays EXCEPT ![b] = "standby"] /\ UNCHANGED said /\ plays[b] = "standby"
    <3>1. plays' = plays BY <2>2 DEF TypeOK
    <3> QED BY <1>0, <1>14, <2>2, <3>1 DEF Told
  <2>3. CASE plays' = [plays EXCEPT ![b] = "standby"] /\ Says(b, "standby")
    <3>1. "standby" \in Sources BY DEF Sources
    <3> QED BY <1>14, <2>3, <3>1, InTurnSaid DEF Told
  <2> QED BY <1>14, <2>1, <2>2, <2>3 DEF Told
<1>15. CASE End
  <2>1. ~Running' BY <1>15 DEF End, AfterTheCalls, Reached, Running
  <2> QED BY <2>1 DEF InTurn
<1>16. CASE Stop
  <2>1. ~Running' BY <1>16 DEF Stop, AfterTheCalls, Reached, Running
  <2> QED BY <2>1 DEF InTurn
<1>17. ASSUME NEW b \in Boxes,
             InOrOut(b) \/ NumberDue(b) \/ QuietEnds(b) \/ LetGo(b) \/ Muted(b)
               \/ InfoAnswered(b)
      PROVE  InTurn'
  BY <1>0, <1>17
  DEF InOrOut, NumberDue, QuietEnds, LetGo, Muted, InfoAnswered, Letting, Quitting,
      Returns
<1>18. CASE SwitchFlips \/ ConsolesChange \/ Poll \/ Asked \/ Believe \/ WrittenDown \/ Bind
         \/ TakeIn \/ Fetched \/ TakenIn \/ BackedUp \/ Dissolve \/ Dissolved
  BY <1>0, <1>18
  DEF SwitchFlips, ConsolesChange, Poll, Asked, Believe, WrittenDown, Bind, TakeIn,
      Fetched, TakenIn, BackedUp, Dissolve, Dissolved, Letting, Quitting, Sends,
      NewMaster, PortsBusy, Rest, Sends, WhoBelongs, TargetMembers
<1>19. CASE UNCHANGED vars BY <1>0, <1>19
<1> QED
  BY <1>1, <1>2, <1>3, <1>4, <1>5, <1>6, <1>7, <1>8, <1>9, <1>10, <1>11, <1>12, <1>13,
     <1>14, <1>15, <1>16, <1>17, <1>18, <1>19
  DEF Next, People, CallStep, PassStep, AllDone


-----------------------------------------------------------------------------
(* Where the pass, its calls and a stop stand to one another *)

\* The pass takes in and lets go while a master is held, tells the zone that it
\* is over when nobody is in it any more, and ends with the service.
PassPhases ==
  /\ pass \in {"letting", "fetching", "taking", "backing"} => master = "held"
  /\ Running /\ pass = "dissolving" => joined = {}
  /\ untold # {} => pass = "dissolving"
  /\ Running => pass # "ended"
  /\ life = "stopping" => pass \in {"saving", "dissolving", "ended"}
  /\ life = "ended" => pass = "ended"
  /\ pass = "fetching" => arriving \cap joined = {}

\* A running service takes boxes in, and releases them, only in the pass that decided it.
CallPhases ==
  Running => \A b \in Boxes : /\ BeingTakenIn(b) => pass = "taking"
                              /\ doing[b] \in {"release", "select"} => pass = "letting"

\* Wherever a stop lands, the pass goes on from its save to its end.
LEMMA PassPhasesStep ==
  ASSUME TypeOK, CallPhases, PassPhases, [Next]_vars
  PROVE  PassPhases'
<1>0. ASSUME UNCHANGED <<pass, master, life, joined, untold, arriving>> PROVE PassPhases' BY <1>0 DEF PassPhases, Running
<1>1. CASE Asked
  BY <1>1 DEF Asked, PassPhases, Running
<1>2. CASE Believe
  BY <1>2 DEF Believe, WhoBelongs, TargetMembers, PassPhases, Running
<1>3. CASE WrittenDown
  BY <1>3 DEF WrittenDown, PassPhases, Running
<1>4. CASE Bind
  BY <1>4 DEF Bind, NewMaster, PortsBusy, PassPhases, Running
<1>5. ASSUME NEW b \in Boxes, LetGo(b) PROVE PassPhases'
  BY <1>5 DEF LetGo, Letting, Quitting, PassPhases, Running
<1>6. CASE TakeIn
  BY <1>6 DEF TakeIn, Letting, Quitting, Sends, PassPhases, Running
<1>7. CASE Fetched
  BY <1>7 DEF Fetched, Sends, PassPhases, Running
<1>8. CASE TakenIn
  BY <1>8 DEF TakenIn, PassPhases, Running
<1>9. CASE BackedUp
  BY <1>9 DEF BackedUp, PassPhases, Running
<1>10. ASSUME NEW b \in Boxes, Joins(b) PROVE PassPhases'
  <2>1. joined' = joined \cup {b} /\ UNCHANGED <<pass, master, life, untold, arriving>> BY <1>10 DEF Joins
  <2>2. Running => pass = "taking" BY <1>10 DEF Joins, CallPhases
  <2> QED BY <2>1, <2>2 DEF PassPhases, Running, TypeOK
<1>11. ASSUME NEW b \in Boxes, Unsaved(b) PROVE PassPhases'
  BY <1>11 DEF Unsaved, PassPhases, CallPhases, Running
<1>12. CASE Dissolve
  BY <1>12, PassAssumption DEF Dissolve, Rest, PassPhases, Running, TypeOK
<1>13. ASSUME NEW b \in Boxes, Told(b) PROVE PassPhases'
  BY <1>13 DEF Told, PassPhases, Running
<1>14. CASE Dissolved
  BY <1>14, PassAssumption DEF Dissolved, Rest, PassPhases, Running, TypeOK
<1>15. CASE End
  BY <1>15 DEF End, AfterTheCalls, Reached, PassPhases, Running
<1>16. CASE Stop
  BY <1>16 DEF Stop, AfterTheCalls, Reached, PassPhases, Running
<1>17. ASSUME NEW b \in Boxes,
             PowerOn(b) \/ PowerOff(b) \/ ToOther(b) \/ Digit(b) \/ InOrOut(b) \/ Read(b)
               \/ PressRead(b) \/ NumberDue(b) \/ Booked(b) \/ WakeEnds(b) \/ QuietEnds(b)
               \/ Released(b) \/ OnItsOwn(b) \/ Muted(b) \/ InfoAnswered(b) \/ Refuses(b)
      PROVE  PassPhases'
  BY <1>0, <1>17
  DEF PowerOn, PowerOff, ToOther, Digit, InOrOut, Read, PressRead, NumberDue, Booked,
      WakeEnds, QuietEnds, Released, OnItsOwn, Muted, InfoAnswered, Refuses,
      DialledOnItsOwn, HandedTheChannel, HandedTheChannel, Obeys, Returns
<1>18. CASE SwitchFlips \/ ConsolesChange \/ Poll
  BY <1>0, <1>18
  DEF SwitchFlips, ConsolesChange, Poll
<1>19. CASE UNCHANGED vars BY <1>0, <1>19
<1> QED
  BY <1>1, <1>2, <1>3, <1>4, <1>5, <1>6, <1>7, <1>8, <1>9, <1>10, <1>11, <1>12, <1>13,
     <1>14, <1>15, <1>16, <1>17, <1>18, <1>19
  DEF Next, People, CallStep, PassStep, AllDone

\* The next stage of a pass begins when the calls of the last are done.
LEMMA CallPhasesStep ==
  ASSUME TypeOK, PassPhases, CallPhases, [Next]_vars
  PROVE  CallPhases'
<1>0. ASSUME UNCHANGED <<pass, life, doing>> PROVE CallPhases' BY <1>0 DEF CallPhases, Running
<1>1. CASE Asked
  BY <1>1 DEF Asked, CallPhases, Running
<1>2. CASE Believe
  BY <1>2 DEF Believe, WhoBelongs, TargetMembers, CallPhases, Running
<1>3. CASE WrittenDown
  BY <1>3 DEF WrittenDown, CallPhases, Running
<1>4. CASE Bind
  BY <1>4 DEF Bind, NewMaster, PortsBusy, CallPhases, Running
<1>5. ASSUME NEW b \in Boxes, LetGo(b) PROVE CallPhases'
  BY <1>5 DEF LetGo, Letting, Quitting, CallPhases, Running, TypeOK
<1>6. ASSUME NEW b \in Boxes, Released(b) PROVE CallPhases'
  BY <1>6 DEF Released, CallPhases, Running, TypeOK
<1>7. ASSUME NEW b \in Boxes, OnItsOwn(b) PROVE CallPhases'
  BY <1>7 DEF OnItsOwn, HandedTheChannel, CallPhases, Running, TypeOK
<1>8. CASE TakeIn
  BY <1>8 DEF TakeIn, Letting, Quitting, Sends, CallPhases, Running
<1>9. CASE Fetched
  BY <1>9 DEF Fetched, Sends, CallPhases, Running
<1>10. CASE TakenIn
  BY <1>10 DEF TakenIn, CallPhases, Running
<1>11. CASE BackedUp
  BY <1>11 DEF BackedUp, CallPhases, Running
<1>12. ASSUME NEW b \in Boxes, Muted(b) PROVE CallPhases'
  BY <1>12 DEF Muted, CallPhases, Running, TypeOK
<1>13. ASSUME NEW b \in Boxes, InfoAnswered(b) PROVE CallPhases'
  BY <1>13 DEF InfoAnswered, CallPhases, Running, TypeOK
<1>14. ASSUME NEW b \in Boxes, Joins(b) PROVE CallPhases'
  BY <1>14 DEF Joins, Obeys, CallPhases, Running, TypeOK
<1>15. ASSUME NEW b \in Boxes, Refuses(b) PROVE CallPhases'
  BY <1>15 DEF Refuses, Obeys, CallPhases, Running, TypeOK
<1>16. ASSUME NEW b \in Boxes, Unsaved(b) PROVE CallPhases'
  BY <1>16 DEF Unsaved, CallPhases, Running, TypeOK
<1>17. CASE Dissolve
  BY <1>17 DEF Dissolve, Rest, CallPhases, Running
<1>18. CASE Dissolved
  BY <1>18 DEF Dissolved, Rest, CallPhases, Running
<1>19. CASE End
  BY <1>19 DEF End, AfterTheCalls, Reached, CallPhases, Running
<1>20. CASE Stop
  BY <1>20 DEF Stop, AfterTheCalls, Reached, CallPhases, Running
<1>21. ASSUME NEW b \in Boxes,
             PowerOn(b) \/ PowerOff(b) \/ ToOther(b) \/ Digit(b) \/ InOrOut(b) \/ Read(b)
               \/ PressRead(b) \/ NumberDue(b) \/ Booked(b) \/ WakeEnds(b) \/ QuietEnds(b)
               \/ Told(b)
      PROVE  CallPhases'
  BY <1>0, <1>21
  DEF PowerOn, PowerOff, ToOther, Digit, InOrOut, Read, PressRead, NumberDue, Booked,
      WakeEnds, QuietEnds, Told, DialledOnItsOwn, HandedTheChannel, Returns
<1>22. CASE SwitchFlips \/ ConsolesChange \/ Poll
  BY <1>0, <1>22
  DEF SwitchFlips, ConsolesChange, Poll
<1>23. CASE UNCHANGED vars BY <1>0, <1>23
<1> QED
  BY <1>1, <1>2, <1>3, <1>4, <1>5, <1>6, <1>7, <1>8, <1>9, <1>10, <1>11, <1>12, <1>13,
     <1>14, <1>15, <1>16, <1>17, <1>18, <1>19, <1>20, <1>21, <1>22, <1>23
  DEF Next, People, CallStep, PassStep, AllDone


-----------------------------------------------------------------------------
(* Who is in the zone has nothing to say that would put it out *)

Held(b) == BeingTakenIn(b) \/ b \in joined \cap bound

\* It belongs, and goes on belonging whichever of its frames is read next.
Stays(b) == Belongs(b) /\ \A i \in 1 .. Len(said[b]) : said[b][i] \in RadioNames

\* Without a harmful fault, who is in the zone or is being taken in stays.
HeldStays == Running => \A b \in Boxes : Held(b) => Stays(b)

\* What a box that stays says of its radio leaves it staying.
LEMMA StaysSaid ==
  ASSUME TypeOK, NEW b \in Boxes, NEW s \in RadioNames, Says(b, s), Running, UNCHANGED belongingVars, Stays(b)
  PROVE  Stays(b)'
<1>1. s \in Sources BY DEF RadioNames, Sources
<1>2. /\ Len(said'[b]) = Len(said[b]) + 1 /\ said'[b][Len(said[b]) + 1] = s
      /\ \A i \in 1 .. Len(said[b]) : said'[b][i] = said[b][i]
  BY <1>1, SaidLast
<1>3. said[b] \in Seq(Sources) /\ Len(said[b]) \in Nat BY DEF TypeOK
<1>4. ASSUME NEW i \in 1 .. Len(said'[b]) PROVE said'[b][i] \in RadioNames
  <2>1. CASE i = Len(said[b]) + 1 BY <1>2, <2>1
  <2>2. CASE i # Len(said[b]) + 1
    <3>1. i \in 1 .. Len(said[b]) BY <1>2, <1>3, <2>2
    <3> QED BY <1>2, <3>1 DEF Stays
  <2> QED BY <2>1, <2>2
<1> QED BY <1>4 DEF Stays, Belongs

\* A frame that is read, of those a box that stays has sent, leaves it staying:
\* its wake is not over, and a slave's own station does not follow its zone.
LEMMA StaysRead ==
  ASSUME TypeOK, InTurn, Running, NEW b \in Boxes, Stays(b), Read(b),
         ~(heard[b].remembered /\ Head(said[b]) = "radio")
  PROVE  Stays(b)'
<1>1. said[b] # <<>> /\ said' = [said EXCEPT ![b] = Tail(@)] BY DEF Read
<1>2. /\ Head(said[b]) = said[b][1] /\ Len(said[b]) \in Nat \ {0} /\ Len(said'[b]) = Len(said[b]) - 1
      /\ \A i \in 1 .. Len(said[b]) - 1 : said'[b][i] = said[b][i + 1]
  BY <1>1, ReadFirst
<1>3. said[b][1] \in RadioNames BY <1>2 DEF Stays
<1>4. heard'[b] = Named(heard[b], said[b][1]) /\ allowed' = allowed
  BY <1>2 DEF Read, Observes, TypeOK, BelongingTypeOK
<1>5. heard[b].source = "zone" => said[b][1] # "radio" BY <1>1 DEF InTurn
<1>6. Belongs(b) BY DEF Stays
<1>7. Belongs(b)'
  <2>1. heard'[b].source = said[b][1] /\ heard'[b].known /\ heard'[b].fresh BY <1>4 DEF Named
  <2>2. said[b][1] # "standby" BY <1>3 DEF RadioNames
  <2>3. CASE said[b][1] = "zone" BY <1>4, <1>6, <2>1, <2>3 DEF Belongs
  <2>4. CASE said[b][1] = "radio"
    <3>1. heard[b].waking \/ heard[b].source = "standby" BY <1>2, <1>5, <1>6, <2>4 DEF Belongs
    <3>2. heard'[b].waking
      <4>1. heard'[b].waking = (said[b][1] \in RadioNames /\ (heard[b].waking \/ heard[b].source = "standby"))
        BY <1>4 DEF Named
      <4> QED BY <1>3, <3>1, <4>1, Zenon
    <3> QED BY <1>4, <1>6, <2>1, <2>2, <3>2 DEF Belongs
  <2> QED BY <1>3, <2>3, <2>4 DEF RadioNames
<1>8. \A i \in 1 .. Len(said'[b]) : said'[b][i] \in RadioNames BY <1>2 DEF Stays
<1> QED BY <1>7, <1>8 DEF Stays

\* What was not heard of a box leaves it staying.
LEMMA StaysUnheard ==
  ASSUME NEW b \in Boxes, Stays(b), heard'[b] = heard[b], allowed' = allowed, said'[b] = said[b]
  PROVE  Stays(b)'
BY DEF Stays, Belongs

\* So does a wake.
LEMMA StaysWoken ==
  ASSUME TypeOK, NEW b \in Boxes, NEW c \in Boxes, Stays(c), Observes(b, Woken(heard[b])), UNCHANGED said
  PROVE  Stays(c)'
<1>1. heard'[c] \in {heard[c], Woken(heard[c])} /\ allowed' = allowed BY DEF TypeOK, BelongingTypeOK, Observes
<1>2. Belongs(c)' BY <1>1 DEF Stays, Belongs, Woken, TypeOK, BelongingTypeOK, Entries
<1> QED BY <1>2 DEF Stays

\* A fault that may leave a box behind has not just happened.
LEMMA NoHarm ==
  ASSUME Harmless', NEW kind \in LeftBehind
  PROVE  ~Fault(kind)
BY DEF Harmless

\* A box is sent its join if it belongs and has nothing on its way that ends that.
LEMMA SentToStay ==
  ASSUME TypeOK, Harmless', NEW who \in SUBSET Boxes, Sends(who), NEW b \in Boxes, BeingTakenIn(b)'
  PROVE  BeingTakenIn(b) \/ Stays(b)
<1>1. CASE doing'[b] = doing[b] BY <1>1
<1>2. CASE doing'[b] # doing[b]
  <2>1. b \in WhoBelongs BY <1>2 DEF Sends
  <2>2. ~Left(b)
    <3>1. "left" \in LeftBehind BY DEF LeftBehind
    <3>2. ~Fault("left") BY <3>1, NoHarm
    <3> QED BY <1>2, <3>2 DEF Sends
  <2>3. said[b] \in Seq(Sources) BY DEF TypeOK
  <2>4. DOMAIN said[b] = 1 .. Len(said[b]) BY <2>3, LenProperties
  <2> QED BY <2>1, <2>2, <2>4 DEF WhoBelongs, TargetMembers, Left, Stays
<1> QED BY <1>1, <1>2

\* Nothing that happens at a box, and nothing the service does, but a harmful fault puts a held box out.
LEMMA HeldStaysStep ==
  ASSUME TypeOK, PassPhases, CallPhases, PlaysZone, Nameless, LastWord, InTurn, HeldStays, Harmless', [Next]_vars
  PROVE  HeldStays'
<1>0. ASSUME UNCHANGED <<heard, allowed, said, bound, joined, doing, life>> PROVE HeldStays' BY <1>0 DEF HeldStays, Held, Stays, Belongs, Running
<1>1. ASSUME NEW b \in Boxes, PowerOn(b) PROVE HeldStays'
  <2> SUFFICES ASSUME Running', NEW c \in Boxes, Held(c)' PROVE Stays(c)' BY DEF HeldStays
  <2> USE DEF Running, Held
  <2>r. Running BY <1>1 DEF PowerOn
  <2>1. "radio" \in Sources BY DEF Sources
  <2>2. Says(b, "radio") /\ UNCHANGED belongingVars BY <1>1 DEF PowerOn
  <2>3. CASE c = b
    <3>1. Held(b) /\ "radio" \in RadioNames BY <1>1, <2>3 DEF PowerOn, RadioNames
    <3> QED BY <2>2, <2>3, <3>1, StaysSaid, <2>r DEF HeldStays
  <2>4. CASE c # b
    <3>1. said'[c] = said[c] /\ heard'[c] = heard[c] /\ allowed' = allowed
      BY <1>1, <2>4, <2>1, <2>2, <2>r, SaidLast DEF PowerOn, TypeOK
    <3>2. Held(c) BY <1>1, <2>4 DEF PowerOn, TypeOK
    <3> QED BY <3>1, <3>2, StaysUnheard, <2>r DEF HeldStays
  <2> QED BY <2>3, <2>4
<1>2. ASSUME NEW b \in Boxes, PowerOff(b) PROVE HeldStays'
  <2> SUFFICES ASSUME Running', NEW c \in Boxes, Held(c)' PROVE Stays(c)' BY DEF HeldStays
  <2> USE DEF Running, Held
  <2>r. Running BY <1>2 DEF PowerOff
  <2>1. "standby" \in Sources BY DEF Sources
  <2>2. Says(b, "standby") /\ UNCHANGED belongingVars BY <1>2 DEF PowerOff
  <2>3. CASE c = b
    <3>1. BeingTakenIn(b) BY <1>2, <2>3 DEF PowerOff
    <3>2. "left" \in LeftBehind BY DEF LeftBehind
    <3> QED BY <1>2, <3>1, <3>2, NoHarm DEF PowerOff
  <2>4. CASE c # b
    <3>1. said'[c] = said[c] /\ heard'[c] = heard[c] /\ allowed' = allowed
      BY <1>2, <2>4, <2>1, <2>2, <2>r, SaidLast DEF PowerOff, TypeOK
    <3>2. Held(c) BY <1>2, <2>4 DEF PowerOff, TypeOK
    <3> QED BY <3>1, <3>2, StaysUnheard, <2>r DEF HeldStays
  <2> QED BY <2>3, <2>4
<1>3. ASSUME NEW b \in Boxes, ToOther(b) PROVE HeldStays'
  <2> SUFFICES ASSUME Running', NEW c \in Boxes, Held(c)' PROVE Stays(c)' BY DEF HeldStays
  <2> USE DEF Running, Held
  <2>r. Running BY <1>3 DEF ToOther
  <2>1. "other" \in Sources BY DEF Sources
  <2>2. Says(b, "other") /\ UNCHANGED belongingVars BY <1>3 DEF ToOther
  <2>3. CASE c = b
    <3>1. BeingTakenIn(b) BY <1>3, <2>3 DEF ToOther
    <3>2. "left" \in LeftBehind BY DEF LeftBehind
    <3> QED BY <1>3, <3>1, <3>2, NoHarm DEF ToOther
  <2>4. CASE c # b
    <3>1. said'[c] = said[c] /\ heard'[c] = heard[c] /\ allowed' = allowed
      BY <1>3, <2>4, <2>1, <2>2, <2>r, SaidLast DEF ToOther, TypeOK
    <3>2. Held(c) BY <1>3, <2>4 DEF ToOther, TypeOK
    <3> QED BY <3>1, <3>2, StaysUnheard, <2>r DEF HeldStays
  <2> QED BY <2>3, <2>4
<1>4. ASSUME NEW b \in Boxes, Digit(b) PROVE HeldStays'
  <2> SUFFICES ASSUME Running', NEW c \in Boxes, Held(c)' PROVE Stays(c)' BY DEF HeldStays
  <2> USE DEF Running, Held
  <2>r. Running BY <1>4 DEF Digit
  <2>1. CASE UNCHANGED said
    <3>1. Held(c) /\ said'[c] = said[c] /\ heard'[c] = heard[c] /\ allowed' = allowed BY <1>4, <2>1 DEF Digit
    <3> QED BY <3>1, StaysUnheard, <2>r DEF HeldStays
  <2>2. CASE Says(b, "radio")
    <3>1. "radio" \in Sources /\ "radio" \in RadioNames BY DEF Sources, RadioNames
    <3>2. CASE c = b
      <4>1. Held(b) /\ UNCHANGED belongingVars BY <1>4, <3>2 DEF Digit
      <4> QED BY <2>2, <3>1, <3>2, <4>1, StaysSaid, <2>r DEF HeldStays
    <3>3. CASE c # b
      <4>1. said'[c] = said[c] BY <2>2, <3>1, <3>3, SaidLast, <2>r
      <4>2. Held(c) /\ heard'[c] = heard[c] /\ allowed' = allowed BY <1>4 DEF Digit
      <4> QED BY <4>1, <4>2, StaysUnheard, <2>r DEF HeldStays
    <3> QED BY <3>2, <3>3
  <2> QED BY <1>4, <2>1, <2>2 DEF Digit
<1>5. CASE ConsolesChange
  <2> SUFFICES ASSUME Running', NEW c \in Boxes, Held(c)' PROVE Stays(c)' BY DEF HeldStays
  <2> USE DEF Running, Held
  <2>r. Running BY <1>5 DEF ConsolesChange
  <2>1. Held(c) /\ Stays(c) BY <1>5 DEF ConsolesChange, HeldStays
  <2>2. "console" \in LeftBehind BY DEF LeftBehind
  <2>3. c \notin allowed \ allowed' BY <1>5, <2>1, <2>2, NoHarm DEF ConsolesChange
  <2> QED BY <1>5, <2>1, <2>3 DEF ConsolesChange, Stays, Belongs
<1>6. ASSUME NEW b \in Boxes, Read(b) PROVE HeldStays'
  <2> SUFFICES ASSUME Running', NEW c \in Boxes, Held(c)' PROVE Stays(c)' BY DEF HeldStays
  <2> USE DEF Running, Held
  <2>r. Running BY <1>6 DEF Read
  <2>1. CASE c = b
    <3>1. Held(b) /\ Stays(b) BY <1>6, <2>1 DEF Read, HeldStays
    <3>2. "late" \in LeftBehind BY DEF LeftBehind
    <3>3. ~NamedLate(b) BY <1>6, <3>2, NoHarm DEF Read
    <3>4. ~(heard[b].remembered /\ Head(said[b]) = "radio") BY <3>1, <3>3 DEF NamedLate
    <3> QED BY <1>6, <2>1, <3>1, <3>4, StaysRead, <2>r
  <2>2. CASE c # b
    <3>1. said'[c] = said[c] /\ heard'[c] = heard[c] /\ allowed' = allowed
      BY <1>6, <2>2 DEF Read, Observes, TypeOK, BelongingTypeOK
    <3>2. Held(c) BY <1>6, <2>2 DEF Read, Observes, TypeOK, BelongingTypeOK
    <3> QED BY <3>1, <3>2, StaysUnheard, <2>r DEF HeldStays
  <2> QED BY <2>1, <2>2
<1>7. ASSUME NEW b \in Boxes, PressRead(b) PROVE HeldStays'
  <2> SUFFICES ASSUME Running', NEW c \in Boxes, Held(c)' PROVE Stays(c)' BY DEF HeldStays
  <2> USE DEF Running, Held
  <2>r. Running BY <1>7 DEF PressRead, Returns
  <2>1. Held(c) /\ Stays(c) BY <1>7 DEF PressRead, Returns, HeldStays
  <2>2. CASE Observes(b, Woken(heard[b])) BY <1>7, <2>1, <2>2, StaysWoken DEF PressRead, Returns
  <2>3. CASE UNCHANGED belongingVars BY <1>7, <2>1, <2>3, StaysUnheard DEF PressRead, Returns
  <2> QED BY <1>7, <2>2, <2>3 DEF PressRead, Returns
<1>8. ASSUME NEW b \in Boxes, Booked(b) PROVE HeldStays'
  <2> SUFFICES ASSUME Running', NEW c \in Boxes, Held(c)' PROVE Stays(c)' BY DEF HeldStays
  <2> USE DEF Running, Held
  <2>r. Running BY <1>8 DEF Booked, DialledOnItsOwn, HandedTheChannel
  <2>1. Held(c) /\ Stays(c) BY <1>8 DEF Booked, DialledOnItsOwn, HandedTheChannel, HeldStays
  <2>2. CASE Observes(b, Woken(heard[b])) /\ UNCHANGED said BY <2>1, <2>2, StaysWoken
  <2>3. CASE UNCHANGED <<heard, allowed, said>> BY <2>1, <2>3, StaysUnheard
  <2>4. CASE UNCHANGED belongingVars /\ Says(b, "radio")
    <3>1. "radio" \in Sources /\ "radio" \in RadioNames BY DEF Sources, RadioNames
    <3>2. CASE c = b BY <2>1, <2>4, <3>1, <3>2, StaysSaid, <2>r
    <3>3. CASE c # b
      <4>1. said'[c] = said[c] BY <2>4, <3>1, <3>3, SaidLast, <2>r
      <4> QED BY <2>1, <2>4, <4>1, StaysUnheard
    <3> QED BY <3>2, <3>3
  <2> QED BY <1>8, <2>2, <2>3, <2>4 DEF Booked, DialledOnItsOwn, HandedTheChannel
<1>9. ASSUME NEW b \in Boxes, WakeEnds(b) PROVE HeldStays'
  <2> SUFFICES ASSUME Running', NEW c \in Boxes, Held(c)' PROVE Stays(c)' BY DEF HeldStays
  <2> USE DEF Running, Held
  <2>r. Running BY <1>9 DEF WakeEnds
  <2>1. Held(c) /\ Stays(c) BY <1>9 DEF WakeEnds, HeldStays
  <2>2. CASE c = b
    <3>1. b \in joined \cap bound BY <1>9, <2>1, <2>2 DEF WakeEnds, CallPhases
    <3>2. heard[b].source = "zone" \/ heard[b].remembered BY <1>9, <3>1 DEF WakeEnds, PlaysZone, LastWord
    <3>3. heard'[b] = [heard[b] EXCEPT !.waking = FALSE] /\ allowed' = allowed
      BY <1>9 DEF WakeEnds, Observes, TypeOK, BelongingTypeOK
    <3>4. heard[b] \in Entries BY DEF TypeOK, BelongingTypeOK
    <3>5. Belongs(b)' BY <2>1, <2>2, <3>2, <3>3, <3>4 DEF Stays, Belongs, Entries, Nameless, NoSource
    <3> QED BY <1>9, <2>1, <2>2, <3>5 DEF WakeEnds, Stays
  <2>3. CASE c # b BY <1>9, <2>1, <2>3, StaysUnheard DEF WakeEnds, Observes, TypeOK, BelongingTypeOK
  <2> QED BY <2>2, <2>3
<1>10. ASSUME NEW b \in Boxes, LetGo(b) PROVE HeldStays'
  <2> SUFFICES ASSUME Running', NEW c \in Boxes, Held(c)' PROVE Stays(c)' BY DEF HeldStays
  <2> USE DEF Running, Held
  <2>r. Running BY <1>10 DEF LetGo, Letting, Quitting
  <2>1. Held(c) /\ said'[c] = said[c] /\ heard'[c] = heard[c] /\ allowed' = allowed
    BY <1>10 DEF LetGo, Letting, Quitting, TypeOK
  <2> QED BY <2>1, StaysUnheard, <2>r DEF HeldStays
<1>11. ASSUME NEW b \in Boxes, Released(b) PROVE HeldStays'
  <2> SUFFICES ASSUME Running', NEW c \in Boxes, Held(c)' PROVE Stays(c)' BY DEF HeldStays
  <2> USE DEF Running, Held
  <2>r. Running BY <1>11 DEF Released
  <2>1. CASE UNCHANGED said
    <3>1. Held(c) BY <1>11 DEF Released, TypeOK
    <3> QED BY <1>11, <2>1, <3>1, StaysUnheard, <2>r DEF Released, HeldStays
  <2>2. CASE Says(b, "standby") /\ bound' = bound \ {b}
    <3>1. "standby" \in Sources BY DEF Sources
    <3>2. c # b BY <1>11, <2>2 DEF Released, TypeOK
    <3>3. said'[c] = said[c] BY <2>2, <3>1, <3>2, SaidLast, <2>r, <1>11 DEF Released
    <3>4. Held(c) /\ heard'[c] = heard[c] /\ allowed' = allowed BY <1>11, <2>2, <3>2 DEF Released, TypeOK
    <3> QED BY <3>3, <3>4, StaysUnheard, <2>r DEF HeldStays
  <2> QED BY <1>11, <2>1, <2>2 DEF Released
<1>12. ASSUME NEW b \in Boxes, OnItsOwn(b) PROVE HeldStays'
  <2> SUFFICES ASSUME Running', NEW c \in Boxes, Held(c)' PROVE Stays(c)' BY DEF HeldStays
  <2> USE DEF Running, Held
  <2>r. Running BY <1>12 DEF OnItsOwn, HandedTheChannel
  <2>1. CASE UNCHANGED said
    <3>1. Held(c) BY <1>12 DEF OnItsOwn, HandedTheChannel, TypeOK
    <3> QED BY <1>12, <2>1, <3>1, StaysUnheard, <2>r DEF OnItsOwn, HandedTheChannel, HeldStays
  <2>2. CASE Says(b, "radio") /\ b \notin bound
    <3>1. "radio" \in Sources BY DEF Sources
    <3>2. c # b BY <1>12, <2>2 DEF OnItsOwn, HandedTheChannel, TypeOK
    <3>3. said'[c] = said[c] BY <2>2, <3>1, <3>2, SaidLast, <2>r, <1>12 DEF OnItsOwn, HandedTheChannel
    <3>4. Held(c) /\ heard'[c] = heard[c] /\ allowed' = allowed BY <1>12, <2>2, <3>2 DEF OnItsOwn, HandedTheChannel, TypeOK
    <3> QED BY <3>3, <3>4, StaysUnheard, <2>r DEF HeldStays
  <2> QED BY <1>12, <2>1, <2>2 DEF OnItsOwn, HandedTheChannel
<1>13. CASE TakeIn
  <2> SUFFICES ASSUME Running', NEW c \in Boxes, Held(c)' PROVE Stays(c)' BY DEF HeldStays
  <2> USE DEF Running, Held
  <2>r. Running BY <1>13 DEF TakeIn, Letting, Quitting, Sends
  <2>1. CASE UNCHANGED doing
    <3>1. Held(c) BY <1>13, <2>1 DEF TakeIn, Letting, Quitting, Sends
    <3> QED BY <1>13, <3>1, StaysUnheard, <2>r DEF TakeIn, Letting, Quitting, Sends, HeldStays
  <2>2. CASE Sends((believed \ joined) \ quiet)
    <3>1. (believed \ joined) \ quiet \in SUBSET Boxes BY DEF TypeOK
    <3>2. Held(c) \/ Stays(c) BY <1>13, <2>2, <3>1, SentToStay DEF TakeIn
    <3>3. Stays(c) BY <1>13, <3>2 DEF TakeIn, HeldStays
    <3> QED BY <1>13, <3>3, StaysUnheard DEF TakeIn
  <2> QED BY <1>13, <2>1, <2>2 DEF TakeIn
<1>14. CASE Fetched
  <2> SUFFICES ASSUME Running', NEW c \in Boxes, Held(c)' PROVE Stays(c)' BY DEF HeldStays
  <2> USE DEF Running, Held
  <2>r. Running BY <1>14 DEF Fetched, Sends
  <2>2. CASE Sends(arriving)
    <3>1. arriving \in SUBSET Boxes BY DEF TypeOK
    <3>2. Held(c) \/ Stays(c) BY <1>14, <2>2, <3>1, SentToStay DEF Fetched
    <3>3. Stays(c) BY <1>14, <3>2 DEF Fetched, HeldStays
    <3> QED BY <1>14, <3>3, StaysUnheard DEF Fetched
  <2> QED BY <1>14, <2>2 DEF Fetched
<1>15. ASSUME NEW b \in Boxes, Muted(b) PROVE HeldStays'
  <2> SUFFICES ASSUME Running', NEW c \in Boxes, Held(c)' PROVE Stays(c)' BY DEF HeldStays
  <2> USE DEF Running, Held
  <2>r. Running BY <1>15 DEF Muted
  <2>1. Held(c) /\ said'[c] = said[c] /\ heard'[c] = heard[c] /\ allowed' = allowed
    BY <1>15 DEF Muted, TypeOK
  <2> QED BY <2>1, StaysUnheard, <2>r DEF HeldStays
<1>16. ASSUME NEW b \in Boxes, InfoAnswered(b) PROVE HeldStays'
  <2> SUFFICES ASSUME Running', NEW c \in Boxes, Held(c)' PROVE Stays(c)' BY DEF HeldStays
  <2> USE DEF Running, Held
  <2>r. Running BY <1>16 DEF InfoAnswered
  <2>1. Held(c) /\ said'[c] = said[c] /\ heard'[c] = heard[c] /\ allowed' = allowed
    BY <1>16 DEF InfoAnswered, TypeOK
  <2> QED BY <2>1, StaysUnheard, <2>r DEF HeldStays
<1>17. ASSUME NEW b \in Boxes, Joins(b) PROVE HeldStays'
  <2> SUFFICES ASSUME Running', NEW c \in Boxes, Held(c)' PROVE Stays(c)' BY DEF HeldStays
  <2> USE DEF Running, Held
  <2>r. Running BY <1>17 DEF Joins, Obeys
  <2>1. "zone" \in Sources /\ "zone" \in RadioNames BY DEF Sources, RadioNames
  <2>2. Says(b, "zone") /\ UNCHANGED belongingVars /\ BeingTakenIn(b) /\ life = "running" BY <1>17 DEF Joins, Obeys
  <2>3. CASE c = b BY <2>1, <2>2, <2>3, StaysSaid, <2>r DEF HeldStays
  <2>4. CASE c # b
    <3>1. said'[c] = said[c] BY <2>1, <2>2, <2>4, SaidLast, <2>r
    <3>2. Held(c) BY <1>17, <2>4 DEF Joins, Obeys, TypeOK
    <3> QED BY <2>2, <3>1, <3>2, StaysUnheard, <2>r DEF HeldStays
  <2> QED BY <2>3, <2>4
<1>18. ASSUME NEW b \in Boxes, Refuses(b) PROVE HeldStays'
  <2> SUFFICES ASSUME Running', NEW c \in Boxes, Held(c)' PROVE Stays(c)' BY DEF HeldStays
  <2> USE DEF Running, Held
  <2>r. Running BY <1>18 DEF Refuses, Obeys
  <2>1. "lost" \in LeftBehind BY DEF LeftBehind
  <2>2. UNCHANGED boxVars BY <1>18, <2>1, NoHarm DEF Refuses, Obeys
  <2>3. Held(c) BY <1>18, <2>2 DEF Refuses, Obeys, TypeOK
  <2> QED BY <1>18, <2>2, <2>3, StaysUnheard, <2>r DEF Refuses, Obeys, HeldStays
<1>19. ASSUME NEW b \in Boxes, Unsaved(b) PROVE HeldStays'
  <2>1. ~Running' BY <1>19 DEF Unsaved, Running
  <2> QED BY <2>1 DEF HeldStays
<1>20. CASE Dissolve
  <2> SUFFICES ASSUME Running', NEW c \in Boxes, Held(c)' PROVE Stays(c)' BY DEF HeldStays
  <2> USE DEF Running, Held
  <2>r. Running BY <1>20 DEF Dissolve, Rest
  <2>1. Held(c) /\ said'[c] = said[c] /\ heard'[c] = heard[c] /\ allowed' = allowed
    BY <1>20 DEF Dissolve, Rest, TypeOK
  <2> QED BY <2>1, StaysUnheard, <2>r DEF HeldStays
<1>21. ASSUME NEW b \in Boxes, Told(b) PROVE HeldStays'
  <2>1. Running => \A c \in Boxes : ~Held(c) BY <1>21 DEF Told, PassPhases, CallPhases, Held
  <2>2. \A c \in Boxes : Held(c)' => Held(c) BY <1>21 DEF Told, Held
  <2>3. Running' => Running BY <1>21 DEF Told, Running
  <2> QED BY <2>1, <2>2, <2>3 DEF HeldStays
<1>22. CASE End
  <2>1. ~Running' BY <1>22 DEF End, AfterTheCalls, Reached, Running
  <2> QED BY <2>1 DEF HeldStays
<1>23. CASE Stop
  <2>1. ~Running' BY <1>23 DEF Stop, AfterTheCalls, Reached, Running
  <2> QED BY <2>1 DEF HeldStays
<1>24. ASSUME NEW b \in Boxes,
             InOrOut(b) \/ NumberDue(b) \/ QuietEnds(b)
      PROVE  HeldStays'
  BY <1>0, <1>24
  DEF InOrOut, NumberDue, QuietEnds, Returns
<1>25. CASE SwitchFlips \/ Poll \/ Asked \/ Believe \/ WrittenDown \/ Bind \/ TakenIn
         \/ BackedUp \/ Dissolved
  BY <1>0, <1>25
  DEF SwitchFlips, Poll, Asked, Believe, WrittenDown, Bind, TakenIn, BackedUp,
      Dissolved, NewMaster, PortsBusy, Rest, WhoBelongs, TargetMembers
<1>26. CASE UNCHANGED vars BY <1>0, <1>26
<1> QED
  BY <1>1, <1>2, <1>3, <1>4, <1>5, <1>6, <1>7, <1>8, <1>9, <1>10, <1>11, <1>12, <1>13,
     <1>14, <1>15, <1>16, <1>17, <1>18, <1>19, <1>20, <1>21, <1>22, <1>23, <1>24,
     <1>25, <1>26
  DEF Next, People, CallStep, PassStep, AllDone


-----------------------------------------------------------------------------
(* What the list, the books and the calls say of a box that holds our document *)

\* It is on the master's list from before its document is pushed, and a box is
\* sent a document only while it holds none.
OnTheList ==
  /\ bound \subseteq slaves
  /\ master = "none" => slaves = {}
  /\ \A b \in Boxes : doing[b] = "join" => b \in slaves
  /\ \A b \in Boxes : BeingTakenIn(b) => b \notin joined \cup bound

\* It is joined or being released; joined, the pass that is about to let go
\* believed it in the zone unless it is out of multiroom.
InTheBooks ==
  /\ Running /\ pass # "dissolving" => \A b \in bound : b \in joined \/ doing[b] = "release"
  /\ Running /\ pass \in {"writing", "binding", "letting"} => (joined \cap bound) \ believed \subseteq outs

\* The end of the zone is still to be told to it, and nothing comes between.
TheEndReachesIt ==
  /\ pass = "dissolving" => bound \subseteq untold
  /\ ~Running => \A b \in Boxes : Idle(b)
  /\ pass = "ended" => bound = {}

Listed == OnTheList /\ InTheBooks /\ TheEndReachesIt

\* A box is put on the list before it can be bound, and taken off when it no longer is.
LEMMA OnTheListStep ==
  ASSUME TypeOK, PassPhases, CallPhases, HeldStays, Listed, Harmless', [Next]_vars
  PROVE  OnTheList'
<1> USE DEF Listed
<1>0. ASSUME UNCHANGED <<bound, slaves, master, doing, joined>> PROVE OnTheList' BY <1>0 DEF OnTheList
<1>1. ASSUME NEW b \in Boxes, PowerOff(b) PROVE OnTheList'
  BY <1>1 DEF PowerOff, OnTheList, Running, TypeOK
<1>2. ASSUME NEW b \in Boxes, ToOther(b) PROVE OnTheList'
  BY <1>2 DEF ToOther, OnTheList, Running, TypeOK
<1>3. CASE Bind
  BY <1>3 DEF Bind, NewMaster, PortsBusy, OnTheList, Running, TypeOK
<1>4. ASSUME NEW b \in Boxes, LetGo(b) PROVE OnTheList'
  <2>1. b \in bound => b \in outs BY <1>4 DEF LetGo, Letting, Quitting, InTheBooks, PassPhases, Running, TypeOK
  <2> QED BY <1>4, <2>1 DEF LetGo, Letting, Quitting, OnTheList, TypeOK
<1>5. ASSUME NEW b \in Boxes, Released(b) PROVE OnTheList'
  <2>1. "deaf" \in LeftBehind BY DEF LeftBehind
  <2>2. ~Fault("deaf") BY <2>1, NoHarm
  <2>3. slaves' = slaves \ {b} /\ bound' \in {bound, bound \ {b}} /\ b \notin bound'
    BY <1>5, <2>2 DEF Released
  <2> QED BY <1>5, <2>3 DEF Released, OnTheList, TypeOK
<1>6. ASSUME NEW b \in Boxes, OnItsOwn(b) PROVE OnTheList'
  BY <1>6 DEF OnItsOwn, HandedTheChannel, OnTheList, Running, TypeOK
<1>7. CASE TakeIn
  <2>1. OnTheList'
    <3>1. \A b \in Boxes : BeingTakenIn(b)' => BeingTakenIn(b) \/ b \in ((believed \ joined) \ quiet) BY <1>7 DEF TakeIn, Letting, Quitting, Sends
    <3>2. \A b \in ((believed \ joined) \ quiet) : b \notin joined /\ doing[b] # "release"
      BY <1>7 DEF TakeIn, Letting, Quitting, Sends, PassPhases, CallPhases, Running, TypeOK
    <3>3. ((believed \ joined) \ quiet) \cap bound = {} BY <1>7, <3>2 DEF TakeIn, Letting, Quitting, Sends, InTheBooks, PassPhases, Running, TypeOK
    <3>4. \A b \in Boxes : doing'[b] = "join" => doing[b] = "join" BY <1>7 DEF TakeIn, Letting, Quitting, Sends
    <3>5. UNCHANGED <<bound, joined, master, slaves>> BY <1>7 DEF TakeIn, Letting, Quitting, Sends
    <3> QED BY <3>1, <3>2, <3>3, <3>4, <3>5 DEF OnTheList
  <2> QED BY <2>1
<1>8. CASE Fetched
  <2>1. OnTheList'
    <3>1. \A b \in Boxes : BeingTakenIn(b)' => BeingTakenIn(b) \/ b \in arriving BY <1>8 DEF Fetched, Sends
    <3>2. \A b \in arriving : b \notin joined /\ doing[b] # "release"
      BY <1>8 DEF Fetched, Sends, PassPhases, CallPhases, Running, TypeOK
    <3>3. arriving \cap bound = {} BY <1>8, <3>2 DEF Fetched, Sends, InTheBooks, PassPhases, Running, TypeOK
    <3>4. \A b \in Boxes : doing'[b] = "join" => doing[b] = "join" BY <1>8 DEF Fetched, Sends
    <3>5. UNCHANGED <<bound, joined, master, slaves>> BY <1>8 DEF Fetched, Sends
    <3> QED BY <3>1, <3>2, <3>3, <3>4, <3>5 DEF OnTheList
  <2> QED BY <2>1
<1>9. ASSUME NEW b \in Boxes, Muted(b) PROVE OnTheList'
  BY <1>9 DEF Muted, OnTheList, Running, TypeOK
<1>10. ASSUME NEW b \in Boxes, InfoAnswered(b) PROVE OnTheList'
  <2>1. Running /\ master = "held"
    BY <1>10 DEF InfoAnswered, CallPhases, PassPhases, TheEndReachesIt, Running
  <2> QED BY <1>10, <2>1 DEF InfoAnswered, OnTheList, TypeOK
<1>11. ASSUME NEW b \in Boxes, Joins(b) PROVE OnTheList'
  BY <1>11 DEF Joins, Obeys, OnTheList, TypeOK
<1>12. ASSUME NEW b \in Boxes, Refuses(b) PROVE OnTheList'
  <2>1. "lost" \in LeftBehind BY DEF LeftBehind
  <2>2. ~Fault("lost") BY <2>1, NoHarm
  <2>3. UNCHANGED <<bound, joined, master>> BY <1>12, <2>2 DEF Refuses, Obeys
  <2> QED BY <1>12, <2>3 DEF Refuses, Obeys, OnTheList, TypeOK
<1>13. ASSUME NEW b \in Boxes, Unsaved(b) PROVE OnTheList'
  BY <1>13 DEF Unsaved, OnTheList, Running, TypeOK
<1>14. CASE Dissolve
  BY <1>14 DEF Dissolve, Rest, OnTheList, Running, TypeOK
<1>15. ASSUME NEW b \in Boxes, Told(b) PROVE OnTheList'
  BY <1>15 DEF Told, OnTheList, Running, TypeOK
<1>16. CASE Dissolved
  <2>1. bound = {} BY <1>16 DEF Dissolved, Rest, TheEndReachesIt
  <2>2. \A b \in Boxes : doing[b] # "join"
    BY <1>16 DEF Dissolved, Rest, TheEndReachesIt, CallPhases, Running
  <2> QED BY <1>16, <2>1, <2>2 DEF Dissolved, Rest, OnTheList
<1>17. CASE End
  <2>1. \A b \in bound' : b \in bound \/ doing[b] = "join" BY <1>17 DEF End, AfterTheCalls, Reached
  <2>2. \A b \in Boxes : ~BeingTakenIn(b)' BY <1>17 DEF End, AfterTheCalls, Reached
  <2>3. UNCHANGED <<slaves, master>> BY <1>17 DEF End, AfterTheCalls, Reached
  <2>4. bound' \subseteq Boxes BY <1>17 DEF End, AfterTheCalls, Reached
  <2> QED BY <2>1, <2>2, <2>3, <2>4 DEF OnTheList
<1>18. CASE Stop
  <2>1. \A b \in bound' : b \in bound \/ doing[b] = "join" BY <1>18 DEF Stop, AfterTheCalls, Reached
  <2>2. \A b \in Boxes : ~BeingTakenIn(b)' BY <1>18 DEF Stop, AfterTheCalls, Reached
  <2>3. UNCHANGED <<slaves, master>> BY <1>18 DEF Stop, AfterTheCalls, Reached
  <2>4. bound' \subseteq Boxes BY <1>18 DEF Stop, AfterTheCalls, Reached
  <2> QED BY <2>1, <2>2, <2>3, <2>4 DEF OnTheList
<1>19. ASSUME NEW b \in Boxes,
             PowerOn(b) \/ Digit(b) \/ InOrOut(b) \/ Read(b) \/ PressRead(b) \/ NumberDue(b)
               \/ Booked(b) \/ WakeEnds(b) \/ QuietEnds(b)
      PROVE  OnTheList'
  BY <1>0, <1>19
  DEF PowerOn, Digit, InOrOut, Read, PressRead, NumberDue, Booked, WakeEnds, QuietEnds,
      DialledOnItsOwn, HandedTheChannel, Returns
<1>20. CASE SwitchFlips \/ ConsolesChange \/ Poll \/ Asked \/ Believe \/ WrittenDown
         \/ TakenIn \/ BackedUp
  BY <1>0, <1>20
  DEF SwitchFlips, ConsolesChange, Poll, Asked, Believe, WrittenDown, TakenIn,
      BackedUp, WhoBelongs, TargetMembers
<1>21. CASE UNCHANGED vars BY <1>0, <1>21
<1> QED
  BY <1>1, <1>2, <1>3, <1>4, <1>5, <1>6, <1>7, <1>8, <1>9, <1>10, <1>11, <1>12, <1>13,
     <1>14, <1>15, <1>16, <1>17, <1>18, <1>19, <1>20, <1>21
  DEF Next, People, CallStep, PassStep, AllDone

\* A box leaves the books only when it no longer holds the document, or is being released.
LEMMA InTheBooksStep ==
  ASSUME TypeOK, PassPhases, CallPhases, HeldStays, Listed, Harmless', [Next]_vars
  PROVE  InTheBooks'
<1> USE DEF Listed
<1>0. ASSUME UNCHANGED <<bound, joined, doing, believed, outs, pass, life>> PROVE InTheBooks' BY <1>0 DEF InTheBooks, Running
<1>1. ASSUME NEW b \in Boxes, PowerOff(b) PROVE InTheBooks'
  BY <1>1 DEF PowerOff, InTheBooks, Running, TypeOK
<1>2. ASSUME NEW b \in Boxes, ToOther(b) PROVE InTheBooks'
  BY <1>2 DEF ToOther, InTheBooks, Running, TypeOK
<1>3. ASSUME NEW b \in Boxes, InOrOut(b) PROVE InTheBooks'
  <2>1. "backIn" \in LeftBehind BY DEF LeftBehind
  <2>2. ~Fault("backIn") BY <2>1, NoHarm
  <2>3. outs \ {b} \subseteq outs' /\ (b \in outs \ outs' => b \notin joined) BY <1>3, <2>2 DEF InOrOut, Returns
  <2>4. UNCHANGED <<bound, joined, doing, believed, pass, life>> BY <1>3 DEF InOrOut, Returns
  <2> QED BY <2>3, <2>4 DEF InTheBooks, Running
<1>4. ASSUME NEW b \in Boxes, PressRead(b) PROVE InTheBooks'
  <2>1. "backIn" \in LeftBehind BY DEF LeftBehind
  <2>2. ~Fault("backIn") BY <2>1, NoHarm
  <2>3. outs \ {b} \subseteq outs' /\ (b \in outs \ outs' => b \notin joined) BY <1>4, <2>2 DEF PressRead, Returns
  <2>4. UNCHANGED <<bound, joined, doing, believed, pass, life>> BY <1>4 DEF PressRead, Returns
  <2> QED BY <2>3, <2>4 DEF InTheBooks, Running
<1>5. CASE Asked
  BY <1>5 DEF Asked, InTheBooks, Running, TypeOK
<1>6. CASE Believe
  <2>1. Running => \A b \in joined \cap bound : Belongs(b) BY DEF HeldStays, Held, Stays, TypeOK
  <2>2. (joined \cap bound) \ believed' \subseteq outs
        \/ ~Running BY <1>6, <2>1 DEF Believe, WhoBelongs, TargetMembers, TypeOK
  <2>3. UNCHANGED <<bound, joined, doing, outs, life>> /\ pass' = "writing" /\ pass = "asking"
    BY <1>6 DEF Believe, WhoBelongs, TargetMembers
  <2> QED BY <2>2, <2>3 DEF InTheBooks, Running
<1>7. CASE WrittenDown
  BY <1>7 DEF WrittenDown, InTheBooks, Running, TypeOK
<1>8. CASE Bind
  BY <1>8 DEF Bind, NewMaster, PortsBusy, InTheBooks, Running, TypeOK
<1>9. ASSUME NEW b \in Boxes, LetGo(b) PROVE InTheBooks'
  <2>1. b \in bound => b \in outs /\ b \in slaves
    BY <1>9 DEF LetGo, Letting, Quitting, InTheBooks, OnTheList, PassPhases, Running, TypeOK
  <2>2. joined' = joined \ {b} /\ UNCHANGED <<bound, believed, outs, pass, life>> BY <1>9 DEF LetGo, Letting, Quitting
  <2>3. \A c \in Boxes : c # b => doing'[c] = doing[c] BY <1>9 DEF LetGo, Letting, Quitting, TypeOK
  <2>4. b \in bound => doing'[b] = "release" BY <1>9, <2>1 DEF LetGo, Letting, Quitting, TypeOK
  <2>5. bound \subseteq Boxes BY DEF TypeOK
  <2> QED BY <2>2, <2>3, <2>4, <2>5 DEF InTheBooks, Running
<1>10. ASSUME NEW b \in Boxes, Released(b) PROVE InTheBooks'
  <2>1. "deaf" \in LeftBehind BY DEF LeftBehind
  <2>2. ~Fault("deaf") BY <2>1, NoHarm
  <2>3. bound' \in {bound, bound \ {b}} /\ b \notin bound' BY <1>10, <2>2 DEF Released
  <2>4. UNCHANGED <<joined, believed, outs, pass, life>> BY <1>10 DEF Released
  <2>5. \A c \in Boxes : c # b => doing'[c] = doing[c] BY <1>10 DEF Released, TypeOK
  <2>6. bound \subseteq Boxes BY DEF TypeOK
  <2> QED BY <2>3, <2>4, <2>5, <2>6 DEF InTheBooks, Running
<1>11. ASSUME NEW b \in Boxes, OnItsOwn(b) PROVE InTheBooks'
  BY <1>11 DEF OnItsOwn, HandedTheChannel, InTheBooks, Running, TypeOK
<1>12. CASE TakeIn
  <2>1. \A c \in Boxes : doing[c] = "release" => doing'[c] = "release"
    BY <1>12 DEF TakeIn, Letting, Quitting, Sends, CallPhases, PassPhases, Running, TypeOK
  <2>2. UNCHANGED <<bound, joined, outs, life>> /\ pass' \notin {"writing", "binding", "letting"}
    BY <1>12 DEF TakeIn, Letting, Quitting, Sends
  <2>3. bound \subseteq Boxes /\ pass # "dissolving" BY <1>12 DEF TypeOK, TakeIn, Letting, Quitting, Sends
  <2> QED BY <2>1, <2>2, <2>3 DEF InTheBooks, Running
<1>13. CASE Fetched
  <2>1. \A c \in Boxes : doing[c] = "release" => doing'[c] = "release"
    BY <1>13 DEF Fetched, Sends, CallPhases, PassPhases, Running, TypeOK
  <2>2. UNCHANGED <<bound, joined, outs, life>> /\ pass' \notin {"writing", "binding", "letting"}
    BY <1>13 DEF Fetched, Sends
  <2>3. bound \subseteq Boxes /\ pass # "dissolving" BY <1>13 DEF TypeOK, Fetched, Sends
  <2> QED BY <2>1, <2>2, <2>3 DEF InTheBooks, Running
<1>14. CASE TakenIn
  BY <1>14 DEF TakenIn, InTheBooks, Running, TypeOK
<1>15. CASE BackedUp
  BY <1>15 DEF BackedUp, InTheBooks, Running, TypeOK
<1>16. ASSUME NEW b \in Boxes, Muted(b) PROVE InTheBooks'
  BY <1>16 DEF Muted, InTheBooks, Running, TypeOK
<1>17. ASSUME NEW b \in Boxes, InfoAnswered(b) PROVE InTheBooks'
  BY <1>17 DEF InfoAnswered, InTheBooks, Running, TypeOK
<1>18. ASSUME NEW b \in Boxes, Joins(b) PROVE InTheBooks'
  <2>1. Running => pass = "taking" BY <1>18 DEF Joins, CallPhases
  <2>2. /\ bound' = bound \cup {b} /\ joined' = joined \cup {b} /\ UNCHANGED <<believed, outs, pass, life>>
        /\ \A c \in Boxes : doing[c] = "release" => doing'[c] = "release"
    BY <1>18 DEF Joins, Obeys, TypeOK
  <2>3. bound \subseteq Boxes BY DEF TypeOK
  <2> QED BY <2>1, <2>2, <2>3 DEF InTheBooks, Running
<1>19. ASSUME NEW b \in Boxes, Refuses(b) PROVE InTheBooks'
  <2>1. "lost" \in LeftBehind BY DEF LeftBehind
  <2>2. ~Fault("lost") BY <2>1, NoHarm
  <2>3. UNCHANGED <<bound, joined, believed, outs, pass, life>> BY <1>19, <2>2 DEF Refuses, Obeys
  <2>4. \A c \in Boxes : doing[c] = "release" => doing'[c] = "release" BY <1>19 DEF Refuses, Obeys, TypeOK
  <2>5. bound \subseteq Boxes BY DEF TypeOK
  <2> QED BY <2>3, <2>4, <2>5 DEF InTheBooks, Running
<1>20. ASSUME NEW b \in Boxes, Unsaved(b) PROVE InTheBooks'
  <2>1. ~Running' BY <1>20 DEF Unsaved, Running
  <2> QED BY <2>1 DEF InTheBooks
<1>21. CASE Dissolve
  <2>1. master = "none" => bound = {} BY DEF OnTheList
  <2> QED BY <1>21, <2>1 DEF Dissolve, Rest, InTheBooks, Running
<1>22. ASSUME NEW b \in Boxes, Told(b) PROVE InTheBooks'
  BY <1>22 DEF Told, InTheBooks, Running, TypeOK
<1>23. CASE Dissolved
  <2>1. bound = {} BY <1>23 DEF Dissolved, Rest, TheEndReachesIt
  <2> QED BY <1>23, <2>1 DEF Dissolved, Rest, InTheBooks, Running
<1>24. CASE End
  <2>1. ~Running' BY <1>24 DEF End, AfterTheCalls, Reached, Running
  <2> QED BY <2>1 DEF InTheBooks
<1>25. CASE Stop
  <2>1. ~Running' BY <1>25 DEF Stop, AfterTheCalls, Reached, Running
  <2> QED BY <2>1 DEF InTheBooks
<1>26. ASSUME NEW b \in Boxes,
             PowerOn(b) \/ Digit(b) \/ Read(b) \/ NumberDue(b) \/ Booked(b) \/ WakeEnds(b)
               \/ QuietEnds(b)
      PROVE  InTheBooks'
  BY <1>0, <1>26
  DEF PowerOn, Digit, Read, NumberDue, Booked, WakeEnds, QuietEnds,
      DialledOnItsOwn, HandedTheChannel
<1>27. CASE SwitchFlips \/ ConsolesChange \/ Poll
  BY <1>0, <1>27
  DEF SwitchFlips, ConsolesChange, Poll
<1>28. CASE UNCHANGED vars BY <1>0, <1>28
<1> QED
  BY <1>1, <1>2, <1>3, <1>4, <1>5, <1>6, <1>7, <1>8, <1>9, <1>10, <1>11, <1>12, <1>13,
     <1>14, <1>15, <1>16, <1>17, <1>18, <1>19, <1>20, <1>21, <1>22, <1>23, <1>24,
     <1>25, <1>26, <1>27, <1>28
  DEF Next, People, CallStep, PassStep, AllDone

\* Nothing binds a box behind the stand-down's back.
LEMMA TheEndReachesItStep ==
  ASSUME TypeOK, PassPhases, CallPhases, HeldStays, Listed, Harmless', [Next]_vars
  PROVE  TheEndReachesIt'
<1> USE DEF Listed
<1>0. ASSUME UNCHANGED <<bound, untold, pass, life, doing>> PROVE TheEndReachesIt' BY <1>0 DEF TheEndReachesIt, Running
<1>1. ASSUME NEW b \in Boxes, PowerOff(b) PROVE TheEndReachesIt'
  BY <1>1 DEF PowerOff, TheEndReachesIt, Running, TypeOK
<1>2. ASSUME NEW b \in Boxes, ToOther(b) PROVE TheEndReachesIt'
  BY <1>2 DEF ToOther, TheEndReachesIt, Running, TypeOK
<1>3. CASE Asked
  BY <1>3 DEF Asked, TheEndReachesIt, Running, TypeOK
<1>4. CASE Believe
  BY <1>4 DEF Believe, WhoBelongs, TargetMembers, TheEndReachesIt, Running, TypeOK
<1>5. CASE WrittenDown
  BY <1>5 DEF WrittenDown, TheEndReachesIt, Running, TypeOK
<1>6. CASE Bind
  BY <1>6 DEF Bind, NewMaster, PortsBusy, TheEndReachesIt, Running, TypeOK
<1>7. ASSUME NEW b \in Boxes, LetGo(b) PROVE TheEndReachesIt'
  <2>1. Running BY <1>7 DEF LetGo, Letting, Quitting, PassPhases, Running, TypeOK
  <2>2. life' = life /\ pass' # "ended" /\ pass' # "dissolving" BY <1>7 DEF LetGo, Letting, Quitting
  <2> QED BY <2>1, <2>2 DEF TheEndReachesIt, Running
<1>8. ASSUME NEW b \in Boxes, Released(b) PROVE TheEndReachesIt'
  <2>1. Running BY <1>8 DEF Released, TheEndReachesIt
  <2>2. life' = life /\ pass' # "ended" /\ pass' # "dissolving" BY <1>8, <2>1 DEF Released, PassPhases, CallPhases, Running
  <2> QED BY <2>1, <2>2 DEF TheEndReachesIt, Running
<1>9. ASSUME NEW b \in Boxes, OnItsOwn(b) PROVE TheEndReachesIt'
  <2>1. Running BY <1>9 DEF OnItsOwn, HandedTheChannel, TheEndReachesIt
  <2>2. life' = life /\ pass' # "ended" /\ pass' # "dissolving" BY <1>9, <2>1 DEF OnItsOwn, HandedTheChannel, PassPhases, CallPhases, Running
  <2> QED BY <2>1, <2>2 DEF TheEndReachesIt, Running
<1>10. CASE TakeIn
  <2>1. Running BY <1>10 DEF TakeIn, Letting, Quitting, Sends, PassPhases, Running, TypeOK
  <2>2. life' = life /\ pass' # "ended" /\ pass' # "dissolving" BY <1>10 DEF TakeIn, Letting, Quitting, Sends
  <2> QED BY <2>1, <2>2 DEF TheEndReachesIt, Running
<1>11. CASE Fetched
  <2>1. Running BY <1>11 DEF Fetched, Sends, PassPhases, Running, TypeOK
  <2>2. life' = life /\ pass' # "ended" /\ pass' # "dissolving" BY <1>11 DEF Fetched, Sends
  <2> QED BY <2>1, <2>2 DEF TheEndReachesIt, Running
<1>12. CASE TakenIn
  BY <1>12 DEF TakenIn, TheEndReachesIt, Running, TypeOK
<1>13. CASE BackedUp
  BY <1>13 DEF BackedUp, TheEndReachesIt, Running, TypeOK
<1>14. ASSUME NEW b \in Boxes, Muted(b) PROVE TheEndReachesIt'
  <2>1. Running BY <1>14 DEF Muted, TheEndReachesIt
  <2>2. life' = life /\ pass' # "ended" /\ pass' # "dissolving" BY <1>14, <2>1 DEF Muted, PassPhases, CallPhases, Running
  <2> QED BY <2>1, <2>2 DEF TheEndReachesIt, Running
<1>15. ASSUME NEW b \in Boxes, InfoAnswered(b) PROVE TheEndReachesIt'
  <2>1. Running BY <1>15 DEF InfoAnswered, TheEndReachesIt
  <2>2. life' = life /\ pass' # "ended" /\ pass' # "dissolving" BY <1>15, <2>1 DEF InfoAnswered, PassPhases, CallPhases, Running
  <2> QED BY <2>1, <2>2 DEF TheEndReachesIt, Running
<1>16. ASSUME NEW b \in Boxes, Joins(b) PROVE TheEndReachesIt'
  <2>1. Running BY <1>16 DEF Joins, Obeys, TheEndReachesIt
  <2>2. life' = life /\ pass' # "ended" /\ pass' # "dissolving" BY <1>16, <2>1 DEF Joins, Obeys, PassPhases, CallPhases, Running
  <2> QED BY <2>1, <2>2 DEF TheEndReachesIt, Running
<1>17. ASSUME NEW b \in Boxes, Refuses(b) PROVE TheEndReachesIt'
  <2>1. Running BY <1>17 DEF Refuses, Obeys, TheEndReachesIt
  <2>2. life' = life /\ pass' # "ended" /\ pass' # "dissolving" BY <1>17, <2>1 DEF Refuses, Obeys, PassPhases, CallPhases, Running
  <2> QED BY <2>1, <2>2 DEF TheEndReachesIt, Running
<1>18. ASSUME NEW b \in Boxes, Unsaved(b) PROVE TheEndReachesIt'
  <2>1. "unsaved" \in LeftBehind BY DEF LeftBehind
  <2>2. ~Fault("unsaved") BY <2>1, NoHarm
  <2> QED BY <1>18, <2>2 DEF Unsaved
<1>19. CASE Dissolve
  <2>1. master = "none" => bound = {} BY DEF OnTheList
  <2> QED BY <1>19, <2>1 DEF Dissolve, Rest, OnTheList, TheEndReachesIt, Running
<1>20. ASSUME NEW b \in Boxes, Told(b) PROVE TheEndReachesIt'
  <2>1. "deaf" \in LeftBehind BY DEF LeftBehind
  <2>2. ~Fault("deaf") BY <2>1, NoHarm
  <2> QED BY <1>20, <2>2 DEF Told, TheEndReachesIt, Running
<1>21. CASE Dissolved
  BY <1>21 DEF Dissolved, Rest, TheEndReachesIt, Running, TypeOK
<1>22. CASE End
  <2>1. OnTheWay = {} BY <1>22 DEF OnTheWay, End, TheEndReachesIt, PassPhases, Running
  <2>2. bound' = bound BY <1>22, <2>1 DEF End, AfterTheCalls, Reached, TypeOK
  <2> QED BY <1>22, <2>2 DEF End, AfterTheCalls, Reached, TheEndReachesIt, Running
<1>23. CASE Stop
  BY <1>23 DEF Stop, AfterTheCalls, Reached, TheEndReachesIt, Running
<1>24. ASSUME NEW b \in Boxes,
             PowerOn(b) \/ Digit(b) \/ InOrOut(b) \/ Read(b) \/ PressRead(b) \/ NumberDue(b)
               \/ Booked(b) \/ WakeEnds(b) \/ QuietEnds(b)
      PROVE  TheEndReachesIt'
  BY <1>0, <1>24
  DEF PowerOn, Digit, InOrOut, Read, PressRead, NumberDue, Booked, WakeEnds, QuietEnds,
      DialledOnItsOwn, HandedTheChannel, Returns
<1>25. CASE SwitchFlips \/ ConsolesChange \/ Poll
  BY <1>0, <1>25
  DEF SwitchFlips, ConsolesChange, Poll
<1>26. CASE UNCHANGED vars BY <1>0, <1>26
<1> QED
  BY <1>1, <1>2, <1>3, <1>4, <1>5, <1>6, <1>7, <1>8, <1>9, <1>10, <1>11, <1>12, <1>13,
     <1>14, <1>15, <1>16, <1>17, <1>18, <1>19, <1>20, <1>21, <1>22, <1>23, <1>24,
     <1>25, <1>26
  DEF Next, People, CallStep, PassStep, AllDone


-----------------------------------------------------------------------------
(* Nobody is missed *)

\* Whom the pass has in its hands: everybody before it asks, those it believes
\* in the zone until it acts on it, and from there who is in, refused or waits.
InHand ==
  CASE pass = "asking" -> Boxes
    [] pass \in {"writing", "binding", "letting"} -> believed
    [] pass = "fetching" -> joined \cup refused \cup arriving
    [] pass = "taking" -> joined \cup refused \cup waiting \cup {b \in Boxes : BeingTakenIn(b)}
    [] pass \in {"backing", "resting"} -> joined \cup refused \cup waiting
    [] OTHER -> {}

\* Unless another pass is asked for, whoever belongs is in the hands of this
\* one, or has said something that will ask for one.
NobodyDropped ==
  Running /\ on /\ ~wanted => \A b \in WhoBelongs : said[b] = <<>> => b \in InHand

\* A box that sends a frame has one on its way.
LEMMA SaidMeanwhile ==
  ASSUME TypeOK, Running, NEW b \in Boxes, NEW s \in Sources, Says(b, s)
  PROVE  \A c \in Boxes : said'[c] = <<>> => said[c] = <<>>
<1>1. said'[b] # <<>> /\ \A c \in Boxes \ {b} : said'[c] = said[c] BY SaidLast
<1> QED BY <1>1

\* Whoever belonged already, and had nothing to say, stays in the pass's hands.
LEMMA StillInHand ==
  ASSUME NobodyDropped, UNCHANGED <<on, wanted, life>>, \A c \in Boxes : Running /\ said'[c] = <<>> => said[c] = <<>>,
         Running /\ on => \A c \in Boxes : c \in WhoBelongs' => c \in WhoBelongs,
         Running /\ on => \A c \in Boxes : c \in WhoBelongs /\ c \in InHand => c \in InHand'
  PROVE  NobodyDropped'
<1>1. SUFFICES ASSUME Running, on, ~wanted, NEW c \in Boxes, c \in WhoBelongs', said'[c] = <<>> PROVE c \in InHand'
  BY DEF NobodyDropped, WhoBelongs, TargetMembers, Running
<1> QED BY <1>1 DEF NobodyDropped

\* Who begins to belong asks for a pass, and the pass lets nobody it has in its hands go unanswered.
LEMMA NobodyDroppedStep ==
  ASSUME TypeOK, CallPhases, NobodyDropped, [Next]_vars
  PROVE  NobodyDropped'
<1>0. ASSUME UNCHANGED <<heard, allowed, outs, said, on, wanted, life, pass, believed, joined, refused, arriving, waiting, doing>> PROVE NobodyDropped' BY <1>0 DEF NobodyDropped, Running, WhoBelongs, TargetMembers, Belongs, InHand
<1>1. ASSUME NEW b \in Boxes, PowerOn(b) PROVE NobodyDropped'
  <2>1. WhoBelongs' = WhoBelongs BY <1>1 DEF PowerOn, WhoBelongs, TargetMembers, Belongs
  <2>2. ASSUME Running, NEW c \in Boxes, said'[c] = <<>> PROVE said[c] = <<>>
    <3>1. CASE UNCHANGED said BY <2>2, <3>1
    <3>2. CASE Says(b, "radio")
      <4>1. "radio" \in Sources BY DEF Sources
      <4> QED BY <2>2, <3>2, <4>1, SaidMeanwhile
    <3> QED BY <1>1, <3>1, <3>2 DEF PowerOn
  <2>3. InHand' = InHand
    <3>1. UNCHANGED <<pass, believed, joined, refused, arriving, waiting, doing>> BY <1>1 DEF PowerOn
    <3> QED BY <3>1 DEF InHand
  <2>4. UNCHANGED <<on, wanted, life>> BY <1>1 DEF PowerOn
  <2> QED BY <2>1, <2>2, <2>3, <2>4, StillInHand
<1>2. ASSUME NEW b \in Boxes, PowerOff(b) PROVE NobodyDropped'
  <2>1. WhoBelongs' = WhoBelongs BY <1>2 DEF PowerOff, WhoBelongs, TargetMembers, Belongs
  <2>2. ASSUME Running, NEW c \in Boxes, said'[c] = <<>> PROVE said[c] = <<>>
    <3>1. CASE UNCHANGED said BY <2>2, <3>1
    <3>2. CASE Says(b, "standby")
      <4>1. "standby" \in Sources BY DEF Sources
      <4> QED BY <2>2, <3>2, <4>1, SaidMeanwhile
    <3> QED BY <1>2, <3>1, <3>2 DEF PowerOff
  <2>3. InHand' = InHand
    <3>1. UNCHANGED <<pass, believed, joined, refused, arriving, waiting, doing>> BY <1>2 DEF PowerOff
    <3> QED BY <3>1 DEF InHand
  <2>4. UNCHANGED <<on, wanted, life>> BY <1>2 DEF PowerOff
  <2> QED BY <2>1, <2>2, <2>3, <2>4, StillInHand
<1>3. ASSUME NEW b \in Boxes, ToOther(b) PROVE NobodyDropped'
  <2>1. WhoBelongs' = WhoBelongs BY <1>3 DEF ToOther, WhoBelongs, TargetMembers, Belongs
  <2>2. ASSUME Running, NEW c \in Boxes, said'[c] = <<>> PROVE said[c] = <<>>
    <3>1. CASE UNCHANGED said BY <2>2, <3>1
    <3>2. CASE Says(b, "other")
      <4>1. "other" \in Sources BY DEF Sources
      <4> QED BY <2>2, <3>2, <4>1, SaidMeanwhile
    <3> QED BY <1>3, <3>1, <3>2 DEF ToOther
  <2>3. InHand' = InHand
    <3>1. UNCHANGED <<pass, believed, joined, refused, arriving, waiting, doing>> BY <1>3 DEF ToOther
    <3> QED BY <3>1 DEF InHand
  <2>4. UNCHANGED <<on, wanted, life>> BY <1>3 DEF ToOther
  <2> QED BY <2>1, <2>2, <2>3, <2>4, StillInHand
<1>4. ASSUME NEW b \in Boxes, Digit(b) PROVE NobodyDropped'
  <2>1. WhoBelongs' = WhoBelongs BY <1>4 DEF Digit, WhoBelongs, TargetMembers, Belongs
  <2>2. ASSUME Running, NEW c \in Boxes, said'[c] = <<>> PROVE said[c] = <<>>
    <3>1. CASE UNCHANGED said BY <2>2, <3>1
    <3>2. CASE Says(b, "radio")
      <4>1. "radio" \in Sources BY DEF Sources
      <4> QED BY <2>2, <3>2, <4>1, SaidMeanwhile
    <3> QED BY <1>4, <3>1, <3>2 DEF Digit
  <2>3. InHand' = InHand
    <3>1. UNCHANGED <<pass, believed, joined, refused, arriving, waiting, doing>> BY <1>4 DEF Digit
    <3> QED BY <3>1 DEF InHand
  <2>4. UNCHANGED <<on, wanted, life>> BY <1>4 DEF Digit
  <2> QED BY <2>1, <2>2, <2>3, <2>4, StillInHand
<1>5. ASSUME NEW b \in Boxes, InOrOut(b) PROVE NobodyDropped'
  BY <1>5 DEF InOrOut, Returns, NobodyDropped
<1>6. CASE SwitchFlips
  BY <1>6 DEF SwitchFlips, NobodyDropped
<1>7. CASE ConsolesChange
  BY <1>7 DEF ConsolesChange, NobodyDropped
<1>8. ASSUME NEW b \in Boxes, Read(b) PROVE NobodyDropped'
  BY <1>8 DEF Read, NobodyDropped
<1>9. ASSUME NEW b \in Boxes, PressRead(b) PROVE NobodyDropped'
  <2>1. CASE wanted' BY <2>1 DEF NobodyDropped
  <2>2. CASE UNCHANGED <<belongingVars, wanted>>
    <3>1. UNCHANGED <<on, life, said, pass, believed, joined, refused, arriving, waiting, doing>> BY <1>9 DEF PressRead, Returns
    <3>2. InHand' = InHand BY <3>1 DEF InHand
    <3>3. \A c \in Boxes : c \in WhoBelongs' /\ said[c] = <<>> => c \in WhoBelongs
      BY <1>9, <2>2 DEF PressRead, Returns, WhoBelongs, TargetMembers, Belongs
    <3>4. WhoBelongs' \subseteq Boxes BY DEF WhoBelongs, TargetMembers
    <3> QED BY <2>2, <3>1, <3>2, <3>3, <3>4 DEF NobodyDropped, Running
  <2> QED BY <1>9, <2>1, <2>2 DEF PressRead, Returns
<1>10. ASSUME NEW b \in Boxes, Booked(b) PROVE NobodyDropped'
  <2>1. CASE wanted' BY <2>1 DEF NobodyDropped
  <2>2. CASE HandedTheChannel(b) /\ UNCHANGED <<belongingVars, wanted>>
    <3>1. WhoBelongs' = WhoBelongs BY <1>10, <2>2 DEF Booked, WhoBelongs, TargetMembers, Belongs
    <3>2. ASSUME Running, NEW c \in Boxes, said'[c] = <<>> PROVE said[c] = <<>>
      <4>1. CASE UNCHANGED said BY <3>2, <4>1
      <4>2. CASE Says(b, "radio")
        <5>1. "radio" \in Sources BY DEF Sources
        <5> QED BY <3>2, <4>2, <5>1, SaidMeanwhile
      <4> QED BY <2>2, <4>1, <4>2 DEF HandedTheChannel
    <3>3. InHand' = InHand
      <4>1. UNCHANGED <<pass, believed, joined, refused, arriving, waiting, doing>> BY <1>10 DEF Booked
      <4> QED BY <4>1 DEF InHand
    <3>4. UNCHANGED <<on, wanted, life>> BY <1>10, <2>2 DEF Booked
    <3> QED BY <3>1, <3>2, <3>3, <3>4, StillInHand
  <2> QED BY <1>10, <2>1, <2>2 DEF Booked, DialledOnItsOwn
<1>11. ASSUME NEW b \in Boxes, WakeEnds(b) PROVE NobodyDropped'
  <2>1. \A c \in Boxes : c \in WhoBelongs' => c \in WhoBelongs
    BY <1>11 DEF WakeEnds, WhoBelongs, TargetMembers, Belongs, Observes, TypeOK, BelongingTypeOK, Entries
  <2>2. said' = said BY <1>11 DEF WakeEnds
  <2>3. InHand' = InHand
    <3>1. UNCHANGED <<pass, believed, joined, refused, arriving, waiting, doing>> BY <1>11 DEF WakeEnds
    <3> QED BY <3>1 DEF InHand
  <2>4. UNCHANGED <<on, wanted, life>> BY <1>11 DEF WakeEnds
  <2> QED BY <2>1, <2>2, <2>3, <2>4, StillInHand
<1>12. CASE Poll
  BY <1>12 DEF Poll, NobodyDropped
<1>13. CASE Asked
  <2>1. InHand' = Boxes BY <1>13 DEF Asked, InHand
  <2> QED BY <2>1 DEF NobodyDropped, WhoBelongs, TargetMembers
<1>14. CASE Believe
  <2>1. InHand' = believed' BY <1>14 DEF Believe, WhoBelongs, TargetMembers, InHand
  <2>2. believed' = WhoBelongs' BY <1>14 DEF Believe, WhoBelongs, TargetMembers, Belongs
  <2> QED BY <2>1, <2>2 DEF NobodyDropped
<1>15. CASE WrittenDown
  <2>1. WhoBelongs' = WhoBelongs BY <1>15 DEF WrittenDown, WhoBelongs, TargetMembers, Belongs
  <2>2. said' = said BY <1>15 DEF WrittenDown
  <2>3. on => InHand' = InHand BY <1>15 DEF WrittenDown, InHand
  <2>4. UNCHANGED <<on, wanted, life>> BY <1>15 DEF WrittenDown
  <2> QED BY <2>1, <2>2, <2>3, <2>4, StillInHand
<1>16. CASE Bind
  <2>0. CASE wanted' BY <2>0 DEF NobodyDropped
  <2>5. CASE NewMaster
    <3>1. WhoBelongs' = WhoBelongs BY <1>16, <2>5 DEF Bind, NewMaster, PortsBusy, WhoBelongs, TargetMembers, Belongs
    <3>2. said' = said BY <1>16, <2>5 DEF Bind, NewMaster, PortsBusy
    <3>3. InHand' = InHand BY <1>16, <2>5 DEF Bind, NewMaster, PortsBusy, InHand
    <3>4. UNCHANGED <<on, wanted, life>> BY <1>16, <2>5 DEF Bind, NewMaster, PortsBusy
    <3> QED BY <3>1, <3>2, <3>3, <3>4, StillInHand
  <2> QED BY <1>16, <2>0, <2>5 DEF Bind, NewMaster, PortsBusy
<1>17. ASSUME NEW b \in Boxes, LetGo(b) PROVE NobodyDropped'
  <2>1. WhoBelongs' = WhoBelongs BY <1>17 DEF LetGo, Letting, Quitting, WhoBelongs, TargetMembers, Belongs
  <2>2. said' = said BY <1>17 DEF LetGo, Letting, Quitting
  <2>3. InHand' = InHand BY <1>17 DEF LetGo, Letting, Quitting, InHand
  <2>4. UNCHANGED <<on, wanted, life>> BY <1>17 DEF LetGo, Letting, Quitting
  <2> QED BY <2>1, <2>2, <2>3, <2>4, StillInHand
<1>18. ASSUME NEW b \in Boxes, Released(b) PROVE NobodyDropped'
  <2>1. WhoBelongs' = WhoBelongs BY <1>18 DEF Released, WhoBelongs, TargetMembers, Belongs
  <2>2. ASSUME Running, NEW c \in Boxes, said'[c] = <<>> PROVE said[c] = <<>>
    <3>1. CASE UNCHANGED said BY <2>2, <3>1
    <3>2. CASE Says(b, "standby")
      <4>1. "standby" \in Sources BY DEF Sources
      <4> QED BY <2>2, <3>2, <4>1, SaidMeanwhile
    <3> QED BY <1>18, <3>1, <3>2 DEF Released
  <2>3. Running => InHand' = InHand BY <1>18 DEF Released, CallPhases, Running, InHand
  <2>4. UNCHANGED <<on, wanted, life>> BY <1>18 DEF Released
  <2> QED BY <2>1, <2>2, <2>3, <2>4, StillInHand
<1>19. ASSUME NEW b \in Boxes, OnItsOwn(b) PROVE NobodyDropped'
  <2>1. WhoBelongs' = WhoBelongs BY <1>19 DEF OnItsOwn, HandedTheChannel, WhoBelongs, TargetMembers, Belongs
  <2>2. ASSUME Running, NEW c \in Boxes, said'[c] = <<>> PROVE said[c] = <<>>
    <3>1. CASE UNCHANGED said BY <2>2, <3>1
    <3>2. CASE Says(b, "radio")
      <4>1. "radio" \in Sources BY DEF Sources
      <4> QED BY <2>2, <3>2, <4>1, SaidMeanwhile
    <3> QED BY <1>19, <3>1, <3>2 DEF OnItsOwn, HandedTheChannel
  <2>3. Running => InHand' = InHand BY <1>19 DEF OnItsOwn, HandedTheChannel, CallPhases, Running, InHand
  <2>4. UNCHANGED <<on, wanted, life>> BY <1>19 DEF OnItsOwn, HandedTheChannel
  <2> QED BY <2>1, <2>2, <2>3, <2>4, StillInHand
<1>20. CASE TakeIn
  <2>1. WhoBelongs' = WhoBelongs BY <1>20 DEF TakeIn, Letting, Quitting, Sends, WhoBelongs, TargetMembers, Belongs
  <2>2. said' = said BY <1>20 DEF TakeIn, Letting, Quitting, Sends
  <2>3. ASSUME on, NEW d \in Boxes, d \in WhoBelongs, d \in InHand PROVE d \in InHand'
    <3>1. InHand = believed /\ quiet \subseteq refused BY <1>20 DEF TakeIn, Letting, Quitting, Sends, InHand, TypeOK
    <3>2. UNCHANGED <<joined, refused>> BY <1>20 DEF TakeIn, Letting, Quitting, Sends
    <3>3. CASE open # {}
      <4>1. waiting' = (believed \ joined) \ quiet /\ pass' = "backing" BY <1>20, <3>3 DEF TakeIn, Letting, Quitting, Sends
      <4>2. InHand' = joined \cup refused \cup waiting' BY <3>2, <4>1 DEF InHand
      <4> QED BY <2>3, <3>1, <4>1, <4>2
    <3>4. CASE (believed \ joined) \ quiet = {}
      <4>1. pass' = "backing" BY <1>20, <3>4 DEF TakeIn, Letting, Quitting, Sends
      <4>2. InHand' = joined \cup refused \cup waiting' BY <3>2, <4>1 DEF InHand
      <4> QED BY <2>3, <3>1, <3>4, <4>2
    <3>5. CASE pass' = "fetching" /\ arriving' = (believed \ joined) \ quiet
      <4>1. InHand' = joined \cup refused \cup arriving' BY <3>2, <3>5 DEF InHand
      <4> QED BY <2>3, <3>1, <3>5, <4>1
    <3>6. CASE Sends((believed \ joined) \ quiet)
      <4>1. InHand' = joined \cup refused \cup waiting' \cup {x \in Boxes : BeingTakenIn(x)'}
        BY <3>2, <3>6 DEF InHand, Sends
      <4>2. d \in (believed \ joined) \ quiet => BeingTakenIn(d)' BY <2>3, <3>6 DEF Sends
      <4> QED BY <2>3, <3>1, <4>1, <4>2
    <3> QED BY <1>20, <3>3, <3>4, <3>5, <3>6 DEF TakeIn
  <2>4. UNCHANGED <<on, wanted, life>> BY <1>20 DEF TakeIn, Letting, Quitting, Sends
  <2> QED BY <2>1, <2>2, <2>3, <2>4, StillInHand
<1>21. CASE Fetched
  <2>1. WhoBelongs' = WhoBelongs BY <1>21 DEF Fetched, Sends, WhoBelongs, TargetMembers, Belongs
  <2>2. said' = said BY <1>21 DEF Fetched, Sends
  <2>3. ASSUME on, NEW c \in Boxes, c \in WhoBelongs, c \in InHand PROVE c \in InHand'
    <3>1. c \in joined \cup refused \cup arriving BY <1>21, <2>3 DEF Fetched, Sends, InHand
    <3>2. InHand' = joined \cup refused \cup waiting \cup {b \in Boxes : BeingTakenIn(b)'}
      BY <1>21 DEF Fetched, Sends, InHand
    <3>3. c \in arriving => BeingTakenIn(c)' BY <1>21, <2>3 DEF Fetched, Sends
    <3> QED BY <3>1, <3>2, <3>3
  <2>4. UNCHANGED <<on, wanted, life>> BY <1>21 DEF Fetched, Sends
  <2> QED BY <2>1, <2>2, <2>3, <2>4, StillInHand
<1>22. CASE TakenIn
  <2>1. WhoBelongs' = WhoBelongs BY <1>22 DEF TakenIn, WhoBelongs, TargetMembers, Belongs
  <2>2. said' = said BY <1>22 DEF TakenIn
  <2>3. InHand \subseteq InHand' BY <1>22 DEF TakenIn, InHand, TypeOK
  <2>4. UNCHANGED <<on, wanted, life>> BY <1>22 DEF TakenIn
  <2> QED BY <2>1, <2>2, <2>3, <2>4, StillInHand
<1>23. CASE BackedUp
  <2>1. WhoBelongs' = WhoBelongs BY <1>23 DEF BackedUp, WhoBelongs, TargetMembers, Belongs
  <2>2. said' = said BY <1>23 DEF BackedUp
  <2>3. InHand \subseteq InHand' BY <1>23 DEF BackedUp, InHand, TypeOK
  <2>4. UNCHANGED <<on, wanted, life>> BY <1>23 DEF BackedUp
  <2> QED BY <2>1, <2>2, <2>3, <2>4, StillInHand
<1>24. ASSUME NEW b \in Boxes, Muted(b) PROVE NobodyDropped'
  <2>1. WhoBelongs' = WhoBelongs BY <1>24 DEF Muted, WhoBelongs, TargetMembers, Belongs
  <2>2. said' = said BY <1>24 DEF Muted
  <2>3. InHand \subseteq InHand' BY <1>24 DEF Muted, InHand, TypeOK
  <2>4. UNCHANGED <<on, wanted, life>> BY <1>24 DEF Muted
  <2> QED BY <2>1, <2>2, <2>3, <2>4, StillInHand
<1>25. ASSUME NEW b \in Boxes, InfoAnswered(b) PROVE NobodyDropped'
  <2>1. WhoBelongs' = WhoBelongs BY <1>25 DEF InfoAnswered, WhoBelongs, TargetMembers, Belongs
  <2>2. said' = said BY <1>25 DEF InfoAnswered
  <2>3. InHand \subseteq InHand' BY <1>25 DEF InfoAnswered, InHand, TypeOK
  <2>4. UNCHANGED <<on, wanted, life>> BY <1>25 DEF InfoAnswered
  <2> QED BY <2>1, <2>2, <2>3, <2>4, StillInHand
<1>26. ASSUME NEW b \in Boxes, Joins(b) PROVE NobodyDropped'
  <2>1. WhoBelongs' = WhoBelongs BY <1>26 DEF Joins, Obeys, WhoBelongs, TargetMembers, Belongs
  <2>2. ASSUME Running, NEW c \in Boxes, said'[c] = <<>> PROVE said[c] = <<>>
    <3>1. CASE UNCHANGED said BY <2>2, <3>1
    <3>2. CASE Says(b, "zone")
      <4>1. "zone" \in Sources BY DEF Sources
      <4> QED BY <2>2, <3>2, <4>1, SaidMeanwhile
    <3> QED BY <1>26, <3>1, <3>2 DEF Joins, Obeys
  <2>3. Running => InHand \subseteq InHand' BY <1>26 DEF Joins, Obeys, InHand, CallPhases, Running, TypeOK
  <2>4. UNCHANGED <<on, wanted, life>> BY <1>26 DEF Joins, Obeys
  <2> QED BY <2>1, <2>2, <2>3, <2>4, StillInHand
<1>27. ASSUME NEW b \in Boxes, Refuses(b) PROVE NobodyDropped'
  <2>1. WhoBelongs' = WhoBelongs BY <1>27 DEF Refuses, Obeys, WhoBelongs, TargetMembers, Belongs
  <2>2. ASSUME Running, NEW c \in Boxes, said'[c] = <<>> PROVE said[c] = <<>>
    <3>1. CASE UNCHANGED said BY <2>2, <3>1
    <3>2. CASE Says(b, "zone")
      <4>1. "zone" \in Sources BY DEF Sources
      <4> QED BY <2>2, <3>2, <4>1, SaidMeanwhile
    <3> QED BY <1>27, <3>1, <3>2 DEF Refuses, Obeys
  <2>3. Running => InHand \subseteq InHand' BY <1>27 DEF Refuses, Obeys, InHand, CallPhases, Running, TypeOK
  <2>4. UNCHANGED <<on, wanted, life>> BY <1>27 DEF Refuses, Obeys
  <2> QED BY <2>1, <2>2, <2>3, <2>4, StillInHand
<1>28. ASSUME NEW b \in Boxes, Unsaved(b) PROVE NobodyDropped'
  <2>1. ~Running' BY <1>28 DEF Unsaved, Running
  <2> QED BY <2>1 DEF NobodyDropped
<1>29. CASE Dissolve
  <2>1. WhoBelongs' = WhoBelongs BY <1>29 DEF Dissolve, Rest, WhoBelongs, TargetMembers, Belongs
  <2>2. said' = said BY <1>29 DEF Dissolve, Rest
  <2>3. InHand = {} BY <1>29 DEF Dissolve, Rest, InHand
  <2>4. UNCHANGED <<on, wanted, life>> BY <1>29 DEF Dissolve, Rest
  <2> QED BY <2>1, <2>2, <2>3, <2>4, StillInHand
<1>30. ASSUME NEW b \in Boxes, Told(b) PROVE NobodyDropped'
  <2>1. WhoBelongs' = WhoBelongs BY <1>30 DEF Told, WhoBelongs, TargetMembers, Belongs
  <2>2. ASSUME Running, NEW c \in Boxes, said'[c] = <<>> PROVE said[c] = <<>>
    <3>1. CASE UNCHANGED said BY <2>2, <3>1
    <3>2. CASE Says(b, "standby")
      <4>1. "standby" \in Sources BY DEF Sources
      <4> QED BY <2>2, <3>2, <4>1, SaidMeanwhile
    <3> QED BY <1>30, <3>1, <3>2 DEF Told
  <2>3. InHand' = InHand
    <3>1. UNCHANGED <<pass, believed, joined, refused, arriving, waiting, doing>> BY <1>30 DEF Told
    <3> QED BY <3>1 DEF InHand
  <2>4. UNCHANGED <<on, wanted, life>> BY <1>30 DEF Told
  <2> QED BY <2>1, <2>2, <2>3, <2>4, StillInHand
<1>31. CASE Dissolved
  <2>1. WhoBelongs' = WhoBelongs BY <1>31 DEF Dissolved, Rest, WhoBelongs, TargetMembers, Belongs
  <2>2. said' = said BY <1>31 DEF Dissolved, Rest
  <2>3. InHand = {} BY <1>31 DEF Dissolved, Rest, InHand
  <2>4. UNCHANGED <<on, wanted, life>> BY <1>31 DEF Dissolved, Rest
  <2> QED BY <2>1, <2>2, <2>3, <2>4, StillInHand
<1>32. CASE End
  BY <1>32 DEF End, AfterTheCalls, Reached, NobodyDropped, Running
<1>33. CASE Stop
  BY <1>33 DEF Stop, AfterTheCalls, Reached, NobodyDropped, Running
<1>34. ASSUME NEW b \in Boxes,
             NumberDue(b) \/ QuietEnds(b)
      PROVE  NobodyDropped'
  BY <1>0, <1>34
  DEF NumberDue, QuietEnds
<1>35. CASE UNCHANGED vars BY <1>0, <1>35
<1> QED
  BY <1>1, <1>2, <1>3, <1>4, <1>5, <1>6, <1>7, <1>8, <1>9, <1>10, <1>11, <1>12, <1>13,
     <1>14, <1>15, <1>16, <1>17, <1>18, <1>19, <1>20, <1>21, <1>22, <1>23, <1>24,
     <1>25, <1>26, <1>27, <1>28, <1>29, <1>30, <1>31, <1>32, <1>33, <1>34, <1>35
  DEF Next, People, CallStep, PassStep, AllDone


-----------------------------------------------------------------------------
(* The invariant, and what it is for *)

IInv ==
  /\ TypeOK /\ PassPhases /\ CallPhases
  /\ PlaysZone /\ Nameless /\ LastWord /\ InTurn
  /\ Harmless => HeldStays /\ Listed
  /\ NobodyDropped

\* The service starts with nobody in the zone and everything still to be asked.
LEMMA InvInit == Init => IInv
<1> SUFFICES ASSUME Init PROVE IInv OBVIOUS
<1>1. TypeOK BY TypeInit
<1>2. \A b \in Boxes : said[b] = <<>> /\ Idle(b) BY DEF Init
<1>3. PassPhases /\ CallPhases BY <1>2 DEF Init, PassPhases, CallPhases, Running
<1>4. PlaysZone BY DEF Init, PlaysZone
<1>5. Nameless /\ LastWord
  <2>1. \A b \in Boxes : \/ heard[b].source = plays[b] /\ ~heard[b].remembered
                         \/ heard[b].source = NoSource /\ heard[b].remembered
    BY DEF Init, Unheard, Named, Restored
  <2> QED BY <1>2, <2>1 DEF Nameless, LastWord
<1>6. InTurn BY <1>2 DEF InTurn
<1>7. HeldStays /\ Listed
  BY <1>2 DEF Init, HeldStays, Held, Listed, OnTheList, InTheBooks, TheEndReachesIt
<1>8. NobodyDropped BY DEF Init, NobodyDropped
<1> QED BY <1>1, <1>3, <1>4, <1>5, <1>6, <1>7, <1>8 DEF IInv

\* Every step keeps it.
LEMMA InvStep == IInv /\ [Next]_vars => IInv'
<1> SUFFICES ASSUME IInv, [Next]_vars PROVE IInv' OBVIOUS
<1> USE DEF IInv
<1>1. TypeOK' BY TypeStep
<1>2. PassPhases' BY PassPhasesStep
<1>3. CallPhases' BY CallPhasesStep
<1>4. PlaysZone' BY PlaysZoneStep
<1>5. Nameless' BY NamelessStep
<1>6. LastWord' BY LastWordStep
<1>7. InTurn' BY InTurnStep
<1>8. ASSUME Harmless' PROVE HeldStays' /\ Listed'
  <2>1. Harmless BY <1>8, FaultsOnlyGrow
  <2>2. HeldStays /\ Listed BY <2>1
  <2>3. HeldStays' BY <1>8, <2>2, HeldStaysStep
  <2>4. OnTheList' BY <1>8, <2>2, OnTheListStep
  <2>5. InTheBooks' BY <1>8, <2>2, InTheBooksStep
  <2>6. TheEndReachesIt' BY <1>8, <2>2, TheEndReachesItStep
  <2> QED BY <2>3, <2>4, <2>5, <2>6 DEF Listed
<1>9. NobodyDropped' BY NobodyDroppedStep
<1> QED BY <1>1, <1>2, <1>3, <1>4, <1>5, <1>6, <1>7, <1>8, <1>9

\* What a running pass, the reader and a stop of the service may do to one
\* another, they do within IInv.
THEOREM InvariantHolds == Spec => []IInv
<1>1. IInv /\ [Next]_vars => IInv' BY InvStep
<1> QED BY InvInit, <1>1, PTL DEF Spec

\* Every variable keeps its type, and the counts their bounds.
THEOREM TypeCorrect == Spec => []TypeOK
<1>1. IInv => TypeOK BY DEF IInv
<1> QED BY InvariantHolds, <1>1, PTL

\* A box that holds our zone document is on the master's list, whatever order
\* joins, leaves, releases and stops come in.
THEOREM BoundBoxesAreListed == Spec => []BoundIsListed
<1>1. IInv => BoundIsListed BY DEF IInv, BoundIsListed, Harmless, Listed, OnTheList
<1> QED BY InvariantHolds, <1>1, PTL

\* A service that has ended, wherever the stop landed in its pass, has left no
\* box in the zone unless a fault that leaves one behind has happened.
THEOREM AStopLeavesNoBoxInTheZone == Spec => []AStopFreesEveryBox
<1>1. IInv => AStopFreesEveryBox
  BY DEF IInv, AStopFreesEveryBox, Harmless, Listed, TheEndReachesIt, PassPhases
<1> QED BY InvariantHolds, <1>1, PTL

\* A pass that has nothing left to do has taken in everybody who belongs, or
\* was refused, or lets them finish a number.
THEOREM NobodyWhoBelongsIsMissed == Spec => []NobodyIsMissed
<1>1. IInv => NobodyIsMissed
  <2> SUFFICES ASSUME IInv, Settled, on PROVE WhoBelongs \subseteq joined \cup refused \cup waiting
    BY DEF NobodyIsMissed
  <2>1. InHand = joined \cup refused \cup waiting BY DEF Settled, InHand
  <2>2. WhoBelongs \subseteq Boxes BY DEF WhoBelongs, TargetMembers
  <2> QED BY <2>1, <2>2 DEF IInv, NobodyDropped, Settled, Running
<1> QED BY InvariantHolds, <1>1, PTL
=============================================================================
