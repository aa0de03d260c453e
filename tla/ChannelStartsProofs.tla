------------------------ MODULE ChannelStartsProofs ------------------------
(***************************************************************************)
(* Proofs about ChannelStarts for every number of starts, every list of    *)
(* channels and whatever becomes of MPD: with nothing under way the zone   *)
(* plays what the last start asked for.                                    *)
(*                                                                         *)
(* Of everything a start does, only its place in line counts: the effects  *)
(* below are all that a step of the module does to the starts, their       *)
(* tokens and their calls of play().                                       *)
(***************************************************************************)
EXTENDS ChannelStarts, TLAPS

\* What the argument needs of TypeOK.
StartsTypeOK ==
  /\ SwitchTypeOK
  /\ starts \in [Starts -> {"none", "created", "locking", "saving", "playing", "done", "raised"} \cup Asking \cup Loading]
  /\ token \in [Starts -> 0 .. MaxPlays] /\ startsAsked \in 0 .. MaxPlays
  /\ callOf \in [Starts -> 0 .. MaxPlays]

\* The service runs: no stop and no clash has ended it.
Serving == pass # "ended"

\* With the service its workers have ended.
DialledOut == ~Serving => dial = "ended"
-----------------------------------------------------------------------------
(* What a step does to the starts *)

\* A start that has a token and is not over with its MPD half.
Busy == {"locking", "saving"} \cup Asking \cup Loading

\* It calls play(), gives up, or goes on.
Goes(s, newest) ==
  \/ newest /\ asked < MaxPlays /\ asked' = asked + 1 /\ station' = station
     /\ answer' = [answer EXCEPT ![asked + 1] = "open"]
     /\ starts' = [starts EXCEPT ![s] = "playing"] /\ callOf' = [callOf EXCEPT ![s] = asked + 1]
  \/ ~newest /\ starts' = [starts EXCEPT ![s] = "done"] /\ UNCHANGED <<callOf, switchVars>>
  \/ \E state \in Busy : starts' = [starts EXCEPT ![s] = state] /\ UNCHANGED <<callOf, switchVars>>

Lines == UNCHANGED <<token, startsAsked>> /\ Serving' = Serving

FirstRun(s) ==
  /\ starts[s] = "created" /\ \A other \in Starts : starts[other] = "created" => s <= other
  /\ startsAsked' = startsAsked + 1 /\ token' = [token EXCEPT ![s] = startsAsked + 1]
  /\ Goes(s, TRUE) /\ Serving' = Serving

GoesOn(s) == starts[s] \in Busy /\ Goes(s, token[s] = startsAsked) /\ Lines

Born(s) ==
  /\ Serving /\ starts[s] = "none" /\ \A other \in Unborn : s <= other
  /\ starts' = [starts EXCEPT ![s] = "created"] /\ UNCHANGED <<callOf, switchVars>> /\ Lines

Broken(s) ==
  /\ starts[s] \in Busy
  /\ starts' = [starts EXCEPT ![s] = "raised"] /\ UNCHANGED <<callOf, switchVars>> /\ Lines

Back(s) ==
  /\ starts[s] = "playing" /\ answer[callOf[s]] \in {"won", "lost"}
  /\ starts' = [starts EXCEPT ![s] = "done"] /\ UNCHANGED <<callOf, switchVars>> /\ Lines

Settles(u) == (Win(u) \/ Lose(u)) /\ UNCHANGED <<starts, callOf>> /\ Lines

Cancels ==
  /\ starts' = [s \in Starts |-> IF starts[s] = "none" THEN "none" ELSE "done"]
  /\ UNCHANGED <<switchVars, callOf, token, startsAsked>> /\ ~Serving'

\* The pass, the dialler and MPD: at most the station is stopped.
Elsewhere == UNCHANGED <<starts, callOf, asked, answer>> /\ station' \in {station, NoStation} /\ Lines

Effect ==
  \/ \E s \in Starts : FirstRun(s) \/ GoesOn(s) \/ Born(s) \/ Broken(s) \/ Back(s)
  \/ \E u \in Calls : Settles(u)
  \/ Cancels \/ Elsewhere

\* Inside the lock, what MPD held asked about or not, a start does one of the three.
LEMMA PutOnGoes ==
  ASSUME NEW s \in Starts, NEW newest \in BOOLEAN, NEW written, PutOn(s, newest, written)
  PROVE  Goes(s, newest)
BY DEF PutOn, CallsPlay, GivesUp, Ask, Goes, Busy, Loading

\* Granted the lock, or finding it free, it does one of the three.
LEMMA InTheLockGoes ==
  ASSUME NEW s \in Starts, NEW newest \in BOOLEAN, InTheLock(s, newest)
  PROVE  Goes(s, newest)
<1>1. CASE ~newest BY <1>1 DEF InTheLock, GivesUp, Goes
<1>2. CASE newest /\ mpdChannel # NoNumber BY <1>2 DEF InTheLock, Goes, Busy, Asking
<1>3. CASE newest /\ mpdChannel = NoNumber BY <1>3, PutOnGoes DEF InTheLock
<1> QED BY <1>1, <1>2, <1>3

\* So it does when its MPD half is over.
LEMMA AfterMpdGoes ==
  ASSUME NEW s \in Starts, AfterMpd(s)
  PROVE  Goes(s, token[s] = startsAsked)
BY DEF AfterMpd, CallsPlay, GivesUp, Ask, Goes

\* Every step of the module has one of the effects.
LEMMA StepHasEffect ==
  ASSUME DialledOut, [Next]_vars
  PROVE  Effect
<1> USE DEF vars, switchVars, houseVars, startVars, mpdVars, actorVars, Lines, Serving
<1>1. ASSUME NEW s \in Starts, Enter(s) PROVE Effect
  <2>1. Goes(s, TRUE)
    <3>1. CASE InTheLock(s, TRUE) BY <3>1, InTheLockGoes
    <3>2. CASE starts' = [starts EXCEPT ![s] = "locking"] /\ UNCHANGED <<callOf, switchVars>>
      BY <3>2 DEF Goes, Busy
    <3> QED BY <1>1, <3>1, <3>2 DEF Enter
  <2> QED BY <1>1, <2>1 DEF Enter, FirstRun, Effect
<1>2. ASSUME NEW s \in Starts, Granted(s) PROVE Effect
  <2>1. Goes(s, token[s] = startsAsked) BY <1>2, InTheLockGoes DEF Granted
  <2> QED BY <1>2, <2>1 DEF Granted, GoesOn, Busy, Effect
<1>3. ASSUME NEW s \in Starts, Remembered(s) \/ Named(s) \/ Saved(s) PROVE Effect
  <2>1. PutOn(s, token[s] = startsAsked, places) \/ Saves(s) BY <1>3 DEF Remembered, Named, Saved
  <2>2. Goes(s, token[s] = startsAsked) BY <2>1, PutOnGoes DEF Saves, Goes, Busy
  <2> QED BY <1>3, <2>2 DEF Remembered, Named, Saved, GoesOn, Busy, Asking, Effect
<1>4. ASSUME NEW s \in Starts, ToBeNamed(s) PROVE Effect
  <2>1. Goes(s, token[s] = startsAsked) BY <1>4 DEF ToBeNamed, Goes, Busy, Asking
  <2> QED BY <1>4, <2>1 DEF ToBeNamed, GoesOn, Busy, Asking, Effect
<1>5. ASSUME NEW s \in Starts, LoadsOn(s) PROVE Effect
  <2>1. starts[s] \in Loading /\ After[starts[s]] \in Loading BY <1>5 DEF LoadsOn, Loading, LastOfAll, After
  <2>2. Goes(s, token[s] = startsAsked) BY <1>5, <2>1 DEF LoadsOn, Goes, Busy
  <2> QED BY <1>5, <2>1, <2>2 DEF LoadsOn, GoesOn, Busy, Effect
<1>6. ASSUME NEW s \in Starts, Loaded(s) \/ NotThere(s) \/ NotLoaded(s) PROVE Effect
  <2>1. starts[s] \in Loading BY <1>6 DEF Loaded, LastOfAll, NotThere, NotLoaded, Loading
  <2>2. AfterMpd(s) BY <1>6 DEF Loaded, NotThere, NotLoaded, Taken, NotTaken
  <2>3. Goes(s, token[s] = startsAsked) BY <2>2, AfterMpdGoes
  <2> QED BY <1>6, <2>1, <2>3 DEF Loaded, NotThere, NotLoaded, GoesOn, Busy, Effect
<1>7. ASSUME NEW s \in Starts, Raises(s) \/ Unsaved(s) PROVE Effect
  BY <1>7 DEF Raises, Unsaved, Speaking, Broken, Busy, Effect
<1>8. ASSUME NEW s \in Starts, Returned(s) PROVE Effect
  BY <1>8 DEF Returned, Back, Effect
<1>9. ASSUME NEW u \in Calls, Answered(u) PROVE Effect
  BY <1>9 DEF Answered, Settles, Effect
<1>10. CASE Dispatch \/ StartInline
  <2>1. CASE Created("created") /\ UNCHANGED switchVars /\ Lines
    <3>1. Serving BY <1>10 DEF Dispatch, StartInline, DialledOut
    <3> QED BY <2>1, <3>1 DEF Created, Unborn, Born, Effect
  <2>2. CASE UNCHANGED <<startVars, switchVars>> /\ Lines
    BY <2>2 DEF Elsewhere, Effect
  <2> QED BY <1>10, <2>1, <2>2 DEF Dispatch, StartInline, Created
<1>11. CASE StartedInline \/ Empty
  BY <1>11 DEF StartedInline, Empty, StopStation, Elsewhere, Effect
<1>12. CASE Ends
  BY <1>12 DEF Ends, Cancels, Effect
<1>13. CASE \/ \E n \in Numbers : Dial(n)
            \/ \E gesture \in Gestures : Step(gesture)
            \/ Book \/ StepInside \/ StepAsked \/ QueueRead \/ Moved \/ StepFails
            \/ TakeIn \/ StandDown \/ StandDownNames \/ StoodDown \/ MpdStep \/ SwitchOff \/ AllDone
            \/ UNCHANGED vars
  <2>1. UNCHANGED <<startVars, switchVars>> /\ Lines
    BY <1>13
    DEF Dial, Step, Book, StepInside, StepAsked, QueueRead, Moved, StepFails, TakeIn, StandDown, StandDownNames,
        StoodDown, Dissolved, Asking, MpdStep, SwitchOff, AllDone
  <2> QED BY <2>1 DEF Elsewhere, Effect
<1> QED
  BY <1>1, <1>2, <1>3, <1>4, <1>5, <1>6, <1>7, <1>8, <1>9, <1>10, <1>11, <1>12, <1>13
  DEF Next, StartStep, DialStep, PassStep

\* Nothing brings a worker back.
LEMMA DialledOutStep ==
  ASSUME DialledOut, [Next]_vars
  PROVE  DialledOut'
<1> USE DEF DialledOut, Serving, vars, actorVars
<1>1. ASSUME NEW s \in Starts, StartStep(s) PROVE DialledOut'
  BY <1>1 DEF StartStep, Enter, Granted, Remembered, ToBeNamed, Named, Saved, Unsaved, LoadsOn, Loaded, NotThere, NotLoaded, Raises,
              Returned
<1>2. ASSUME NEW u \in Calls, Answered(u) PROVE DialledOut' BY <1>2 DEF Answered
<1>3. CASE DialStep
  BY <1>3 DEF DialStep, Dial, Step, Book, Dispatch, StepInside, StepAsked, QueueRead, Moved, StepFails, Stepping,
              StepIsOver, GoesTo
<1>4. CASE PassStep
  BY <1>4 DEF PassStep, TakeIn, StartInline, StartedInline, Empty, StandDown, StandDownNames, StoodDown, Dissolved,
              Asking
<1>5. CASE MpdStep \/ SwitchOff \/ Ends \/ AllDone \/ UNCHANGED vars
  BY <1>5 DEF MpdStep, SwitchOff, Ends, AllDone
<1> QED BY <1>1, <1>2, <1>3, <1>4, <1>5 DEF Next
-----------------------------------------------------------------------------
(* The invariant *)

\* With the service its starts are cancelled.
AllOver == ~Serving => \A s \in Starts : starts[s] \in {"none", "done"}

\* Starts are created, and take their tokens, in the order of their numbers.
InOrder ==
  Serving => \A s \in Starts :
    /\ starts[s] \in {"none", "created"} <=> startsAsked < s
    /\ s <= startsAsked => token[s] = s
    /\ \A r \in Starts : r < s /\ starts[s] # "none" => starts[r] # "none"

\* The newest call of play() is the newest start's, once that has made one: no
\* other has called since, and it does not give up.
NewestCalls ==
  Serving => \A s \in Starts :
    /\ s = startsAsked /\ starts[s] \in {"playing", "done"} => callOf[s] = asked /\ asked # 0
    /\ s = startsAsked /\ starts[s] = "playing" => answer[asked] \in {"open", "won"}
    /\ s = startsAsked /\ starts[s] = "done" => answer[asked] = "won"

\* The newest call that was won is on the zone, unless that was stopped.
WonIsOn == asked # 0 /\ answer[asked] = "won" => station \in {NoStation, asked}

\* The inductive invariant.
IInv == StartsTypeOK /\ DialledOut /\ AllOver /\ InOrder /\ NewestCalls /\ WonIsOn

\* With no start created there is nothing to keep.
LEMMA InvInit == Init => IInv
<1> SUFFICES ASSUME Init PROVE IInv OBVIOUS
<1>1. MaxPlays \in Nat \ {0} BY MaxPlaysAssumption
<1>2. StartsTypeOK BY <1>1 DEF Init, SwitchInit, StartsTypeOK, SwitchTypeOK, Starts, Calls, NoStation
<1>3. InOrder BY <1>1 DEF Init, InOrder, Starts, Calls
<1>5. DialledOut /\ AllOver BY DEF Init, DialledOut, AllOver, Serving
<1>4. NewestCalls /\ WonIsOn BY <1>1 DEF Init, SwitchInit, NewestCalls, WonIsOn, Starts, Calls
<1> QED BY <1>2, <1>3, <1>4, <1>5 DEF IInv

\* A start that runs for the first time is the next in line.
LEMMA NextInLine ==
  ASSUME IInv, Serving, NEW s \in Starts, FirstRun(s)
  PROVE  s = startsAsked + 1
<1>1. s \in Nat /\ startsAsked \in Nat /\ MaxPlays \in Nat BY MaxPlaysAssumption DEF IInv, StartsTypeOK, Starts, Calls
<1>2. startsAsked < s BY DEF IInv, InOrder, FirstRun
<1>3. ASSUME startsAsked + 1 < s PROVE FALSE
  <2>1. startsAsked + 1 \in Starts BY <1>1, <1>3 DEF Starts, Calls
  <2>2. starts[startsAsked + 1] \in {"none", "created"} BY <1>1, <2>1 DEF IInv, InOrder
  <2>3. starts[startsAsked + 1] # "none" BY <1>3, <2>1 DEF IInv, InOrder, FirstRun
  <2> QED BY <1>1, <1>3, <2>1, <2>2, <2>3 DEF FirstRun
<1> QED BY <1>1, <1>2, <1>3

\* A step keeps the types of the starts and their calls.
LEMMA TypesStep ==
  ASSUME IInv, Effect
  PROVE  StartsTypeOK'
<1> USE MaxPlaysAssumption DEF StartsTypeOK, SwitchTypeOK, Starts, Calls, Lines
<1>1. StartsTypeOK BY DEF IInv
<1>2. ASSUME NEW s \in Starts, NEW newest \in BOOLEAN, Goes(s, newest)
      PROVE  /\ SwitchTypeOK' /\ callOf' \in [Starts -> 0 .. MaxPlays]
             /\ starts' \in [Starts -> {"none", "created", "locking", "saving", "playing", "done", "raised"}
                                         \cup Asking \cup Loading]
  <2>1. CASE /\ asked < MaxPlays /\ asked' = asked + 1 /\ station' = station
             /\ answer' = [answer EXCEPT ![asked + 1] = "open"]
             /\ starts' = [starts EXCEPT ![s] = "playing"] /\ callOf' = [callOf EXCEPT ![s] = asked + 1]
    <3>1. asked + 1 \in 1 .. MaxPlays BY <1>1, <2>1
    <3> QED BY <1>1, <2>1, <3>1
  <2>2. CASE \E state \in {"done"} \cup Busy : starts' = [starts EXCEPT ![s] = state] /\ UNCHANGED <<callOf, switchVars>>
    BY <1>1, <2>2 DEF Busy, switchVars
  <2> QED BY <1>2, <2>1, <2>2 DEF Goes
<1>3. ASSUME NEW s \in Starts, FirstRun(s) PROVE StartsTypeOK'
  <2>1. CASE startsAsked < MaxPlays
    <3>1. startsAsked + 1 \in 0 .. MaxPlays BY <1>1, <2>1
    <3>2. token' \in [Starts -> 0 .. MaxPlays] /\ startsAsked' \in 0 .. MaxPlays BY <1>1, <1>3, <3>1 DEF FirstRun
    <3> QED BY <1>2, <1>3, <3>2 DEF FirstRun
  <2>2. CASE ~Serving BY <1>3, <2>2 DEF FirstRun, IInv, AllOver
  <2>3. Serving => startsAsked < MaxPlays BY <1>1, <1>3, NextInLine
  <2> QED BY <2>1, <2>2, <2>3
<1>4. ASSUME NEW s \in Starts, GoesOn(s) PROVE StartsTypeOK' BY <1>1, <1>2, <1>4 DEF GoesOn
<1>5. ASSUME NEW s \in Starts, Born(s) \/ Broken(s) \/ Back(s) PROVE StartsTypeOK'
  BY <1>1, <1>5 DEF Born, Broken, Back, switchVars
<1>6. ASSUME NEW u \in Calls, Settles(u) PROVE StartsTypeOK' BY <1>1, <1>6 DEF Settles, Win, Lose
<1>7. CASE Cancels \/ Elsewhere BY <1>1, <1>7 DEF Cancels, Elsewhere, switchVars, NoStation
<1> QED BY <1>3, <1>4, <1>5, <1>6, <1>7 DEF Effect

\* Once the service has ended, no start is under way.
LEMMA AllOverStep ==
  ASSUME IInv, Effect
  PROVE  AllOver'
<1> USE DEF AllOver, Lines, IInv, StartsTypeOK
<1>1. ASSUME NEW s \in Starts, FirstRun(s) \/ GoesOn(s) \/ Born(s) \/ Broken(s) \/ Back(s) PROVE AllOver'
  <2>1. Serving BY <1>1 DEF FirstRun, GoesOn, Born, Broken, Back, Busy, Asking, Loading
  <2> QED BY <1>1, <2>1 DEF FirstRun, GoesOn, Born, Broken, Back
<1>2. CASE Cancels BY <1>2 DEF Cancels
<1>3. CASE (\E u \in Calls : Settles(u)) \/ Elsewhere BY <1>3 DEF Settles, Elsewhere
<1> QED BY <1>1, <1>2, <1>3 DEF Effect

\* The numbers of the starts, as the provers' arithmetic wants them.
LEMMA StartNumbers ==
  ASSUME IInv
  PROVE  /\ MaxPlays \in Nat \ {0} /\ startsAsked \in Nat /\ asked \in 0 .. MaxPlays
         /\ \A s \in Starts : s \in Nat \ {0} /\ s <= MaxPlays
BY MaxPlaysAssumption DEF IInv, StartsTypeOK, SwitchTypeOK, Starts, Calls

\* What goes on with one start leaves the others; only the newest makes a call.
LEMMA OthersStay ==
  ASSUME IInv, NEW s \in Starts, NEW newest \in BOOLEAN, Goes(s, newest)
  PROVE  /\ \A r \in Starts : r # s => starts'[r] = starts[r] /\ callOf'[r] = callOf[r]
         /\ starts'[s] \in {"playing", "done"} \cup Busy
         /\ starts'[s] = "playing" => newest /\ callOf'[s] = asked + 1 /\ asked' = asked + 1
                                      /\ asked + 1 \in Calls /\ answer'[asked + 1] = "open"
         /\ starts'[s] # "playing" => UNCHANGED switchVars
         /\ starts'[s] = "done" => ~newest
<1> USE StartNumbers DEF Starts, Calls, switchVars
<1>1. s \in DOMAIN starts /\ s \in DOMAIN callOf /\ answer \in [Calls -> {"none", "open", "won", "lost"}]
  BY DEF IInv, StartsTypeOK, SwitchTypeOK
<1>2. CASE /\ newest /\ asked < MaxPlays /\ asked' = asked + 1 /\ station' = station
           /\ answer' = [answer EXCEPT ![asked + 1] = "open"]
           /\ starts' = [starts EXCEPT ![s] = "playing"] /\ callOf' = [callOf EXCEPT ![s] = asked + 1]
  <2>1. asked + 1 \in Calls BY <1>2
  <2> QED BY <1>1, <1>2, <2>1
<1>3. CASE ~newest /\ starts' = [starts EXCEPT ![s] = "done"] /\ UNCHANGED <<callOf, switchVars>>
  BY <1>1, <1>3
<1>4. CASE \E state \in Busy : starts' = [starts EXCEPT ![s] = state] /\ UNCHANGED <<callOf, switchVars>>
  <2>1. PICK state \in Busy : starts' = [starts EXCEPT ![s] = state] /\ UNCHANGED <<callOf, switchVars>> BY <1>4
  <2>2. state \notin {"playing", "done"} BY DEF Busy, Asking, Loading
  <2> QED BY <1>1, <2>1, <2>2
<1> QED BY <1>2, <1>3, <1>4 DEF Goes

\* Every start has its own token, in the order of the starts.
LEMMA InOrderStep ==
  ASSUME IInv, Effect
  PROVE  InOrder'
<1> SUFFICES ASSUME Serving', NEW s \in Starts
             PROVE  /\ starts'[s] \in {"none", "created"} <=> startsAsked' < s
                    /\ s <= startsAsked' => token'[s] = s
                    /\ \A r \in Starts : r < s /\ starts'[s] # "none" => starts'[r] # "none"
  BY DEF InOrder
<1> USE StartNumbers DEF Lines
<1>1. CASE Serving
  <2>1. /\ starts[s] \in {"none", "created"} <=> startsAsked < s
        /\ s <= startsAsked => token[s] = s
        /\ \A r \in Starts : r < s /\ starts[s] # "none" => starts[r] # "none"
    BY <1>1 DEF IInv, InOrder
  <2>2. ASSUME NEW t \in Starts, FirstRun(t) PROVE InOrder'
    <3>1. t = startsAsked + 1 BY <1>1, <2>2, NextInLine
    <3>2. \A r \in Starts : r # t => starts'[r] = starts[r] BY <2>2, OthersStay DEF FirstRun
    <3>3. starts'[t] \notin {"none", "created"}
      BY <2>2, OthersStay DEF FirstRun, Busy, Asking, Loading
    <3>4. startsAsked' = startsAsked + 1 /\ token'[t] = t /\ \A r \in Starts : r # t => token'[r] = token[r]
      BY <2>2, <3>1 DEF FirstRun, IInv, StartsTypeOK
    <3>5. starts[t] = "created" BY <2>2 DEF FirstRun
    <3> QED BY <1>1, <3>1, <3>2, <3>3, <3>4, <3>5 DEF InOrder, IInv
  <2>3. ASSUME NEW t \in Starts, GoesOn(t) \/ Broken(t) \/ Back(t) PROVE InOrder'
    <3>1. \A r \in Starts : r # t => starts'[r] = starts[r]
      BY <2>3, OthersStay DEF GoesOn, Broken, Back, IInv, StartsTypeOK
    <3>2. starts'[t] \notin {"none", "created"} /\ starts[t] \notin {"none", "created"}
      BY <2>3, OthersStay DEF GoesOn, Broken, Back, Busy, Asking, Loading, IInv, StartsTypeOK
    <3>3. UNCHANGED <<token, startsAsked>> BY <2>3 DEF GoesOn, Broken, Back
    <3> QED BY <1>1, <3>1, <3>2, <3>3 DEF InOrder, IInv
  <2>4. ASSUME NEW t \in Starts, Born(t) PROVE InOrder'
    <3>1. starts'[t] = "created" /\ starts[t] = "none" /\ \A r \in Starts : r # t => starts'[r] = starts[r]
      BY <2>4 DEF Born, IInv, StartsTypeOK
    <3>2. \A r \in Starts : r < t => starts[r] # "none" BY <2>4 DEF Born, Unborn
    <3>3. UNCHANGED <<token, startsAsked>> BY <2>4 DEF Born
    <3> QED BY <1>1, <3>1, <3>2, <3>3 DEF InOrder, IInv
  <2>5. CASE (\E u \in Calls : Settles(u)) \/ Elsewhere BY <2>1, <2>5 DEF Settles, Elsewhere
  <2>6. CASE Cancels BY <2>6 DEF Cancels
  <2> QED BY <1>1, <2>2, <2>3, <2>4, <2>5, <2>6 DEF Effect, InOrder
<1>2. CASE ~Serving
  <2>1. CASE (\E u \in Calls : Settles(u)) \/ Elsewhere BY <1>2, <2>1 DEF Settles, Elsewhere
  <2>2. ASSUME NEW t \in Starts, FirstRun(t) \/ GoesOn(t) \/ Born(t) \/ Broken(t) \/ Back(t) PROVE FALSE
    BY <1>2, <2>2 DEF FirstRun, GoesOn, Born, Broken, Back
  <2>3. CASE Cancels BY <2>3 DEF Cancels
  <2> QED BY <2>1, <2>2, <2>3 DEF Effect
<1> QED BY <1>1, <1>2

\* Only the newest start makes a call, and no start that is not gives one up for it.
LEMMA NewestCallsStep ==
  ASSUME IInv, Effect
  PROVE  NewestCalls'
<1> SUFFICES ASSUME Serving', Serving PROVE NewestCalls'
  <2>1. CASE ~Serving
    <3>1. ASSUME NEW t \in Starts, FirstRun(t) \/ GoesOn(t) \/ Born(t) \/ Broken(t) \/ Back(t) PROVE ~Serving'
      BY <2>1, <3>1 DEF FirstRun, GoesOn, Born, Broken, Back, Lines
    <3>2. CASE (\E u \in Calls : Settles(u)) \/ Elsewhere \/ Cancels BY <2>1, <3>2 DEF Settles, Elsewhere, Lines, Cancels, NewestCalls
    <3> QED BY <3>1, <3>2 DEF Effect, NewestCalls
  <2> QED BY <2>1 DEF NewestCalls
<1> USE StartNumbers DEF Lines
<1>1. NewestCalls /\ InOrder BY DEF IInv
<1>2. ASSUME NEW t \in Starts, FirstRun(t) PROVE NewestCalls'
  <2>1. t = startsAsked' BY <1>2, NextInLine DEF FirstRun
  <2>2. starts'[t] = "playing" => callOf'[t] = asked' /\ asked' # 0 /\ answer'[asked'] = "open"
    <3>1. Goes(t, TRUE) BY <1>2 DEF FirstRun
    <3>2. starts'[t] = "playing" => callOf'[t] = asked + 1 /\ asked' = asked + 1 /\ answer'[asked + 1] = "open"
      BY <3>1, OthersStay
    <3> QED BY <3>2
  <2>3. starts'[t] # "done" BY <1>2, OthersStay DEF FirstRun
  <2> QED BY <2>1, <2>2, <2>3 DEF NewestCalls
<1>3. ASSUME NEW t \in Starts, GoesOn(t) PROVE NewestCalls'
  <2>1. token[t] = t
    <3>1. starts[t] \notin {"none", "created"} BY <1>3 DEF GoesOn, Busy, Asking, Loading
    <3> QED BY <1>1, <3>1 DEF InOrder
  <2>2. Goes(t, t = startsAsked) /\ UNCHANGED startsAsked BY <1>3, <2>1 DEF GoesOn
  <2>3. CASE t = startsAsked
    <3>1. starts'[t] = "playing" => callOf'[t] = asked' /\ asked' # 0 /\ answer'[asked'] = "open"
      <4>1. Goes(t, TRUE) BY <2>2, <2>3
      <4>2. starts'[t] = "playing" => callOf'[t] = asked + 1 /\ asked' = asked + 1 /\ answer'[asked + 1] = "open"
        BY <4>1, OthersStay
      <4> QED BY <4>2
    <3>2. starts'[t] # "done" BY <2>2, <2>3, OthersStay
    <3> QED BY <2>2, <2>3, <3>1, <3>2 DEF NewestCalls
  <2>4. CASE t # startsAsked
    <3>1. UNCHANGED switchVars /\ \A r \in Starts : r # t => starts'[r] = starts[r] /\ callOf'[r] = callOf[r]
      BY <2>2, <2>4, OthersStay
    <3> QED BY <1>1, <2>2, <2>4, <3>1 DEF NewestCalls, switchVars
  <2> QED BY <2>3, <2>4
<1>4. ASSUME NEW t \in Starts, Born(t) \/ Broken(t) PROVE NewestCalls'
  BY <1>1, <1>4 DEF Born, Broken, NewestCalls, switchVars, IInv, StartsTypeOK
<1>5. ASSUME NEW t \in Starts, Back(t) PROVE NewestCalls'
  BY <1>1, <1>5 DEF Back, NewestCalls, switchVars, IInv, StartsTypeOK
<1>6. ASSUME NEW u \in Calls, Settles(u) PROVE NewestCalls'
  <2>1. asked' = asked /\ UNCHANGED <<starts, callOf, startsAsked>> BY <1>6 DEF Settles, Win, Lose
  <2>2. asked \in Calls => answer'[asked] = answer[asked] \/ (answer[asked] = "open" /\ answer'[asked] = "won")
    BY <1>6 DEF Settles, Win, Lose, IInv, StartsTypeOK, SwitchTypeOK
  <2>3. asked # 0 => asked \in Calls BY DEF Calls
  <2> QED BY <1>1, <2>1, <2>2, <2>3 DEF NewestCalls
<1>7. CASE Elsewhere BY <1>1, <1>7 DEF Elsewhere, NewestCalls
<1>8. CASE Cancels BY <1>8 DEF Cancels
<1> QED BY <1>2, <1>3, <1>4, <1>5, <1>6, <1>7, <1>8 DEF Effect

\* Only the newest call is won, and a newer one has not been won when it is made.
LEMMA WonIsOnStep ==
  ASSUME IInv, Effect
  PROVE  WonIsOn'
<1> USE StartNumbers DEF Lines
<1>1. WonIsOn BY DEF IInv
<1>2. ASSUME NEW t \in Starts, NEW newest \in BOOLEAN, Goes(t, newest) PROVE WonIsOn'
  <2>1. CASE starts'[t] = "playing" BY <1>2, <2>1, OthersStay DEF WonIsOn
  <2>2. CASE starts'[t] # "playing" BY <1>1, <1>2, <2>2, OthersStay DEF WonIsOn, switchVars
  <2> QED BY <2>1, <2>2
<1>3. ASSUME NEW t \in Starts, FirstRun(t) \/ GoesOn(t) PROVE WonIsOn' BY <1>2, <1>3 DEF FirstRun, GoesOn
<1>4. ASSUME NEW t \in Starts, Born(t) \/ Broken(t) \/ Back(t) PROVE WonIsOn'
  BY <1>1, <1>4 DEF Born, Broken, Back, WonIsOn, switchVars
<1>5. ASSUME NEW u \in Calls, Settles(u) PROVE WonIsOn'
  <2>1. CASE Win(u) BY <1>5, <2>1 DEF Win, WonIsOn
  <2>2. CASE Lose(u)
    <3>1. asked # 0 => answer'[asked] = answer[asked]
      <4>1. asked # 0 => asked \in Calls BY DEF Calls
      <4> QED BY <2>2, <4>1 DEF Lose, IInv, StartsTypeOK, SwitchTypeOK
    <3> QED BY <1>1, <2>2, <3>1 DEF Lose, WonIsOn
  <2> QED BY <1>5, <2>1, <2>2 DEF Settles
<1>6. CASE Cancels \/ Elsewhere BY <1>1, <1>6 DEF Cancels, Elsewhere, WonIsOn, switchVars, NoStation
<1> QED BY <1>3, <1>4, <1>5, <1>6 DEF Effect

\* Every step keeps it.
LEMMA InvStep == IInv /\ [Next]_vars => IInv'
<1> SUFFICES ASSUME IInv, [Next]_vars PROVE IInv' OBVIOUS
<1>1. DialledOut /\ DialledOut' BY DialledOutStep DEF IInv
<1>2. Effect BY <1>1, StepHasEffect
<1> QED BY <1>1, <1>2, TypesStep, AllOverStep, InOrderStep, NewestCallsStep, WonIsOnStep DEF IInv

\* However the dialler and the pass start channels between one another, the
\* starts keep their line, and only the newest one's call counts.
THEOREM Invariant == Spec => []IInv
<1>1. IInv /\ [Next]_vars => IInv' BY InvStep
<1> QED BY InvInit, <1>1, PTL DEF Spec

\* With nothing under way the zone plays what the last start asked for, unless
\* that one was broken off by another reader of MPD's answers.
THEOREM LastOfTheStartsPlays == Spec => []LastStartPlays
<1>1. ASSUME IInv PROVE LastStartPlays
  <2> SUFFICES ASSUME Quiet, station # NoStation, NEW s \in Starts, starts[s] # "none", s + 1 \notin Starts \ Unborn
               PROVE  callOf[s] = station \/ starts[s] = "raised"
    BY DEF LastStartPlays, Unborn
  <2> USE <1>1, StartNumbers
  <2>1. Serving BY DEF Quiet, Serving
  <2>2. \A r \in Starts : starts[r] \in {"none", "done", "raised"} BY DEF Quiet, Over
  <2>3. s <= startsAsked BY <2>1, <2>2 DEF IInv, InOrder
  <2>4. s = startsAsked
    <3>1. ASSUME s < startsAsked PROVE FALSE
      <4>1. startsAsked <= MaxPlays BY DEF IInv, StartsTypeOK
      <4>2. s + 1 \in Starts BY <3>1, <4>1 DEF Starts, Calls
      <4>3. starts[s + 1] # "none" BY <2>1, <2>2, <3>1, <4>2 DEF IInv, InOrder
      <4> QED BY <4>2, <4>3 DEF Unborn
    <3> QED BY <2>3, <3>1
  <2>5. CASE starts[s] = "done"
    <3>1. callOf[s] = asked /\ asked # 0 /\ answer[asked] = "won" BY <2>1, <2>4, <2>5 DEF IInv, NewestCalls
    <3> QED BY <3>1 DEF IInv, WonIsOn
  <2> QED BY <2>2, <2>5
<1> QED BY <1>1, Invariant, PTL

\* The starts, the dialler and the pass drive the zone's station only as the
\* master lets its callers: the abstract master's specification is implemented.
THEOREM DrivesTheMasterAsItAllows == Spec => SwitchSpec
<1>1. Init => SwitchInit BY DEF Init
<1>2. IInv /\ [Next]_vars => [SwitchNext]_switchVars
  <2> SUFFICES ASSUME IInv, [Next]_vars PROVE [SwitchNext]_switchVars OBVIOUS
  <2>1. Effect BY StepHasEffect DEF IInv
  <2>2. ASSUME NEW s \in Starts, NEW newest \in BOOLEAN, Goes(s, newest) PROVE [SwitchNext]_switchVars
    BY <2>2 DEF Goes, SwitchNext, Ask, switchVars
  <2>3. ASSUME NEW s \in Starts, FirstRun(s) \/ GoesOn(s) PROVE [SwitchNext]_switchVars
    BY <2>2, <2>3 DEF FirstRun, GoesOn
  <2>4. ASSUME NEW s \in Starts, Born(s) \/ Broken(s) \/ Back(s) PROVE [SwitchNext]_switchVars
    BY <2>4 DEF Born, Broken, Back
  <2>5. ASSUME NEW u \in Calls, Settles(u) PROVE [SwitchNext]_switchVars
    BY <2>5 DEF Settles, SwitchNext
  <2>6. CASE Cancels BY <2>6 DEF Cancels
  <2>7. CASE Elsewhere BY <2>7 DEF Elsewhere, SwitchNext, StopStation, switchVars
  <2> QED BY <2>1, <2>3, <2>4, <2>5, <2>6, <2>7 DEF Effect
<1> QED BY <1>1, <1>2, Invariant, PTL DEF Spec, SwitchSpec
=============================================================================
