------------------------- MODULE StoreWorkerProofs -------------------------
(***************************************************************************)
(* Proofs about StoreWorker for every number of saves and of runs of the   *)
(* service: one queue and one thread keep the saves in order, so the       *)
(* record never falls back, a save answered well is on disk, no write finds*)
(* the store closed, and the worker implements HouseRecord.                *)
(*                                                                         *)
(* Then about Alarms, whose rows are among what the worker saves: each     *)
(* wake rings once, when it is owed, and what a person had is given back.  *)
(***************************************************************************)
EXTENDS StoreWorker, Alarms, SequenceTheorems, FiniteSetTheorems, WellFoundedInduction, TLAPS

USE DEF Saves, OpenJob, CloseJob, EndJob, Jobs, Idle, Unsaid

\* The queue is in the order of the jobs' numbers, and what runs came first.
InOrder ==
  /\ \A i, j \in 1 .. Len(jobs) : i < j => jobs[i] < jobs[j]
  /\ \A i \in 1 .. Len(jobs) : running < jobs[i]
  /\ running # EndJob

\* A save on its way was asked for, is not answered and is not on disk.
OnItsWay(n) == n <= asked /\ result[n] = "queued" /\ durable < n

SavesOnTheirWay ==
  /\ running \in Saves => OnItsWay(running)
  /\ \A i \in 1 .. Len(jobs) : jobs[i] \in Saves => OnItsWay(jobs[i])

Answered ==
  /\ durable <= asked
  /\ \A n \in Saves : n > asked => result[n] = "none"
  /\ \A n \in Saves : result[n] = "ok" => n <= durable

\* Saves are queued and run within a session only.
WithinASession ==
  /\ running \in Saves => session
  /\ \A i \in 1 .. Len(jobs) : jobs[i] \in Saves => session

\* The jobs on the queue agree with where the open and the close stand.
Phases ==
  /\ life = "down" => jobs = <<>> /\ running = Idle /\ thread = "none"
  /\ life = "opening" => /\ \A i \in 1 .. Len(jobs) : jobs[i] = OpenJob
                         /\ running \in {OpenJob, Idle}
                         /\ thread = "alive"
  /\ life = "open" => /\ session
                      /\ \A i \in 1 .. Len(jobs) : jobs[i] \in Saves
                      /\ running \in Saves \cup {Idle}
                      /\ thread = "alive"
  /\ life = "opening" /\ openAnswer = "ok" => session /\ jobs = <<>> /\ running = Idle
  /\ openAnswer = "queued" => life = "opening"

\* Until it has run, the close is on its way to whatever it must close.
CloseToCome ==
  life \in {"closing", "closed"} /\ (session \/ running = OpenJob \/ \E i \in 1 .. Len(jobs) : jobs[i] = OpenJob)
    => running = CloseJob \/ \E i \in 1 .. Len(jobs) : jobs[i] = CloseJob

Ended == thread = "ended" => ~session /\ jobs = <<>> /\ running = Idle

\* The open is alone with the close.
OpenAlone ==
  running = OpenJob \/ (\E i \in 1 .. Len(jobs) : jobs[i] = OpenJob)
    => \A i \in 1 .. Len(jobs) : jobs[i] \notin Saves

\* The counter counts the writes not settled yet, the unanswered among them.
Out    == {n \in Saves : caller[n] \in {"waiting", "left"}}
Queued == {n \in Saves : result[n] = "queued"}

Counted ==
  /\ writesOut = Cardinality(Out)
  /\ Queued \subseteq Out
  /\ \A n \in Saves : n > asked => caller[n] = "none"
  /\ said # Unsaid => life = "closed" /\ Cardinality(Queued) <= said

IInv ==
  /\ TypeOK /\ InOrder /\ SavesOnTheirWay /\ Answered /\ WithinASession
  /\ Phases /\ CloseToCome /\ Ended /\ OpenAlone /\ Counted
-----------------------------------------------------------------------------
(* The queue *)

LEMMA TailOfTheQueue ==
  ASSUME TypeOK, jobs # <<>>
  PROVE  /\ Head(jobs) = jobs[1] /\ Head(jobs) \in Jobs /\ Len(jobs) \in Nat /\ Len(jobs) >= 1
         /\ Tail(jobs) \in Seq(Jobs)
         /\ Len(Tail(jobs)) = Len(jobs) - 1
         /\ \A i \in 1 .. Len(Tail(jobs)) : Tail(jobs)[i] = jobs[i + 1]
<1>1. jobs \in Seq(Jobs) BY DEF TypeOK
<1>2. Len(jobs) \in Nat /\ Len(jobs) >= 1 /\ Head(jobs) = jobs[1] BY <1>1
<1>3. /\ Head(jobs) \in Jobs /\ Tail(jobs) \in Seq(Jobs) /\ Len(Tail(jobs)) = Len(jobs) - 1
      /\ \A i \in 1 .. Len(Tail(jobs)) : Tail(jobs)[i] = jobs[i + 1]
  BY <1>1, HeadTailProperties
<1> QED BY <1>2, <1>3

LEMMA QueueWithTheClose ==
  ASSUME TypeOK
  PROVE  LET q == jobs \o <<CloseJob, EndJob>>
         IN  /\ q \in Seq(Jobs) /\ Len(jobs) \in Nat /\ Len(q) = Len(jobs) + 2
             /\ \A i \in 1 .. Len(jobs) : q[i] = jobs[i]
             /\ q[Len(jobs) + 1] = CloseJob /\ q[Len(jobs) + 2] = EndJob
<1>1. jobs \in Seq(Jobs) BY DEF TypeOK
<1> DEFINE end == <<CloseJob, EndJob>>
<1>2. end \in Seq(Jobs) /\ Len(end) = 2 /\ end[1] = CloseJob /\ end[2] = EndJob
  BY BoundsAssumption
<1> QED BY <1>1, <1>2, ConcatProperties

LEMMA QueueWithASave ==
  ASSUME TypeOK, NEW n \in Saves
  PROVE  LET q == Append(jobs, n)
         IN  /\ q \in Seq(Jobs) /\ Len(jobs) \in Nat /\ Len(q) = Len(jobs) + 1
             /\ \A i \in 1 .. Len(jobs) : q[i] = jobs[i]
             /\ q[Len(jobs) + 1] = n
<1>1. jobs \in Seq(Jobs) /\ n \in Jobs BY BoundsAssumption DEF TypeOK
<1> QED BY <1>1, AppendProperties

\* The jobs are numbers, whose order is that of the opening, the saves, the close.
LEMMA JobsAreNumbers ==
  ASSUME TypeOK
  PROVE  /\ MaxSaves \in Nat /\ EndJob \in Int /\ CloseJob < EndJob
         /\ \A i \in 1 .. Len(jobs) : jobs[i] \in Int /\ jobs[i] \in OpenJob .. EndJob
         /\ running \in Int /\ running >= Idle
         /\ Len(jobs) \in Nat
<1>1. jobs \in Seq(Jobs) BY DEF TypeOK
<1>2. Len(jobs) \in Nat BY <1>1, LenProperties
<1>5. \A i \in 1 .. Len(jobs) : jobs[i] \in Jobs BY <1>1, ElementOfSeq
<1>3. \A x \in Jobs : x \in Int BY BoundsAssumption
<1>4. running \in Int /\ running >= Idle BY BoundsAssumption DEF TypeOK
<1> QED BY <1>2, <1>3, <1>4, <1>5, BoundsAssumption

LEMMA SetsOfSaves ==
  ASSUME NEW S \in SUBSET Saves
  PROVE  IsFiniteSet(S) /\ Cardinality(S) \in 0 .. MaxSaves
<1>1. IsFiniteSet(Saves) /\ Cardinality(Saves) = MaxSaves BY FS_Interval, BoundsAssumption
<1>2. IsFiniteSet(S) /\ Cardinality(S) <= Cardinality(Saves) BY <1>1, FS_Subset
<1>3. Cardinality(S) \in Nat BY <1>2, FS_CardinalityType
<1> QED BY <1>1, <1>2, <1>3, BoundsAssumption
-----------------------------------------------------------------------------
(* The counter of writes *)

LEMMA CountInit == Init => Counted
<1> SUFFICES ASSUME Init PROVE Counted OBVIOUS
<1>1. Out = {} /\ Queued = {} BY DEF Init, Out, Queued
<1> QED BY <1>1, FS_EmptySet DEF Init, Counted

LEMMA CountStep ==
  ASSUME IInv, [Next]_vars
  PROVE  Counted'
<1> USE DEF IInv
<1>0. /\ Out \subseteq Saves /\ Queued \subseteq Saves /\ Out' \subseteq Saves /\ Queued' \subseteq Saves
      /\ IsFiniteSet(Out) /\ IsFiniteSet(Queued) /\ IsFiniteSet(Out') /\ IsFiniteSet(Queued')
  BY SetsOfSaves DEF Out, Queued
<1>1. ASSUME UNCHANGED <<result, caller, writesOut, asked, said>>, said = Unsaid \/ UNCHANGED life
      PROVE  Counted'
  BY <1>1 DEF Counted, Out, Queued
<1>2. ASSUME NEW n \in Saves, Save(n) PROVE Counted'
  <2>1. Out' = Out \cup {n} /\ n \notin Out /\ Queued' = Queued \cup {n}
    BY <1>2 DEF Save, Out, Queued, Counted, TypeOK
  <2>2. Cardinality(Out') = Cardinality(Out) + 1 BY <1>0, <2>1, FS_AddElement
  <2>3. said = Unsaid BY <1>2 DEF Save, Counted
  <2> QED BY <1>2, <2>1, <2>2, <2>3 DEF Save, Counted, TypeOK
<1>3. ASSUME NEW n \in Saves, SaveRefused(n) PROVE Counted'
  <2>1. caller[n] = "none" /\ result[n] = "none"
    BY <1>3 DEF SaveRefused, Counted, Answered, TypeOK
  <2>2. Out' = Out /\ Queued' = Queued BY <1>3, <2>1 DEF SaveRefused, Out, Queued, TypeOK
  <2> QED BY <1>3, <2>2 DEF SaveRefused, Counted, TypeOK, lifeVars
<1>4. ASSUME NEW n \in Saves, Leaves(n) PROVE Counted'
  <2>1. Out' = Out /\ Queued' = Queued BY <1>4 DEF Leaves, Out, Queued, TypeOK
  <2> QED BY <1>4, <2>1 DEF Leaves, Counted, TypeOK, lifeVars
<1>5. ASSUME NEW n \in Saves, Settle(n) PROVE Counted'
  <2>1. Out' = Out \ {n} /\ n \in Out /\ Queued' = Queued /\ n \notin Queued
    BY <1>5 DEF Settle, Out, Queued, TypeOK
  <2>2. Cardinality(Out') = Cardinality(Out) - 1 BY <1>0, <2>1, FS_RemoveElement
  <2> QED BY <1>5, <2>1, <2>2 DEF Settle, Counted, TypeOK, lifeVars
<1>6. ASSUME NEW n \in Saves, Told(n) \/ CancelledAwake(n) PROVE Counted'
  <2>1. Out' = Out /\ Queued' = Queued BY <1>6 DEF Told, CancelledAwake, Out, Queued, TypeOK
  <2> QED BY <1>6, <2>1 DEF Told, CancelledAwake, Counted, TypeOK, lifeVars
<1>7. ASSUME NEW n \in Saves, RunWrite(n) PROVE Counted'
  <2>1. Out' = Out /\ Queued' \subseteq Queued
    BY <1>7 DEF RunWrite, loopVars, Out, Queued, TypeOK
  <2>2. Cardinality(Queued') <= Cardinality(Queued) BY <1>0, <2>1, FS_Subset
  <2>3. Cardinality(Queued) \in Nat /\ Cardinality(Queued') \in Nat BY <1>0, FS_CardinalityType
  <2> QED BY <1>7, <2>1, <2>2, <2>3 DEF RunWrite, loopVars, lifeVars, Counted, TypeOK
<1>8. CASE GivesUp
  <2>1. Out' = Out /\ Queued' = Queued BY <1>8 DEF GivesUp, Out, Queued
  <2>2. Cardinality(Queued) <= Cardinality(Out) BY <1>0, FS_Subset DEF Counted
  <2> QED BY <1>8, <2>1, <2>2 DEF GivesUp, Counted
<1>9. CASE Exit
  <2>1. Out' = {} /\ Queued' = {} BY <1>9 DEF Exit, Out, Queued, TypeOK
  <2> QED BY <1>9, <2>1, FS_EmptySet DEF Exit, Counted, TypeOK
<1>10. CASE Open \/ Opened \/ OpenRefused \/ OpenCancelled \/ Close \/ Closed \/ CloseCancelled
  BY <1>1, <1>10
  DEF Open, Opened, OpenRefused, OpenCancelled, Close, Closed, CloseCancelled, QueueTheClose, loopVars, Counted
<1>11. CASE Take \/ RunOpen \/ RunClose \/ UNCHANGED vars
  BY <1>1, <1>11 DEF Take, RunOpen, RunClose, loopVars, lifeVars, vars
<1> QED
  BY <1>2, <1>3, <1>4, <1>5, <1>6, <1>7, <1>8, <1>9, <1>10, <1>11
  DEF Next, LoopStep, ThreadStep, AllDone
-----------------------------------------------------------------------------
(* Every step keeps the invariant *)

LEMMA InitInvariant == Init => IInv
<1> SUFFICES ASSUME Init PROVE IInv OBVIOUS
<1>1. TypeOK
  <2>1. <<>> \in Seq(Jobs) OBVIOUS
  <2>2. asked \in 0 .. MaxSaves /\ durable \in 0 .. MaxSaves /\ lives \in 0 .. MaxLives
        /\ writesOut \in 0 .. MaxSaves /\ said \in 0 .. MaxSaves \cup {Unsaid}
    BY BoundsAssumption DEF Init
  <2> QED BY <2>1, <2>2 DEF Init, TypeOK
<1>2. Counted BY CountInit
<1> QED
  BY <1>1, <1>2, BoundsAssumption
  DEF Init, IInv, InOrder, SavesOnTheirWay, Answered, WithinASession, Phases, CloseToCome, Ended, OpenAlone

LEMMA OpenStep == IInv /\ Open => IInv'
<1> SUFFICES ASSUME IInv, Open PROVE IInv' OBVIOUS
<1> USE DEF IInv, Open, loopVars
<1>1. jobs' = <<OpenJob>> /\ Len(jobs') = 1 /\ jobs'[1] = OpenJob /\ running = Idle /\ running' = Idle
  BY DEF Phases
<1>2. <<OpenJob>> \in Seq(Jobs) BY BoundsAssumption
<1>3. TypeOK' BY <1>1, <1>2, BoundsAssumption DEF TypeOK
<1>4. Counted' BY CountStep DEF Next
<1>5. InOrder' /\ SavesOnTheirWay' /\ WithinASession' /\ CloseToCome' /\ Ended' /\ OpenAlone'
  BY <1>1, BoundsAssumption
  DEF InOrder, SavesOnTheirWay, WithinASession, CloseToCome, Ended, OpenAlone
<1>6. Answered' BY DEF Answered
<1>7. Phases' BY <1>1 DEF Phases
<1> QED BY <1>3, <1>4, <1>5, <1>6, <1>7

\* Steps that leave the thread and its queue alone, and the saves' answers.
LEMMA LoopOnlyStep ==
  ASSUME IInv, [Next]_vars, TypeOK',
         UNCHANGED <<asked, durable, result, threadVars>>,
         UNCHANGED life \/ Opened \/ Closed \/ GivesUp \/ CloseCancelled
  PROVE  IInv'
<1> USE DEF IInv, threadVars
<1>1. Counted' BY CountStep
<1>2. InOrder' /\ SavesOnTheirWay' /\ WithinASession' /\ Ended' /\ OpenAlone' /\ Answered'
  BY DEF InOrder, SavesOnTheirWay, OnItsWay, WithinASession, Ended, OpenAlone, Answered
<1>3. CloseToCome'
  BY DEF CloseToCome, Opened, Closed, GivesUp, CloseCancelled
<1>4. Phases'
  <2>1. CASE UNCHANGED life BY <2>1 DEF Phases
  <2>2. CASE Opened
    BY <2>2 DEF Phases, Opened, TypeOK
  <2>3. CASE Closed \/ GivesUp \/ CloseCancelled
    BY <2>3 DEF Phases, Closed, GivesUp, CloseCancelled
  <2> QED BY <2>1, <2>2, <2>3
<1> QED BY <1>1, <1>2, <1>3, <1>4

LEMMA QueueTheCloseStep ==
  ASSUME IInv, OpenRefused \/ OpenCancelled \/ Close
  PROVE  IInv'
<1> USE DEF IInv
<1> DEFINE q == jobs \o <<CloseJob, EndJob>>
<1>1. /\ jobs' = q /\ life' = "closing" /\ life \in {"opening", "open"}
      /\ UNCHANGED <<asked, durable, result, loopVars, running, thread, session, lives>>
      /\ openAnswer' \in {openAnswer, "cancelled"} /\ openAnswer' # "queued"
  BY DEF OpenRefused, OpenCancelled, Close, QueueTheClose, Phases
<1>2. /\ q \in Seq(Jobs) /\ Len(jobs) \in Nat /\ Len(q) = Len(jobs) + 2
      /\ \A i \in 1 .. Len(jobs) : q[i] = jobs[i]
      /\ q[Len(jobs) + 1] = CloseJob /\ q[Len(jobs) + 2] = EndJob
  BY QueueWithTheClose
<1> HIDE DEF q
<1>3. \A i \in 1 .. Len(q) : \/ i \in 1 .. Len(jobs) /\ q[i] = jobs[i]
                             \/ i = Len(jobs) + 1 /\ q[i] = CloseJob
                             \/ i = Len(jobs) + 2 /\ q[i] = EndJob
  BY <1>2
<1>4. /\ \A i \in 1 .. Len(jobs) : jobs[i] \in Saves \cup {OpenJob}
      /\ running \in Saves \cup {OpenJob, Idle} /\ thread = "alive"
  BY <1>1 DEF Phases
<1>5. TypeOK' BY <1>1, <1>2 DEF TypeOK, loopVars
<1>6. Counted' BY CountStep DEF Next
<1>7. InOrder'
  <2>1. ASSUME NEW i \in 1 .. Len(q), NEW j \in 1 .. Len(q), i < j PROVE q[i] < q[j]
    <3>1. CASE j \in 1 .. Len(jobs)
      <4>1. i \in 1 .. Len(jobs) BY <1>2, <2>1, <3>1
      <4> QED BY <1>2, <2>1, <3>1, <4>1 DEF InOrder
    <3>2. CASE j \notin 1 .. Len(jobs)
      <4>1. \/ j = Len(jobs) + 1 /\ q[j] = CloseJob /\ i \in 1 .. Len(jobs)
            \/ j = Len(jobs) + 2 /\ q[j] = EndJob /\ i \in 1 .. Len(jobs) + 1
        BY <1>2, <2>1, <3>2
      <4>2. i \in 1 .. Len(jobs) => q[i] = jobs[i] /\ jobs[i] \in Saves \cup {OpenJob}
        BY <1>2, <1>4
      <4>3. i = Len(jobs) + 1 => q[i] = CloseJob BY <1>2
      <4>4. \A x \in Saves \cup {OpenJob} : x < CloseJob /\ x < EndJob BY BoundsAssumption
      <4> QED BY <1>2, <4>1, <4>2, <4>3, <4>4, BoundsAssumption
    <3> QED BY <3>1, <3>2
  <2>2. ASSUME NEW i \in 1 .. Len(q) PROVE running < q[i]
    <3>1. CASE i \in 1 .. Len(jobs)
      BY <1>2, <3>1 DEF InOrder
    <3>2. CASE i \notin 1 .. Len(jobs)
      <4>1. q[i] \in {CloseJob, EndJob} BY <1>2, <2>2, <3>2
      <4>2. \A x \in Saves \cup {OpenJob, Idle} : x < CloseJob /\ x < EndJob BY BoundsAssumption
      <4> QED BY <1>4, <4>1, <4>2
    <3> QED BY <3>1, <3>2
  <2> QED BY <1>1, <1>4, <2>1, <2>2, BoundsAssumption DEF InOrder
<1>8. SavesOnTheirWay' /\ WithinASession' /\ OpenAlone' /\ Answered'
  <2>1. \A i \in 1 .. Len(q) : q[i] \in Saves \cup {OpenJob} => i \in 1 .. Len(jobs) /\ q[i] = jobs[i]
    BY <1>3, BoundsAssumption
  <2>2. SavesOnTheirWay' BY <1>1, <2>1 DEF SavesOnTheirWay, OnItsWay
  <2>3. WithinASession' BY <1>1, <2>1 DEF WithinASession
  <2>4. OpenAlone' BY <1>1, <2>1, BoundsAssumption DEF OpenAlone
  <2>5. Answered' BY <1>1 DEF Answered
  <2> QED BY <2>2, <2>3, <2>4, <2>5
<1>9. CloseToCome' /\ Ended' /\ Phases'
  BY <1>1, <1>2, <1>4 DEF CloseToCome, Ended, Phases
<1> QED BY <1>5, <1>6, <1>7, <1>8, <1>9

LEMMA SaveStep ==
  ASSUME IInv, NEW n \in Saves, Save(n)
  PROVE  IInv'
<1> USE DEF IInv
<1> DEFINE q == Append(jobs, n)
<1>1. /\ jobs' = q /\ life = "open" /\ n = asked + 1 /\ asked' = n
      /\ result' = [result EXCEPT ![n] = "queued"]
      /\ UNCHANGED <<durable, running, thread, session, openAnswer, life, lives>>
  BY DEF Save, lifeVars
<1>2. /\ q \in Seq(Jobs) /\ Len(jobs) \in Nat /\ Len(q) = Len(jobs) + 1
      /\ \A i \in 1 .. Len(jobs) : q[i] = jobs[i]
      /\ q[Len(jobs) + 1] = n
  BY QueueWithASave
<1> HIDE DEF q
<1>3. \A i \in 1 .. Len(q) : \/ i \in 1 .. Len(jobs) /\ q[i] = jobs[i]
                             \/ i = Len(jobs) + 1 /\ q[i] = n
  BY <1>2
<1>4. /\ \A i \in 1 .. Len(jobs) : jobs[i] \in Saves /\ jobs[i] < n
      /\ running \in Saves \cup {Idle} /\ running < n /\ running # n
      /\ session /\ thread = "alive" /\ durable < n
  BY <1>1 DEF Phases, SavesOnTheirWay, OnItsWay, Answered, TypeOK
<1>5. Counted' BY CountStep DEF Next, LoopStep
<1>6. TypeOK'
  <2>1. writesOut' \in 0 .. MaxSaves BY <1>5, SetsOfSaves DEF Counted, Out
  <2>2. jobs' \in Seq(Jobs) /\ asked' \in 0 .. MaxSaves BY <1>1, <1>2, BoundsAssumption
  <2>3. /\ result' \in [Saves -> {"none", "queued", "ok", "failed", "lost"}]
        /\ caller' \in [Saves -> {"none", "waiting", "left", "woken", "told", "said", "unheard", "gone"}]
    BY DEF TypeOK, Save
  <2> QED BY <1>1, <2>1, <2>2, <2>3 DEF TypeOK, Save
<1>7. InOrder'
  <2>1. ASSUME NEW i \in 1 .. Len(q), NEW j \in 1 .. Len(q), i < j PROVE q[i] < q[j]
    <3>1. CASE j \in 1 .. Len(jobs)
      <4>1. i \in 1 .. Len(jobs) BY <1>2, <2>1, <3>1
      <4> QED BY <1>2, <2>1, <3>1, <4>1 DEF InOrder
    <3>2. CASE j \notin 1 .. Len(jobs)
      <4>1. q[j] = n /\ i \in 1 .. Len(jobs) BY <1>2, <2>1, <3>2
      <4> QED BY <1>2, <1>4, <4>1
    <3> QED BY <3>1, <3>2
  <2>2. ASSUME NEW i \in 1 .. Len(q) PROVE running < q[i]
    <3>1. CASE i \in 1 .. Len(jobs)
      BY <1>2, <3>1 DEF InOrder
    <3>2. CASE i \notin 1 .. Len(jobs)
      <4>1. q[i] = n BY <1>2, <2>2, <3>2
      <4> QED BY <1>4, <4>1
    <3> QED BY <3>1, <3>2
  <2> QED BY <1>1, <1>4, <2>1, <2>2, BoundsAssumption DEF InOrder
<1>8. SavesOnTheirWay' /\ WithinASession' /\ OpenAlone'
  <2>1. OnItsWay(n)' BY <1>1, <1>4 DEF OnItsWay, TypeOK
  <2>2. \A m \in Saves : OnItsWay(m) /\ m < n => OnItsWay(m)'
    BY <1>1 DEF OnItsWay, TypeOK
  <2>3. SavesOnTheirWay'
    BY <1>1, <1>3, <1>4, <2>1, <2>2 DEF SavesOnTheirWay
  <2>4. WithinASession' BY <1>1, <1>4 DEF WithinASession
  <2>5. OpenAlone' BY <1>1, <1>3, <1>4, BoundsAssumption DEF OpenAlone
  <2> QED BY <2>3, <2>4, <2>5
<1>9. Answered' BY <1>1, <1>4 DEF Answered, TypeOK
<1>10. CloseToCome' /\ Ended' /\ Phases'
  BY <1>1, <1>2, <1>3, <1>4 DEF CloseToCome, Ended, Phases
<1> QED BY <1>5, <1>6, <1>7, <1>8, <1>9, <1>10

LEMMA SaveRefusedStep ==
  ASSUME IInv, NEW n \in Saves, SaveRefused(n)
  PROVE  IInv'
<1> USE DEF IInv, SaveRefused, threadVars, lifeVars
<1>1. TypeOK' BY DEF TypeOK
<1>2. Counted' BY CountStep DEF Next, LoopStep
<1>3. Answered' BY DEF Answered, TypeOK
<1>4. SavesOnTheirWay'
  BY DEF SavesOnTheirWay, OnItsWay, TypeOK
<1>5. InOrder' /\ WithinASession' /\ Phases' /\ CloseToCome' /\ Ended' /\ OpenAlone'
  BY DEF InOrder, WithinASession, Phases, CloseToCome, Ended, OpenAlone
<1> QED BY <1>1, <1>2, <1>3, <1>4, <1>5
-----------------------------------------------------------------------------
(* The thread's steps *)

LEMMA TakeStep == IInv /\ Take => IInv'
<1> SUFFICES ASSUME IInv, Take PROVE IInv' OBVIOUS
<1> USE DEF IInv
<1> DEFINE q == Tail(jobs)
<1>1. /\ jobs' = q /\ jobs # <<>> /\ running = Idle /\ thread = "alive"
      /\ UNCHANGED <<asked, durable, result, session, life, lives, loopVars>>
  BY DEF Take, lifeVars
<1>2. /\ Head(jobs) = jobs[1] /\ Head(jobs) \in Jobs /\ Len(jobs) \in Nat /\ Len(jobs) >= 1
      /\ q \in Seq(Jobs) /\ Len(q) = Len(jobs) - 1
      /\ \A i \in 1 .. Len(q) : q[i] = jobs[i + 1]
  BY <1>1, TailOfTheQueue
<1> HIDE DEF q
<1> DEFINE h == jobs[1]
<1>3. \/ h = EndJob /\ thread' = "ended" /\ UNCHANGED <<running, openAnswer>>
      \/ h = OpenJob /\ openAnswer = "cancelled" /\ UNCHANGED <<running, thread, openAnswer>>
      \/ /\ h # EndJob /\ running' = h /\ UNCHANGED thread
         /\ openAnswer' = IF h = OpenJob THEN "running" ELSE openAnswer
  BY <1>1, <1>2 DEF Take
<1>4. \A i \in 1 .. Len(q) : i + 1 \in 1 .. Len(jobs) /\ q[i] = jobs[i + 1] /\ h < q[i] /\ q[i] \in Jobs
  <2> SUFFICES ASSUME NEW i \in 1 .. Len(q)
               PROVE  i + 1 \in 1 .. Len(jobs) /\ q[i] = jobs[i + 1] /\ h < q[i] /\ q[i] \in Jobs
    OBVIOUS
  <2>1. i + 1 \in 1 .. Len(jobs) /\ 1 \in 1 .. Len(jobs) /\ 1 < i + 1 /\ q[i] = jobs[i + 1] BY <1>2
  <2>2. jobs[1] < jobs[i + 1] BY <2>1 DEF InOrder
  <2>3. q[i] \in Jobs
    <3>1. q \in Seq(Jobs) BY <1>2
    <3> QED BY <3>1, ElementOfSeq
  <2> QED BY <2>1, <2>2, <2>3
<1>5. h \in Jobs /\ 1 \in 1 .. Len(jobs) /\ q \in Seq(Jobs) BY <1>2
<1>6. TypeOK' BY <1>1, <1>3, <1>5 DEF TypeOK, loopVars
<1>7. Counted' BY CountStep DEF Next, ThreadStep
<1>8. InOrder'
  <2>1. ASSUME NEW i \in 1 .. Len(q), NEW j \in 1 .. Len(q), i < j PROVE q[i] < q[j]
    <3>1. i + 1 \in 1 .. Len(jobs) /\ j + 1 \in 1 .. Len(jobs) /\ i + 1 < j + 1 BY <1>4, <2>1
    <3> QED BY <1>4, <3>1 DEF InOrder
  <2>2. \A i \in 1 .. Len(q) : running' < q[i]
    BY <1>1, <1>3, <1>4, BoundsAssumption
  <2> QED BY <1>1, <1>3, <2>1, <2>2, BoundsAssumption DEF InOrder
<1>9. SavesOnTheirWay' /\ WithinASession' /\ OpenAlone' /\ Answered'
  <2>1. running' \in {h, Idle} BY <1>1, <1>3
  <2>2. SavesOnTheirWay'
    <3>1. Idle \notin Saves BY BoundsAssumption
    <3>2. running' \in Saves => OnItsWay(running') BY <1>5, <2>1, <3>1 DEF SavesOnTheirWay
    <3>3. \A i \in 1 .. Len(q) : q[i] \in Saves => OnItsWay(q[i]) BY <1>4 DEF SavesOnTheirWay
    <3>4. \A k : OnItsWay(k) => OnItsWay(k)' BY <1>1 DEF OnItsWay
    <3> QED BY <1>1, <3>2, <3>3, <3>4 DEF SavesOnTheirWay
  <2>3. WithinASession' BY <1>1, <1>4, <1>5, <2>1, BoundsAssumption DEF WithinASession
  <2>4. OpenAlone' BY <1>1, <1>4, <1>5, <2>1, BoundsAssumption DEF OpenAlone
  <2>5. Answered' BY <1>1 DEF Answered
  <2> QED BY <2>2, <2>3, <2>4, <2>5
<1>10. CASE h = EndJob
  <2>1. q = <<>> BY <1>2, <1>4, <1>10, BoundsAssumption
  <2>2. Len(jobs) = 1 BY <2>1, <1>2
  <2>3. life \notin {"down", "opening", "open"}
    BY <1>1, <1>5, <1>10, BoundsAssumption DEF Phases
  <2>4. ~session BY <1>1, <1>10, <2>2, <2>3, BoundsAssumption DEF CloseToCome, TypeOK
  <2>5. UNCHANGED running /\ UNCHANGED openAnswer /\ thread' = "ended"
    BY <1>3, <1>10, BoundsAssumption
  <2>6. CloseToCome' /\ Ended' BY <1>1, <2>1, <2>4, <2>5, BoundsAssumption DEF CloseToCome, Ended
  <2>7. Phases' BY <1>1, <2>1, <2>3, <2>5 DEF Phases
  <2> QED BY <1>6, <1>7, <1>8, <1>9, <2>6, <2>7
<1>11. CASE h # EndJob
  <2>1. thread' = "alive" /\ running' \in {h, Idle} /\ (h # OpenJob => running' = h)
    BY <1>1, <1>3, <1>11
  <2>2. CloseToCome'
    <3> SUFFICES ASSUME life \in {"closing", "closed"},
                        session \/ running' = OpenJob \/ \E i \in 1 .. Len(q) : q[i] = OpenJob
                 PROVE  running' = CloseJob \/ \E i \in 1 .. Len(q) : q[i] = CloseJob
      BY <1>1 DEF CloseToCome
    <3>1. session \/ \E i \in 1 .. Len(jobs) : jobs[i] = OpenJob
      BY <2>1, <1>4, <1>5, BoundsAssumption
    <3>2. PICK k \in 1 .. Len(jobs) : jobs[k] = CloseJob
      BY <3>1, <1>1, BoundsAssumption DEF CloseToCome
    <3>3. CASE k = 1 BY <3>2, <3>3, <2>1, BoundsAssumption
    <3>4. CASE k # 1
      <4>1. k - 1 \in 1 .. Len(q) /\ (k - 1) + 1 = k BY <3>4, <1>2
      <4>2. q[k - 1] = CloseJob BY <4>1, <3>2, <1>2
      <4> QED BY <4>1, <4>2
    <3> QED BY <3>3, <3>4
  <2>3. Ended' BY <2>1 DEF Ended
  <2>4. Phases'
    <3>1. CASE life = "down" BY <1>1, <3>1 DEF Phases
    <3>2. CASE life = "opening"
      <4>1. h = OpenJob BY <1>5, <3>2 DEF Phases
      <4>2. q = <<>>
        BY <1>2, <1>4, <4>1, <3>2, BoundsAssumption DEF Phases
      <4>3. openAnswer # "ok" BY <1>1, <3>2 DEF Phases
      <4> QED BY <1>1, <1>3, <3>2, <2>1, <4>1, <4>2, <4>3, BoundsAssumption DEF Phases
    <3>3. CASE life = "open"
      BY <1>1, <1>2, <1>3, <1>4, <1>5, <3>3, <2>1, BoundsAssumption DEF Phases
    <3>4. CASE life \in {"closing", "closed"}
      BY <1>1, <1>3, <3>4 DEF Phases
    <3> QED BY <3>1, <3>2, <3>3, <3>4 DEF TypeOK
  <2> QED BY <1>6, <1>7, <1>8, <1>9, <2>2, <2>3, <2>4
<1> QED BY <1>10, <1>11

LEMMA RunOpenStep == IInv /\ RunOpen => IInv'
<1> SUFFICES ASSUME IInv, RunOpen PROVE IInv' OBVIOUS
<1> USE DEF IInv, RunOpen, lifeVars, loopVars
<1>1. \A i \in 1 .. Len(jobs) : jobs[i] \notin Saves /\ jobs[i] > OpenJob
  BY BoundsAssumption DEF OpenAlone, InOrder, TypeOK
<1>2. TypeOK' BY DEF TypeOK
<1>3. Counted' BY CountStep DEF Next, ThreadStep
<1>4. InOrder' BY <1>1, BoundsAssumption DEF InOrder, TypeOK
<1>5. SavesOnTheirWay' /\ WithinASession' /\ OpenAlone' /\ Answered'
  BY <1>1, BoundsAssumption DEF SavesOnTheirWay, WithinASession, OpenAlone, Answered
<1>6. CloseToCome' BY BoundsAssumption DEF CloseToCome
<1>7. Ended' BY BoundsAssumption DEF Ended
<1>8. Phases'
  <2>1. life # "down" /\ life # "open" BY BoundsAssumption DEF Phases
  <2>2. life = "opening" => jobs = <<>>
    <3>1. life = "opening" => Len(jobs) = 0 /\ jobs \in Seq(Jobs) BY <1>1 DEF Phases, TypeOK
    <3> QED BY <3>1
  <2> QED BY <2>1, <2>2 DEF Phases
<1> QED BY <1>2, <1>3, <1>4, <1>5, <1>6, <1>7, <1>8

LEMMA RunWriteStep ==
  ASSUME IInv, NEW n \in Saves, RunWrite(n)
  PROVE  IInv'
<1> USE DEF IInv, RunWrite, lifeVars, loopVars
<1>1. durable < n /\ n <= asked /\ result[n] = "queued" /\ durable' \in {durable, n} /\ durable' \in 0 .. MaxSaves
  BY DEF SavesOnTheirWay, OnItsWay, TypeOK
<1>2. \A i \in 1 .. Len(jobs) : jobs[i] > n /\ jobs[i] \in Jobs BY JobsAreNumbers DEF InOrder
<1>3. TypeOK' BY <1>1 DEF TypeOK
<1>4. Counted' BY CountStep DEF Next, ThreadStep
<1>5. InOrder' BY <1>2, BoundsAssumption DEF InOrder
<1>6. SavesOnTheirWay'
  <2>1. \A i \in 1 .. Len(jobs) : jobs[i] \in Saves =>
          jobs[i] <= asked' /\ result'[jobs[i]] = "queued" /\ durable' < jobs[i]
    BY <1>1, <1>2, BoundsAssumption DEF SavesOnTheirWay, OnItsWay, TypeOK
  <2> QED BY <2>1, BoundsAssumption DEF SavesOnTheirWay, OnItsWay
<1>7. Answered'
  <2>1. durable <= durable' /\ durable' <= asked /\ asked' = asked
    BY <1>1 DEF Answered, TypeOK
  <2>2. \A m \in Saves : m # n => result'[m] = result[m] BY DEF TypeOK
  <2>3. result'[n] = "ok" => durable' = n BY DEF TypeOK
  <2>4. \A m \in Saves : m > asked' => result'[m] = "none" BY <1>1, <2>1, <2>2 DEF Answered, TypeOK
  <2>5. \A m \in Saves : result'[m] = "ok" => m <= durable'
    BY <2>1, <2>2, <2>3, <1>1 DEF Answered, TypeOK
  <2> QED BY <2>1, <2>4, <2>5 DEF Answered
<1>8. WithinASession' /\ OpenAlone' /\ Ended' BY BoundsAssumption DEF WithinASession, OpenAlone, Ended
<1>9. CloseToCome' /\ Phases' BY BoundsAssumption DEF CloseToCome, Phases
<1> QED BY <1>3, <1>4, <1>5, <1>6, <1>7, <1>8, <1>9

LEMMA RunCloseStep == IInv /\ RunClose => IInv'
<1> SUFFICES ASSUME IInv, RunClose PROVE IInv' OBVIOUS
<1> USE DEF IInv, RunClose, lifeVars, loopVars
<1>1. \A i \in 1 .. Len(jobs) : jobs[i] = EndJob
  BY BoundsAssumption DEF InOrder, TypeOK
<1>2. TypeOK' BY DEF TypeOK
<1>3. Counted' BY CountStep DEF Next, ThreadStep
<1>4. InOrder' BY <1>1, BoundsAssumption DEF InOrder
<1>5. SavesOnTheirWay' /\ WithinASession' /\ OpenAlone' /\ Answered'
  BY <1>1, BoundsAssumption DEF SavesOnTheirWay, WithinASession, OpenAlone, Answered
<1>6. CloseToCome' /\ Ended' BY <1>1, BoundsAssumption DEF CloseToCome, Ended
<1>7. Phases' BY BoundsAssumption DEF Phases
<1> QED BY <1>2, <1>3, <1>4, <1>5, <1>6, <1>7

LEMMA ExitStep == IInv /\ Exit => IInv'
<1> SUFFICES ASSUME IInv, Exit PROVE IInv' OBVIOUS
<1> USE DEF IInv, Exit
<1>1. jobs' = <<>> /\ Len(jobs') = 0 /\ running' = Idle OBVIOUS
<1>2. durable' \in 0 .. MaxSaves /\ durable <= durable' /\ durable' <= asked
  BY DEF SavesOnTheirWay, OnItsWay, Answered, TypeOK
<1>3. TypeOK'
  <2>1. jobs' \in Seq(Jobs) BY <1>1
  <2>2. /\ result' \in [Saves -> {"none", "queued", "ok", "failed", "lost"}]
        /\ caller' \in [Saves -> {"none", "waiting", "left", "woken", "told", "said", "unheard", "gone"}]
    BY DEF TypeOK
  <2>3. writesOut' \in 0 .. MaxSaves BY BoundsAssumption
  <2> QED BY <1>1, <1>2, <2>1, <2>2, <2>3 DEF TypeOK
<1>4. Counted' BY CountStep DEF Next
<1>5. Answered' BY <1>2 DEF Answered, TypeOK
<1>6. InOrder' /\ SavesOnTheirWay' /\ WithinASession' /\ OpenAlone' /\ CloseToCome' /\ Ended' /\ Phases'
  BY <1>1, BoundsAssumption
  DEF InOrder, SavesOnTheirWay, WithinASession, OpenAlone, CloseToCome, Ended, Phases
<1> QED BY <1>3, <1>4, <1>5, <1>6

LEMMA NextInvariant == IInv /\ [Next]_vars => IInv'
<1> SUFFICES ASSUME IInv, [Next]_vars PROVE IInv' OBVIOUS
<1>1. ASSUME Opened \/ Closed \/ GivesUp \/ CloseCancelled PROVE IInv'
  <2>1. TypeOK'
    BY <1>1 DEF IInv, TypeOK, Opened, Closed, GivesUp, CloseCancelled, loopVars, threadVars
  <2> QED
    BY <1>1, <2>1, LoopOnlyStep DEF Opened, Closed, GivesUp, CloseCancelled, threadVars
<1>2. ASSUME NEW n \in Saves, Leaves(n) \/ Told(n) \/ CancelledAwake(n) PROVE IInv'
  <2>1. TypeOK'
    <3>1. CASE Leaves(n) BY <3>1 DEF IInv, TypeOK, Leaves, threadVars, lifeVars
    <3>2. CASE Told(n) BY <3>2 DEF IInv, TypeOK, Told, threadVars, lifeVars
    <3>3. CASE CancelledAwake(n) BY <3>3 DEF IInv, TypeOK, CancelledAwake, threadVars, lifeVars
    <3> QED BY <1>2, <3>1, <3>2, <3>3
  <2> QED
    BY <1>2, <2>1, LoopOnlyStep DEF Leaves, Told, CancelledAwake, lifeVars
<1>3. ASSUME NEW n \in Saves, Settle(n) PROVE IInv'
  <2>1. Counted' BY <1>3, CountStep
  <2>2. writesOut' \in 0 .. MaxSaves BY <2>1, SetsOfSaves DEF Counted, Out
  <2>3. TypeOK' BY <1>3, <2>2 DEF IInv, TypeOK, Settle, threadVars, lifeVars
  <2> QED BY <1>3, <2>3, LoopOnlyStep DEF Settle, lifeVars
<1>4. ASSUME UNCHANGED vars PROVE IInv'
  <2>1. TypeOK' BY <1>4 DEF IInv, TypeOK, vars, loopVars, threadVars, lifeVars
  <2> QED BY <1>4, <2>1, LoopOnlyStep DEF vars, lifeVars
<1> QED
  BY <1>1, <1>2, <1>3, <1>4, OpenStep, QueueTheCloseStep, SaveStep, SaveRefusedStep,
     TakeStep, RunOpenStep, RunWriteStep, RunCloseStep, ExitStep
  DEF Next, LoopStep, ThreadStep, AllDone

\* The queue, the phases of the store and the counter agree in every state.
THEOREM Invariant == Spec => []IInv
  BY InitInvariant, NextInvariant, PTL DEF Spec

\* Types are kept, the counter of writes never falls under zero among them.
THEOREM TypeCorrect == Spec => []TypeOK
<1>1. IInv => TypeOK BY DEF IInv
<1> QED BY <1>1, Invariant, PTL

\* A save answered well is in the house's record.
THEOREM OkIsKept == Spec => []OkIsDurable
<1>1. IInv => OkIsDurable BY DEF IInv, Answered, OkIsDurable
<1> QED BY <1>1, Invariant, PTL

\* No write runs on a store that is not open, whatever was cancelled or closed.
THEOREM WritesAreInASession == Spec => []WritesFindItOpen
<1>1. IInv => WritesFindItOpen BY DEF IInv, WithinASession, WritesFindItOpen
<1> QED BY <1>1, Invariant, PTL

\* A thread that has ended leaves no session and no job behind.
THEOREM EndedHoldsNothing == Spec => []EndedIsClosed
<1>1. IInv => EndedIsClosed BY DEF IInv, Ended, EndedIsClosed
<1> QED BY <1>1, Invariant, PTL

\* A close that gives up never says fewer writes than the exit can lose.
THEOREM LossIsCounted == Spec => []LostIsCounted
<1>1. IInv => LostIsCounted BY DEF IInv, Counted, Queued, LostIsCounted
<1> QED BY <1>1, Invariant, PTL
-----------------------------------------------------------------------------
(* The record *)

\* Each step is one of the record, or leaves it alone.
LEMMA RecordStep ==
  ASSUME IInv, [Next]_vars
  PROVE  [Record!RecordNext]_(Record!recordVars)
<1> USE DEF IInv, Record!recordVars, Record!RecordNext, Record!Saves
<1>1. ASSUME NEW n \in Saves, Save(n) \/ SaveRefused(n) PROVE Record!RecordNext
  BY <1>1 DEF Save, SaveRefused, Record!AskedFor
<1>2. ASSUME NEW n \in Saves, RunWrite(n) PROVE Record!RecordNext
  <2>1. result[n] = "queued" /\ durable < n BY <1>2 DEF RunWrite, SavesOnTheirWay, OnItsWay
  <2> QED BY <1>2, <2>1 DEF RunWrite, Record!Written, Record!NotWritten
<1>3. CASE Exit
  <2>1. durable' = durable \/ \E n \in Saves : result[n] = "queued" /\ durable < n /\ durable' = n
    BY <1>3 DEF Exit, SavesOnTheirWay, OnItsWay
  <2> QED BY <1>3, <2>1 DEF Exit, Record!ProcessGone
<1>4. CASE UNCHANGED <<asked, durable, result>>
  BY <1>4
<1> QED
  BY <1>1, <1>2, <1>3, <1>4
  DEF Next, LoopStep, ThreadStep, AllDone, Open, Opened, OpenRefused, OpenCancelled, Close, Closed,
      GivesUp, CloseCancelled, QueueTheClose, Leaves, Settle, Told, CancelledAwake, Take, RunOpen,
      RunClose, vars

\* The worker, with its thread, its cancelled awaiters and its bounded close,
\* keeps the record the service was promised.
THEOREM Implements == Spec => ImplementsRecord
<1>1. Init => Record!RecordInit BY DEF Init, Record!RecordInit, Record!Saves
<1> QED BY <1>1, RecordStep, Invariant, PTL DEF Spec, ImplementsRecord, Record!RecordSpec

\* The record never falls back behind a save it already holds.
THEOREM NeverFallsBack == Spec => NeverGoesBack
<1>1. ASSUME IInv, [Next]_vars PROVE [durable' >= durable]_vars
  <2>1. durable \in Nat BY <1>1 DEF IInv, TypeOK
  <2>2. [Record!RecordNext]_(Record!recordVars) BY <1>1, RecordStep
  <2> QED
    BY <2>1, <2>2
    DEF Record!RecordNext, Record!recordVars, Record!AskedFor, Record!Written, Record!NotWritten,
        Record!ProcessGone, Record!Saves
<1> QED BY <1>1, Invariant, PTL DEF Spec, NeverGoesBack

-----------------------------------------------------------------------------
(* Alarms: what the one who rings owes the house, for every zone, every    *)
(* number of alarms and whatever is saved, removed or edited meanwhile.    *)

DayFields == {"state", "due", "until", "giveBack", "before"}
IsRow(d)  == d = NoDay \/ (DOMAIN d = DayFields /\ d.state \in {"ringing", "snoozed", "skipped", "done"})

DaysType ==
  /\ DOMAIN days = Names
  /\ \A n \in Names : DOMAIN days[n] = AllDays
  /\ \A n \in Names, day \in AllDays :
       IsRow(days[n][day]) /\ (IsOpen(days[n][day]) => days[n][day].due \in Int)

AlarmsType == DOMAIN alarms = Names /\ \A n \in Names : alarms[n] # NoAlarm => alarms[n].setAt \in Int

\* One alarm at a time has the zone, and it is one whose row keeps the rule.
OneIsOpen ==
  /\ \A n, m \in Names, d, e \in AllDays : IsOpen(days[n][d]) /\ IsOpen(days[m][e]) => n = m /\ d = e
  /\ \A n \in Names, d \in AllDays : IsOpen(days[n][d]) => n \in Book

NothingIsOpen    == \A n \in Names, d \in AllDays : ~IsOpen(days[n][d])
NothingIsRinging == \A n \in Names, d \in AllDays : days[n][d].state # "ringing"

\* A row, or what is kept of one, that gives back what a person last had.
GivesBack(d) == d.before = wished.level /\ d.giveBack = wished.playing

\* What is on the wire is what its row says, or its alarm has been taken away since the last instant.
RingIsItsRow ==
  ring # NoRing =>
    /\ ring.name \in Names /\ ring.day \in AllDays /\ up /\ GivesBack(ring.kept)
    /\ \/ days[ring.name][ring.day] = ring.kept /\ ring.kept.state = "ringing"
       \/ /\ days[ring.name][ring.day] = NoDay /\ NothingIsOpen
          /\ ring.name \in Book => alarms[ring.name].setAt = now + 1

\* While nothing is on the wire, whatever a row still rings for can be given back; and has been, if none does.
QuietIsGivenBack ==
  ring = NoRing =>
    /\ \A n \in Names, d \in AllDays : days[n][d].state = "ringing" => GivesBack(days[n][d])
    /\ NothingIsRinging => level = wished.level /\ playing = wished.playing

SnoozedIsQuiet ==
  \A n \in Names, d \in AllDays :
    days[n][d].state = "snoozed" => ring = NoRing /\ days[n][d].before = wished.level

AlarmInv ==
  /\ now \in 0 .. LastInstant /\ AlarmsType /\ DaysType
  /\ OneIsOpen /\ RingIsItsRow /\ QuietIsGivenBack /\ SnoozedIsQuiet
-----------------------------------------------------------------------------
(* The clock on the wall *)

\* A number has no endless descent.
LEMMA LessIsWellFounded ==
  \E R : IsWellFoundedOn(R, Nat) /\ \A x, y \in Nat : y < x => <<y, x>> \in R
<1>1. IsWellFoundedOn(OpToRel(<,Nat), Nat) BY NatLessThanWellFounded
<1>2. \A x, y \in Nat : y < x => <<y, x>> \in OpToRel(<,Nat) BY DEF OpToRel
<1> QED BY <1>1, <1>2

\* The least of a set of numbers is one of them.
LEMMA MinIsLeast ==
  ASSUME NEW T \in SUBSET Nat, T # {}
  PROVE  Min(T) \in T /\ \A y \in T : Min(T) <= y
<1>1. PICK R : IsWellFoundedOn(R, Nat) /\ \A x, y \in Nat : y < x => <<y, x>> \in R BY LessIsWellFounded
<1>2. PICK x \in T : \A y \in T : <<y, x>> \notin R BY <1>1, WFMin
<1>3. ASSUME NEW y \in T PROVE x <= y
  <2>1. x \in Nat /\ y \in Nat /\ <<y, x>> \notin R BY <1>2
  <2>2. ~(y < x) BY <1>1, <2>1
  <2> QED BY <2>1, <2>2
<1>4. \E m \in T : \A y \in T : m <= y BY <1>3
<1> QED BY <1>4 DEF Min

\* The constants of the clock are numbers.
LEMMA ClockTypes ==
  /\ Horizon \in Nat /\ LastInstant \in Nat /\ DayLength \in Nat /\ DayLength >= 1 /\ GapSearch \in Nat
  /\ Weekdays \in Nat /\ Weekdays >= 1 /\ LookbackDays \in Nat /\ LookaheadDays \in Nat
  /\ LastInstant < Horizon /\ WallTimes \subseteq Nat
  /\ \A t \in 0 .. Horizon : Offset[t] \in Int /\ Wall(t) \in Int
<1>1. /\ Horizon \in Nat /\ LastInstant \in Nat /\ DayLength \in Nat /\ DayLength >= 1 /\ GapSearch \in Nat
      /\ Weekdays \in Nat /\ Weekdays >= 1 /\ LookbackDays \in Nat /\ LookaheadDays \in Nat
      /\ LastInstant < Horizon
  BY AlarmsAssumption, ZoneAssumption
<1>2. ASSUME NEW t \in 0 .. Horizon PROVE Offset[t] \in Int /\ Wall(t) \in Int
  <2>1. Offset[t] \in -DayLength .. DayLength BY ZoneAssumption
  <2> QED BY <1>1, <2>1 DEF Wall
<1> QED BY <1>1, <1>2 DEF WallTimes

\* Whole days and the rest.
LEMMA DayArithmetic ==
  ASSUME NEW L \in Nat \ {0}, NEW d \in Nat, NEW x \in 0 .. L - 1
  PROVE  d * L + x \in Nat /\ (d * L + x) \div L = d
  OBVIOUS

\* A moment is on the day that begins at or before it.
LEMMA DayBegins ==
  ASSUME NEW L \in Nat \ {0}, NEW y \in Int
  PROVE  y \div L \in Int /\ (y \div L) * L <= y /\ y < (y \div L) * L + L
  OBVIOUS

\* A later day does not begin before an earlier one.
LEMMA DaysInOrder ==
  ASSUME NEW L \in Nat \ {0}, NEW a \in Int, NEW b \in Int, a <= b
  PROVE  a * L \in Int /\ b * L \in Int /\ a * L <= b * L
  OBVIOUS

\* A time of a day is a wall time, of that day.
LEMMA WallTimeOfADay ==
  ASSUME NEW day \in AllDays, NEW at \in 0 .. DayLength - 1
  PROVE  /\ day \in Nat /\ day * DayLength + at \in WallTimes
         /\ (day * DayLength + at) \div DayLength = day
<1>1. DayLength \in Nat \ {0} /\ Horizon \in Nat BY ClockTypes
<1>2. Horizon \div DayLength \in Int /\ (Horizon \div DayLength) * DayLength <= Horizon
  BY <1>1, DayBegins
<1>3. day \in Nat /\ day <= Horizon \div DayLength + 1 BY <1>2 DEF AllDays
<1>4. day * DayLength <= (Horizon \div DayLength + 1) * DayLength
  BY <1>1, <1>2, <1>3, DaysInOrder
<1>5. (Horizon \div DayLength + 1) * DayLength = (Horizon \div DayLength) * DayLength + DayLength
  BY <1>1, <1>2
<1>6. /\ day * DayLength + at \in Nat /\ (day * DayLength + at) \div DayLength = day
      /\ day * DayLength \in Int
  BY <1>1, <1>3, DayArithmetic, DaysInOrder
<1>7. (Horizon \div DayLength) * DayLength \in Int BY <1>1, <1>2
<1>8. day * DayLength + at <= Horizon + 2 * DayLength
  <2> DEFINE x == day * DayLength
             y == (Horizon \div DayLength) * DayLength
  <2>1. x \in Int /\ y \in Int /\ x <= y + DayLength /\ y <= Horizon BY <1>2, <1>4, <1>5, <1>6, <1>7
  <2> HIDE DEF x, y
  <2>2. x + at <= Horizon + 2 * DayLength BY <1>1, <2>1
  <2> QED BY <2>2 DEF x
<1> QED BY <1>1, <1>3, <1>6, <1>8 DEF WallTimes

\* A wall time is shown first at the first instant that shows it.
LEMMA ShownFirst ==
  ASSUME NEW w \in WallTimes
  PROVE  /\ (\E t \in 0 .. Horizon : Wall(t) = w) => Shown[w] # None
         /\ Shown[w] # None => /\ Shown[w] \in 0 .. Horizon /\ Wall(Shown[w]) = w
                               /\ \A t \in 0 .. Horizon : Wall(t) = w => Shown[w] <= t
<1> DEFINE at == {t \in 0 .. Horizon : Wall(t) = w}
<1>1. Shown[w] = IF at = {} THEN None ELSE Min(at) BY DEF Shown
<1>2. at \in SUBSET Nat BY ClockTypes
<1>3. CASE at = {} BY <1>1, <1>3
<1>4. CASE at # {}
  <2>1. Min(at) \in at /\ \A y \in at : Min(at) <= y BY <1>2, <1>4, MinIsLeast
  <2>2. Shown[w] = Min(at) BY <1>1, <1>4
  <2>3. Shown[w] \in 0 .. Horizon /\ Wall(Shown[w]) = w /\ \A t \in 0 .. Horizon : Wall(t) = w => Shown[w] <= t
    BY <2>1, <2>2
  <2>4. Shown[w] # None BY <2>3, ClockTypes DEF None
  <2> QED BY <2>3, <2>4
<1> QED BY <1>3, <1>4

\* What a time that a wake is set to is put off to: the first one after it that is shown, if it is near.
LEMMA ExistsFirst ==
  ASSUME NEW w \in WallTimes
  PROVE  /\ (\E v \in w .. w + GapSearch : v \in WallTimes /\ Shown[v] # None) => Exists[w] # None
         /\ Exists[w] # None =>
              \E v \in WallTimes : /\ v \in w .. w + GapSearch /\ Shown[v] # None /\ Exists[w] = Shown[v]
                                   /\ \A u \in WallTimes : u \in w .. w + GapSearch /\ Shown[u] # None => v <= u
<1> DEFINE later == {v \in (w .. w + GapSearch) \cap WallTimes : Shown[v] # None}
<1>1. Exists[w] = IF later = {} THEN None ELSE Shown[Min(later)] BY DEF Exists
<1>2. later \in SUBSET Nat BY ClockTypes
<1>3. CASE later = {} BY <1>1, <1>3
<1>4. CASE later # {}
  <2>1. Min(later) \in later /\ \A y \in later : Min(later) <= y BY <1>2, <1>4, MinIsLeast
  <2>2. Exists[w] = Shown[Min(later)] BY <1>1, <1>4
  <2> QED BY <2>1, <2>2
<1> QED BY <1>3, <1>4

\* When an alarm that keeps the rule is due on a day, and that its limit is a number.
LEMMA DueIsAMoment ==
  ASSUME NEW a, Validated(a), NEW day \in AllDays
  PROVE  /\ a.limit \in Nat
         /\ HasWake(a, day) => a.times[day % Weekdays] \in 0 .. DayLength - 1
         /\ DueOn(a, day) # None =>
              /\ HasWake(a, day) /\ DueOn(a, day) \in 0 .. Horizon
              /\ DueOn(a, day) = Exists[day * DayLength + a.times[day % Weekdays]]
<1>1. day \in Nat
  <2>1. 0 \in 0 .. DayLength - 1 BY ClockTypes
  <2> QED BY <2>1, WallTimeOfADay
<1>2. day % Weekdays \in 0 .. Weekdays - 1
  BY <1>1, ClockTypes
<1>3. a.times[day % Weekdays] \in -1 .. DayLength - 1 BY <1>2 DEF Validated, GoodTimes
<1>4. a.limit \in Nat BY AlarmsAssumption DEF Validated, GoodSeconds
<1>5. HasWake(a, day) => a.times[day % Weekdays] \in 0 .. DayLength - 1
  BY <1>3, ClockTypes DEF HasWake, None
<1>6. ASSUME DueOn(a, day) # None
      PROVE  /\ HasWake(a, day) /\ DueOn(a, day) \in 0 .. Horizon
             /\ DueOn(a, day) = Exists[day * DayLength + a.times[day % Weekdays]]
  <2>1. HasWake(a, day) /\ DueOn(a, day) = Exists[day * DayLength + a.times[day % Weekdays]]
    BY <1>6 DEF DueOn, HasWake
  <2>2. day * DayLength + a.times[day % Weekdays] \in WallTimes BY <1>5, <2>1, WallTimeOfADay
  <2>3. PICK v \in WallTimes : Shown[v] # None /\ DueOn(a, day) = Shown[v]
    BY <1>6, <2>1, <2>2, ExistsFirst
  <2> QED BY <2>1, <2>3, ShownFirst
<1> QED BY <1>4, <1>5, <1>6

-----------------------------------------------------------------------------
(* Rows *)

\* A day that is saved is the only one that changes.
LEMMA SavedDay ==
  ASSUME DaysType, NEW n \in Names, NEW day \in AllDays, NEW e, SaveDay(n, day, e)
  PROVE  /\ DOMAIN days' = Names /\ \A m \in Names : DOMAIN days'[m] = AllDays
         /\ days'[n][day] = e
         /\ \A m \in Names, d \in AllDays : m # n \/ d # day => days'[m][d] = days[m][d]
  BY DEF DaysType, SaveDay

\* A row that is open is whole.
LEMMA OpenRow ==
  ASSUME DaysType, NEW n \in Names, NEW day \in AllDays, IsOpen(days[n][day])
  PROVE  /\ DOMAIN days[n][day] = DayFields /\ days[n][day].state \in {"ringing", "snoozed"}
         /\ days[n][day].due \in Int
<1>1. days[n][day] # NoDay BY DEF IsOpen, NoDay
<1> QED BY <1>1 DEF DaysType, IsRow, IsOpen

\* A row that rings again keeps how loud the box was.
LEMMA RowRingsAgain ==
  ASSUME NEW d, DOMAIN d = DayFields, NEW g
  PROVE  LET e == RungAgain(d, g) IN
         /\ DOMAIN e = DayFields /\ e.state = "ringing" /\ e.due = d.due
         /\ e.before = d.before /\ e.giveBack = g
  BY DEF DayFields, RungAgain

\* The rows a firing makes.
LEMMA NewRows ==
  ASSUME NEW f
  PROVE  /\ IsRow(Ringing(f)) /\ Ringing(f).state = "ringing" /\ Ringing(f).due = Due(f)
         /\ Ringing(f).before = level /\ Ringing(f).giveBack = playing
         /\ IsRow(Skipped(f)) /\ Skipped(f).state = "skipped"
         /\ IsRow(Missed(f)) /\ Missed(f).state = "done"
         /\ Ringing(f) # NoDay /\ Skipped(f) # NoDay /\ Missed(f) # NoDay
<1>1. /\ DOMAIN Ringing(f) = DayFields /\ Ringing(f).state = "ringing" /\ Ringing(f).due = Due(f)
      /\ Ringing(f).before = level /\ Ringing(f).giveBack = playing
  BY DEF Ringing, DayFields
<1>2. DOMAIN Skipped(f) = DayFields /\ Skipped(f).state = "skipped" BY DEF Skipped, DayFields
<1>3. DOMAIN Missed(f) = DayFields /\ Missed(f).state = "done"
  <2>1. Missed(f) = [Skipped(f) EXCEPT !.state = "done"] BY DEF Missed
  <2> QED BY <1>2, <2>1 DEF DayFields
<1>4. NoDay.state = "none" BY DEF NoDay
<1> QED BY <1>1, <1>2, <1>3, <1>4 DEF IsRow

\* A row that is done.
Finished(d) == [d EXCEPT !.state = "done", !.until = None]

\* A ring is not no ring.
LEMMA RingIsOne ==
  ASSUME NEW n, NEW day, NEW since, NEW a, NEW d
  PROVE  [name |-> n, day |-> day, since |-> since, alarm |-> a, kept |-> d] # NoRing
<1> DEFINE r == [name |-> n, day |-> day, since |-> since, alarm |-> a, kept |-> d]
<1>1. "kept" \in DOMAIN r /\ "kept" \notin DOMAIN NoRing BY DEF NoRing
<1> QED BY <1>1

\* A firing that is open is of an alarm that keeps the rule, and has not been written down.
LEMMA FiringIsOpen ==
  ASSUME NEW f \in OpenFirings
  PROVE  /\ f.name \in Names /\ f.name \in Book /\ f.day \in AllDays
         /\ days[f.name][f.day] = NoDay /\ Due(f) # None /\ Due(f) >= alarms[f.name].setAt
         /\ alarms[f.name].enabled /\ f.day > through
  BY DEF OpenFirings, Book, Due

\* Saving a row keeps the types and that one is open, if none was, or that one.
LEMMA SavingKeeps ==
  ASSUME AlarmInv, NEW n \in Names, NEW day \in AllDays, NEW e, SaveDay(n, day, e), IsRow(e),
         IsOpen(e) => e.due \in Int /\ n \in Book /\ (IsOpen(days[n][day]) \/ NothingIsOpen),
         UNCHANGED alarms
  PROVE  DaysType' /\ OneIsOpen'
<1>1. DaysType /\ OneIsOpen BY DEF AlarmInv
<1>2. /\ DOMAIN days' = Names /\ \A m \in Names : DOMAIN days'[m] = AllDays
      /\ days'[n][day] = e
      /\ \A m \in Names, d \in AllDays : m # n \/ d # day => days'[m][d] = days[m][d]
  BY <1>1, SavedDay
<1>3. DaysType'
  BY <1>1, <1>2 DEF DaysType, IsOpen, IsRow
<1>4. Book' = Book BY DEF Book
<1>5. OneIsOpen'
  BY <1>1, <1>2, <1>4 DEF OneIsOpen, NothingIsOpen
<1> QED BY <1>3, <1>5
-----------------------------------------------------------------------------
(* What a person had is given back *)

\* The parts of the invariant that the wire and the wishes are about.
WireInv == RingIsItsRow /\ QuietIsGivenBack /\ SnoozedIsQuiet

LEMMA MissKeeps == ASSUME AlarmInv, Miss PROVE AlarmInv'
<1>1. PICK f \in MissedFirings :
        /\ SaveDay(f.name, f.day, Missed(f))
        /\ UNCHANGED <<now, alarms, through, up, ring, level, playing, edits, crashes, rung, wished>>
  BY DEF Miss
<1>2. f \in OpenFirings /\ Over(f) BY <1>1 DEF MissedFirings
<1>3. f.name \in Names /\ f.name \in Book /\ f.day \in AllDays /\ days[f.name][f.day] = NoDay
      /\ Due(f) # None /\ Due(f) >= alarms[f.name].setAt
  BY <1>2, FiringIsOpen
<1>4. IsRow(Missed(f)) /\ Missed(f).state = "done" BY NewRows
<1>5. DaysType' /\ OneIsOpen' BY <1>1, <1>3, <1>4, SavingKeeps DEF IsOpen
<1>6. /\ days'[f.name][f.day] = Missed(f)
      /\ \A m \in Names, d \in AllDays : m # f.name \/ d # f.day => days'[m][d] = days[m][d]
  BY <1>1, <1>3, SavedDay DEF AlarmInv
<1>7. NoDay.state = "none" BY DEF NoDay
<1>8. ring # NoRing => ring.name # f.name \/ ring.day # f.day
  <2>1. SUFFICES ASSUME ring # NoRing, ring.name = f.name, ring.day = f.day PROVE FALSE OBVIOUS
  <2>2. alarms[f.name].setAt = now + 1 BY <1>3, <1>7, <2>1 DEF AlarmInv, RingIsItsRow
  <2>3. Validated(alarms[f.name]) BY <1>3 DEF Book
  <2>4. Due(f) \in Nat /\ alarms[f.name].limit \in Nat
    BY <1>3, <2>3, DueIsAMoment, ClockTypes DEF Due
  <2>5. Due(f) + alarms[f.name].limit <= now BY <1>2 DEF Over, LimitAt
  <2>6. now \in Nat BY ClockTypes DEF AlarmInv
  <2> QED BY <1>3, <2>2, <2>4, <2>5, <2>6
<1>9. RingIsItsRow'
  <2>1. SUFFICES ASSUME ring # NoRing
                 PROVE  /\ ring.name \in Names /\ ring.day \in AllDays /\ up /\ GivesBack(ring.kept)
                        /\ \/ days'[ring.name][ring.day] = ring.kept /\ ring.kept.state = "ringing"
                           \/ /\ days'[ring.name][ring.day] = NoDay /\ NothingIsOpen'
                              /\ ring.name \in Book => alarms[ring.name].setAt = now + 1
    BY <1>1 DEF RingIsItsRow, GivesBack, Book
  <2>2. NothingIsOpen => NothingIsOpen' BY <1>4, <1>6 DEF NothingIsOpen, IsOpen
  <2> QED BY <1>6, <1>8, <2>1, <2>2 DEF AlarmInv, RingIsItsRow
<1>10. QuietIsGivenBack' /\ SnoozedIsQuiet'
  BY <1>1, <1>3, <1>4, <1>6, <1>7 DEF AlarmInv, QuietIsGivenBack, SnoozedIsQuiet, GivesBack, NothingIsRinging
<1> QED BY <1>1, <1>5, <1>9, <1>10 DEF AlarmInv, AlarmsType

\* A row is closed, or was there before: nothing new is open.
LEMMA RingKeeps == ASSUME AlarmInv, up, Ring PROVE AlarmInv'
<1>1. PICK f \in NextFirings :
        /\ Due(f) <= now /\ ~Bereft
        /\ IF Taken
           THEN SaveDay(f.name, f.day, Skipped(f)) /\ UNCHANGED <<ring, level, playing, rung>>
           ELSE /\ SaveDay(f.name, f.day, Ringing(f))
                /\ OnTheWire(f.name, f.day, Ringing(f))
                /\ rung' = rung \cup {<<f.name, Due(f)>>}
        /\ UNCHANGED <<now, alarms, through, up, edits, crashes, wished>>
  BY DEF Ring
<1>2. f \in OpenFirings BY <1>1 DEF NextFirings, OwedFirings
<1>3. f.name \in Names /\ f.name \in Book /\ f.day \in AllDays /\ days[f.name][f.day] = NoDay
      /\ Due(f) # None /\ Due(f) >= alarms[f.name].setAt
  BY <1>2, FiringIsOpen
<1>4. NoDay.state = "none" BY DEF NoDay
<1>5. Book' = Book BY <1>1 DEF Book
<1>6. CASE Taken
  <2>1. SaveDay(f.name, f.day, Skipped(f)) /\ UNCHANGED <<now, alarms, up, ring, level, playing, wished>>
    BY <1>1, <1>6
  <2>2. IsRow(Skipped(f)) /\ Skipped(f).state = "skipped" BY NewRows
  <2>3. DaysType' /\ OneIsOpen' BY <1>3, <2>1, <2>2, SavingKeeps DEF IsOpen
  <2>4. /\ days'[f.name][f.day] = Skipped(f)
        /\ \A m \in Names, d \in AllDays : m # f.name \/ d # f.day => days'[m][d] = days[m][d]
    BY <1>3, <2>1, SavedDay DEF AlarmInv
  <2>5. ring # NoRing => days[ring.name][ring.day] # NoDay BY <1>1 DEF Bereft
  <2>6. RingIsItsRow'
    <3>1. ring # NoRing => /\ ring.name \in Names /\ ring.day \in AllDays /\ up /\ GivesBack(ring.kept)
                           /\ days'[ring.name][ring.day] = ring.kept /\ ring.kept.state = "ringing"
      BY <1>3, <2>4, <2>5 DEF AlarmInv, RingIsItsRow
    <3> QED BY <2>1, <3>1 DEF RingIsItsRow, GivesBack
  <2>7. QuietIsGivenBack' /\ SnoozedIsQuiet'
    BY <1>3, <1>4, <2>1, <2>2, <2>4 DEF AlarmInv, QuietIsGivenBack, SnoozedIsQuiet, GivesBack, NothingIsRinging
  <2> QED BY <2>1, <2>3, <2>6, <2>7 DEF AlarmInv, AlarmsType
<1>7. CASE ~Taken
  <2>1. /\ SaveDay(f.name, f.day, Ringing(f)) /\ OnTheWire(f.name, f.day, Ringing(f))
        /\ UNCHANGED <<now, alarms, up, wished>>
    BY <1>1, <1>7
  <2>2. /\ IsRow(Ringing(f)) /\ Ringing(f).state = "ringing" /\ Ringing(f).due = Due(f)
        /\ Ringing(f).before = level /\ Ringing(f).giveBack = playing
    BY NewRows
  <2>3. NothingIsOpen BY <1>7 DEF Taken, NothingIsOpen, AlarmInv, OneIsOpen
  <2>4. ring = NoRing
    <3>1. SUFFICES ASSUME ring # NoRing PROVE FALSE OBVIOUS
    <3>2. days[ring.name][ring.day] # NoDay BY <1>1, <3>1 DEF Bereft
    <3>3. ring.name \in Names /\ ring.day \in AllDays /\ IsOpen(days[ring.name][ring.day])
      BY <3>1, <3>2 DEF AlarmInv, RingIsItsRow, IsOpen
    <3> QED BY <2>3, <3>3 DEF NothingIsOpen
  <2>5. level = wished.level /\ playing = wished.playing
    BY <2>3, <2>4 DEF AlarmInv, QuietIsGivenBack, NothingIsRinging, NothingIsOpen, IsOpen
  <2>6. Due(f) \in Int
    <3>1. Validated(alarms[f.name]) BY <1>3 DEF Book
    <3> QED BY <1>3, <3>1, DueIsAMoment, ClockTypes DEF Due
  <2>7. DaysType' /\ OneIsOpen' BY <1>3, <2>1, <2>2, <2>3, <2>6, SavingKeeps
  <2>8. /\ days'[f.name][f.day] = Ringing(f)
        /\ \A m \in Names, d \in AllDays : m # f.name \/ d # f.day => days'[m][d] = days[m][d]
    BY <1>3, <2>1, SavedDay DEF AlarmInv
  <2>9. ring' # NoRing /\ ring'.name = f.name /\ ring'.day = f.day /\ ring'.kept = Ringing(f)
    BY <2>1, RingIsOne DEF OnTheWire
  <2>10. RingIsItsRow' BY <1>3, <2>1, <2>2, <2>5, <2>8, <2>9 DEF RingIsItsRow, GivesBack
  <2>11. QuietIsGivenBack' BY <2>9 DEF QuietIsGivenBack
  <2>12. SnoozedIsQuiet' BY <2>2, <2>3, <2>8 DEF SnoozedIsQuiet, NothingIsOpen, IsOpen
  <2> QED BY <2>1, <2>7, <2>10, <2>11, <2>12 DEF AlarmInv, AlarmsType
<1> QED BY <1>6, <1>7

\* When the ring is not bereft its row is what is kept of it.
LEMMA RingHasItsRow ==
  ASSUME AlarmInv, ring # NoRing, ~Bereft
  PROVE  /\ ring.name \in Names /\ ring.day \in AllDays /\ ring.name \in Book
         /\ days[ring.name][ring.day] = ring.kept /\ ring.kept.state = "ringing" /\ GivesBack(ring.kept) /\ up
  BY DEF AlarmInv, RingIsItsRow, Bereft

LEMMA DropKeeps == ASSUME AlarmInv, Drop PROVE AlarmInv'
<1>1. /\ ring # NoRing /\ ring' = NoRing /\ level' = ring.kept.before /\ playing' = ring.kept.giveBack
      /\ UNCHANGED <<now, alarms, days, up, wished>>
  BY DEF Drop, Bereft, OffTheWire
<1>2. GivesBack(ring.kept) /\ ring.name \in Names /\ ring.day \in AllDays BY <1>1 DEF AlarmInv, RingIsItsRow
<1>3. NothingIsOpen
  <2>1. days[ring.name][ring.day] = ring.kept /\ ring.kept.state = "ringing" => ring.name \in Book
    BY <1>2 DEF AlarmInv, OneIsOpen, IsOpen
  <2>2. NoDay.state = "none" BY DEF NoDay
  <2> QED BY <1>1, <2>1, <2>2 DEF Drop, Bereft, AlarmInv, RingIsItsRow
<1>4. DaysType' /\ OneIsOpen' /\ AlarmsType'
  BY <1>1 DEF AlarmInv, DaysType, OneIsOpen, AlarmsType, Book
<1>5. RingIsItsRow' BY <1>1 DEF RingIsItsRow
<1>6. QuietIsGivenBack' /\ SnoozedIsQuiet'
  BY <1>1, <1>2, <1>3 DEF QuietIsGivenBack, SnoozedIsQuiet, NothingIsOpen, IsOpen, GivesBack
<1> QED BY <1>1, <1>4, <1>5, <1>6 DEF AlarmInv

\* What a step of a row, ticked or pressed, may be: done or put off, and off the wire; over without a word;
\* or to be rung again.
LEMMA DoKeeps ==
  ASSUME AlarmInv, up, NEW n \in Names, NEW day \in AllDays, n \in Book, IsOpen(days[n][day]),
         ring # NoRing => ring.name = n /\ ring.day = day /\ ~Bereft,
         NEW step, Do(n, day, step), UNCHANGED <<now, alarms, up, wished>>,
         \/ step = Step(days[n][day], "none")
         \/ /\ days[n][day].state = "ringing"
            /\ \E s \in {"done", "snoozed"} : \E u : step = Step([days[n][day] EXCEPT !.state = s, !.until = u], "off")
         \/ days[n][day].state = "snoozed" /\ step = Step(Finished(days[n][day]), "none")
         \/ days[n][day].state = "snoozed" /\ step = Step(days[n][day], "fire")
  PROVE  AlarmInv'
<1> DEFINE d == days[n][day]
<1>1. /\ DOMAIN d = DayFields /\ d.state \in {"ringing", "snoozed"} /\ d.due \in Int
  BY OpenRow DEF AlarmInv
<1>2. \A m \in Names, e \in AllDays : m # n \/ e # day => ~IsOpen(days[m][e])
  BY DEF AlarmInv, OneIsOpen
<1>3. ring # NoRing => d = ring.kept /\ d.state = "ringing" /\ GivesBack(d)
  BY RingHasItsRow
<1>4. d.state = "ringing" => GivesBack(d)
  BY <1>3 DEF AlarmInv, QuietIsGivenBack
<1>5. d.state = "snoozed" => ring = NoRing /\ d.before = wished.level /\ level = wished.level /\ playing = wished.playing
  <2>1. d.state = "snoozed" => NothingIsRinging BY <1>2 DEF NothingIsRinging, IsOpen
  <2> QED BY <2>1 DEF AlarmInv, SnoozedIsQuiet, QuietIsGivenBack
<1>6. Book' = Book BY DEF Book
<1>7. ASSUME NEW e, SaveDay(n, day, e), DOMAIN e = DayFields,
             e.state \in {"ringing", "snoozed", "skipped", "done"}, e.due = d.due
      PROVE  /\ DaysType' /\ OneIsOpen' /\ days'[n][day] = e
             /\ \A m \in Names, c \in AllDays : m # n \/ c # day => ~IsOpen(days'[m][c])
  <2>1. DaysType' /\ OneIsOpen' BY <1>1, <1>7, SavingKeeps DEF IsRow
  <2>2. DaysType BY DEF AlarmInv
  <2>3. days'[n][day] = e /\ \A m \in Names, c \in AllDays : m # n \/ c # day => days'[m][c] = days[m][c]
    <3>1. days' = [days EXCEPT ![n][day] = e] BY <1>7 DEF SaveDay
    <3> QED BY <2>2, <3>1 DEF DaysType
  <2> QED BY <1>2, <2>1, <2>3
<1>8. CASE step = Step(d, "none")
  <2>1. SaveDay(n, day, d) /\ UNCHANGED <<ring, level, playing>> BY <1>8 DEF Do, Step
  <2>2. /\ DaysType' /\ OneIsOpen' /\ days'[n][day] = d
        /\ \A m \in Names, c \in AllDays : m # n \/ c # day => ~IsOpen(days'[m][c])
    BY <1>1, <1>7, <2>1
  <2>3. RingIsItsRow'
    <3>1. ring # NoRing => ring.name = n /\ ring.day = day /\ d = ring.kept /\ d.state = "ringing" /\ GivesBack(d)
      BY <1>3
    <3> QED BY <2>1, <2>2, <3>1 DEF RingIsItsRow, GivesBack
  <2>4. QuietIsGivenBack'
    BY <1>4, <1>5, <1>1, <2>1, <2>2 DEF QuietIsGivenBack, GivesBack, NothingIsRinging, IsOpen
  <2>5. SnoozedIsQuiet'
    BY <1>5, <2>1, <2>2 DEF SnoozedIsQuiet, IsOpen
  <2> QED BY <2>2, <2>3, <2>4, <2>5 DEF AlarmInv, AlarmsType
<1>9. CASE d.state = "ringing" /\ \E s \in {"done", "snoozed"} : \E u : step = Step([d EXCEPT !.state = s, !.until = u], "off")
  <2>1. PICK s \in {"done", "snoozed"} : \E u : step = Step([d EXCEPT !.state = s, !.until = u], "off") BY <1>9
  <2>9. PICK u : step = Step([d EXCEPT !.state = s, !.until = u], "off") BY <2>1
  <2> DEFINE e == [d EXCEPT !.state = s, !.until = u]
  <2>2. /\ DOMAIN e = DayFields /\ e.state = s /\ e.due = d.due /\ e.before = d.before /\ e.giveBack = d.giveBack
    BY <1>1 DEF DayFields
  <2>3. SaveDay(n, day, e) /\ ring' = NoRing /\ level' = e.before /\ playing' = e.giveBack
    BY <2>9 DEF Do, Step, OffTheWire
  <2> HIDE DEF e
  <2>4. level' = wished.level /\ playing' = wished.playing BY <1>4, <1>9, <2>2, <2>3 DEF GivesBack
  <2>5. /\ DaysType' /\ OneIsOpen' /\ days'[n][day] = e
        /\ \A m \in Names, c \in AllDays : m # n \/ c # day => ~IsOpen(days'[m][c])
    BY <1>7, <2>2, <2>3
  <2>6. RingIsItsRow' BY <2>3 DEF RingIsItsRow
  <2>7. QuietIsGivenBack' BY <2>2, <2>3, <2>4, <2>5 DEF QuietIsGivenBack, IsOpen
  <2>8. SnoozedIsQuiet' BY <1>4, <1>9, <2>2, <2>3, <2>5 DEF SnoozedIsQuiet, IsOpen, GivesBack
  <2> QED BY <2>5, <2>6, <2>7, <2>8 DEF AlarmInv, AlarmsType
<1>10. CASE d.state = "snoozed" /\ step = Step(Finished(d), "none")
  <2>1. SaveDay(n, day, Finished(d)) /\ UNCHANGED <<ring, level, playing>> BY <1>10 DEF Do, Step
  <2>2. DOMAIN Finished(d) = DayFields /\ Finished(d).state = "done" /\ Finished(d).due = d.due
    BY <1>1 DEF DayFields, Finished
  <2>3. /\ DaysType' /\ OneIsOpen' /\ days'[n][day] = Finished(d)
        /\ \A m \in Names, c \in AllDays : m # n \/ c # day => ~IsOpen(days'[m][c])
    BY <1>7, <2>1, <2>2
  <2>4. RingIsItsRow' BY <1>5, <1>10, <2>1 DEF RingIsItsRow
  <2>5. QuietIsGivenBack' BY <1>5, <1>10, <2>1, <2>2, <2>3 DEF QuietIsGivenBack, IsOpen
  <2>6. SnoozedIsQuiet' BY <2>2, <2>3 DEF SnoozedIsQuiet, IsOpen
  <2> QED BY <2>3, <2>4, <2>5, <2>6 DEF AlarmInv, AlarmsType
<1>11. CASE d.state = "snoozed" /\ step = Step(d, "fire")
  <2> DEFINE e == RungAgain(d, playing)
  <2>1. SaveDay(n, day, e) /\ OnTheWire(n, day, e) BY <1>11 DEF Do, Step
  <2>2. /\ DOMAIN e = DayFields /\ e.state = "ringing" /\ e.due = d.due /\ e.before = d.before /\ e.giveBack = playing
    BY <1>1 DEF DayFields, RungAgain
  <2> HIDE DEF e
  <2>3. /\ DaysType' /\ OneIsOpen' /\ days'[n][day] = e
        /\ \A m \in Names, c \in AllDays : m # n \/ c # day => ~IsOpen(days'[m][c])
    BY <1>7, <2>1, <2>2
  <2>4. ring' # NoRing /\ ring'.name = n /\ ring'.day = day /\ ring'.kept = e BY <2>1, RingIsOne DEF OnTheWire
  <2>5. RingIsItsRow' BY <1>5, <1>11, <2>2, <2>3, <2>4 DEF RingIsItsRow, GivesBack
  <2>6. QuietIsGivenBack' BY <2>4 DEF QuietIsGivenBack
  <2>7. SnoozedIsQuiet' BY <2>2, <2>3 DEF SnoozedIsQuiet, IsOpen
  <2> QED BY <2>3, <2>5, <2>6, <2>7 DEF AlarmInv, AlarmsType
<1> QED BY <1>8, <1>9, <1>10, <1>11

\* An open row other than the ring's: there is none while something is on the wire.
LEMMA OpenIsTheRing ==
  ASSUME AlarmInv, NEW n \in Names, NEW day \in AllDays, IsOpen(days[n][day]), ring # NoRing
  PROVE  ring.name = n /\ ring.day = day /\ ~Bereft
<1>1. n \in Book BY DEF AlarmInv, OneIsOpen
<1>2. ~NothingIsOpen BY DEF NothingIsOpen
<1>3. /\ ring.name \in Names /\ ring.day \in AllDays
      /\ days[ring.name][ring.day] = ring.kept /\ ring.kept.state = "ringing"
  BY <1>2 DEF AlarmInv, RingIsItsRow
<1>4. IsOpen(days[ring.name][ring.day]) /\ days[ring.name][ring.day] # NoDay BY <1>3 DEF IsOpen, NoDay
<1>5. ring.name = n /\ ring.day = day BY <1>3, <1>4 DEF AlarmInv, OneIsOpen
<1> QED BY <1>1, <1>4, <1>5 DEF Bereft

LEMMA TickKeeps ==
  ASSUME AlarmInv, up, NEW p \in OpenDays, Tick(p[1], p[2]) \/ Resume(p[1], p[2]) PROVE AlarmInv'
<1> DEFINE n == p[1]
           day == p[2]
           d == days[n][day]
<1>1. n \in Names /\ day \in AllDays /\ IsOpen(d) BY DEF OpenDays
<1>2. DOMAIN d = DayFields /\ d.state \in {"ringing", "snoozed"} /\ d.due \in Int
  BY <1>1, OpenRow DEF AlarmInv
<1>3. CASE Tick(n, day)
  <2>1. n \in Book /\ Do(n, day, Ticked(d, alarms[n])) /\ UNCHANGED <<now, alarms, up, wished>> BY <1>3 DEF Tick
  <2>2. \/ Ticked(d, alarms[n]) = Step(d, "none")
        \/ d.state = "ringing" /\ Ticked(d, alarms[n]) = Step([d EXCEPT !.state = "done", !.until = None], "off")
        \/ d.state = "snoozed" /\ Ticked(d, alarms[n]) = Step(Finished(d), "none")
        \/ d.state = "snoozed" /\ Ticked(d, alarms[n]) = Step(d, "fire")
    BY <1>2 DEF Ticked, Finished
  <2>3. ring # NoRing => ring.name = n /\ ring.day = day /\ ~Bereft BY <1>1, OpenIsTheRing
  <2> HIDE DEF n, day
  <2> QED BY <1>1, <2>1, <2>2, <2>3, DoKeeps
<1>4. CASE Resume(n, day)
  <2> DEFINE e == RungAgain(d, d.giveBack)
  <2>1. /\ d.state = "ringing" /\ ring = NoRing /\ SaveDay(n, day, e) /\ OnTheWire(n, day, e)
        /\ n \in Book /\ UNCHANGED <<now, alarms, up, wished>>
    BY <1>4 DEF Resume
  <2>2. /\ DOMAIN e = DayFields /\ e.state = "ringing" /\ e.due = d.due /\ e.before = d.before /\ e.giveBack = d.giveBack
    BY <1>2, RowRingsAgain
  <2> HIDE DEF e
  <2>3. GivesBack(d) BY <1>1, <2>1 DEF AlarmInv, QuietIsGivenBack
  <2>4. DaysType' /\ OneIsOpen' BY <1>1, <1>2, <2>1, <2>2, SavingKeeps DEF IsRow
  <2>5. days'[n][day] = e /\ \A m \in Names, c \in AllDays : m # n \/ c # day => days'[m][c] = days[m][c]
    BY <1>1, <2>1, SavedDay DEF AlarmInv
  <2>6. ring' # NoRing /\ ring'.name = n /\ ring'.day = day /\ ring'.kept = e BY <2>1, RingIsOne DEF OnTheWire
  <2>7. RingIsItsRow' BY <1>1, <2>1, <2>2, <2>3, <2>5, <2>6 DEF RingIsItsRow, GivesBack
  <2>8. QuietIsGivenBack' BY <2>6 DEF QuietIsGivenBack
  <2>9. SnoozedIsQuiet'
    <3>1. \A m \in Names, c \in AllDays : m # n \/ c # day => ~IsOpen(days[m][c])
      BY <1>1 DEF AlarmInv, OneIsOpen
    <3> QED BY <2>2, <2>5, <3>1 DEF SnoozedIsQuiet, IsOpen
  <2> QED BY <2>1, <2>4, <2>7, <2>8, <2>9 DEF AlarmInv, AlarmsType
<1> QED BY <1>3, <1>4

LEMMA PressKeeps ==
  ASSUME AlarmInv, NEW press, NEW digits, Press(press) \/ Dial(digits) PROVE AlarmInv'
<1> DEFINE n == ring.name
           day == ring.day
           d == days[n][day]
<1>1. up /\ ring # NoRing /\ ~Bereft /\ UNCHANGED <<now, alarms, up, wished>> BY DEF Press, Dial, Settled
<1>2. n \in Names /\ day \in AllDays /\ n \in Book /\ d.state = "ringing" /\ IsOpen(d)
  BY <1>1, RingHasItsRow DEF IsOpen
<1>3. PICK step \in {Pressed(d, alarms[n], press), Dialled(d, alarms[n], digits)} : Do(n, day, step)
  BY DEF Press, Dial
<1>4. \/ step = Step(d, "none")
      \/ \E s \in {"done", "snoozed"} : \E u : step = Step([d EXCEPT !.state = s, !.until = u], "off")
  <2> HIDE DEF d
  <2>1. Off(d) = Step([d EXCEPT !.state = "done", !.until = None], "off") BY DEF Off
  <2>2. \/ Snoozed(d, alarms[n]) = Off(d)
        \/ \E u : Snoozed(d, alarms[n]) = Step([d EXCEPT !.state = "snoozed", !.until = u], "off")
    BY DEF Snoozed
  <2>3. step \in {Step(d, "none"), Off(d), Snoozed(d, alarms[n])} BY <1>2, <1>3 DEF Pressed, Dialled
  <2> QED BY <2>1, <2>2, <2>3
<1> HIDE DEF n, day
<1>5. ring # NoRing => ring.name = n /\ ring.day = day /\ ~Bereft BY <1>1 DEF n, day
<1> QED BY <1>1, <1>2, <1>3, <1>4, <1>5, DoKeeps

LEMMA ListenKeeps == ASSUME AlarmInv, Listen PROVE AlarmInv'
<1>1. /\ ring = NoRing /\ wished' = [level |-> level', playing |-> playing']
      /\ level' \in IF OpenDays = {} THEN Levels ELSE {level}
      /\ \A p \in OpenDays : days[p[1]][p[2]].state # "ringing"
      /\ UNCHANGED <<now, alarms, days, through, up, ring, crashes, rung>>
  BY DEF Listen
<1>2. wished'.level = level' /\ wished'.playing = playing' BY <1>1
<1>3. NothingIsRinging
  <2>1. SUFFICES ASSUME NEW n \in Names, NEW d \in AllDays, days[n][d].state = "ringing" PROVE FALSE
    BY DEF NothingIsRinging
  <2>2. <<n, d>> \in OpenDays BY <2>1 DEF OpenDays, IsOpen
  <2> QED BY <1>1, <2>1, <2>2
<1>4. ASSUME NEW n \in Names, NEW d \in AllDays, days[n][d].state = "snoozed" PROVE days[n][d].before = level'
  <2>1. <<n, d>> \in OpenDays BY <1>4 DEF OpenDays, IsOpen
  <2>2. level' = level BY <1>1, <2>1
  <2> QED BY <1>1, <1>3, <1>4, <2>2 DEF AlarmInv, QuietIsGivenBack, SnoozedIsQuiet
<1>5. AlarmsType' /\ DaysType' /\ OneIsOpen' BY <1>1 DEF AlarmInv, AlarmsType, DaysType, OneIsOpen, Book
<1>6. RingIsItsRow' /\ QuietIsGivenBack' /\ SnoozedIsQuiet'
  BY <1>1, <1>2, <1>3, <1>4 DEF RingIsItsRow, QuietIsGivenBack, SnoozedIsQuiet, NothingIsRinging
<1> QED BY <1>1, <1>5, <1>6 DEF AlarmInv

\* What a row keeps of the rule is what its shape keeps of it.
LEMMA RowKeepsTheRule ==
  ASSUME NEW shape, NEW enabled, NEW setAt
  PROVE  /\ Row(shape, enabled, setAt) # NoAlarm /\ Row(shape, enabled, setAt).setAt = setAt
         /\ Validated(Row(shape, enabled, setAt)) <=> Validated(shape)
<1> DEFINE r == Row(shape, enabled, setAt)
<1>1. "setAt" \in DOMAIN r /\ "setAt" \notin DOMAIN NoAlarm BY DEF Row, NoAlarm
<1>2. /\ r.setAt = setAt /\ r.times = shape.times /\ r.ramp = shape.ramp /\ r.snooze = shape.snooze
      /\ r.limit = shape.limit /\ r.start = shape.start /\ r.max = shape.max
  BY DEF Row
<1> HIDE DEF r
<1>3. r # NoAlarm /\ r.setAt = setAt BY <1>1, <1>2
<1>4. Validated(r) <=> Validated(shape)
  BY <1>2 DEF Validated, GoodTimes, GoodSeconds, GoodVolumes
<1> QED BY <1>3, <1>4 DEF r

\* A change of alarm rows alone: what is open stays in the book, and who is bereft stays so.
LEMMA RowsKeep ==
  ASSUME AlarmInv, NEW n \in Names, NEW row, alarms' = [alarms EXCEPT ![n] = row],
         UNCHANGED <<now, days, up, ring, level, playing, wished>>,
         row.setAt \in Int,
         \/ row # NoAlarm /\ Validated(row) /\ row.setAt = now + 1
         \/ ~Validated(row) /\ \A day \in AllDays : ~IsOpen(days[n][day])
  PROVE  AlarmInv'
<1>1. DOMAIN alarms = Names BY DEF AlarmInv, AlarmsType
<1>2. alarms'[n] = row /\ \A m \in Names \ {n} : alarms'[m] = alarms[m] BY <1>1
<1>3. AlarmsType' BY <1>1, <1>2 DEF AlarmInv, AlarmsType
<1>4. \A m \in Names \ {n} : m \in Book' <=> m \in Book BY <1>2 DEF Book
<1>5. n \in Book' <=> row # NoAlarm /\ Validated(row) BY <1>2 DEF Book
<1>6. DaysType' BY DEF AlarmInv, DaysType
<1>7. OneIsOpen' BY <1>4, <1>5 DEF AlarmInv, OneIsOpen
<1>8. RingIsItsRow'
  <2>1. SUFFICES ASSUME ring # NoRing PROVE RingIsItsRow' BY DEF RingIsItsRow
  <2>2. ring.name \in Book' /\ (ring.name \in Book => alarms[ring.name].setAt = now + 1)
          => alarms'[ring.name].setAt = now + 1
    BY <1>2, <1>4, <1>5, <2>1 DEF AlarmInv, RingIsItsRow
  <2> QED BY <2>1, <2>2 DEF AlarmInv, RingIsItsRow, GivesBack, NothingIsOpen
<1>9. QuietIsGivenBack' /\ SnoozedIsQuiet'
  BY DEF AlarmInv, QuietIsGivenBack, SnoozedIsQuiet, GivesBack, NothingIsRinging
<1> QED BY <1>3, <1>6, <1>7, <1>8, <1>9 DEF AlarmInv

LEMMA SaveKeeps ==
  ASSUME AlarmInv, NEW n \in Names, NEW shape, NEW enabled, SaveAlarm(n, shape, enabled) \/ EditRow(n, shape)
  PROVE  AlarmInv'
<1>1. now \in Int BY ClockTypes DEF AlarmInv
<1>2. CASE SaveAlarm(n, shape, enabled)
  <2> DEFINE row == Row(shape, enabled, now + 1)
  <2>1. row # NoAlarm /\ row.setAt = now + 1 /\ Validated(row)
    BY <1>2, RowKeepsTheRule DEF SaveAlarm
  <2>2. alarms' = [alarms EXCEPT ![n] = row] /\ UNCHANGED <<now, days, up, ring, level, playing, wished>>
    BY <1>2 DEF SaveAlarm
  <2> HIDE DEF row
  <2>3. row.setAt \in Int BY <1>1, <2>1
  <2> QED BY <2>1, <2>2, <2>3, RowsKeep
<1>3. CASE EditRow(n, shape)
  <2>1. DOMAIN alarms = Names /\ alarms[n].setAt \in Int BY <1>3 DEF AlarmInv, AlarmsType, EditRow
  <2> DEFINE row == Row(shape, TRUE, alarms[n].setAt)
  <2>2. alarms' = [alarms EXCEPT ![n] = row] /\ UNCHANGED <<now, days, up, ring, level, playing, wished>>
    BY <1>3 DEF EditRow
  <2>3. row.setAt \in Int /\ ~Validated(row) /\ \A day \in AllDays : ~IsOpen(days[n][day])
    <3>1. row.setAt = alarms[n].setAt /\ (Validated(row) <=> Validated(shape)) BY RowKeepsTheRule
    <3> HIDE DEF row
    <3> QED BY <1>3, <2>1, <3>1 DEF EditRow
  <2> HIDE DEF row
  <2> QED BY <2>2, <2>3, RowsKeep
<1> QED BY <1>2, <1>3

LEMMA DeleteKeeps == ASSUME AlarmInv, NEW n \in Names, DeleteAlarm(n) PROVE AlarmInv'
<1>1. /\ \A day \in AllDays : days[n][day].state = "ringing" => up /\ ring # NoRing
      /\ alarms' = [alarms EXCEPT ![n] = NoAlarm]
      /\ days' = [days EXCEPT ![n] = [day \in AllDays |-> NoDay]]
      /\ UNCHANGED <<now, through, up, ring, level, playing, crashes, rung, wished>>
  BY DEF DeleteAlarm
<1>2. alarms'[n] = NoAlarm /\ DOMAIN alarms' = Names /\ \A m \in Names \ {n} : alarms'[m] = alarms[m]
  BY <1>1 DEF AlarmInv, AlarmsType
<1>3. /\ DOMAIN days' = Names /\ \A m \in Names : DOMAIN days'[m] = AllDays
      /\ \A d \in AllDays : days'[n][d] = NoDay
      /\ \A m \in Names \ {n}, d \in AllDays : days'[m][d] = days[m][d]
  BY <1>1 DEF AlarmInv, DaysType
<1>4. NoDay.state = "none" /\ ~IsOpen(NoDay) BY DEF NoDay, IsOpen
<1>5. n \notin Book' /\ \A m \in Names \ {n} : m \in Book' <=> m \in Book BY <1>2 DEF Book
<1>6. AlarmsType' BY <1>2 DEF AlarmInv, AlarmsType
<1>7. DaysType' BY <1>3, <1>4 DEF AlarmInv, DaysType, IsRow
<1>8. OneIsOpen' BY <1>3, <1>4, <1>5 DEF AlarmInv, OneIsOpen
<1>9. RingIsItsRow'
  <2>1. SUFFICES ASSUME ring # NoRing PROVE RingIsItsRow' BY <1>1 DEF RingIsItsRow
  <2>2. CASE ring.name = n
    <3>1. days[n][ring.day] = ring.kept /\ ring.kept.state = "ringing" => NothingIsOpen'
      <4>1. SUFFICES ASSUME days[n][ring.day] = ring.kept, ring.kept.state = "ringing" PROVE NothingIsOpen' OBVIOUS
      <4>2. ring.day \in AllDays /\ IsOpen(days[n][ring.day]) BY <2>1, <4>1 DEF AlarmInv, RingIsItsRow, IsOpen
      <4>3. \A m \in Names \ {n}, d \in AllDays : ~IsOpen(days[m][d]) BY <4>2 DEF AlarmInv, OneIsOpen
      <4> QED BY <1>3, <1>4, <4>3 DEF NothingIsOpen
    <3>2. NothingIsOpen => NothingIsOpen' BY <1>3, <1>4 DEF NothingIsOpen
    <3> QED BY <1>1, <1>3, <1>5, <2>1, <2>2, <3>1, <3>2 DEF AlarmInv, RingIsItsRow, GivesBack
  <2>3. CASE ring.name # n
    <3>1. NothingIsOpen => NothingIsOpen' BY <1>3, <1>4 DEF NothingIsOpen
    <3> QED BY <1>1, <1>2, <1>3, <1>5, <2>1, <2>3, <3>1 DEF AlarmInv, RingIsItsRow, GivesBack
  <2> QED BY <2>2, <2>3
<1>10. QuietIsGivenBack'
  <2>1. SUFFICES ASSUME ring = NoRing PROVE QuietIsGivenBack' BY <1>1 DEF QuietIsGivenBack
  <2>2. NothingIsRinging' => NothingIsRinging BY <1>1, <1>3, <2>1 DEF NothingIsRinging
  <2> QED BY <1>1, <1>3, <1>4, <2>1, <2>2 DEF AlarmInv, QuietIsGivenBack, GivesBack
<1>11. SnoozedIsQuiet' BY <1>1, <1>3, <1>4 DEF AlarmInv, SnoozedIsQuiet
<1> QED BY <1>1, <1>6, <1>7, <1>8, <1>9, <1>10, <1>11 DEF AlarmInv

LEMMA CrashKeeps == ASSUME AlarmInv, Crash \/ Restart PROVE AlarmInv'
<1>1. UNCHANGED <<now, alarms, days, through, level, playing, wished>> BY DEF Crash, Restart
<1>2. AlarmsType' /\ DaysType' /\ OneIsOpen' BY <1>1 DEF AlarmInv, AlarmsType, DaysType, OneIsOpen, Book
<1>3. CASE Restart
  BY <1>1, <1>2, <1>3
     DEF Restart, AlarmInv, RingIsItsRow, QuietIsGivenBack, SnoozedIsQuiet, GivesBack, NothingIsRinging, NothingIsOpen, Book
<1>4. CASE Crash
  <2>1. ring' = NoRing /\ ~Bereft BY <1>4 DEF Crash
  <2>2. CASE ring = NoRing
    BY <1>1, <1>2, <2>1, <2>2
       DEF AlarmInv, RingIsItsRow, QuietIsGivenBack, SnoozedIsQuiet, GivesBack, NothingIsRinging
  <2>3. CASE ring # NoRing
    <3>1. /\ ring.name \in Names /\ ring.day \in AllDays /\ days[ring.name][ring.day] = ring.kept
          /\ ring.kept.state = "ringing" /\ GivesBack(ring.kept)
      BY <2>1, <2>3, RingHasItsRow
    <3>2. \A m \in Names, d \in AllDays : m # ring.name \/ d # ring.day => ~IsOpen(days[m][d])
      BY <3>1 DEF AlarmInv, OneIsOpen, IsOpen
    <3>3. RingIsItsRow' BY <2>1 DEF RingIsItsRow
    <3>4. QuietIsGivenBack' BY <1>1, <3>1, <3>2 DEF QuietIsGivenBack, IsOpen, NothingIsRinging, GivesBack
    <3>5. SnoozedIsQuiet' BY <1>1, <2>1, <3>1, <3>2 DEF SnoozedIsQuiet, IsOpen
    <3> QED BY <1>1, <1>2, <3>3, <3>4, <3>5 DEF AlarmInv
  <2> QED BY <2>2, <2>3
<1> QED BY <1>3, <1>4

LEMMA PassKeeps == ASSUME AlarmInv, Pass PROVE AlarmInv'
<1>1. /\ now < LastInstant /\ now' = now + 1 /\ (Settled \/ ~up)
      /\ level' = IF ring = NoRing THEN level ELSE RampVolume(alarms[ring.name], now + 1 - ring.since)
      /\ UNCHANGED <<alarms, days, through, up, ring, playing, edits, crashes, rung, wished>>
  BY DEF Pass
<1>2. now' \in 0 .. LastInstant BY <1>1, ClockTypes DEF AlarmInv
<1>3. AlarmsType' /\ DaysType' /\ OneIsOpen' BY <1>1 DEF AlarmInv, AlarmsType, DaysType, OneIsOpen, Book
<1>4. RingIsItsRow'
  <2>1. SUFFICES ASSUME ring # NoRing PROVE RingIsItsRow' BY <1>1 DEF RingIsItsRow
  <2>2. ~Bereft BY <1>1, <2>1 DEF AlarmInv, RingIsItsRow, Settled
  <2> QED BY <1>1, <2>1, <2>2, RingHasItsRow DEF RingIsItsRow, GivesBack
<1>5. QuietIsGivenBack' /\ SnoozedIsQuiet'
  BY <1>1 DEF AlarmInv, QuietIsGivenBack, SnoozedIsQuiet, GivesBack, NothingIsRinging
<1> QED BY <1>2, <1>3, <1>4, <1>5 DEF AlarmInv

LEMMA AlarmsBegin == AlarmsInit => AlarmInv
<1> SUFFICES ASSUME AlarmsInit PROVE AlarmInv OBVIOUS
<1>1. /\ now = DayLength * LookbackDays /\ alarms = Before /\ ring = NoRing
      /\ days = [n \in Names |-> [day \in AllDays |-> NoDay]]
      /\ wished = [level |-> level, playing |-> playing]
  BY DEF AlarmsInit
<1>2. now \in 0 .. LastInstant
  <2>1. DayLength * LookbackDays \in Nat BY ClockTypes
  <2> QED BY <1>1, <2>1, AlarmsAssumption
<1>3. AlarmsType BY <1>1, BeforeAssumption DEF AlarmsType
<1>4. /\ DOMAIN days = Names /\ \A n \in Names : DOMAIN days[n] = AllDays
      /\ \A n \in Names, d \in AllDays : days[n][d] = NoDay
  BY <1>1
<1>5. NoDay.state = "none" /\ ~IsOpen(NoDay) BY DEF NoDay, IsOpen
<1>6. wished.level = level /\ wished.playing = playing BY <1>1
<1>7. DaysType BY <1>4, <1>5 DEF DaysType, IsRow
<1>8. OneIsOpen /\ RingIsItsRow /\ QuietIsGivenBack /\ SnoozedIsQuiet
  BY <1>1, <1>4, <1>5, <1>6 DEF OneIsOpen, RingIsItsRow, QuietIsGivenBack, SnoozedIsQuiet
<1> QED BY <1>2, <1>3, <1>7, <1>8 DEF AlarmInv

\* Every step of the one who rings and of those who live there keeps the invariant.
LEMMA AlarmsStep == AlarmInv /\ [AlarmsNext]_alarmsVars => AlarmInv'
<1> SUFFICES ASSUME AlarmInv, [AlarmsNext]_alarmsVars PROVE AlarmInv' OBVIOUS
<1>1. CASE up /\ Attend BY <1>1, MissKeeps, RingKeeps, DropKeeps, TickKeeps DEF Attend
<1>2. CASE \E press \in {"key", "standby"} : Press(press) BY <1>2, PressKeeps
<1>3. CASE \E digits \in {"right", "wrong"} : Dial(digits) BY <1>3, PressKeeps
<1>4. CASE Listen BY <1>4, ListenKeeps
<1>5. CASE \E n \in Names : \E shape \in Shapes :
             (\E enabled \in BOOLEAN : SaveAlarm(n, shape, enabled)) \/ EditRow(n, shape)
  BY <1>5, SaveKeeps
<1>6. CASE \E n \in Names : DeleteAlarm(n) BY <1>6, DeleteKeeps
<1>7. CASE (\E day \in PauseDays : WriteAlarmPause(day)) \/ UNCHANGED alarmsVars
  <2>1. UNCHANGED <<now, alarms, days, up, ring, level, playing, wished>> BY <1>7 DEF WriteAlarmPause, alarmsVars
  <2> QED BY <2>1 DEF AlarmInv, AlarmsType, DaysType, OneIsOpen, Book, RingIsItsRow, QuietIsGivenBack, SnoozedIsQuiet,
                      GivesBack, NothingIsRinging, NothingIsOpen
<1>8. CASE Crash \/ Restart BY <1>8, CrashKeeps
<1>9. CASE Pass BY <1>9, PassKeeps
<1> QED BY <1>1, <1>2, <1>3, <1>4, <1>5, <1>6, <1>7, <1>8, <1>9 DEF AlarmsNext

\* One alarm at a time has the zone, what is on the wire is what its row says, and whatever a row
\* rings for, or snoozes with, can be given back.
THEOREM AlarmsInvariant == AlarmsSpec => []AlarmInv
BY AlarmsBegin, AlarmsStep, PTL DEF AlarmsSpec

\* Whenever nothing sounds and the one who rings has done its work, the box is as loud and the zone
\* plays as a person last had it, whatever was snoozed, crashed or taken away.
THEOREM HadIsGivenBack == AlarmsSpec => []GivenBack
<1>1. ASSUME AlarmInv, Settled, ring = NoRing PROVE <<level, playing>> = <<wished.level, wished.playing>>
  <2>1. NothingIsRinging
    <3>1. SUFFICES ASSUME NEW n \in Names, NEW d \in AllDays, days[n][d].state = "ringing" PROVE FALSE
      BY DEF NothingIsRinging
    <3>2. <<n, d>> \in OpenDays /\ n \in Book BY <1>1, <3>1 DEF OpenDays, IsOpen, AlarmInv, OneIsOpen
    <3> QED BY <1>1, <3>1, <3>2 DEF Settled
  <2> QED BY <1>1, <2>1 DEF AlarmInv, QuietIsGivenBack
<1>2. AlarmInv => GivenBack BY <1>1 DEF GivenBack
<1> QED BY <1>2, AlarmsInvariant, PTL

\* AlarmDay.tick: nothing sounds past its ring limit, counted from when it was due, however often it
\* was snoozed or rung again after a crash.
THEOREM LimitIsKept == AlarmsSpec => []SilentPastItsLimit
<1>1. ASSUME AlarmInv, Settled, ring # NoRing
      PROVE  now < days[ring.name][ring.day].due + alarms[ring.name].limit
  <2> DEFINE d == days[ring.name][ring.day]
             a == alarms[ring.name]
  <2>1. ring.name \in Names /\ ring.day \in AllDays /\ ring.name \in Book /\ d.state = "ringing"
    BY <1>1, RingHasItsRow DEF Settled
  <2>2. d.due \in Int BY <1>1, <2>1, OpenRow DEF AlarmInv, IsOpen
  <2>3. a.limit \in Nat
    <3>1. Validated(a) BY <2>1 DEF Book
    <3> QED BY <3>1, AlarmsAssumption DEF Validated, GoodSeconds
  <2>4. now \in Int BY <1>1, ClockTypes DEF AlarmInv
  <2>5. Ticked(d, a) = Step(d, "none")
    <3>1. <<ring.name, ring.day>> \in OpenDays BY <2>1 DEF OpenDays, IsOpen
    <3> QED BY <1>1, <2>1, <3>1 DEF Settled
  <2>6. ~(now >= d.due + a.limit)
    <3>1. SUFFICES ASSUME now >= d.due + a.limit PROVE FALSE OBVIOUS
    <3>2. Ticked(d, a).action = "off" BY <2>1, <3>1 DEF Ticked, LimitAt, Step
    <3> QED BY <2>5, <3>2 DEF Step
  <2> HIDE DEF d, a
  <2>7. now < d.due + a.limit BY <2>2, <2>3, <2>4, <2>6
  <2> QED BY <2>7 DEF d, a
<1>2. AlarmInv => SilentPastItsLimit BY <1>1 DEF SilentPastItsLimit
<1> QED BY <1>2, AlarmsInvariant, PTL

-----------------------------------------------------------------------------
(* Every wake rings, once and when it is owed *)

\* A wake is put off to the first instant at which a clock on the wall shows its time or a later one.
LEMMA PutOffToTheFirst ==
  ASSUME NEW w \in WallTimes, w <= Horizon, NEW t0 \in 0 .. Horizon, Wall(t0) >= w
  PROVE  Exists[w] = Reached[w] /\ Exists[w] \in 0 .. Horizon /\ Exists[w] # None
<1> DEFINE after == {t \in 0 .. Horizon : Wall(t) >= w}
           R == Reached[w]
<1>1. w \in Nat /\ Horizon \in Nat /\ GapSearch \in Nat /\ DayLength \in Nat BY ClockTypes
<1>2. R = Min(after) BY <1>1 DEF Reached
<1>3. after \in SUBSET Nat /\ after # {} BY <1>1
<1>4. R \in 0 .. Horizon /\ Wall(R) >= w /\ \A t \in 0 .. Horizon : Wall(t) >= w => R <= t
  <2>1. Min(after) \in after /\ \A y \in after : Min(after) <= y BY <1>3, MinIsLeast
  <2> QED BY <1>2, <2>1
<1> HIDE DEF R, after
<1>5. \A t \in 0 .. Horizon : Wall(t) \in Int BY ClockTypes
<1>6. R = 0 => w = 0 /\ Wall(R) = 0
  <2>1. Wall(0) = 0 BY ClockAssumption DEF Wall
  <2> QED BY <1>1, <1>4, <2>1
<1>7. R > 0 => /\ Wall(R - 1) < w /\ Wall(R) <= w + GapSearch
               /\ \A u \in R .. Horizon : Wall(u) < w \/ Wall(u) >= Wall(R)
  <2>1. SUFFICES ASSUME R > 0
                 PROVE  /\ Wall(R - 1) < w /\ Wall(R) <= w + GapSearch
                        /\ \A u \in R .. Horizon : Wall(u) < w \/ Wall(u) >= Wall(R)
    OBVIOUS
  <2>2. R \in 1 .. Horizon /\ R - 1 \in 0 .. Horizon /\ ~(R <= R - 1) BY <1>1, <1>4, <2>1
  <2>3. Wall(R - 1) \in Int /\ ~(Wall(R - 1) >= w) BY <1>4, <1>5, <2>2
  <2>4. Wall(R - 1) < w BY <1>1, <2>3
  <2>5. Wall(R) <= Wall(R - 1) + GapSearch + 1 BY <2>2, ClockAssumption
  <2>6. Wall(R) \in Int BY <1>4, <1>5
  <2>7. Wall(R) <= w + GapSearch BY <1>1, <2>3, <2>4, <2>5, <2>6
  <2>8. ASSUME NEW u \in R .. Horizon PROVE Wall(u) < w \/ Wall(u) >= Wall(R)
    <3>1. Wall(u) <= Wall(R - 1) \/ Wall(u) >= Wall(R) BY <2>2, ClockAssumption
    <3>2. u \in 0 .. Horizon BY <1>1, <1>4
    <3>3. Wall(u) \in Int BY <1>5, <3>2
    <3> QED BY <1>1, <2>3, <2>4, <3>1, <3>3
  <2> QED BY <2>4, <2>7, <2>8
<1>8. Wall(R) \in WallTimes /\ Wall(R) \in w .. w + GapSearch
  <2>1. Wall(R) \in Int BY <1>4, <1>5
  <2>2. Wall(R) <= w + GapSearch BY <1>1, <1>4, <1>6, <1>7
  <2>3. Offset[R] \in -DayLength .. DayLength BY <1>4, ZoneAssumption
  <2>4. Wall(R) <= Horizon + 2 * DayLength BY <1>1, <1>4, <2>3 DEF Wall
  <2> QED BY <1>1, <1>4, <2>1, <2>2, <2>4 DEF WallTimes
<1>9. Shown[Wall(R)] = R
  <2>1. Shown[Wall(R)] # None BY <1>4, <1>8, ShownFirst
  <2>2. Shown[Wall(R)] \in 0 .. Horizon /\ Wall(Shown[Wall(R)]) = Wall(R) /\ Shown[Wall(R)] <= R
    BY <1>4, <1>8, <2>1, ShownFirst
  <2>3. R <= Shown[Wall(R)] BY <1>4, <2>2
  <2> QED BY <1>1, <1>4, <2>2, <2>3
<1>10. R # None BY <1>1, <1>4 DEF None
<1>11. Exists[w] # None BY <1>8, <1>9, <1>10, ExistsFirst
<1>12. PICK v \in WallTimes : /\ v \in w .. w + GapSearch /\ Shown[v] # None /\ Exists[w] = Shown[v]
                              /\ \A u \in WallTimes : u \in w .. w + GapSearch /\ Shown[u] # None => v <= u
  BY <1>11, ExistsFirst
<1>13. v <= Wall(R) BY <1>8, <1>9, <1>10, <1>12
<1>14. Shown[v] \in 0 .. Horizon /\ Wall(Shown[v]) = v BY <1>12, ShownFirst
<1>15. v >= Wall(R)
  <2>1. R <= Shown[v] BY <1>1, <1>4, <1>12, <1>14
  <2>2. Shown[v] \in R .. Horizon BY <1>1, <1>4, <1>14, <2>1
  <2>3. R = 0 \/ R > 0 BY <1>1, <1>4
  <2> QED BY <1>1, <1>6, <1>7, <1>12, <1>14, <2>2, <2>3
<1>16. v = Wall(R) BY <1>1, <1>8, <1>12, <1>13, <1>15
<1> QED BY <1>4, <1>9, <1>11, <1>12, <1>16 DEF R

\* When a wake is due it is at the first moment that shows its time, if that moment comes before the run ends.
LEMMA DueIsTheFirst ==
  ASSUME NEW a, Validated(a), NEW day \in AllDays, DueOn(a, day) # None, DueOn(a, day) <= LastInstant
  PROVE  HasWake(a, day) /\ DueOn(a, day) = First(a, day)
<1> DEFINE w == day * DayLength + a.times[day % Weekdays]
<1>1. HasWake(a, day) /\ DueOn(a, day) \in 0 .. Horizon /\ DueOn(a, day) = Exists[w] BY DueIsAMoment
<1>2. w \in WallTimes BY <1>1, DueIsAMoment, WallTimeOfADay
<1> HIDE DEF w
<1>3. PICK v \in WallTimes : v \in w .. w + GapSearch /\ Shown[v] # None /\ Exists[w] = Shown[v]
  BY <1>1, <1>2, ExistsFirst
<1>4. Wall(Exists[w]) = v BY <1>3, ShownFirst
<1>5. Exists[w] \in 0 .. LastInstant BY <1>1, ClockTypes
<1>6. v + DayLength <= Horizon BY <1>4, <1>5, HorizonAssumption
<1>7. w \in Nat /\ v \in Nat /\ DayLength \in Nat /\ Horizon \in Nat /\ w <= v BY <1>2, <1>3, ClockTypes
<1>8. w <= Horizon BY <1>6, <1>7
<1>9. Exists[w] = Reached[w] BY <1>1, <1>2, <1>4, <1>7, <1>8, PutOffToTheFirst
<1> QED BY <1>1, <1>9 DEF First, w

\* Two days of one alarm are not due at the same moment.
LEMMA DueOnItsDay ==
  ASSUME NEW a, Validated(a), NEW d \in AllDays, NEW e \in AllDays,
         DueOn(a, d) # None, DueOn(a, d) = DueOn(a, e)
  PROVE  d = e
<1>1. ASSUME NEW day \in AllDays, DueOn(a, day) # None PROVE DayOf(DueOn(a, day)) = day
  <2> DEFINE at == a.times[day % Weekdays]
             w == day * DayLength + at
  <2>1. at \in 0 .. DayLength - 1 /\ DueOn(a, day) = Exists[w] BY <1>1, DueIsAMoment
  <2>2. w \in WallTimes /\ w \div DayLength = day BY <2>1, WallTimeOfADay
  <2>3. DayOf(Exists[w]) = w \div DayLength BY <1>1, <2>1, <2>2, MidnightAssumption
  <2> QED BY <2>1, <2>2, <2>3
<1> QED BY <1>1

\* A row is written that is not one ringing for the first time.
WritesARow ==
  /\ \E n \in Names, day \in AllDays : \E e :
       SaveDay(n, day, e) /\ e # NoDay /\ (days[n][day] = NoDay => e.state # "ringing")
  /\ UNCHANGED <<now, alarms, rung>>

\* No row is written or forgotten; an alarm that is set anew is set from the next instant on.
LeavesTheRows ==
  /\ UNCHANGED <<days, rung>> /\ now' >= now
  /\ \A n \in Names : \/ alarms'[n] = alarms[n]
                      \/ n \notin Book'
                      \/ alarms'[n].setAt = now + 1

\* What a RingStep says is written down is a row.
LEMMA DoWritesARow ==
  ASSUME AlarmInv, NEW n \in Names, NEW day \in AllDays, IsOpen(days[n][day]), NEW step, Do(n, day, step),
         UNCHANGED <<now, alarms, rung>>,
         \/ step.day = days[n][day]
         \/ \E s, u : step.day = [days[n][day] EXCEPT !.state = s, !.until = u]
  PROVE  WritesARow
<1> DEFINE d == days[n][day]
           e == IF step.action = "fire" THEN RungAgain(step.day, playing) ELSE step.day
<1>1. DOMAIN d = DayFields BY OpenRow DEF AlarmInv
<1>2. DOMAIN step.day = DayFields BY <1>1
<1>3. DOMAIN e = DayFields BY <1>2 DEF RungAgain
<1>4. SaveDay(n, day, e) BY DEF Do
<1>5. d # NoDay
  <2>1. NoDay.state = "none" BY DEF NoDay
  <2>2. d.state \in {"ringing", "snoozed"} BY DEF IsOpen
  <2> QED BY <2>1, <2>2
<1> HIDE DEF e
<1>6. e # NoDay
  <2>1. "due" \in DOMAIN e /\ "due" \notin DOMAIN NoDay BY <1>3 DEF DayFields, NoDay
  <2> QED BY <2>1
<1> QED BY <1>4, <1>5, <1>6 DEF WritesARow

\* Of what the one who rings does by itself, Ring alone begins to ring.
LEMMA AttendWritesRows ==
  ASSUME AlarmInv, Attend
  PROVE  Ring \/ WritesARow \/ LeavesTheRows
<1>0. NoDay.state = "none" BY DEF NoDay
<1>1. CASE Miss
  <2>1. PICK f \in MissedFirings : SaveDay(f.name, f.day, Missed(f)) /\ UNCHANGED <<now, alarms, rung>>
    BY <1>1 DEF Miss
  <2>2. f.name \in Names /\ f.day \in AllDays BY FiringIsOpen DEF MissedFirings
  <2> QED BY <2>1, <2>2, NewRows DEF WritesARow
<1>2. CASE Drop
  <2>1. now \in Int BY ClockTypes DEF AlarmInv
  <2> QED BY <1>2, <2>1 DEF Drop, LeavesTheRows
<1>3. ASSUME NEW p \in OpenDays, Tick(p[1], p[2]) \/ Resume(p[1], p[2]) PROVE WritesARow
  <2> DEFINE n == p[1]
             day == p[2]
             d == days[n][day]
  <2>1. n \in Names /\ day \in AllDays /\ IsOpen(d) BY DEF OpenDays
  <2>2. d.state \in {"ringing", "snoozed"} /\ DOMAIN d = DayFields /\ d # NoDay
    BY <1>0, <2>1, OpenRow DEF AlarmInv, IsOpen
  <2>3. CASE Tick(n, day)
    <3>1. Do(n, day, Ticked(d, alarms[n])) /\ UNCHANGED <<now, alarms, rung>> BY <2>3 DEF Tick
    <3>2. \/ Ticked(d, alarms[n]).day = d
          \/ \E s, u : Ticked(d, alarms[n]).day = [d EXCEPT !.state = s, !.until = u]
      <4> HIDE DEF d
      <4>1. Ticked(d, alarms[n]).day \in {d, [d EXCEPT !.state = "done", !.until = None]} BY DEF Ticked, Step
      <4> QED BY <4>1
    <3> HIDE DEF n, day
    <3> QED BY <2>1, <3>1, <3>2, DoWritesARow
  <2>4. CASE Resume(n, day)
    <3> DEFINE e == RungAgain(d, d.giveBack)
    <3>1. SaveDay(n, day, e) /\ UNCHANGED <<now, alarms, rung>> BY <2>4 DEF Resume
    <3>2. DOMAIN e = DayFields BY <2>2 DEF RungAgain
    <3>3. e # NoDay
      <4> HIDE DEF e
      <4>1. "due" \in DOMAIN e /\ "due" \notin DOMAIN NoDay BY <3>2 DEF DayFields, NoDay
      <4> QED BY <4>1
    <3> HIDE DEF e, n, day
    <3> QED BY <2>1, <2>2, <3>1, <3>3 DEF WritesARow
  <2> QED BY <1>3, <2>3, <2>4
<1> QED BY <1>1, <1>2, <1>3 DEF Attend

\* A key or digits go on with the row that rings.
LEMMA PressWritesARow ==
  ASSUME AlarmInv, NEW press, NEW digits, Press(press) \/ Dial(digits) PROVE WritesARow
<1> DEFINE n == ring.name
           day == ring.day
           d == days[n][day]
<1>1. ring # NoRing /\ ~Bereft /\ UNCHANGED <<now, alarms, rung>> BY DEF Press, Dial, Settled
<1>2. n \in Names /\ day \in AllDays /\ IsOpen(d) BY <1>1, RingHasItsRow DEF IsOpen
<1>3. PICK step \in {Pressed(d, alarms[n], press), Dialled(d, alarms[n], digits)} : Do(n, day, step)
  BY DEF Press, Dial
<1>4. \/ step.day = d
      \/ \E s, u : step.day = [d EXCEPT !.state = s, !.until = u]
  <2> HIDE DEF d
  <2>1. Off(d).day = [d EXCEPT !.state = "done", !.until = None] BY DEF Off, Step
  <2>2. \/ Snoozed(d, alarms[n]) = Off(d)
        \/ \E u : Snoozed(d, alarms[n]).day = [d EXCEPT !.state = "snoozed", !.until = u]
    BY DEF Snoozed, Step
  <2>3. step \in {Step(d, "none"), Off(d), Snoozed(d, alarms[n])} BY <1>3 DEF Pressed, Dialled
  <2>4. Step(d, "none").day = d BY DEF Step
  <2>5. CASE step = Step(d, "none") BY <2>4, <2>5
  <2>6. CASE step = Off(d) BY <2>1, <2>6
  <2>7. CASE step = Snoozed(d, alarms[n])
    <3>1. CASE step = Off(d) BY <2>1, <3>1
    <3>2. CASE \E u : step.day = [d EXCEPT !.state = "snoozed", !.until = u] BY <3>2
    <3> QED BY <2>2, <2>7, <3>1, <3>2
  <2> QED BY <2>3, <2>5, <2>6, <2>7
<1> HIDE DEF n, day
<1> QED BY <1>1, <1>2, <1>3, <1>4, DoWritesARow

\* A row comes by Ring, or by a step that only goes on with one; it goes with its alarm.
LEMMA WhatBecomesOfRows ==
  ASSUME AlarmInv, [AlarmsNext]_alarmsVars
  PROVE  \/ up /\ Ring
         \/ WritesARow
         \/ LeavesTheRows
         \/ \E n \in Names : DeleteAlarm(n)
<1>1. now \in Int /\ DOMAIN alarms = Names BY ClockTypes DEF AlarmInv, AlarmsType
<1>2. CASE up /\ Attend BY <1>2, AttendWritesRows
<1>3. CASE \/ \E press \in {"key", "standby"} : Press(press)
           \/ \E digits \in {"right", "wrong"} : Dial(digits)
  BY <1>3, PressWritesARow
<1>4. CASE \/ Listen \/ Crash \/ Restart \/ (\E day \in PauseDays : WriteAlarmPause(day)) \/ UNCHANGED alarmsVars
  BY <1>1, <1>4 DEF Listen, Crash, Restart, WriteAlarmPause, alarmsVars, LeavesTheRows
<1>5. CASE Pass
  BY <1>1, <1>5 DEF Pass, LeavesTheRows
<1>6. ASSUME NEW n \in Names, NEW shape, NEW enabled, SaveAlarm(n, shape, enabled) PROVE LeavesTheRows
  <2>1. /\ alarms' = [alarms EXCEPT ![n] = Row(shape, enabled, now + 1)] /\ UNCHANGED <<now, days, rung>>
    BY <1>6 DEF SaveAlarm
  <2>2. alarms'[n].setAt = now + 1 BY <1>1, <2>1, RowKeepsTheRule
  <2> QED BY <1>1, <2>1, <2>2 DEF LeavesTheRows
<1>7. ASSUME NEW n \in Names, NEW shape, EditRow(n, shape) PROVE LeavesTheRows
  <2>1. /\ alarms' = [alarms EXCEPT ![n] = Row(shape, TRUE, alarms[n].setAt)] /\ UNCHANGED <<now, days, rung>>
        /\ ~Validated(shape)
    BY <1>7 DEF EditRow
  <2>2. ~Validated(alarms'[n])
    <3> DEFINE row == Row(shape, TRUE, alarms[n].setAt)
    <3>1. alarms'[n] = row BY <1>1, <2>1
    <3>2. Validated(row) <=> Validated(shape) BY RowKeepsTheRule
    <3> HIDE DEF row
    <3> QED BY <2>1, <3>1, <3>2
  <2>3. n \notin Book' BY <2>2 DEF Book
  <2>4. \A k \in Names : k # n => alarms'[k] = alarms[k] BY <1>1, <2>1
  <2>5. now' >= now BY <1>1, <2>1
  <2> QED BY <2>1, <2>3, <2>4, <2>5 DEF LeavesTheRows
<1> QED BY <1>2, <1>3, <1>4, <1>5, <1>6, <1>7 DEF AlarmsNext

\* What has rung is past, and still stands in a row unless its alarm was set anew or taken away since.
RungHasItsRow ==
  \A n \in Names, due \in Int :
    <<n, due>> \in rung =>
      /\ due <= now
      /\ n \in Book /\ due >= alarms[n].setAt =>
           \E day \in AllDays : days[n][day] # NoDay /\ DueOn(alarms[n], day) = due

\* Every step leaves what has rung written down.
LEMMA RungStep == AlarmInv /\ RungHasItsRow /\ [AlarmsNext]_alarmsVars => RungHasItsRow'
<1> SUFFICES ASSUME AlarmInv, RungHasItsRow, [AlarmsNext]_alarmsVars PROVE RungHasItsRow' OBVIOUS
<1>1. now \in Int /\ DaysType BY ClockTypes DEF AlarmInv
<1>2. CASE up /\ Ring
  <2>0. PICK f \in NextFirings : \E e \in {Skipped(f), Ringing(f)} :
          /\ Due(f) <= now
          /\ SaveDay(f.name, f.day, e)
          /\ rung' \subseteq rung \cup {<<f.name, Due(f)>>}
          /\ UNCHANGED <<now, alarms>>
    BY <1>2 DEF Ring
  <2>1. PICK e \in {Skipped(f), Ringing(f)} :
          /\ Due(f) <= now
          /\ SaveDay(f.name, f.day, e)
          /\ rung' \subseteq rung \cup {<<f.name, Due(f)>>}
          /\ UNCHANGED <<now, alarms>>
    BY <2>0
  <2>2. f.name \in Names /\ f.day \in AllDays BY FiringIsOpen DEF NextFirings, OwedFirings
  <2>3. e # NoDay BY <2>1, NewRows
  <2>4. /\ days'[f.name][f.day] # NoDay
        /\ \A m \in Names, d \in AllDays : m # f.name \/ d # f.day => days'[m][d] = days[m][d]
    BY <1>1, <2>1, <2>2, <2>3, SavedDay
  <2>5. Book' = Book BY <2>1 DEF Book
  <2>6. SUFFICES ASSUME NEW n \in Names, NEW due \in Int, <<n, due>> \in rung'
                 PROVE  /\ due <= now
                        /\ n \in Book /\ due >= alarms[n].setAt =>
                             \E day \in AllDays : days'[n][day] # NoDay /\ DueOn(alarms[n], day) = due
    BY <2>1, <2>5 DEF RungHasItsRow
  <2>7. CASE n = f.name /\ due = Due(f) BY <2>1, <2>2, <2>4, <2>7 DEF Due
  <2>8. CASE <<n, due>> \in rung BY <2>4, <2>6, <2>8 DEF RungHasItsRow
  <2> QED BY <2>1, <2>6, <2>7, <2>8
<1>3. CASE WritesARow
  <2>1. PICK m \in Names, c \in AllDays : \E e : SaveDay(m, c, e) /\ e # NoDay BY <1>3 DEF WritesARow
  <2>2. PICK e : SaveDay(m, c, e) /\ e # NoDay BY <2>1
  <2>3. days'[m][c] # NoDay /\ \A n \in Names, d \in AllDays : n # m \/ d # c => days'[n][d] = days[n][d]
    BY <1>1, <2>2, SavedDay
  <2>4. Book' = Book /\ UNCHANGED <<now, alarms, rung>> BY <1>3 DEF Book, WritesARow
  <2> QED BY <2>3, <2>4 DEF RungHasItsRow
<1>4. CASE LeavesTheRows
  <2>1. SUFFICES ASSUME NEW n \in Names, NEW due \in Int, <<n, due>> \in rung
                 PROVE  /\ due <= now'
                        /\ n \in Book' /\ due >= alarms'[n].setAt =>
                             \E day \in AllDays : days[n][day] # NoDay /\ DueOn(alarms'[n], day) = due
    BY <1>4 DEF RungHasItsRow, LeavesTheRows
  <2>2. due <= now /\ now' >= now BY <1>4, <2>1 DEF RungHasItsRow, LeavesTheRows
  <2>3. now' \in Int
    <3>1. AlarmInv' BY AlarmsStep
    <3> QED BY <3>1, ClockTypes DEF AlarmInv
  <2>4. due <= now' BY <1>1, <2>2, <2>3
  <2>5. CASE alarms'[n] = alarms[n]
    <3>1. n \in Book' <=> n \in Book BY <2>5 DEF Book
    <3> QED BY <2>1, <2>4, <2>5, <3>1 DEF RungHasItsRow
  <2>6. CASE n \notin Book' BY <2>4, <2>6
  <2>7. CASE alarms'[n].setAt = now + 1 BY <1>1, <2>2, <2>4, <2>7
  <2> QED BY <1>4, <2>5, <2>6, <2>7 DEF LeavesTheRows
<1>5. ASSUME NEW m \in Names, DeleteAlarm(m) PROVE RungHasItsRow'
  <2>1. /\ alarms' = [alarms EXCEPT ![m] = NoAlarm] /\ UNCHANGED <<now, rung>>
        /\ days' = [days EXCEPT ![m] = [day \in AllDays |-> NoDay]]
    BY <1>5 DEF DeleteAlarm
  <2>2. /\ alarms'[m] = NoAlarm /\ \A n \in Names \ {m} : alarms'[n] = alarms[n]
        /\ \A n \in Names \ {m} : days'[n] = days[n]
    BY <2>1 DEF AlarmInv, AlarmsType, DaysType
  <2>3. m \notin Book' /\ \A n \in Names \ {m} : n \in Book' <=> n \in Book BY <2>2 DEF Book
  <2> QED BY <2>1, <2>2, <2>3 DEF RungHasItsRow
<1> QED BY <1>2, <1>3, <1>4, <1>5, WhatBecomesOfRows

\* What has rung still stands in a row of its alarm, unless the alarm was set anew or taken away since.
THEOREM RungIsWrittenDown == AlarmsSpec => []RungHasItsRow
<1>1. AlarmsInit => RungHasItsRow BY DEF AlarmsInit, RungHasItsRow
<1> QED BY <1>1, RungStep, AlarmsInvariant, PTL DEF AlarmsSpec

\* A row begins to ring by Ring alone.
LEMMA OpensByRing ==
  ASSUME AlarmInv, [AlarmsNext]_alarmsVars, NEW n \in Names, NEW day \in AllDays, Opens(n, day)
  PROVE  \E f \in OwedFirings : /\ f.name = n /\ f.day = day /\ Due(f) <= now
                                /\ days'[n][day].due = Due(f)
<1>1. days[n][day] = NoDay /\ days'[n][day].state = "ringing" /\ DaysType BY DEF Opens, AlarmInv
<1>2. NoDay.state = "none" BY DEF NoDay
<1>3. ~WritesARow
  <2>1. SUFFICES ASSUME WritesARow PROVE FALSE OBVIOUS
  <2>2. PICK m \in Names, c \in AllDays : \E e :
          SaveDay(m, c, e) /\ e # NoDay /\ (days[m][c] = NoDay => e.state # "ringing")
    BY <2>1 DEF WritesARow
  <2>3. PICK e : SaveDay(m, c, e) /\ e # NoDay /\ (days[m][c] = NoDay => e.state # "ringing") BY <2>2
  <2>4. days'[m][c] = e /\ \A k \in Names, d \in AllDays : k # m \/ d # c => days'[k][d] = days[k][d]
    BY <1>1, <2>3, SavedDay
  <2> QED BY <1>1, <1>2, <2>3, <2>4
<1>4. ~LeavesTheRows BY <1>1, <1>2 DEF LeavesTheRows
<1>5. ASSUME NEW m \in Names, DeleteAlarm(m) PROVE FALSE
  <2>1. days' = [days EXCEPT ![m] = [d \in AllDays |-> NoDay]] BY <1>5 DEF DeleteAlarm
  <2> QED BY <1>1, <1>2, <2>1 DEF DaysType
<1>6. Ring BY <1>3, <1>4, <1>5, WhatBecomesOfRows
<1>12. PICK f \in NextFirings : \E e \in {Skipped(f), Ringing(f)} : Due(f) <= now /\ SaveDay(f.name, f.day, e)
  BY <1>6 DEF Ring
<1>7. PICK e \in {Skipped(f), Ringing(f)} : Due(f) <= now /\ SaveDay(f.name, f.day, e) BY <1>12
<1>8. f \in OwedFirings /\ f.name \in Names /\ f.day \in AllDays BY <1>7, FiringIsOpen DEF NextFirings, OwedFirings
<1>9. /\ days'[f.name][f.day] = e
      /\ \A k \in Names, d \in AllDays : k # f.name \/ d # f.day => days'[k][d] = days[k][d]
  BY <1>1, <1>7, <1>8, SavedDay
<1>10. f.name = n /\ f.day = day BY <1>1, <1>2, <1>9
<1>11. days'[n][day].due = Due(f) BY <1>1, <1>7, <1>9, <1>10, NewRows
<1> QED BY <1>7, <1>8, <1>10, <1>11

\* due_on, open_firings: no wake rings twice: not in the hour that comes twice, not after a crash, and
\* not when its alarm is saved again, removed and made anew, or the pause is lifted.
THEOREM EachWakeRingsOnce == AlarmsSpec => RingsOnce
<1>1. ASSUME AlarmInv, RungHasItsRow, [AlarmsNext]_alarmsVars,
             NEW n \in Names, NEW day \in AllDays, Opens(n, day), <<n, days'[n][day].due>> \in rung
      PROVE  FALSE
  <2>1. PICK f \in OwedFirings : f.name = n /\ f.day = day /\ days'[n][day].due = Due(f)
    BY <1>1, OpensByRing
  <2>2. n \in Book /\ Due(f) # None /\ Due(f) >= alarms[n].setAt BY <2>1, FiringIsOpen DEF OwedFirings
  <2>3. Validated(alarms[n]) BY <2>2 DEF Book
  <2>4. Due(f) = DueOn(alarms[n], day) BY <2>1 DEF Due
  <2>5. Due(f) \in Int BY <2>2, <2>3, <2>4, DueIsAMoment, ClockTypes
  <2>6. PICK d \in AllDays : days[n][d] # NoDay /\ DueOn(alarms[n], d) = Due(f)
    BY <1>1, <2>1, <2>2, <2>5 DEF RungHasItsRow
  <2>7. d = day BY <2>2, <2>3, <2>4, <2>6, DueOnItsDay
  <2> QED BY <1>1, <2>6, <2>7 DEF Opens
<1>2. AlarmInv /\ RungHasItsRow /\ [AlarmsNext]_alarmsVars =>
        [\A n \in Names, day \in AllDays : Opens(n, day) => <<n, days'[n][day].due>> \notin rung]_alarmsVars
  BY <1>1
<1> QED BY <1>2, AlarmsInvariant, RungIsWrittenDown, PTL DEF AlarmsSpec, RingsOnce

\* What begins to ring was set before it was due, is due when a clock on the wall first shows its time
\* or a later one, is for a day that is not off, and its limit has not passed.
THEOREM WhatRingsIsOwed == AlarmsSpec => RingsWhenOwed
<1>1. ASSUME AlarmInv, [AlarmsNext]_alarmsVars, NEW n \in Names, NEW day \in AllDays, Opens(n, day)
      PROVE  LET a == alarms[n] IN
             /\ a.enabled /\ HasWake(a, day) /\ day > through
             /\ days'[n][day].due = First(a, day)
             /\ First(a, day) \in a.setAt .. now
             /\ now < First(a, day) + a.limit
  <2> DEFINE a == alarms[n]
  <2>1. PICK f \in OwedFirings : f.name = n /\ f.day = day /\ Due(f) <= now /\ days'[n][day].due = Due(f)
    BY <1>1, OpensByRing
  <2>2. n \in Book /\ Due(f) # None /\ Due(f) >= a.setAt /\ a.enabled /\ day > through
    BY <2>1, FiringIsOpen DEF OwedFirings
  <2>3. Validated(a) /\ a.setAt \in Int BY <1>1, <2>2 DEF Book, AlarmInv, AlarmsType
  <2>4. Due(f) = DueOn(a, day) BY <2>1 DEF Due
  <2>5. Due(f) \in Int /\ a.limit \in Nat BY <2>2, <2>3, <2>4, DueIsAMoment, ClockTypes
  <2>6. now \in Int /\ now <= LastInstant /\ LastInstant \in Int BY <1>1, ClockTypes DEF AlarmInv
  <2>7. Due(f) <= LastInstant BY <2>1, <2>5, <2>6
  <2>8. HasWake(a, day) /\ Due(f) = First(a, day) BY <2>2, <2>3, <2>4, <2>7, DueIsTheFirst
  <2>9. ~(Due(f) + a.limit <= now) BY <2>1 DEF OwedFirings, Over, LimitAt
  <2> HIDE DEF a
  <2>10. Due(f) \in a.setAt .. now /\ now < Due(f) + a.limit
    BY <2>1, <2>2, <2>3, <2>5, <2>6, <2>9
  <2> QED BY <2>1, <2>2, <2>8, <2>10 DEF a
<1>2. AlarmInv /\ [AlarmsNext]_alarmsVars =>
        [\A n \in Names, day \in AllDays : Opens(n, day) =>
           LET a == alarms[n] IN
           /\ a.enabled /\ HasWake(a, day) /\ day > through
           /\ days'[n][day].due = First(a, day)
           /\ First(a, day) \in a.setAt .. now
           /\ now < First(a, day) + a.limit]_alarmsVars
  BY <1>1
<1> QED BY <1>2, AlarmsInvariant, PTL DEF AlarmsSpec, RingsWhenOwed

\* open_firings, owed, missed: when the one who rings has done its work, no wake of today or of the days
\* it looks back on is unaccounted for, however the clock was changed and however long it was away.
THEOREM NoWakeIsUnaccountedFor == AlarmsSpec => []EveryWakeIsAnswered
<1>1. ASSUME AlarmInv, Settled, NEW n \in Book, NEW day \in (Today - LookbackDays .. Today) \cap AllDays,
             alarms[n].enabled, HasWake(alarms[n], day), day > through,
             First(alarms[n], day) \in alarms[n].setAt .. now
      PROVE  days[n][day] # NoDay
  <2> DEFINE a == alarms[n]
             at == a.times[day % Weekdays]
             w == day * DayLength + at
             f == [name |-> n, day |-> day]
  <2>1. SUFFICES ASSUME days[n][day] = NoDay PROVE FALSE OBVIOUS
  <2>2. n \in Names /\ Validated(a) /\ a.setAt \in Int BY <1>1 DEF Book, AlarmInv, AlarmsType
  <2>3. now \in 0 .. LastInstant /\ now \in 0 .. Horizon /\ Wall(now) \in Int BY <1>1, ClockTypes DEF AlarmInv
  <2>4. at \in 0 .. DayLength - 1 BY <1>1, <2>2, DueIsAMoment
  <2>5. w \in WallTimes /\ day \in Nat BY <2>4, WallTimeOfADay
  <2>6. DayLength \in Nat \ {0} /\ Horizon \in Nat BY ClockTypes
  <2>7. Today \in Int /\ Today * DayLength <= Wall(now) BY <2>3, <2>6, DayBegins DEF Today, DayOf
  <2>8. day * DayLength <= Today * DayLength /\ day * DayLength \in Int /\ Today * DayLength \in Int
    BY <2>5, <2>6, <2>7, DaysInOrder
  <2>9. Wall(now) + DayLength <= Wall(Horizon) /\ Wall(now) + DayLength <= Horizon BY <2>3, HorizonAssumption
  <2>10. Wall(Horizon) \in Int BY <2>6, ClockTypes
  <2>11. w <= Horizon /\ Wall(Horizon) >= w
    <3> DEFINE x == day * DayLength
               y == Today * DayLength
    <3>1. x \in Int /\ y \in Int /\ x <= y /\ y <= Wall(now) BY <2>7, <2>8
    <3> HIDE DEF x, y, at
    <3>2. x + at <= Horizon /\ Wall(Horizon) >= x + at BY <2>3, <2>4, <2>6, <2>9, <2>10, <3>1
    <3> QED BY <3>2 DEF x
  <2>12. Exists[w] = Reached[w] /\ Exists[w] # None /\ Exists[w] \in 0 .. Horizon
    BY <2>5, <2>6, <2>11, PutOffToTheFirst
  <2>13. DueOn(a, day) = First(a, day) /\ DueOn(a, day) # None
    BY <1>1, <2>12 DEF DueOn, First, HasWake
  <2> HIDE DEF w, at
  <2>14. f.name = n /\ f.day = day OBVIOUS
  <2>15. DueOn(a, day) >= a.setAt /\ DueOn(a, day) <= now /\ DueOn(a, day) \in Int
    BY <1>1, <2>2, <2>3, <2>13
  <2>16. f \in [name : {m \in Book : alarms[m].enabled},
                day : (Today - LookbackDays .. Today + LookaheadDays) \cap AllDays]
    <3>1. LookaheadDays \in Nat /\ LookbackDays \in Nat BY ClockTypes
    <3>2. day \in Today - LookbackDays .. Today + LookaheadDays BY <2>7, <3>1
    <3> QED BY <1>1, <3>2
  <2>17. f \in OpenFirings BY <1>1, <2>1, <2>13, <2>14, <2>15, <2>16 DEF OpenFirings
  <2>18. Due(f) = DueOn(a, day) BY <2>14 DEF Due
  <2> HIDE DEF f
  <2>19. ~Over(f) BY <1>1, <2>17 DEF Settled, MissedFirings
  <2>20. Due(f) > now BY <1>1, <2>17, <2>19 DEF Settled, OwedFirings
  <2> QED BY <2>3, <2>15, <2>18, <2>20
<1>2. AlarmInv => EveryWakeIsAnswered BY <1>1 DEF EveryWakeIsAnswered
<1> QED BY <1>2, AlarmsInvariant, PTL
=============================================================================
