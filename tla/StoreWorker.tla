---------------------------- MODULE StoreWorker ----------------------------
(***************************************************************************)
(* The house store off the event loop (adapters/files/store_worker.py): one*)
(* daemon thread drains a queue of jobs - the open, then the writes, then  *)
(* the close and the end of the thread - while the loop asks for writes,   *)
(* hears their answers in callbacks of its own, may stop waiting for any   *)
(* of them, and waits for the close only so long.  The process may die at  *)
(* any moment, and a new one opens the store again.                        *)
(*                                                                         *)
(* Reads change nothing and are left out.  A write is one transaction of   *)
(* the database, so it lands whole or not at all.                          *)
(***************************************************************************)
EXTENDS Integers, Sequences, FiniteSets

CONSTANTS
  MaxSaves,   \* bound: how many saves a behaviour asks for
  MaxLives    \* bound: how many processes run the service, one after another

ASSUME BoundsAssumption == MaxSaves \in Nat /\ MaxLives \in Nat

VARIABLES
  asked,      \* how many saves have been asked for
  durable,    \* the save the database holds
  result,     \* per save: how the call on the thread ended, if it has
  caller,     \* per save: what its awaiter knows
  jobs,       \* the queue
  running,    \* the job the thread is in
  thread,     \* none, alive, ended
  session,    \* whether this process holds the database open, its writer lock with it
  openAnswer, \* how the open ended
  life,       \* where the service's one open and one close stand
  lives,      \* how many processes have opened the store
  writesOut,  \* _writes_out
  said        \* what a close that gave up said would be lost, or Unsaid

loopVars   == <<caller, writesOut, said>>
threadVars == <<jobs, running, thread, session, openAnswer>>
lifeVars   == <<life, lives>>
vars == <<asked, durable, result, loopVars, threadVars, lifeVars>>

\* A write's job is named by its save; the open goes before every write of its
\* process, the close and the end of the thread behind them.
Saves    == 1 .. MaxSaves
OpenJob  == 0
CloseJob == MaxSaves + 1
EndJob   == MaxSaves + 2
Jobs     == OpenJob .. EndJob
Idle     == -1
Unsaid   == -1

TypeOK ==
  /\ asked \in 0 .. MaxSaves
  /\ durable \in 0 .. MaxSaves
  /\ result \in [Saves -> {"none", "queued", "ok", "failed", "lost"}]
  /\ caller \in [Saves -> {"none", "waiting", "left", "woken", "told", "said", "unheard", "gone"}]
  /\ jobs \in Seq(Jobs)
  /\ running \in Jobs \cup {Idle}
  /\ thread \in {"none", "alive", "ended"}
  /\ session \in BOOLEAN
  /\ openAnswer \in {"none", "queued", "running", "ok", "failed", "cancelled"}
  /\ life \in {"down", "opening", "open", "closing", "closed"}
  /\ lives \in 0 .. MaxLives
  /\ writesOut \in 0 .. MaxSaves
  /\ said \in 0 .. MaxSaves \cup {Unsaid}

Init ==
  /\ asked = 0 /\ durable = 0
  /\ result = [n \in Saves |-> "none"]
  /\ caller = [n \in Saves |-> "none"]
  /\ jobs = <<>> /\ running = Idle
  /\ thread = "none" /\ session = FALSE /\ openAnswer = "none"
  /\ life = "down" /\ lives = 0
  /\ writesOut = 0 /\ said = Unsaid
-----------------------------------------------------------------------------
(* The loop opens and closes *)

Open ==
  /\ life = "down" /\ lives < MaxLives
  /\ life' = "opening" /\ lives' = lives + 1
  /\ thread' = "alive" /\ jobs' = <<OpenJob>> /\ openAnswer' = "queued"
  /\ UNCHANGED <<asked, durable, result, loopVars, running, session>>

Opened ==
  /\ life = "opening" /\ openAnswer = "ok"
  /\ life' = "open"
  /\ UNCHANGED <<asked, durable, result, loopVars, threadVars, lives>>

\* The close, and behind it the end of the thread.
QueueTheClose ==
  /\ jobs' = jobs \o <<CloseJob, EndJob>>
  /\ life' = "closing"
  /\ UNCHANGED <<asked, durable, result, loopVars, running, thread, session, lives>>

\* A refused open is followed by a close of whatever half of it happened ...
OpenRefused ==
  /\ life = "opening" /\ openAnswer = "failed"
  /\ QueueTheClose
  /\ UNCHANGED openAnswer

\* ... and so is one whose awaiter was cancelled, which takes the job back
\* only while it is still queued.
OpenCancelled ==
  /\ life = "opening"
  /\ openAnswer' = IF openAnswer = "queued" THEN "cancelled" ELSE openAnswer
  /\ QueueTheClose

Close ==
  /\ life = "open"
  /\ QueueTheClose
  /\ UNCHANGED openAnswer

\* The close has been answered and the thread has ended.
Closed ==
  /\ life = "closing" /\ thread = "ended"
  /\ life' = "closed"
  /\ UNCHANGED <<asked, durable, result, loopVars, threadVars, lives>>

\* The stop bound ran out first: it is said what the exit may lose.
GivesUp ==
  /\ life = "closing"
  /\ life' = "closed" /\ said' = writesOut
  /\ UNCHANGED <<asked, durable, result, caller, writesOut, threadVars, lives>>

\* Whoever waited for the close is cancelled: nothing is said.
CloseCancelled ==
  /\ life = "closing"
  /\ life' = "closed"
  /\ UNCHANGED <<asked, durable, result, loopVars, threadVars, lives>>
-----------------------------------------------------------------------------
(* The loop asks for writes and hears of them *)

\* Mutant: a write asked for while the store closes is queued behind the end.
SaveWhileClosing(n) ==
  /\ life \in {"open", "closing"} /\ n = asked + 1
  /\ asked' = n
  /\ jobs' = Append(jobs, n)
  /\ result' = [result EXCEPT ![n] = "queued"]
  /\ caller' = [caller EXCEPT ![n] = "waiting"]
  /\ writesOut' = writesOut + 1
  /\ UNCHANGED <<durable, said, running, thread, session, openAnswer, lifeVars>>

Save(n) ==
  /\ life = "open" /\ n = asked + 1
  /\ asked' = n
  /\ jobs' = Append(jobs, n)
  /\ result' = [result EXCEPT ![n] = "queued"]
  /\ caller' = [caller EXCEPT ![n] = "waiting"]
  /\ writesOut' = writesOut + 1
  /\ UNCHANGED <<durable, said, running, thread, session, openAnswer, lifeVars>>

\* A store that is not open refuses, in the answer.
SaveRefused(n) ==
  /\ life \in {"closing", "closed"} /\ n = asked + 1
  /\ asked' = n
  /\ result' = [result EXCEPT ![n] = "failed"]
  /\ caller' = [caller EXCEPT ![n] = "told"]
  /\ UNCHANGED <<durable, writesOut, said, threadVars, lifeVars>>

\* The awaiter is cancelled, or its own bound runs out; the write stays queued.
Leaves(n) ==
  /\ caller[n] = "waiting"
  /\ caller' = [caller EXCEPT ![n] = "left"]
  /\ UNCHANGED <<asked, durable, result, writesOut, said, threadVars, lifeVars>>

\* The answer reaches the loop: the write is counted out, its awaiter woken,
\* and a failure whose awaiter has left is said.
Settle(n) ==
  /\ caller[n] \in {"waiting", "left"} /\ result[n] \in {"ok", "failed"}
  /\ writesOut' = writesOut - 1
  /\ caller' = [caller EXCEPT ![n] =
                  IF caller[n] = "waiting" THEN "woken"
                  ELSE IF result[n] = "failed" THEN "said" ELSE "told"]
  /\ UNCHANGED <<asked, durable, result, said, threadVars, lifeVars>>

\* The awaiter runs again with the answer ...
Told(n) ==
  /\ caller[n] = "woken"
  /\ caller' = [caller EXCEPT ![n] = "told"]
  /\ UNCHANGED <<asked, durable, result, writesOut, said, threadVars, lifeVars>>

\* ... or was cancelled after it was woken and before it ran: the cancellation
\* takes the place of the answer.
CancelledAwake(n) ==
  /\ caller[n] = "woken"
  /\ caller' = [caller EXCEPT ![n] = IF result[n] = "failed" THEN "unheard" ELSE "told"]
  /\ UNCHANGED <<asked, durable, result, writesOut, said, threadVars, lifeVars>>
-----------------------------------------------------------------------------
(* The thread *)

\* Mutant: a pool, which takes what it likes.
TakeAny ==
  /\ thread = "alive" /\ running = Idle
  /\ \E i \in DOMAIN jobs :
       /\ jobs[i] \in Saves \cup {OpenJob, CloseJob}
       /\ running' = jobs[i]
       /\ jobs' = SubSeq(jobs, 1, i - 1) \o SubSeq(jobs, i + 1, Len(jobs))
       /\ openAnswer' = IF jobs[i] = OpenJob THEN "running" ELSE openAnswer
  /\ UNCHANGED <<asked, durable, result, loopVars, thread, session, lifeVars>>

\* The next job; an open its awaiter took back is not run.
Take ==
  /\ thread = "alive" /\ running = Idle /\ jobs # <<>>
  /\ jobs' = Tail(jobs)
  /\ IF Head(jobs) = EndJob
       THEN thread' = "ended" /\ UNCHANGED <<running, openAnswer>>
     ELSE IF Head(jobs) = OpenJob /\ openAnswer = "cancelled"
       THEN UNCHANGED <<running, thread, openAnswer>>
     ELSE /\ running' = Head(jobs)
          /\ openAnswer' = IF Head(jobs) = OpenJob THEN "running" ELSE openAnswer
          /\ UNCHANGED thread
  /\ UNCHANGED <<asked, durable, result, loopVars, session, lifeVars>>

\* The writer lock may be held by another process; a refused open may have
\* gone half of its way.
RunOpen ==
  /\ running = OpenJob
  /\ running' = Idle
  /\ \/ openAnswer' = "ok" /\ session' = TRUE
     \/ openAnswer' = "failed" /\ session' \in BOOLEAN
  /\ UNCHANGED <<asked, durable, result, loopVars, jobs, thread, lifeVars>>

\* Mutant: a write is answered before it is committed.
RunWriteUncommitted(n) ==
  /\ running = n
  /\ running' = Idle
  /\ result' = [result EXCEPT ![n] = IF session THEN "ok" ELSE "failed"]
  /\ UNCHANGED <<asked, durable, loopVars, jobs, thread, session, openAnswer, lifeVars>>

\* A write that raises may have been committed all the same; without a session
\* there is nothing to write to.
RunWrite(n) ==
  /\ running = n
  /\ running' = Idle
  /\ \/ session /\ durable' = n /\ result' = [result EXCEPT ![n] = "ok"]
     \/ /\ durable' \in {durable} \cup {m \in {n} : session}
        /\ result' = [result EXCEPT ![n] = "failed"]
  /\ UNCHANGED <<asked, loopVars, jobs, thread, session, openAnswer, lifeVars>>

RunClose ==
  /\ running = CloseJob
  /\ running' = Idle /\ session' = FALSE
  /\ UNCHANGED <<asked, durable, result, loopVars, jobs, thread, openAnswer, lifeVars>>
-----------------------------------------------------------------------------
(* The process ends: after its close, or killed at any moment.  The daemon  *)
(* thread dies with what is queued on it, and the database takes the lock.  *)

Exit ==
  /\ life # "down"
  /\ life' = "down" /\ thread' = "none" /\ session' = FALSE /\ openAnswer' = "none"
  /\ jobs' = <<>> /\ running' = Idle
  /\ durable' \in {durable} \cup {n \in Saves : running = n /\ session}
  /\ result' = [n \in Saves |-> IF result[n] = "queued" THEN "lost" ELSE result[n]]
  /\ caller' = [n \in Saves |-> IF caller[n] \in {"waiting", "left", "woken"} THEN "gone" ELSE caller[n]]
  /\ writesOut' = 0 /\ said' = Unsaid
  /\ UNCHANGED <<asked, lives>>
-----------------------------------------------------------------------------
LoopStep(n) == Save(n) \/ SaveRefused(n) \/ Leaves(n) \/ Settle(n) \/ Told(n) \/ CancelledAwake(n)

ThreadStep == Take \/ RunOpen \/ (\E n \in Saves : RunWrite(n)) \/ RunClose

\* The bound on processes is spent.
AllDone == life = "down" /\ lives = MaxLives /\ UNCHANGED vars

Next ==
  \/ Open \/ Opened \/ OpenRefused \/ OpenCancelled
  \/ Close \/ Closed \/ GivesUp \/ CloseCancelled
  \/ \E n \in Saves : LoopStep(n)
  \/ ThreadStep
  \/ Exit
  \/ AllDone

Spec == Init /\ [][Next]_vars

\* The loop runs, and the close's bound runs out; the thread may hang in a call.
LoopFairness ==
  /\ WF_vars(Opened) /\ WF_vars(OpenRefused) /\ WF_vars(Closed) /\ WF_vars(GivesUp)
  /\ \A n \in Saves : WF_vars(Settle(n)) /\ WF_vars(Told(n))

FairSpec == Spec /\ LoopFairness
-----------------------------------------------------------------------------
(* What must hold *)

\* The record never falls back: two saves land in the order they were asked
\* for, whatever is cancelled, closed or killed (one thread, never a pool).
NeverGoesBack == [][durable' >= durable]_vars

\* A save answered well is on disk: a join mutes a box only after its note.
OkIsDurable == \A n \in Saves : result[n] = "ok" => n <= durable

\* "The close is the last word": no write runs on a store that is not open.
WritesFindItOpen == \A n \in Saves : running = n => session

\* A refused, cancelled or closed store leaves no session once its thread has
\* ended: the writer lock is free for the next run.
EndedIsClosed == thread = "ended" => ~session /\ jobs = <<>>

\* A close that gave up has counted every write that the exit may lose.
LostIsCounted ==
  said # Unsaid => Cardinality({n \in Saves : result[n] = "queued"}) <= said

\* The store implements the record the service relies on.
Record == INSTANCE HouseRecord
ImplementsRecord == Record!RecordSpec

\* A write once asked for stays queued until it is answered, as long as the
\* process lives and no call hangs - whoever stops waiting for it.
EveryWriteIsAnswered ==
  WF_vars(ThreadStep) => \A n \in Saves : result[n] = "queued" ~> result[n] # "queued"

\* A close returns, hanging thread or not.
CloseReturns == life = "closing" ~> life \in {"closed", "down"}

\* "A failure nobody hears is said": every failed write is raised where it was
\* awaited, or said.
FailureIsHeard == \A n \in Saves : caller[n] # "unheard"
=============================================================================
