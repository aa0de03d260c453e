----------------------------- MODULE KeyReading -----------------------------
(***************************************************************************)
(* From the frames the boxes send to what the house does about a key:      *)
(* the reader (zone_service/keys.py), the worker that completes numbers    *)
(* (zone_service/dialling.py) and the echoes the service's own calls are   *)
(* owed (OwedEchoes in zone_service/state.py).                             *)
(*                                                                         *)
(* Persons press preset keys and forwarded keys at several boxes; the      *)
(* boxes report them in the order their kind does, beside frames the       *)
(* service caused itself.  The reader never waits; the worker wakes at the *)
(* earliest deadline and waits for the lock of the pass wherever the code  *)
(* takes it.  Time advances only when every frame of the moment is read    *)
(* and the worker has nothing to do, or waits for the lock.                *)
(***************************************************************************)
EXTENDS Presses, KeyGestures, TLC

CONSTANTS
  Boxes,
  Scripts,        \* what may happen in a behaviour: for each key somebody presses the
                  \* kinds it may be of, and what the service does meanwhile (bound)
  Holds,          \* for how long a key is down, a lost release being Lost
  EchoTail,       \* OWN_TOUCH_TAIL_S and OWN_SELECT_TAIL_S
  FirstWindow,    \* the dialling window the service starts with
  FirstHold,      \* and its hold threshold
  WindowRange,    \* WINDOW_FLOOR_S and WINDOW_CEILING_S, as <<floor, ceiling>>
  HoldRange,      \* HOLD_THRESHOLD_FLOOR_S and HOLD_THRESHOLD_CEILING_S
  Disturbed,      \* whether a preset may be pressed while a volume write is under way,
                  \* and a slave's right after an echo of ours
  Horizon         \* bound: the last moment a person or the service does something

Lost   == 99                       \* a release that is never reported
Echo   == 9                        \* the preset a frame of our own making names
NoneOfItsOwn == 0                  \* preset 0: a box woken on no preset of its own
Dialable(preset) == preset # NoneOfItsOwn

Awake  == {"outside", "slave", "driven"}     \* a preset pressed at an awake box
Asleep == {"asleep", "blank"}                \* and at a sleeping one
Noises == {"echo", "volume", "unheard", "select", "station", "switch", "pass"}

ASSUME KeyAssumption ==
  /\ \A s \in Scripts :
       /\ s.acts \in Seq(SUBSET (Awake \cup Asleep \cup StepKeys \cup ThumbKeys))
       /\ s.noises \subseteq Noises /\ s.noise \in Nat /\ Len(s.acts) < Echo
  /\ {EchoTail, FirstWindow, FirstHold, Horizon} \subseteq Nat
  /\ FirstWindow > 0 /\ FirstHold > 0

VARIABLES
  script,       \* what may happen in this behaviour
  now,
  coming,       \* frames on their way: what persons did and what our calls cause
  table,        \* _presses: what each box has said and nobody has decided
  down,         \* _longpresses
  digits, steps, thumbs,      \* _dialler
  runs,         \* _gesture
  cal,          \* _calibration
  owedTouch, owedSelection,   \* _owed: until when each call's echo is owed, per box
  asleep,       \* the boxes the policy holds for asleep
  outOf,        \* _out_of_multiroom
  station,      \* whether the master plays something
  on,           \* _on
  window, hold, \* the numbers the dialler and the hold rule run on
  wanted,       \* _dial_numbers_wanted
  stage, jobs, turnAt,   \* where the worker stands, what it has taken, and since when
  lock,         \* whether the pass holds the lock
  acts, noise, free,     \* counts for the bounds, and when a person may press again
  did,          \* what persons pressed: per box, in order
  read,         \* what the presses were read as: per box, in order
  acted,        \* what the house did about keys and numbers
  measuring     \* the step keys that started a calibration, and when

dialVars  == <<digits, steps, thumbs, runs, cal>>
houseVars == <<asleep, outOf, station, on>>
workVars  == <<stage, jobs, turnAt>>
numVars   == <<window, hold, wanted>>
owedVars  == <<owedTouch, owedSelection>>
handVars  == <<acts, free, did>>
pastVars  == <<read, acted, measuring>>
vars == <<script, now, coming, table, down, dialVars, owedVars, houseVars, numVars, workVars,
          lock, noise, handVars, pastVars>>

Init ==
  /\ script \in Scripts
  /\ now = 0 /\ coming = {} /\ table = [b \in Boxes |-> NothingSaid] /\ down = {}
  /\ digits = [b \in Boxes |-> Nothing] /\ steps = [b \in Boxes |-> Nothing]
  /\ thumbs = [b \in Boxes |-> Nothing] /\ runs = [b \in Boxes |-> <<>>]
  /\ cal = NoCalibration
  /\ owedTouch = [b \in Boxes |-> <<>>] /\ owedSelection = [b \in Boxes |-> <<>>]
  /\ asleep \in {A \in SUBSET Boxes :
       A = {} \/ \E i \in DOMAIN script.acts : script.acts[i] \cap Asleep # {}}
  /\ outOf = {} /\ station \in BOOLEAN /\ on = TRUE
  /\ window = FirstWindow /\ hold = FirstHold /\ wanted = <<>>
  /\ stage = "rest" /\ jobs = <<>> /\ turnAt = 0 /\ lock = FALSE
  /\ acts = 0 /\ noise = 0 /\ free = [b \in Boxes |-> 0]
  /\ did = [b \in Boxes |-> <<>>] /\ read = [b \in Boxes |-> <<>>]
  /\ acted = {} /\ measuring = {}

Entries(seq) == {seq[i] : i \in DOMAIN seq}

(*------------------------------ The persons ------------------------------*)
NextAct == IF acts < Len(script.acts) THEN script.acts[acts + 1] ELSE {}
Settled == \A f \in coming : f.at > now      \* every frame of this moment is read

Frame(b, kind, at, what) == [box |-> b, kind |-> kind, at |-> at, what |-> what]

(* The frames of a preset pressed in each place a box can stand in.        *)
PresetFrames(b, shape, h, preset) ==
  LET touches == {Frame(b, "touch", now, 0), Frame(b, "touch", now + h, 1)}
      named   == Frame(b, "select", now, preset)
  IN  CASE shape = "outside" -> touches \cup {named}
        [] shape = "slave"   -> touches \cup {Frame(b, "select", now + h + 1, preset)}
        [] shape = "driven"  -> {named, Frame(b, "touch", now, 0)}
        [] OTHER             -> touches \cup {named, Frame(b, "source", now + 1, 0)}

(* An echo of ours is among what the box has said, and this recent.        *)
EchoWithin(b, moments) == \E i \in DOMAIN table[b].selections :
  LET s == table[b].selections[i] IN s.preset = Echo /\ now < s.at + moments

(* A box another service drives stays driven: its keys report one touch.   *)
SamePlace(b, shape) == \A d \in Entries(did[b]) : d.shape = "driven" <=> shape = "driven"

WriteOut(b) == \E i \in DOMAIN owedTouch[b] : now <= owedTouch[b][i]

(* A preset is pressed.  A sleeping box wakes on it, on its own or on none. *)
PressPreset(b) ==
  \E shape \in NextAct \cap (Awake \cup Asleep), h \in Holds \ {Lost} :
    LET preset == IF shape = "blank" THEN NoneOfItsOwn ELSE acts + 1
    IN  /\ Settled /\ now <= Horizon /\ free[b] <= now /\ h <= HoldWhenUnseen
        /\ b \in asleep <=> shape \in Asleep
        /\ SamePlace(b, shape) /\ ~EchoWithin(b, 1)
        /\ Disturbed \/ (~WriteOut(b) /\ (shape = "slave" => ~EchoWithin(b, Window + 1)))
        /\ coming' = coming \cup PresetFrames(b, shape, h, preset)
        /\ acts' = acts + 1
        /\ free' = [free EXCEPT ![b] = now + h + 1]
        /\ did' = [did EXCEPT ![b] = Append(@,
              [preset |-> preset, shape |-> shape, down |-> now, up |-> now + h,
               wake |-> b \in asleep /\ station])]
  /\ UNCHANGED <<script, now, table, down, dialVars, owedVars, houseVars, numVars, workVars, lock,
                 noise, pastVars>>

(* A key the box forwards to its master is pressed, and let go.            *)
PressKey(b) ==
  \E k \in NextAct \cap (StepKeys \cup ThumbKeys), h \in Holds :
    /\ Settled /\ now <= Horizon /\ free[b] <= now /\ b \notin asleep
    /\ coming' = coming \cup {Frame(b, "press", now, k)}
                        \cup (IF h = Lost THEN {} ELSE {Frame(b, "release", now + h, k)})
    /\ acts' = acts + 1
    /\ free' = [free EXCEPT ![b] = IF h = Lost THEN now + 1 ELSE now + h + 1]
  /\ UNCHANGED <<script, now, table, down, dialVars, owedVars, houseVars, numVars, workVars, lock,
                 noise, did, pastVars>>

(*------------------------- The service's own doing -----------------------*)
Noise(kind) == kind \in script.noises /\ noise < script.noise /\ now <= Horizon /\ Settled

(* A person's touch at b this close, which an echo is never measured to be. *)
HandNear(b) == \E i \in DOMAIN did[b] :
  LET d == did[b][i] IN d.down - 1 <= now /\ now <= d.up + 1

(* A station change of the master comes back from a box as a selection.    *)
StationEcho(b) ==
  /\ Noise("echo") /\ b \notin asleep /\ station /\ ~HandNear(b)
  /\ coming' = coming \cup {Frame(b, "select", now, Echo)}
  /\ noise' = noise + 1
  /\ UNCHANGED <<script, now, table, down, dialVars, owedVars, houseVars, numVars, workVars, lock,
                 handVars, pastVars>>

(* A volume write owes one touch, which the box may never report.          *)
VolumeWrite(b) ==
  \E d \in (0 .. EchoTail) \cup {Lost} :
    /\ Noise(IF d = Lost THEN "unheard" ELSE "volume") /\ b \notin asleep
    /\ Disturbed \/ ~HandNear(b)
    /\ owedTouch' = [owedTouch EXCEPT ![b] = Append(@, now + EchoTail)]
    /\ coming' = coming \cup (IF d = Lost THEN {} ELSE {Frame(b, "touch", now + d, 2)})
    /\ noise' = noise + 1
    /\ UNCHANGED <<script, now, table, down, dialVars, owedSelection, houseVars, numVars, workVars,
                   lock, handVars, pastVars>>

(* A /select to a box outside the zone owes a selection and a touch.       *)
OwnSelect(b) ==
  \E d \in 0 .. EchoTail :
    /\ Noise("select") /\ b \in outOf /\ ~HandNear(b)
    /\ owedTouch' = [owedTouch EXCEPT ![b] = Append(@, now + EchoTail)]
    /\ owedSelection' = [owedSelection EXCEPT ![b] = Append(@, now + EchoTail)]
    /\ coming' = coming \cup {Frame(b, "select", now + d, Echo), Frame(b, "touch", now + d, 3)}
    /\ noise' = noise + 1
    /\ UNCHANGED <<script, now, table, down, dialVars, houseVars, numVars, workVars, lock, handVars,
                   pastVars>>

(* The master starts or stops playing; the switch goes over.               *)
StationTurns ==
  /\ Noise("station") /\ station' = ~station /\ noise' = noise + 1
  /\ UNCHANGED <<script, now, coming, table, down, dialVars, owedVars, asleep, outOf, on, numVars,
                 workVars, lock, handVars, pastVars>>

SwitchTurns ==
  /\ Noise("switch") /\ on' = ~on /\ noise' = noise + 1
  /\ UNCHANGED <<script, now, coming, table, down, dialVars, owedVars, asleep, outOf, station, numVars,
                 workVars, lock, handVars, pastVars>>

(* A pass takes the lock and, in its own time, gives it back.              *)
PassTakes ==
  /\ Noise("pass") /\ ~lock /\ lock' = TRUE /\ noise' = noise + 1
  /\ UNCHANGED <<script, now, coming, table, down, dialVars, owedVars, houseVars, numVars, workVars,
                 handVars, pastVars>>

PassGives ==
  /\ lock /\ lock' = FALSE
  /\ UNCHANGED <<script, now, coming, table, down, dialVars, owedVars, houseVars, numVars, workVars,
                 noise, handVars, pastVars>>

(*--------------------------- A press, decided ----------------------------*)
(* What deciding a press may change, as one record.                        *)
Book == [digits |-> digits, runs |-> runs, cal |-> cal, outOf |-> outOf, read |-> read]

Fate(book, b, press, fate) ==
  [book EXCEPT !.read[b] = Append(@,
     [preset |-> press.preset, up |-> press.released, fate |-> fate, window |-> window])]

(* _a_digit, and what _a_press does with a digit nobody can dial.          *)
ADigit(book, b, press) ==
  IF Running(book.cal)
  THEN Fate([book EXCEPT !.cal = Sampled(@, b, press.pressed, press.released)], b, press,
            IF book.cal.box = b THEN "sample" ELSE "dropped")
  ELSE LET broken == [book EXCEPT !.runs[b] = <<>>]
       IN  IF Dialable(press.preset)
           THEN Fate([broken EXCEPT !.digits[b] = AddDigit(@, press.preset, press.released)],
                     b, press, "digit")
           ELSE Fate(broken, b, press, IF press.asked.asleep THEN "wake" ELSE "ignored")

\* Mutant: what the house answers about the box is asked at the decision.
APressAskedNow(book, reported) ==
  IF on /\ reported.box \in asleep /\ station THEN Fate(book, reported.box, reported.press, "wake")
  ELSE IF on THEN ADigit(book, reported.box, reported.press)
  ELSE Fate(book, reported.box, reported.press, "off")

(* _a_press: nothing while the house is off; a wake lets the box back in,  *)
(* and is all it is where the box may not choose the channel.              *)
APress(book, reported) ==
  LET b     == reported.box
      press == reported.press
      back  == [book EXCEPT !.outOf = IF press.asked.asleep THEN @ \ {b} ELSE @]
  IN  IF ~on THEN Fate(book, b, press, "off")
      ELSE IF ~press.asked.may THEN Fate(back, b, press, "wake")
      ELSE ADigit(back, b, press)

(* _read_what_the_presses_now_say: every press a table now holds decided.  *)
Decided(book, said, at) == FoldLeft(APress, book, DuePresses(said, at))

(* What a step that decides presses leaves behind.                         *)
Noted(book) ==
  /\ digits' = book.digits /\ runs' = book.runs /\ cal' = book.cal
  /\ outOf' = book.outOf /\ read' = book.read

(*------------------------------- The reader ------------------------------*)
(* A frame is read: the next one of this moment.                           *)
Reads(f) == f \in coming /\ f.at = now /\ coming' = coming \ {f}

(* _claim_one: one frame for one call whose window has not passed.         *)
Claiming(owed) == SelectSeq(owed, LAMBDA until : now <= until)

(* A selection or a touch: claimed by a call of ours, or written down      *)
(* between two readings of what the presses now say.                       *)
WrittenDown(b, said) ==
  LET first  == Decided(Book, table, now)
      with   == [Emptied(table, now) EXCEPT ![b] = said]
      second == Decided(first, with, now)
  IN  /\ Noted(second)
      /\ table' = Emptied(with, now)

(* What is pending of a box once the readable ones are taken out.          *)
StillSaid(b) == Emptied(table, now)[b]

ReadSelection ==
  \E f \in coming : LET b == f.box owed == Claiming(owedSelection[b]) IN
    /\ f.kind = "select" /\ Reads(f)
    /\ owedSelection' = [owedSelection EXCEPT ![b] = IF owed = <<>> THEN <<>> ELSE Tail(owed)]
    /\ IF owed # <<>> THEN UNCHANGED <<table, digits, runs, cal, outOf, read>>
       ELSE WrittenDown(b, Selected(StillSaid(b),
              [at |-> now, preset |-> f.what,
               asked |-> [asleep |-> b \in asleep, may |-> b \notin asleep \/ ~station]]))
    /\ UNCHANGED <<script, now, down, steps, thumbs, owedTouch, asleep, station, on, numVars, workVars,
                   lock, noise, handVars, acted, measuring>>

ReadTouch ==
  \E f \in coming : LET b == f.box owed == Claiming(owedTouch[b]) IN
    /\ f.kind = "touch" /\ Reads(f)
    /\ ~\E g \in coming : g.box = b /\ g.at = now /\ g.kind = "select"
    /\ owedTouch' = [owedTouch EXCEPT ![b] = IF owed = <<>> THEN <<>> ELSE Tail(owed)]
    /\ IF owed # <<>> THEN UNCHANGED <<table, digits, runs, cal, outOf, read>>
       ELSE WrittenDown(b, Touched(StillSaid(b), now))
    /\ UNCHANGED <<script, now, down, steps, thumbs, owedSelection, asleep, station, on, numVars,
                   workVars, lock, noise, handVars, acted, measuring>>

(* A box names a source: it is awake (policy.observe).                     *)
ReadSource ==
  \E f \in coming :
    /\ f.kind = "source" /\ Reads(f) /\ asleep' = asleep \ {f.box}
    /\ UNCHANGED <<script, now, table, down, dialVars, owedVars, outOf, station, on, numVars, workVars,
                   lock, noise, handVars, pastVars>>

(* _a_key at a press: nothing while a calibration runs; else the key is    *)
(* down, and a step key is collected and may be the last of the gesture.   *)
ReadKeyPress ==
  \E f \in coming : LET b == f.box k == f.what run == GestureRun(runs[b], k, now) IN
    /\ f.kind = "press" /\ Reads(f)
    /\ IF Running(cal) THEN UNCHANGED <<down, steps, runs, cal, measuring>>
       ELSE IF k \notin StepKeys
       THEN /\ down' = Pressed(down, b, k, now)
            /\ runs' = [runs EXCEPT ![b] = <<>>]
            /\ UNCHANGED <<steps, cal, measuring>>
       ELSE IF ~IsGesture(run)
       THEN /\ down' = Pressed(down, b, k, now)
            /\ runs' = [runs EXCEPT ![b] = run]
            /\ steps' = [steps EXCEPT ![b] = AddStep(@, StepOf(k), [key |-> k, at |-> now], now)]
            /\ UNCHANGED <<cal, measuring>>
       ELSE /\ down' = ForgetKeys(down, b)
            /\ runs' = [runs EXCEPT ![b] = <<>>]
            /\ steps' = [steps EXCEPT ![b] = Nothing]
            /\ cal' = Begun(cal, b, now)
            /\ measuring' = measuring \cup {[box |-> b, key |-> run[i].key, at |-> run[i].at,
                                              since |-> now] : i \in DOMAIN run}
    /\ UNCHANGED <<script, now, table, digits, thumbs, owedVars, houseVars, numVars, workVars, lock,
                   noise, handVars, read, acted>>

(* _a_key at a release, which is read even while a calibration runs: a tap *)
(* of a thumb acts at once.                                                *)
ReadKeyRelease ==
  \E f \in coming : LET b == f.box k == f.what
                        tap == Tapped(down, b, k, hold, now) IN
    /\ f.kind = "release" /\ Reads(f)
    /\ down' = AfterReleased(down, b, k, hold, now)
    /\ IF tap = {} \/ Running(cal) \/ k \notin ThumbKeys THEN UNCHANGED <<thumbs, acted, outOf>>
       ELSE \E d \in tap :
         LET count == ThumbCount(thumbs[b], k, d.at, window)
             wantsIn == k = "UP"
         IN  /\ thumbs' = [thumbs EXCEPT ![b] = [key |-> k, count |-> count, armed |-> now]]
             /\ acted' = acted \cup {[kind |-> "tap", box |-> b,
                                      keys |-> {[key |-> k, at |-> d.at]}, taken |-> now]}
             /\ outOf' = IF count = 1 THEN outOf
                         ELSE IF wantsIn THEN outOf \ {b} ELSE outOf \cup {b}
    /\ UNCHANGED <<script, now, table, digits, steps, runs, cal, owedVars, asleep, station, on, numVars,
                   workVars, lock, noise, handVars, read, measuring>>

(*------------------------------- The worker ------------------------------*)
\* Mutant: a box is never taken to be in the middle of a press.
NobodyIsPressing == {}

StillPressing == {b \in Boxes : Pending(table[b])}

StillStepping == {b \in Boxes : \E k \in StepKeys : Undecided(down, b, k)}

(* _earliest_deadline, as the set it takes the least of.                   *)
Deadlines ==
  DialDeadlines(digits, window, StillPressing) \cup DialDeadlines(steps, window, StillStepping)
    \cup CalibrationDeadlines(cal) \cup HoldDeadlines(down, hold) \cup PressDeadlines(table)

Unannounced == Running(cal) /\ ~cal.announced
Due         == Deadlines # {} /\ Min(Deadlines) <= now

(* _tell_the_house_a_calibration_began: the channel starts again.          *)
Announce ==
  /\ stage = "rest" /\ Unannounced
  /\ cal' = [cal EXCEPT !.announced = TRUE]
  /\ stage' = "announcing"
  /\ UNCHANGED <<script, now, coming, table, down, digits, steps, thumbs, runs, owedVars, houseVars,
                 numVars, jobs, turnAt, lock, noise, handVars, pastVars>>

Announced ==
  /\ stage = "announcing" /\ ~lock /\ stage' = "rest"
  /\ UNCHANGED <<script, now, coming, table, down, dialVars, owedVars, houseVars, numVars, jobs, turnAt,
                 lock, noise, handVars, pastVars>>

(* _settle_the_dial_numbers: the new numbers, while nobody is mid-gesture. *)
Settle ==
  /\ stage = "rest" /\ ~Unannounced /\ Deadlines = {} /\ wanted # <<>>
  /\ window' = wanted[1] /\ hold' = wanted[2] /\ wanted' = <<>>
  /\ UNCHANGED <<script, now, coming, table, down, dialVars, owedVars, houseVars, workVars, lock, noise,
                 handVars, pastVars>>

(* The holds taken out at a moment, as jobs.                               *)
HoldJobs(at) == SetToSeq(Held(down, hold, at))

(* What a finished calibration asks the dialler for: both numbers, or only *)
(* the window, or nothing at all.                                          *)
Measured(presses) ==
  LET windows == Measure(Gaps(presses), WindowRange)
      holds   == Measure(Durations(presses), HoldRange)
      kept    == IF wanted = <<>> THEN hold ELSE wanted[2]
  IN  IF windows = {} THEN wanted
      ELSE <<Max(windows), IF holds = {} THEN kept ELSE Max(holds)>>

(* A turn begins: the presses are read, and a calibration whose quiet is   *)
(* up is finished; what it measured is stored and taken in (the store has  *)
(* answered by the time the lock is taken).  Otherwise the holds are taken. *)
Turn ==
  /\ stage = "rest" /\ ~Unannounced /\ Due
  /\ LET book == Decided(Book, table, now)
         over == \E d \in CalibrationDeadlines(book.cal) : d <= now
     IN  /\ table' = Emptied(table, now)
         /\ turnAt' = now
         /\ digits' = book.digits /\ runs' = book.runs /\ outOf' = book.outOf /\ read' = book.read
         /\ cal' = IF over THEN NoCalibration ELSE book.cal
         /\ wanted' = IF over THEN Measured(book.cal.presses) ELSE wanted
         /\ stage' = IF over THEN "finishing" ELSE "holds"
         /\ down' = IF over THEN down ELSE AfterHeld(down, hold, now)
         /\ jobs' = IF over THEN <<>> ELSE HoldJobs(now)
  /\ UNCHANGED <<script, now, coming, steps, thumbs, owedVars, asleep, station, on, window, hold, lock,
                 noise, handVars, acted, measuring>>

(* The channel starts again, whichever way the calibration went.           *)
Finish ==
  /\ stage = "finishing" /\ ~lock
  /\ stage' = "holds"
  /\ down' = AfterHeld(down, hold, turnAt) /\ jobs' = HoldJobs(turnAt)
  /\ UNCHANGED <<script, now, coming, table, dialVars, owedVars, houseVars, numVars, turnAt, lock,
                 noise, handVars, pastVars>>

Did(kind, b, what) == [kind |-> kind, box |-> b, keys |-> what, taken |-> turnAt]

(* _a_held_key: nothing while the house is off; a thumb edits the rotation; *)
(* a step key drops what the box collected and steps once.                 *)
HoldTaken ==
  /\ stage = "holds" /\ jobs # <<>>
  /\ LET d == Head(jobs)
         done == Did("hold", d.box, {[key |-> d.key, at |-> d.at]})
     IN  IF on /\ d.key \in StepKeys
         THEN /\ steps' = [steps EXCEPT ![d.box] = Nothing]
              /\ runs' = [runs EXCEPT ![d.box] = <<>>]
              /\ stage' = "held" /\ UNCHANGED <<jobs, acted>>
         ELSE /\ acted' = IF on THEN acted \cup {done} ELSE acted
              /\ jobs' = Tail(jobs) /\ UNCHANGED <<steps, runs, stage>>
  /\ UNCHANGED <<script, now, coming, table, down, digits, thumbs, cal, owedVars, houseVars, numVars,
                 turnAt, lock, noise, handVars, read, measuring>>

HoldSteps ==
  /\ stage = "held" /\ ~lock
  /\ LET d == Head(jobs) IN
       acted' = acted \cup {Did("hold", d.box, {[key |-> d.key, at |-> d.at]})}
  /\ jobs' = Tail(jobs) /\ stage' = "holds"
  /\ UNCHANGED <<script, now, coming, table, down, dialVars, owedVars, houseVars, numVars, turnAt, lock,
                 noise, handVars, read, measuring>>

(* The holds are done: the numbers whose window has closed are taken out.  *)
NumbersTaken ==
  /\ stage = "holds" /\ jobs = <<>>
  /\ LET closed == Closed(digits, window, turnAt, StillPressing)
     IN  /\ jobs' = SetToSeq({[box |-> b, said |-> digits[b].said] : b \in closed})
         /\ digits' = Removed(digits, closed)
  /\ stage' = "numbers"
  /\ UNCHANGED <<script, now, coming, table, down, steps, thumbs, runs, cal, owedVars, houseVars,
                 numVars, turnAt, lock, noise, handVars, pastVars>>

(* And the jumps; one of nothing is dropped.                               *)
JumpsTaken ==
  /\ stage = "numbers" /\ jobs = <<>>
  /\ LET closed == Closed(steps, window, turnAt, StillStepping)
     IN  /\ jobs' = SetToSeq({[box |-> b, from |-> steps[b].from] :
                                b \in {x \in closed : steps[x].count # 0}})
         /\ steps' = Removed(steps, closed)
  /\ stage' = "steps"
  /\ UNCHANGED <<script, now, coming, table, down, digits, thumbs, runs, cal, owedVars, houseVars,
                 numVars, turnAt, lock, noise, handVars, pastVars>>

(* One number, one jump: dropped while the house is off, else booked under *)
(* the lock.                                                               *)
Dials ==
  /\ stage \in {"numbers", "steps"} /\ jobs # <<>> /\ (on => ~lock)
  /\ LET job == Head(jobs)
         done == IF stage = "numbers" THEN Did("number", job.box, job.said)
                                      ELSE Did("jump", job.box, job.from)
     IN  acted' = IF on THEN acted \cup {done} ELSE acted
  /\ jobs' = Tail(jobs)
  /\ UNCHANGED <<script, now, coming, table, down, dialVars, owedVars, houseVars, numVars, stage, turnAt,
                 lock, noise, handVars, read, measuring>>

TurnEnds ==
  /\ stage = "steps" /\ jobs = <<>> /\ stage' = "rest"
  /\ UNCHANGED <<script, now, coming, table, down, dialVars, owedVars, houseVars, numVars, jobs, turnAt,
                 lock, noise, handVars, pastVars>>

(*------------------------------- Time ------------------------------------*)
(* The worker sleeps, or waits for the lock.                               *)
WorkerWaits ==
  \/ stage = "rest" /\ ~Unannounced /\ ~Due /\ (Deadlines # {} \/ wanted = <<>>)
  \/ lock /\ stage \in {"announcing", "finishing", "held"}
  \/ lock /\ on /\ stage \in {"numbers", "steps"} /\ jobs # <<>>

Quiescent == coming = {} /\ Deadlines = {} /\ stage = "rest" /\ ~lock /\ now > Horizon

Tick ==
  /\ Settled /\ WorkerWaits /\ ~Quiescent /\ (lock => now <= Horizon)
  /\ now' = now + 1
  /\ UNCHANGED <<script, coming, table, down, dialVars, owedVars, houseVars, numVars, workVars,
                 lock, noise, handVars, pastVars>>

(* Nobody presses any more and nothing is left to decide.                  *)
Rest == Quiescent /\ UNCHANGED vars

Person == \E b \in Boxes : PressPreset(b) \/ PressKey(b)
House  == \/ \E b \in Boxes : StationEcho(b) \/ VolumeWrite(b) \/ OwnSelect(b)
          \/ StationTurns \/ SwitchTurns \/ PassTakes \/ PassGives
Reader == ReadSelection \/ ReadTouch \/ ReadSource \/ ReadKeyPress \/ ReadKeyRelease
Worker == \/ Announce \/ Announced \/ Settle \/ Turn \/ Finish \/ HoldTaken \/ HoldSteps
          \/ NumbersTaken \/ JumpsTaken \/ Dials \/ TurnEnds

Next == Person \/ House \/ Reader \/ Worker \/ Tick \/ Rest

Spec == Init /\ [][Next]_vars

(*------------------------------ Properties -------------------------------*)
(* Every variable holds a value of its kind, and a number being dialled    *)
(* names presets a person pressed or a box was said to have pressed.       *)
TypeOK ==
  /\ now \in Nat /\ outOf \subseteq Boxes /\ asleep \subseteq Boxes
  /\ DOMAIN table = Boxes /\ DOMAIN digits = Boxes /\ DOMAIN steps = Boxes
  /\ window \in Nat /\ hold \in Nat /\ lock \in BOOLEAN /\ on \in BOOLEAN
  /\ \A d \in down : d.box \in Boxes /\ d.fired \in BOOLEAN

(* No echo of the service's own calls is read as a key somebody pressed,   *)
(* and no key is read twice (domain/presses.py; the house answered its own *)
(* station changes with station changes).                                  *)
NoEchoIsAPress ==
  \A b \in Boxes :
    /\ \A r \in Entries(read[b]) : \E d \in Entries(did[b]) : d.preset = r.preset
    /\ \A i, j \in DOMAIN read[b] :
         i < j => read[b][i].preset < read[b][j].preset

(* Once a box has nothing left that is undecided or on its way, every      *)
(* preset pressed at it was read.                                          *)
NoPressIsLost ==
  \A b \in Boxes :
    table[b] = NothingSaid /\ ~(\E f \in coming : f.box = b /\ f.kind # "source")
      => Len(read[b]) = Len(did[b])

(* A preset pressed at a sleeping box while the house plays never chooses  *)
(* the channel, however late it is decided: what counts is what was true   *)
(* when the box spoke (AskedAtTheFrame).                                   *)
WakesDoNotDial ==
  \A b \in Boxes : \A r \in Entries(read[b]), d \in Entries(did[b]) :
    d.preset = r.preset /\ d.wake => r.fate # "digit"

(* A number is never cut: where the next key went down within the window   *)
(* of the one before coming up, both digits are in one number, however     *)
(* late the press is decided and whatever the worker waits for.            *)
NumbersAreWhole ==
  \A n \in {a \in acted : a.kind = "number"} : \A i, j \in DOMAIN read[n.box] :
    LET last == read[n.box][i]
        next == read[n.box][j]
    IN  /\ j = i + 1 /\ {last.fate, next.fate} = {"digit"}
        /\ last.preset = n.keys[Len(n.keys)]
        => \A d \in Entries(did[n.box]) :
             d.preset = next.preset => d.down >= last.up + last.window

(* A key is a tap or a hold, and either once (domain/longpress.py): no key *)
(* acts twice, whenever its release comes and however late the worker is.  *)
OneActionPerKey ==
  \A x, y \in acted :
    x # y /\ x.box = y.box /\ "number" \notin {x.kind, y.kind} => x.keys \cap y.keys = {}

(* The step keys of a gesture are spent: once it has started a calibration *)
(* none of them is taken for a step or a hold.                             *)
GestureIsSpent ==
  \A a \in acted, m \in measuring :
    a.kind # "number" /\ a.box = m.box /\ a.taken > m.since
      => [key |-> m.key, at |-> m.at] \notin a.keys

(* The worker never spins: a deadline that has passed is one a turn takes. *)
NeverSpins ==
  stage = "rest" /\ ~Unannounced /\ Due =>
    \/ Readable(table, now) # {}
    \/ \E d \in CalibrationDeadlines(cal) : d <= now
    \/ Held(down, hold, now) # {}
    \/ Closed(digits, window, now, StillPressing) # {}
    \/ Closed(steps, window, now, StillStepping) # {}
=============================================================================
