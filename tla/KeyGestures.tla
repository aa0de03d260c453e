---------------------------- MODULE KeyGestures -----------------------------
(***************************************************************************)
(* What is kept about keys once they are known to be a person's: the keys  *)
(* that are down (domain/longpress.py), the digits, steps and thumbs being *)
(* collected (domain/dialling.py), and the gesture and the calibration it  *)
(* starts (domain/calibration.py).  Operators only; every one takes the    *)
(* moment it happens at, as the code does.                                 *)
(***************************************************************************)
EXTENDS Integers, Sequences, FiniteSetsExt

CONSTANTS
  LongCeiling,     \* longpress.HOLD_CEILING_S
  GestureWindow,   \* GESTURE_WINDOW_S
  Quiet,           \* QUIET_S
  Cap,             \* CAP_S
  GesturePresses,  \* GESTURE_PRESSES
  MinGaps,         \* MIN_GAPS
  MarginFloor,     \* MARGIN_FLOOR_S; the fraction is a quarter
  Rounding         \* ROUNDING_S

ASSUME GestureAssumption ==
  /\ {LongCeiling, GestureWindow, Quiet, Cap, MarginFloor} \subseteq Nat
  /\ {GesturePresses, MinGaps, Rounding} \subseteq Nat \ {0}

StepKeys  == {"NEXT", "PREV"}      \* GESTURE_KEYS, and the keys of STEP_OF
ThumbKeys == {"UP", "DOWN"}        \* the keys of ROTATION_OF
StepOf(key) == IF key = "NEXT" THEN 1 ELSE -1

Nothing == [armed |-> -1]          \* no entry in a table

(*---------------------- Keys that are down: LongPresses ------------------*)
KeyDown(down, b, k) == {d \in down : d.box = b /\ d.key = k}

Pressed(down, b, k, at) ==
  (down \ KeyDown(down, b, k)) \cup {[box |-> b, key |-> k, at |-> at, fired |-> FALSE]}

Undecided(down, b, k) == \E d \in KeyDown(down, b, k) : ~d.fired

HoldDeadlines(down, threshold) == {d.at + threshold : d \in {x \in down : ~x.fired}}

(* due: the holds to report at a moment, and the table it leaves.          *)
Held(down, threshold, at) ==
  {d \in down : at - d.at <= LongCeiling /\ ~d.fired /\ at >= d.at + threshold}


AfterHeld(down, threshold, at) ==
  {IF d \in Held(down, threshold, at) THEN [d EXCEPT !.fired = TRUE] ELSE d :
     d \in {x \in down : at - x.at <= LongCeiling}}

(* released: the press a release ends as a tap, if it does, and the table  *)
(* it leaves.  A press past the threshold that nobody has reported yet     *)
(* stays: the hold is still to come.                                       *)
Overdue(down, b, k, threshold, at) ==
  \E d \in KeyDown(down, b, k) : ~d.fired /\ at >= d.at + threshold

Tapped(down, b, k, threshold, at) ==
  IF Overdue(down, b, k, threshold, at) THEN {}
  ELSE {d \in KeyDown(down, b, k) : ~d.fired /\ 0 <= at - d.at /\ at - d.at <= LongCeiling}

AfterReleased(down, b, k, threshold, at) ==
  IF Overdue(down, b, k, threshold, at) THEN down ELSE down \ KeyDown(down, b, k)

ForgetKeys(down, b) == {d \in down : d.box # b}

(*------------------------- Being collected: Dialler ----------------------*)
(* A digit, and a step, re-arm the window of their box.                    *)
AddDigit(entry, digit, at) ==
  [said |-> (IF entry = Nothing THEN <<>> ELSE entry.said) \o <<digit>>, armed |-> at]

AddStep(entry, delta, from, at) ==
  [count |-> (IF entry = Nothing THEN 0 ELSE entry.count) + delta,
   from  |-> (IF entry = Nothing THEN {} ELSE entry.from) \cup {from}, armed |-> at]

(* thumb: 2 for the second tap of the same thumb within the window, else 1. *)
ThumbCount(last, key, pressed, window) ==
  IF /\ last # Nothing /\ last.key = key /\ last.count = 1
     /\ pressed - last.armed <= window
  THEN 2 ELSE 1

(* due and steps_due: the boxes whose window has closed and that are not   *)
(* in the middle of another press.                                         *)
Closed(table, window, at, busy) ==
  {b \in (DOMAIN table) \ busy : table[b] # Nothing /\ table[b].armed + window <= at}

Removed(table, boxes) == [b \in DOMAIN table |-> IF b \in boxes THEN Nothing ELSE table[b]]

DialDeadlines(table, window, busy) ==
  {table[b].armed + window : b \in {x \in (DOMAIN table) \ busy : table[x] # Nothing}}

(*---------------------------- The gesture --------------------------------*)
(* saw: the run after one more step key; four in it are the gesture.       *)
GestureRun(run, key, at) ==
  LET recent == SelectSeq(run, LAMBDA p : at - p.at <= GestureWindow)
      kept   == IF recent # <<>> /\ recent[Len(recent)].key = key THEN <<>> ELSE recent
  IN  Append(kept, [key |-> key, at |-> at])

IsGesture(run) == Len(run) >= GesturePresses

(*--------------------------- The calibration -----------------------------*)
NoCalibration == [box |-> "none"]
Running(cal)  == cal # NoCalibration

(* begin: a second one, while one runs, changes nothing.                   *)
Begun(cal, b, at) ==
  IF Running(cal) THEN cal
  ELSE [box |-> b, started |-> at, announced |-> FALSE, presses |-> <<>>]

Sampled(cal, b, pressed, released) ==
  IF cal.box = b THEN [cal EXCEPT !.presses = Append(@, <<pressed, released>>)] ELSE cal

CalibrationDeadlines(cal) ==
  IF ~Running(cal) THEN {}
  ELSE IF cal.presses = <<>> THEN {cal.started + Cap}
  ELSE {Min({cal.presses[Len(cal.presses)][2] + Quiet, cal.started + Cap})}

(* finish: the pauses between one key coming up and the next going down,   *)
(* and how long each key was down.                                         *)
Gaps(presses) ==
  [i \in 1 .. Len(presses) - 1 |-> presses[i + 1][1] - presses[i][2]]
Durations(presses) == [i \in DOMAIN presses |-> presses[i][2] - presses[i][1]]

(* window_from_gaps and hold_from_durations: the longest sample that counts *)
(* and a margin of a quarter of it, rounded up and bounded; reckoned in    *)
(* quarters, so that nothing is rounded on the way.                        *)
Usable(samples, ceiling) == SelectSeq(samples, LAMBDA s : 0 < s /\ s <= ceiling)

Bounded(quarters, range) ==
  LET stepped == ((quarters + 4 * Rounding - 1) \div (4 * Rounding)) * Rounding
  IN  Min({Max({stepped, range[1]}), range[2]})

Measure(samples, range) ==
  LET usable  == Usable(samples, range[2])
      longest == Max({usable[i] : i \in DOMAIN usable})
  IN  IF Len(usable) < MinGaps THEN {}
      ELSE {Bounded(4 * longest + Max({4 * MarginFloor, longest}), range)}
=============================================================================
