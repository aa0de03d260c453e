---------------------------- MODULE VolumeGuard ----------------------------
(***************************************************************************)
(* The volume the service takes from a box while it takes the box into the *)
(* zone, and how the box gets it back (application/zone_service/volume.py, *)
(* and the parts of zone.py that call it).                                 *)
(*                                                                         *)
(* One box.  The pass reads its level, writes the level down as a note,    *)
(* saves the note, mutes the box, joins it and starts a fade; the fade     *)
(* climbs and takes the note back out; the reader moves notes, owes steps  *)
(* or queues them for a writer when somebody turns the house up or down at *)
(* another box; and the service may stop, fail or die between any two of   *)
(* these steps.  A call to the box is sent in one step and answered in a   *)
(* later one.  Nobody turns this box by hand.                              *)
(***************************************************************************)
EXTENDS Integers, Sequences

CONSTANTS
  Top,         \* the top of the volume scale
  FadeSteps,   \* FADE_STEPS; 1 is a preference of no fade at all
  OwedBefore,  \* the steps an earlier run may have left the box owed
  Moves,       \* the house steps somebody may make, up {1}, down {-1} or none
  MaxSteps,    \* bound: house steps in a behaviour, those left owed included
  MaxJoins,    \* bound: attempts to take the box in, across the runs
  MaxFails,    \* bound: calls to the box that fail
  MaxLives,    \* bound: runs of the service
  Faults       \* which of the faults below may happen

FaultKinds ==
  {"crash",     \* the process dies
   "stop",      \* the service is stopped
   "unsaved",   \* the database refuses a save
   "lost",      \* a call to the box is obeyed and its answer is lost
   "return"}    \* the box leaves and is taken back while its fade runs

ASSUME VolumeAssumption ==
  /\ Top \in Nat /\ FadeSteps \in Nat \ {0}
  /\ Moves \in {{}, {1}, {-1}} /\ OwedBefore \subseteq -MaxSteps .. MaxSteps /\ Faults \subseteq FaultKinds
  /\ {MaxSteps, MaxJoins, MaxFails, MaxLives} \subseteq Nat

VARIABLES
  vol,         \* the box's volume (external)
  reported,    \* _house_volume: the level the box last reported
  on,          \* _on, the switch
  belongs,     \* whether the policy says the box is one of ours (external)
  joined,      \* whether the box is in _joined
  note,        \* _muted: the level the box is put back to
  owed,        \* _owed_volume: the steps the box takes when it next joins
  queue,       \* the saves of the state on their way to the store, in order
  durable,     \* the state the store's database holds
  pass,        \* where the pass stands with this box
  passLevel,   \* the level it holds
  passOwed,    \* the steps it took and may have to owe again
  passSaved,   \* the answer to the save it waits for
  fadeAt,      \* per fade: where it stands
  fadeFrom,    \* per fade: the level it was started with
  fadeStep,    \* per fade: the step of the climb
  fadeWrite,   \* per fade: the level it has sent
  fading,      \* _fading: the fade the service holds for the box, 0 if none
  pending,     \* _house_steps: the steps not written yet
  writer,      \* the house writer: none, turning, reading, writing
  taken,       \* the steps it took from the queued ones
  written,     \* the level it wrote last, or sends now
  service,     \* up, stopping, closing, closed, stopped, crashed
  lives, joins, fails,   \* counts for the bounds
  steps,       \* the house steps made, those up less those down: bounded too
  due,         \* the level the room is due, every step somebody made included
  silent       \* whether a mute of ours stands on the box

boxVars   == <<vol, reported, belongs>>
stateVars == <<note, owed, queue, durable>>
passVars  == <<pass, passLevel, passOwed, passSaved>>
fadeVars  == <<fadeAt, fadeFrom, fadeStep, fadeWrite, fading>>
stepVars  == <<pending, writer, taken, written>>
vars == <<boxVars, on, joined, stateVars, passVars, fadeVars, stepVars, service,
          lives, joins, fails, steps, due, silent>>

None   == -1
Levels == 0 .. Top
Fades  == 1 .. MaxJoins
Pass   == 0                \* who a save is awaited by: the pass, a fade, or nobody
Nobody == -1

State(n, o) == [note |-> n, owed |-> o]
StateOK(s) == s.note \in Levels \cup {None} /\ s.owed \in -MaxSteps .. MaxSteps

TypeOK ==
  /\ vol \in Levels /\ due \in Levels
  /\ {reported, note, written} \subseteq Levels \cup {None}
  /\ {on, belongs, joined, silent} \subseteq BOOLEAN
  /\ StateOK(durable) /\ StateOK(State(note, owed))
  /\ \A i \in DOMAIN queue : StateOK(queue[i].state) /\ queue[i].by \in {Nobody, Pass} \cup Fades
  /\ pass \in {"idle", "looking", "rescuing", "rescued", "deciding", "standing", "reading", "noting",
               "muting", "owing", "silencing", "silenced", "joining", "returning", "returned"}
  /\ passLevel \in Levels \cup {None} /\ passOwed \in -MaxSteps .. MaxSteps
  /\ passSaved \in {"none", "waiting", "ok", "failed"}
  /\ fadeAt \in [Fades -> {"none", "resting", "climbing", "landing", "saving", "undoing", "done"}]
  /\ fadeFrom \in [Fades -> Levels] /\ fadeWrite \in [Fades -> Levels]
  /\ fadeStep \in [Fades -> 0 .. FadeSteps]
  /\ fading \in {0} \cup Fades
  /\ {pending, taken} \subseteq -MaxSteps .. MaxSteps
  /\ writer \in {"none", "turning", "reading", "writing"}
  /\ service \in {"up", "stopping", "closing", "closed", "stopped", "crashed"}
  /\ lives \in 1 .. MaxLives /\ joins \in 0 .. MaxJoins
  /\ fails \in 0 .. MaxFails /\ steps \in -MaxSteps .. MaxSteps

\* A level moved by a step, stopped at zero and at the top of the scale.
Stepped(level, step) ==
  LET moved == level + step
  IN  IF moved < 0 THEN 0 ELSE IF moved > Top THEN Top ELSE moved

\* The service has read from the database what an earlier run left.
Init ==
  /\ vol \in Levels /\ owed \in OwedBefore /\ due = Stepped(vol, owed)
  /\ reported = None /\ on \in BOOLEAN /\ belongs \in BOOLEAN /\ joined = FALSE
  /\ note = None /\ queue = <<>> /\ durable = State(None, owed)
  /\ pass = "idle" /\ passLevel = None /\ passOwed = 0 /\ passSaved = "none"
  /\ fadeAt = [f \in Fades |-> "none"]
  /\ fadeFrom = [f \in Fades |-> 0] /\ fadeStep = [f \in Fades |-> 0]
  /\ fadeWrite = [f \in Fades |-> 0] /\ fading = 0
  /\ pending = 0 /\ writer = "none" /\ taken = 0 /\ written = None
  /\ service = "up" /\ lives = 1 /\ joins = 0 /\ fails = 0
  /\ steps = owed
  /\ silent = FALSE
-----------------------------------------------------------------------------
(* Levels, calls to the box, saves *)

\* round(), which takes a half to the even neighbour.
Rounded(n, d) ==
  LET whole == n \div d
      rest  == 2 * (n % d)
  IN  IF rest < d \/ (rest = d /\ whole % 2 = 0) THEN whole ELSE whole + 1

\* The box answers a write, and is on that level.
Obeyed(level) == vol' = level /\ UNCHANGED fails

\* The write fails; the box did not hear it, or its answer was lost.
Refused(level) ==
  /\ fails < MaxFails /\ fails' = fails + 1
  /\ vol' = vol \/ ("lost" \in Faults /\ vol' = level)

\* What a write that is no mute leaves of one, and what a mute does.
StillSilent == silent' = (silent /\ vol' = 0)
Silenced    == silent' = (vol' = 0 /\ (silent \/ vol > 0))

\* The note, or what the caller has for a box without one.
Noted(level) == IF note = None THEN level ELSE note

\* The state as it is at the call joins the saves on their way.
Save(n, o, by) == queue' = Append(queue, [state |-> State(n, o), by |-> by])

PassSaves(n, o) == Save(n, o, Pass) /\ passSaved' = "waiting"

\* The store writes the saves in their order, or refuses one.
StoreWrites ==
  /\ queue # <<>> /\ service \in {"up", "stopping", "closing"}
  /\ queue' = Tail(queue)
  /\ \E answer \in {"ok"} \cup (IF "unsaved" \in Faults THEN {"failed"} ELSE {}) :
       /\ durable' = IF answer = "ok" THEN Head(queue).state ELSE durable
       /\ passSaved' = IF Head(queue).by = Pass /\ passSaved = "waiting" THEN answer ELSE passSaved
  /\ UNCHANGED <<boxVars, on, joined, note, owed, pass, passLevel, passOwed, fadeVars, stepVars,
                 service, lives, joins, fails, steps, due, silent>>
-----------------------------------------------------------------------------
(* What happens around the service *)

Alive(f) == fadeAt[f] \in {"resting", "climbing", "landing", "saving", "undoing"}
Fading   == \E f \in Fades : Alive(f)

\* The box goes to a source of its own, or comes back from one.
BelongsChanges ==
  /\ service = "up"
  /\ ~belongs /\ Fading => "return" \in Faults
  /\ belongs' = ~belongs
  /\ UNCHANGED <<vol, reported, on, joined, stateVars, passVars, fadeVars, stepVars,
                 service, lives, joins, fails, steps, due, silent>>

SwitchChanges ==
  /\ service = "up"
  /\ on' = ~on
  /\ UNCHANGED <<boxVars, joined, stateVars, passVars, fadeVars, stepVars,
                 service, lives, joins, fails, steps, due, silent>>

MayStep == steps \in 1 - MaxSteps .. MaxSteps - 1

\* The box's report of the level it is on is read, whenever it arrives (bound:
\* and only while a writer may still start from it).
Reported ==
  /\ service = "up" /\ reported # vol
  /\ MayStep \/ writer # "none"
  /\ reported' = vol
  /\ UNCHANGED <<vol, on, belongs, joined, stateVars, passVars, fadeVars, stepVars,
                 service, lives, joins, fails, steps, due, silent>>

\* Somebody turns the house up or down at another box, which is in the zone:
\* this one's note moves, its writer gets the step, or it is owed it.
HouseStep(move) ==
  /\ service = "up" /\ (on \/ joined)
  /\ MayStep /\ steps' = steps + move
  /\ due + move \in Levels /\ due' = due + move    \* bound: no step runs off the scale
  /\ IF note # None
       THEN /\ note' = Stepped(note, move)
            /\ Save(note', owed, Nobody)
            /\ UNCHANGED <<owed, stepVars>>
     ELSE IF joined
       THEN /\ pending' = pending + move
            /\ IF writer = "none" THEN writer' = "turning" /\ written' = None ELSE UNCHANGED <<writer, written>>
            /\ UNCHANGED <<note, owed, queue, taken>>
     ELSE /\ owed' = owed + move
          /\ Save(note, owed', Nobody)
          /\ UNCHANGED <<note, stepVars>>
  /\ UNCHANGED <<boxVars, on, joined, durable, passVars, fadeVars, service, lives, joins, fails, silent>>
-----------------------------------------------------------------------------
(* The house writer *)

\* The next queued steps, from what was written last, the last report, or a read.
WriterTurns ==
  /\ writer = "turning"
  /\ taken' = pending /\ pending' = 0
  /\ LET base == IF written # None THEN written ELSE reported
     IN  CASE pending = 0 -> writer' = "none" /\ written' = None
           [] pending # 0 /\ base = None -> writer' = "reading" /\ UNCHANGED written
           [] OTHER -> writer' = "writing" /\ written' = Stepped(base, pending)
  /\ UNCHANGED <<boxVars, on, joined, stateVars, passVars, fadeVars, service, lives, joins, fails, steps, due, silent>>

WriterCancelled == writer' = "none" /\ pending' = 0 /\ taken' = 0 /\ written' = None

WriterRead ==
  /\ writer = "reading"
  /\ writer' = "writing" /\ written' = Stepped(vol, taken)
  /\ UNCHANGED <<boxVars, on, joined, stateVars, passVars, fadeVars, pending, taken, service,
                 lives, joins, fails, steps, due, silent>>

WriterWrote ==
  /\ writer = "writing"
  /\ writer' = "turning"
  /\ Obeyed(written) /\ StillSilent
  /\ UNCHANGED <<reported, belongs, on, joined, stateVars, passVars, fadeVars, pending, taken, written,
                 service, lives, joins, steps, due>>

\* A call fails: what was queued for the box is dropped.
WriterGivesUp ==
  /\ writer \in {"reading", "writing"}
  /\ IF writer = "reading" THEN Refused(vol) ELSE Refused(written)
  /\ StillSilent
  /\ WriterCancelled
  /\ UNCHANGED <<reported, belongs, on, joined, stateVars, passVars, fadeVars,
                 service, lives, joins, steps, due>>
-----------------------------------------------------------------------------
(* One fade *)

FadeEnds(f) ==
  /\ fadeAt' = [fadeAt EXCEPT ![f] = "done"]
  /\ fading' = 0
  /\ fadeFrom' = [fadeFrom EXCEPT ![f] = 0]
  /\ fadeStep' = [fadeStep EXCEPT ![f] = 0]
  /\ fadeWrite' = [fadeWrite EXCEPT ![f] = 0]

\* Mutant: the climb's last step counts as the level itself.
FadeStopsShort(f) ==
  /\ fadeAt[f] = "resting"
  /\ fadeStep' = [fadeStep EXCEPT ![f] = @ + 1]
  /\ LET at == IF fadeStep'[f] + 1 < FadeSteps THEN "climbing" ELSE "landing"
     IN  /\ fadeAt' = [fadeAt EXCEPT ![f] = at]
         /\ fadeWrite' = [fadeWrite EXCEPT ![f] = Rounded(Noted(fadeFrom[f]) * fadeStep'[f], FadeSteps)]
  /\ UNCHANGED <<boxVars, on, joined, stateVars, passVars, fadeFrom, fading, stepVars,
                 service, lives, joins, fails, steps, due, silent>>

\* The climb's next step, at a part of the noted level; after the last, the
\* level itself.
FadeGoesOn(f) ==
  /\ fadeAt[f] = "resting"
  /\ fadeStep' = [fadeStep EXCEPT ![f] = @ + 1]
  /\ IF fadeStep'[f] < FadeSteps
       THEN /\ fadeAt' = [fadeAt EXCEPT ![f] = "climbing"]
            /\ fadeWrite' = [fadeWrite EXCEPT ![f] = Rounded(Noted(fadeFrom[f]) * fadeStep'[f], FadeSteps)]
       ELSE /\ fadeAt' = [fadeAt EXCEPT ![f] = "landing"]
            /\ fadeWrite' = [fadeWrite EXCEPT ![f] = Noted(fadeFrom[f])]
  /\ UNCHANGED <<boxVars, on, joined, stateVars, passVars, fadeFrom, fading, stepVars,
                 service, lives, joins, fails, steps, due, silent>>

FadeClimbed(f) ==
  /\ fadeAt[f] = "climbing"
  /\ fadeAt' = [fadeAt EXCEPT ![f] = "resting"]
  /\ Obeyed(fadeWrite[f]) /\ StillSilent
  /\ UNCHANGED <<reported, belongs, on, joined, stateVars, passVars, fadeFrom, fadeStep, fadeWrite, fading,
                 stepVars, service, lives, joins, steps, due>>

\* A box that does not answer ends the climb: the level is written at once.
FadeBreaksOff(f) ==
  /\ fadeAt[f] = "climbing"
  /\ Refused(fadeWrite[f]) /\ StillSilent
  /\ fadeAt' = [fadeAt EXCEPT ![f] = "landing"]
  /\ fadeWrite' = [fadeWrite EXCEPT ![f] = Noted(fadeFrom[f])]
  /\ UNCHANGED <<reported, belongs, on, joined, stateVars, passVars, fadeFrom, fadeStep, fading,
                 stepVars, service, lives, joins, steps, due>>

\* The box is back on its level: the note comes out, and that is saved.
FadeLanded(f) ==
  /\ fadeAt[f] = "landing"
  /\ Obeyed(fadeWrite[f]) /\ silent' = FALSE
  /\ note' = None
  /\ Save(None, owed, f)
  /\ fadeAt' = [fadeAt EXCEPT ![f] = "saving"]
  /\ UNCHANGED <<reported, belongs, on, joined, owed, durable, passVars, fadeFrom, fadeStep, fadeWrite, fading,
                 stepVars, service, lives, joins, steps, due>>

\* It is not: the note stays, and a later pass puts the box back.
FadeFailed(f) ==
  /\ fadeAt[f] = "landing"
  /\ Refused(fadeWrite[f]) /\ StillSilent
  /\ FadeEnds(f)
  /\ UNCHANGED <<reported, belongs, on, joined, stateVars, passVars,
                 stepVars, service, lives, joins, steps, due>>

\* Saved or refused, the fade is over.
FadeSaved(f) ==
  /\ fadeAt[f] = "saving"
  /\ \A i \in DOMAIN queue : queue[i].by # f
  /\ FadeEnds(f)
  /\ UNCHANGED <<boxVars, on, joined, stateVars, passVars, stepVars,
                 service, lives, joins, fails, steps, due, silent>>

\* A cancelled fade still puts its box back in one write, and waits for no
\* save; a store that is closed by then takes none.
FadeUndone(f) ==
  /\ fadeAt[f] = "undoing"
  /\ Obeyed(fadeWrite[f]) /\ silent' = FALSE
  /\ note' = None
  /\ IF service = "closed" THEN UNCHANGED queue ELSE Save(None, owed, Nobody)
  /\ FadeEnds(f)
  /\ UNCHANGED <<reported, belongs, on, joined, owed, durable, passVars,
                 stepVars, service, lives, joins, steps, due>>

FadeUndoneFailed(f) ==
  /\ fadeAt[f] = "undoing"
  /\ Refused(fadeWrite[f]) /\ StillSilent
  /\ FadeEnds(f)
  /\ UNCHANGED <<reported, belongs, on, joined, stateVars, passVars,
                 stepVars, service, lives, joins, steps, due>>

\* The levels that are on their way to the box.
SentByPass ==
  CASE pass \in {"rescuing", "returning"} -> {passLevel}
    [] pass \in {"muting", "silencing"} -> {0}
    [] OTHER -> {}
SentByFades  == {fadeWrite[f] : f \in {g \in Fades : fadeAt[g] \in {"climbing", "landing", "undoing"}}}
SentByWriter == IF writer = "writing" THEN {written} ELSE {}

\* Who sends a level is cut off: the box may have obeyed it or not.
CutOff(levels) == vol' \in {vol} \cup levels

\* A cancelled fade turns to the one write that undoes the mute; one that is
\* at it already is cut off.
Cancelled(which) ==
  LET hit == {f \in which \ {0} : Alive(f)}
  IN  /\ fadeAt' = [f \in Fades |-> IF f \notin hit THEN fadeAt[f]
                                    ELSE IF fadeAt[f] = "undoing" THEN "done" ELSE "undoing"]
      /\ fadeWrite' = [f \in Fades |-> IF f \in hit THEN Noted(fadeFrom[f]) ELSE fadeWrite[f]]
      /\ fading' = IF \E f \in hit : fadeAt[f] = "undoing" THEN 0 ELSE fading
      /\ UNCHANGED <<fadeFrom, fadeStep>>

-----------------------------------------------------------------------------
(* The pass: first the rescue of a box whose mute outlived its join *)

PassAt(at) == pass' = at /\ UNCHANGED <<passLevel, passOwed, passSaved>>
Idle == pass' = "idle" /\ passLevel' = None /\ passOwed' = 0 /\ passSaved' = "none"

\* Mutant: the rescue stands under the switch, and a pass with it off gives up.
PassStartsAtTheSwitch ==
  /\ service = "up" /\ pass = "idle"
  /\ pass' = IF note = None \/ ~on THEN "deciding" ELSE "looking"
  /\ passLevel' = note
  /\ UNCHANGED <<passOwed, passSaved>>
  /\ UNCHANGED <<boxVars, on, joined, stateVars, fadeVars, stepVars, service, lives, joins, fails, steps, due, silent>>

\* The notes are listed once, and the box's turn comes when the boxes before
\* it have been written.
PassStarts ==
  /\ service = "up" /\ pass = "idle"
  /\ pass' = IF note = None THEN "deciding" ELSE "looking"
  /\ passLevel' = note
  /\ UNCHANGED <<passOwed, passSaved>>
  /\ UNCHANGED <<boxVars, on, joined, stateVars, fadeVars, stepVars, service, lives, joins, fails, steps, due, silent>>

\* A box whose fade is live is let alone.
RescueTurn ==
  /\ pass = "looking"
  /\ PassAt(IF fading # 0 /\ Alive(fading) THEN "deciding" ELSE "rescuing")
  /\ UNCHANGED <<boxVars, on, joined, stateVars, fadeVars, stepVars, service, lives, joins, fails, steps, due, silent>>

Rescued ==
  /\ pass = "rescuing"
  /\ Obeyed(passLevel) /\ silent' = FALSE
  /\ note' = None
  /\ PassSaves(None, owed) /\ pass' = "rescued" /\ UNCHANGED <<passLevel, passOwed>>
  /\ UNCHANGED <<reported, belongs, on, joined, owed, durable, fadeVars, stepVars, service, lives, joins, steps, due>>

RescueFailed ==
  /\ pass = "rescuing"
  /\ Refused(passLevel) /\ StillSilent
  /\ PassAt("deciding")
  /\ UNCHANGED <<reported, belongs, on, joined, stateVars, fadeVars, stepVars, service, lives, joins, steps, due>>

\* A save the pass waits for comes back well.
PassGoesOn ==
  /\ passSaved = "ok"
  /\ passSaved' = "none"
  /\ pass' = CASE pass = "rescued" -> "deciding"
               [] pass = "noting" -> "muting"
               [] pass \in {"owing", "silenced"} -> "joining"
               [] pass = "returned" -> "idle"
  /\ UNCHANGED <<passLevel, passOwed>>
  /\ UNCHANGED <<boxVars, on, joined, stateVars, fadeVars, stepVars, service, lives, joins, fails, steps, due, silent>>
-----------------------------------------------------------------------------
(* ... then the switch, and the boxes that left *)

\* The switch is off: the fade is cancelled and waited for ...
StandsDown ==
  /\ pass = "deciding" /\ ~on
  /\ PassAt("standing")
  /\ Cancelled({fading})
  /\ CutOff(IF fading # 0 /\ Alive(fading) THEN SentByFades ELSE {}) /\ StillSilent
  /\ UNCHANGED <<reported, belongs, on, joined, stateVars, stepVars, service, lives, joins, fails, steps, due>>

\* ... then the house writes are ended and the zone is let go.
StoodDown ==
  /\ pass = "standing" /\ \A f \in Fades : fadeAt[f] # "undoing"
  /\ Idle
  /\ WriterCancelled /\ CutOff(SentByWriter) /\ StillSilent
  /\ joined' = FALSE
  /\ UNCHANGED <<reported, belongs, on, stateVars, fadeVars, service, lives, joins, fails, steps, due>>

LetsGo ==
  /\ pass = "deciding" /\ on /\ joined /\ ~belongs
  /\ joined' = FALSE
  /\ Idle
  /\ UNCHANGED <<boxVars, on, stateVars, fadeVars, stepVars, service, lives, joins, fails, steps, due, silent>>

\* Nothing to do, or not now: a number is being dialled, or the box refused.
LetsBe ==
  /\ pass = "deciding" /\ on /\ (joined => belongs)
  /\ Idle
  /\ UNCHANGED <<boxVars, on, joined, stateVars, fadeVars, stepVars, service, lives, joins, fails, steps, due, silent>>
-----------------------------------------------------------------------------
(* ... then the box that belongs and is not in yet *)

TakesIn ==
  /\ pass = "deciding" /\ on /\ belongs /\ ~joined
  /\ joins < MaxJoins /\ joins' = joins + 1
  /\ PassAt("reading")
  /\ UNCHANGED <<boxVars, on, joined, stateVars, fadeVars, stepVars, service, lives, fails, steps, due, silent>>

ReadFailed ==
  /\ pass = "reading"
  /\ Refused(vol)
  /\ pass' = "joining" /\ passLevel' = None /\ UNCHANGED <<passOwed, passSaved>>
  /\ UNCHANGED <<reported, belongs, on, joined, stateVars, fadeVars, stepVars, service, lives, joins, steps, due, silent>>

\* Mutant: the steps it missed stay owed.
NotingStillOwed ==
  LET target == Stepped(vol, owed)
  IN  /\ pass = "reading" /\ target > 0
      /\ passLevel' = target /\ passOwed' = owed
      /\ note' = target /\ UNCHANGED owed
      /\ PassSaves(target, owed) /\ pass' = "noting"
      /\ UNCHANGED <<boxVars, on, joined, durable, fadeVars, stepVars, service, lives, joins, fails, steps, due, silent>>

\* The level is read: with the steps the box missed, it is the note.
Noting ==
  LET target == Stepped(vol, owed)
  IN  /\ pass = "reading" /\ target > 0
      /\ passLevel' = target /\ passOwed' = owed
      /\ note' = target /\ owed' = 0
      /\ PassSaves(target, 0) /\ pass' = "noting"
      /\ UNCHANGED <<boxVars, on, joined, durable, fadeVars, stepVars, service, lives, joins, fails, steps, due, silent>>

\* Nothing is left to put back: the box joins at zero and is not faded.
JoinsSilent ==
  /\ pass = "reading" /\ Stepped(vol, owed) = 0
  /\ passLevel' = None /\ passOwed' = owed /\ owed' = 0
  /\ IF vol > 0
       THEN pass' = "silencing" /\ UNCHANGED <<queue, passSaved>>
     ELSE IF owed # 0
       THEN pass' = "silenced" /\ PassSaves(note, 0)
     ELSE pass' = "joining" /\ UNCHANGED <<queue, passSaved>>
  /\ UNCHANGED <<boxVars, on, joined, note, durable, fadeVars, stepVars, service, lives, joins, fails, steps, due, silent>>

Muted ==
  /\ pass = "muting"
  /\ Obeyed(0) /\ Silenced
  /\ PassAt("joining")
  /\ UNCHANGED <<reported, belongs, on, joined, stateVars, fadeVars, stepVars, service, lives, joins, steps, due>>

SilencedOnce ==
  /\ pass = "silencing"
  /\ Obeyed(0) /\ StillSilent
  /\ pass' = "silenced" /\ PassSaves(note, owed) /\ UNCHANGED <<passLevel, passOwed>>
  /\ UNCHANGED <<reported, belongs, on, joined, note, owed, durable, fadeVars, stepVars, service, lives, joins, steps, due>>

\* It could not be turned down: it joins as it is, and owes the steps again.
NotTurnedDown ==
  /\ pass \in {"muting", "silencing"}
  /\ Refused(0) /\ Silenced
  /\ note' = IF pass = "muting" THEN None ELSE note
  /\ owed' = owed + passOwed
  /\ PassSaves(note', owed') /\ pass' = "owing" /\ passLevel' = None /\ UNCHANGED passOwed
  /\ UNCHANGED <<reported, belongs, on, joined, durable, fadeVars, stepVars, service, lives, joins, steps, due>>

\* The box joins, and its fade starts.
Joined ==
  /\ pass = "joining"
  /\ joined' = TRUE
  /\ IF passLevel = None
       THEN UNCHANGED fadeVars
       ELSE \E f \in Fades :
              /\ fadeAt[f] = "none" /\ \A g \in Fades : g < f => fadeAt[g] # "none"
              /\ fadeAt' = [fadeAt EXCEPT ![f] = "resting"]
              /\ fadeFrom' = [fadeFrom EXCEPT ![f] = passLevel]
              /\ fading' = f
              /\ UNCHANGED <<fadeStep, fadeWrite>>
  /\ Idle
  /\ UNCHANGED <<boxVars, on, stateVars, stepVars, service, lives, joins, fails, steps, due, silent>>

\* It refuses: what was taken from it is put back here and now.
JoinRefused ==
  /\ pass = "joining"
  /\ Refused(vol)
  /\ IF passLevel = None
       THEN Idle
       ELSE pass' = "returning" /\ passLevel' = Noted(passLevel) /\ UNCHANGED <<passOwed, passSaved>>
  /\ UNCHANGED <<reported, belongs, on, joined, stateVars, fadeVars, stepVars, service, lives, joins, steps, due, silent>>

Returned ==
  /\ pass = "returning"
  /\ Obeyed(passLevel) /\ silent' = FALSE
  /\ note' = None
  /\ PassSaves(None, owed) /\ pass' = "returned" /\ UNCHANGED <<passLevel, passOwed>>
  /\ UNCHANGED <<reported, belongs, on, joined, owed, durable, fadeVars, stepVars, service, lives, joins, steps, due>>

NotReturned ==
  /\ pass = "returning"
  /\ Refused(passLevel) /\ StillSilent
  /\ Idle
  /\ UNCHANGED <<reported, belongs, on, joined, stateVars, fadeVars, stepVars, service, lives, joins, steps, due>>
-----------------------------------------------------------------------------
(* How a run of the service ends, and the next one begins *)

\* The service is stopped, or a save the pass waits for raises: the pass is
\* cut off wherever it stands.
Stops ==
  /\ service = "up"
  /\ "stop" \in Faults \/ passSaved = "failed"
  /\ service' = "stopping"
  /\ CutOff(SentByPass)
  /\ silent' = (vol' = 0 /\ (silent \/ (vol > 0 /\ pass = "muting")))
  /\ Idle
  /\ UNCHANGED <<reported, belongs, on, joined, stateVars, fadeVars, stepVars, lives, joins, fails, steps, due>>

\* The stand-down cancels the fade it knows of ...
StopsFading ==
  /\ service = "stopping"
  /\ service' = "closing"
  /\ Cancelled({fading})
  /\ CutOff(IF fading # 0 /\ Alive(fading) THEN SentByFades ELSE {}) /\ StillSilent
  /\ UNCHANGED <<reported, belongs, on, joined, stateVars, passVars, stepVars, lives, joins, fails, steps, due>>

\* ... waits for it, ends the house writes and lets the zone go; the store
\* writes what is on its way; and the loop cancels what is still running.
Closes ==
  /\ service = "closing" /\ queue = <<>> /\ \A f \in Fades : fadeAt[f] # "undoing"
  /\ service' = "closed"
  /\ joined' = FALSE
  /\ WriterCancelled
  /\ Cancelled(Fades)
  /\ CutOff(SentByWriter \cup SentByFades) /\ StillSilent
  /\ UNCHANGED <<reported, belongs, on, stateVars, passVars, lives, joins, fails, steps, due>>

\* The memory of a run is gone with it.
Forgotten ==
  /\ reported' = None /\ joined' = FALSE
  /\ note' = None /\ owed' = 0 /\ queue' = <<>>
  /\ Idle
  /\ fadeAt' = [f \in Fades |-> IF fadeAt[f] = "none" THEN "none" ELSE "done"]
  /\ fading' = 0
  /\ WriterCancelled
  /\ fadeFrom' = [f \in Fades |-> 0] /\ fadeStep' = [f \in Fades |-> 0] /\ fadeWrite' = [f \in Fades |-> 0]
  /\ UNCHANGED <<belongs, on, durable, lives, joins, fails, steps, due>>

Stopped ==
  /\ service = "closed" /\ ~Fading
  /\ service' = "stopped"
  /\ Forgotten
  /\ UNCHANGED <<vol, silent>>

Crashes ==
  /\ "crash" \in Faults /\ lives < MaxLives
  /\ service \in {"up", "stopping", "closing", "closed"}
  /\ service' = "crashed"
  /\ CutOff(SentByPass \cup SentByFades \cup SentByWriter)
  /\ silent' = (vol' = 0 /\ (silent \/ (vol > 0 /\ pass = "muting")))
  /\ Forgotten

\* The next run starts from what the database holds.
Starts ==
  /\ service \in {"stopped", "crashed"} /\ lives < MaxLives
  /\ service' = "up" /\ lives' = lives + 1
  /\ note' = durable.note /\ owed' = durable.owed
  /\ UNCHANGED <<boxVars, on, joined, queue, durable, passVars, fadeVars, stepVars, joins, fails, steps, due, silent>>

\* The last run is over.
Over == service \in {"stopped", "crashed"} /\ lives = MaxLives /\ UNCHANGED vars
-----------------------------------------------------------------------------
Around == BelongsChanges \/ SwitchChanges \/ Reported \/ \E move \in Moves : HouseStep(move)

WriterStep == WriterTurns \/ WriterRead \/ WriterWrote \/ WriterGivesUp

FadeStep(f) ==
  \/ FadeGoesOn(f) \/ FadeClimbed(f) \/ FadeBreaksOff(f) \/ FadeLanded(f) \/ FadeFailed(f)
  \/ FadeSaved(f) \/ FadeUndone(f) \/ FadeUndoneFailed(f)

PassStep ==
  \/ PassStarts \/ RescueTurn \/ Rescued \/ RescueFailed \/ PassGoesOn
  \/ StandsDown \/ StoodDown \/ LetsGo \/ LetsBe
  \/ TakesIn \/ ReadFailed \/ Noting \/ JoinsSilent \/ Muted \/ SilencedOnce \/ NotTurnedDown
  \/ Joined \/ JoinRefused \/ Returned \/ NotReturned

Ending == StopsFading \/ Closes \/ Stopped \/ Starts

Next ==
  \/ Around \/ StoreWrites \/ WriterStep
  \/ \E f \in Fades : FadeStep(f)
  \/ PassStep
  \/ Stops \/ Ending \/ Crashes \/ Over

Spec == Init /\ [][Next]_vars

\* Every task that can run does, passes come again with every registry poll,
\* the store answers, a failed save ends the service, and systemd restarts it.
Fairness ==
  /\ WF_vars(PassStep) /\ WF_vars(StoreWrites) /\ WF_vars(WriterStep)
  /\ \A f \in Fades : WF_vars(FadeStep(f))
  /\ WF_vars(passSaved = "failed" /\ Stops) /\ WF_vars(Ending)

FairSpec == Spec /\ Fairness
-----------------------------------------------------------------------------
(* What must hold *)

\* A running service remembers every box it muted: a mute that stands has its
\* note, which is what the next pass looks for.
SilenceIsNoted == silent /\ service \in {"up", "stopping", "closing", "closed"} => note # None

\* "The level is written to the house state in the store BEFORE the box is
\* muted": whatever happens next, the next run finds the note.
SilenceIsWrittenDown == silent => durable.note # None

\* The steps up a box is owed are taken once, whichever join, crash or failure
\* comes between: it is never louder than the house was turned up to.
NoStepTwice == steps >= 0 => vol + owed <= due

\* "Faded back to the level it was on": where the box answered every call and
\* nobody turned the house up or down, with nothing under way the box is on
\* its level or owed what it is short of it, whatever ended a join half way.
AtRest == service = "up" /\ pass = "idle" /\ ~Fading /\ writer = "none" /\ note = None

ComesBackToItsLevel == AtRest /\ fails = 0 /\ steps = 0 => Stepped(vol, owed) = due

\* No box stays silent: its fade, a later pass or the next run ends the mute.
SilenceEnds == silent ~> ~silent \/ service = "stopped"

\* "The note moves and whatever puts it back puts back the moved level": a
\* note that comes out of a running service leaves the box on its level, or
\* owed what it is short of it.
TheNoteIsPutBack ==
  [][note # None /\ note' = None /\ {service, service'} = {"up"} => vol' + owed' = note + owed]_vars

\* "Every path out of a join puts it back", a stop of the service included.
AStopLeavesNoBoxSilent == service = "stopped" => ~silent
=============================================================================
