------------------------------ MODULE Presses -------------------------------
(***************************************************************************)
(* Which selections a person made (domain/presses.py): what one box has    *)
(* said and nobody has decided yet, and the one reading of it.             *)
(*                                                                         *)
(* A box names a preset in the same frame whether a person pressed a key   *)
(* or the service made it change; only a person's key comes with touches,  *)
(* one as the key goes down and one as it comes up.  So the selections and *)
(* the touches of a box are paired, nearest first, once nothing that may   *)
(* still arrive can change the pairing.                                    *)
(*                                                                         *)
(* Operators only: KeyReading keeps the table and feeds it.                *)
(***************************************************************************)
EXTENDS Integers, SequencesExt

CONSTANTS
  Window,          \* CONFIRM_WINDOW_S: a confirmation this far behind still counts
  BackWindow,      \* CONFIRM_BACK_WINDOW_S: and this far in front
  HoldFloor,       \* HOLD_FLOOR_S: two touches of one key are this far apart at least
  HoldCeiling,     \* HOLD_CEILING_S: and this far at most
  HoldWhenUnseen   \* HOLD_WHEN_UNSEEN_S: how long a key is taken to be down otherwise

ASSUME PressesAssumption ==
  /\ {Window, BackWindow, HoldFloor, HoldCeiling, HoldWhenUnseen} \subseteq Nat
  /\ 0 < HoldFloor /\ HoldFloor <= HoldCeiling

NoMoment == -1     \* Python's None where a moment is expected

(* Nothing said: a box that is not in the table.                           *)
NothingSaid == [selections |-> <<>>, touches |-> <<>>]

(* What is pending of a box: selections, each with its moment, its preset  *)
(* and what the house answered about the box at that moment; and touches.  *)
Selected(said, selection) == [said EXCEPT !.selections = Append(@, selection)]
Touched(said, at)         == [said EXCEPT !.touches = Append(@, at)]

Apart(a, b) == IF a < b THEN b - a ELSE a - b

(* The allowed pairs, and their order: how far apart, then who spoke first. *)
Allowed(said) ==
  {p \in (DOMAIN said.selections) \X (DOMAIN said.touches) :
     LET behind == said.touches[p[2]] - said.selections[p[1]].at
     IN  -BackWindow <= behind /\ behind <= Window}

Nearer(said, p, q) ==
  LET far(r) == Apart(said.selections[r[1]].at, said.touches[r[2]])
  IN  \/ far(p) < far(q)
      \/ far(p) = far(q) /\ p[1] < q[1]
      \/ far(p) = far(q) /\ p[1] = q[1] /\ p[2] <= q[2]

\* Mutant: every unspent touch may be taken, whoever it is nearer to.
EveryUnspentTouch(said, confirming, spent, waiting) == (DOMAIN said.touches) \ spent

(* The touches a press may still take as its other half: unspent, and not  *)
(* nearer to a selection that still waits for its own.                     *)
FreeTouches(said, confirming, spent, waiting) ==
  {t \in (DOMAIN said.touches) \ spent :
     \A s \in waiting : Apart(said.touches[t], said.touches[confirming])
                          <= Apart(said.touches[t], said.selections[s].at)}

(* When the key went down, when it came up, and the further touch used.  A *)
(* box outside the zone names the preset and then reports both touches; a  *)
(* slave reports both and then names it.                                   *)
Earliest(t, S) == CHOOSE i \in S : \A j \in S : t[i] < t[j] \/ (t[i] = t[j] /\ i <= j)
Latest(t, S)   == CHOOSE i \in S : \A j \in S : t[i] > t[j] \/ (t[i] = t[j] /\ i >= j)

WithRelease(t, confirming, behind) ==
  IF behind = {} THEN [pressed |-> t[confirming], released |-> NoMoment, also |-> {}]
  ELSE [pressed |-> t[confirming], released |-> t[Earliest(t, behind)],
        also    |-> {Earliest(t, behind)}]

WithPress(t, confirming, ahead) ==
  IF ahead = {}
  THEN [pressed |-> t[confirming] - HoldWhenUnseen, released |-> t[confirming], also |-> {}]
  ELSE [pressed |-> t[Latest(t, ahead)], released |-> t[confirming],
        also    |-> {Latest(t, ahead)}]

BothMoments(t, named, confirming, free) ==
  LET AsHold(up, down) == HoldFloor <= t[up] - t[down] /\ t[up] - t[down] <= HoldCeiling
  IN  IF t[confirming] >= named
      THEN WithRelease(t, confirming, {i \in free : AsHold(i, confirming)})
      ELSE WithPress(t, confirming, {i \in free : AsHold(confirming, i)})

(* The claims, nearest pair first: each takes the confirmation and the     *)
(* other touch of the same key in one step.                                *)

\* Mutant: the release is left lying free for the next claim.
TakenWithoutTheRelease(c, pair, both) ==
  [moments |-> [s \in (DOMAIN c.moments) \cup {pair[1]} |->
                  IF s = pair[1] THEN both ELSE c.moments[s]],
   spent   |-> c.spent \cup {pair[2]}]

Taken(c, pair, both) ==
  [moments |-> [s \in (DOMAIN c.moments) \cup {pair[1]} |->
                  IF s = pair[1] THEN both ELSE c.moments[s]],
   spent   |-> c.spent \cup {pair[2]} \cup both.also]

Claim(said, c, pair) ==
  Taken(c, pair,
    BothMoments(said.touches, said.selections[pair[1]].at, pair[2],
      FreeTouches(said, pair[2], c.spent \cup {pair[2]},
                  (DOMAIN said.selections) \ DOMAIN c.moments)))

NextClaim(said, c, open) ==
  IF open = {} THEN c
  ELSE Claim(said, c, CHOOSE p \in open : \A q \in open : Nearer(said, p, q))

Claims(said) ==
  FoldLeftDomain(
    LAMBDA c, i : NextClaim(said, c, {p \in Allowed(said) :
                                       p[1] \notin DOMAIN c.moments /\ p[2] \notin c.spent}),
    [moments |-> [s \in {} |-> 0], spent |-> {}], said.selections)

(* _read: the presses of a box, and every moment at which something could  *)
(* still change them: a selection nobody confirmed, a press that has no    *)
(* release yet, a touch left over.                                         *)
PressOf(said, moments, s) ==
  [preset   |-> said.selections[s].preset, asked |-> said.selections[s].asked,
   turn     |-> s,
   named    |-> said.selections[s].at,     pressed |-> moments[s].pressed,
   released |-> IF moments[s].released = NoMoment THEN moments[s].pressed + HoldWhenUnseen
                                                  ELSE moments[s].released]

PressesOf(said, c) == {PressOf(said, c.moments, s) : s \in DOMAIN c.moments}

WaitingOf(said, c) ==
  {said.selections[s].at + Window : s \in (DOMAIN said.selections) \ DOMAIN c.moments}
  \cup {c.moments[s].pressed + HoldCeiling :
          s \in {x \in DOMAIN c.moments : c.moments[x].released = NoMoment}}
  \cup {said.touches[t] + HoldCeiling : t \in (DOMAIN said.touches) \ c.spent}

(* _readable_at: the last of those moments, or now if there is none.       *)
LastOf(waiting, said) ==
  IF waiting # {} THEN Max(waiting)
  ELSE Max({said.selections[s].at : s \in DOMAIN said.selections}
           \cup {said.touches[t] : t \in DOMAIN said.touches})

ReadableAt(said) == LastOf(WaitingOf(said, Claims(said)), said)

Pending(said) == said # NothingSaid

(* deadline: when the first box of the table can be read.                  *)
PressDeadlines(table) == {ReadableAt(table[b]) : b \in {x \in DOMAIN table : Pending(table[x])}}

(* due: every box that can be read is emptied, and its presses, of all     *)
(* boxes, are reported in the order their keys went down.                  *)
Readable(table, at) == {b \in DOMAIN table : Pending(table[b]) /\ ReadableAt(table[b]) <= at}

Emptied(table, at) ==
  [b \in DOMAIN table |-> IF b \in Readable(table, at) THEN NothingSaid ELSE table[b]]

DuePresses(table, at) ==
  LET of(b)        == {[box |-> b, press |-> p] : p \in PressesOf(table[b], Claims(table[b]))}
      Before(p, q) == \/ p.press.named < q.press.named
                      \/ p.press.named = q.press.named /\ p.press.turn < q.press.turn
  IN  SetToSortSeq(UNION {of(b) : b \in Readable(table, at)}, Before)
=============================================================================
