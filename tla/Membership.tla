----------------------------- MODULE Membership -----------------------------
(***************************************************************************)
(* The membership rule with its clock (domain/membership.py): when each    *)
(* box was last heard, when it last woke, and who belongs at this moment.  *)
(* An event carries the moment it was received, which may be a little      *)
(* before the moment it is read.                                           *)
(***************************************************************************)
EXTENDS Integers, FiniteSets

CONSTANTS
  Boxes, Consoles,
  UnreachableTimeout,   \* UNREACHABLE_TIMEOUT_S, in ticks of this clock
  WakeWindow,           \* WAKE_WINDOW_S, in the same ticks
  MaxLag,               \* bound: how long an event may wait to be read
  MaxNow                \* bound: how long a behaviour lasts

ASSUME ClockAssumption ==
  /\ UnreachableTimeout \in Nat /\ WakeWindow \in Nat /\ MaxLag \in Nat /\ MaxNow \in Nat
  /\ MaxLag <= WakeWindow /\ MaxLag <= UnreachableTimeout
  /\ Consoles \subseteq Boxes

VARIABLES
  now,
  entry,      \* _heard: per box a record, or Nothing
  allowed,    \* consoles_allowed
  dialled     \* history: a press was taken since the box last ended its wake

vars == <<now, entry, allowed, dialled>>

Names      == {"standby", "radio", "zone", "other"}
RadioNames == {"radio", "zone"}
Nothing    == [last_seen |-> -1]
Moments    == (-MaxLag) .. MaxNow
NotAwake   == -MaxLag - 1
Records    == [last_seen : Moments, source : Names \cup {"none"},
               woke_at : Moments \cup {NotAwake}, remembered : BOOLEAN]

Known(b) == entry[b] # Nothing

TypeOK ==
  /\ now \in 0 .. MaxNow
  /\ entry \in [Boxes -> Records \cup {Nothing}]
  /\ allowed \in SUBSET Consoles
  /\ dialled \in SUBSET Boxes
-----------------------------------------------------------------------------
Fresh(at) == [last_seen |-> at, source |-> "none", woke_at |-> NotAwake, remembered |-> FALSE]

\* The moments at which an event read now may have been received.
Received == (now - MaxLag) .. now

\* Mutant of WakeAfter: never cleared.
WakeForGood(h, s, at) ==
  IF s \in RadioNames /\ h.source = "standby" THEN at ELSE h.woke_at

WakeAfter(h, s, at) ==
  IF s \notin RadioNames THEN NotAwake
  ELSE IF h.source = "standby" THEN at
  ELSE h.woke_at

Sets(b, h) == entry' = [entry EXCEPT ![b] = h] /\ UNCHANGED <<now, allowed>>

Observe(b) ==
  \E s \in Names, at \in Received :
    LET h == IF Known(b) THEN entry[b] ELSE Fresh(at) IN
    /\ Sets(b, [last_seen |-> at, source |-> s,
                woke_at |-> WakeAfter(h, s, at), remembered |-> FALSE])
    /\ dialled' = IF s \in RadioNames THEN dialled ELSE dialled \ {b}

\* A frame that names no source: a preset, a touch, a level.
Frame(b) ==
  \E at \in Received :
    LET h == IF Known(b) THEN entry[b] ELSE Fresh(at) IN
    /\ Sets(b, [h EXCEPT !.last_seen = at])
    /\ UNCHANGED dialled

Woke(b) ==
  /\ Known(b)
  /\ \E at \in Received : Sets(b, [entry[b] EXCEPT !.woke_at = at])
  /\ dialled' = dialled \cup {b}

Seen(b) ==
  /\ Known(b)
  /\ Sets(b, [entry[b] EXCEPT !.last_seen = now])
  /\ UNCHANGED dialled

Restore ==
  /\ \E members \in SUBSET Boxes :
       entry' = [b \in Boxes |-> IF b \in members /\ ~Known(b)
                                   THEN [Fresh(now) EXCEPT !.remembered = TRUE] ELSE entry[b]]
  /\ UNCHANGED <<now, allowed, dialled>>

\* A preference take sets consoles_allowed.
Allow == allowed' \in SUBSET Consoles /\ UNCHANGED <<now, entry, dialled>>

Tick == now < MaxNow /\ now' = now + 1 /\ UNCHANGED <<entry, allowed, dialled>>

Init ==
  /\ now = 0
  /\ entry = [b \in Boxes |-> Nothing]
  /\ allowed \in SUBSET Consoles
  /\ dialled = {}

Next ==
  \/ \E b \in Boxes : Observe(b) \/ Frame(b) \/ Woke(b) \/ Seen(b)
  \/ Restore \/ Allow \/ Tick

Spec == Init /\ [][Next]_vars
-----------------------------------------------------------------------------
StillWaking(b) == entry[b].woke_at # NotAwake /\ now - entry[b].woke_at <= WakeWindow

Reachable(b) == now - entry[b].last_seen <= UnreachableTimeout

Belongs(b) ==
  /\ b \in Consoles => b \in allowed
  /\ Known(b) /\ Reachable(b)
  /\ entry[b].source = "standby" => StillWaking(b)
  /\ entry[b].source = "zone" \/ StillWaking(b) \/ entry[b].remembered

TargetMembers == {b \in Boxes : Belongs(b)}
-----------------------------------------------------------------------------
(* The moments left out: what Belonging keeps of an entry. *)

Timeless(b) ==
  IF Known(b)
    THEN [known |-> TRUE, source |-> entry[b].source, waking |-> StillWaking(b),
          fresh |-> Reachable(b), remembered |-> entry[b].remembered]
    ELSE [known |-> FALSE, source |-> "none", waking |-> FALSE,
          fresh |-> FALSE, remembered |-> FALSE]

Timed == INSTANCE Belonging WITH heard <- [b \in Boxes |-> Timeless(b)]

\* The rule with its moments is the rule without them: every event does to
\* waking and freshness what Belonging says, and time only takes them away
\* (observe, woke, seen and restore of domain/membership.py).
ImplementsBelonging == Timed!BelongingSpec

\* A box that last named AUX or Bluetooth belongs only if somebody dialled on
\* it since: music is never taken from a person in the room by what the box
\* itself reports, a wake still counting included (observe, woke and
\* _belongs of domain/membership.py).
OtherIsLeftAlone ==
  \A b \in Boxes : Known(b) /\ entry[b].source = "other" /\ b \notin dialled => ~Belongs(b)

\* A woken box belongs for the whole of the window whatever it says about
\* internet radio meanwhile, its own station named twice included, so the
\* take-in it woke for finds it still there (WAKE_WINDOW_S).
WakeLastsItsWindow ==
  [][\A b \in Boxes :
       Known(b) /\ StillWaking(b) /\ Belongs(b) /\ entry'[b].source \in RadioNames /\ now' = now
         /\ allowed' = allowed
         => Belongs(b)']_vars
=============================================================================
