------------------------------ MODULE Belonging ------------------------------
(***************************************************************************)
(* Who belongs in the zone, with time taken out of it                      *)
(* (domain/membership.py). A box's wake counts or it does not, and it has  *)
(* been heard from recently or it has not; that both end with time is all  *)
(* this module says of the clock. Membership, which keeps the moments, is  *)
(* shown to implement it, and ZonePass decides with it.                    *)
(***************************************************************************)
EXTENDS FiniteSets

CONSTANTS
  Boxes,      \* the speakers
  Consoles    \* those that are a home-cinema console

VARIABLES
  heard,      \* Membership._heard: what each box said last
  allowed     \* Membership.consoles_allowed

belongingVars == <<heard, allowed>>

\* "zone" is internet radio owned by the master, "radio" the box's own,
\* "other" anything a person chose that is neither: AUX, Bluetooth, TV.
Sources    == {"standby", "radio", "zone", "other"}
NoSource   == "none"
RadioNames == {"radio", "zone"}

Entries == [known : BOOLEAN, source : Sources \cup {NoSource},
            waking : BOOLEAN, fresh : BOOLEAN, remembered : BOOLEAN]

Unheard == [known |-> FALSE, source |-> NoSource,
            waking |-> FALSE, fresh |-> FALSE, remembered |-> FALSE]

BelongingTypeOK == heard \in [Boxes -> Entries] /\ allowed \in SUBSET Consoles
-----------------------------------------------------------------------------
(* What one more word makes of an entry *)

\* Mutant of Named: the box's own station clears its wake, as the flag that
\* lasted one frame did.
NamedOnce(h, s) ==
  [known |-> TRUE, source |-> s, fresh |-> TRUE, remembered |-> FALSE,
   waking |-> s \in RadioNames /\ h.source = "standby"]

\* A frame or an answer that names the source: only internet radio begins a
\* wake, only from standby, and everything else ends one.
Named(h, s) ==
  [known |-> TRUE, source |-> s, fresh |-> TRUE, remembered |-> FALSE,
   waking |-> s \in RadioNames /\ (h.waking \/ h.source = "standby")]

\* A frame that names a speaker and no source.
Spoke(h) == [h EXCEPT !.known = TRUE, !.fresh = TRUE]

\* Somebody pressed something at it: marks the wake and nothing else.
Woken(h) == IF h.known THEN [h EXCEPT !.waking = TRUE] ELSE h

\* It is there, whatever it is playing.
SeenAlive(h) == IF h.known THEN [h EXCEPT !.fresh = TRUE] ELSE h

\* A member of the previous run, until it says otherwise.
Restored(h) ==
  IF h.known THEN h ELSE [Unheard EXCEPT !.known = TRUE, !.fresh = TRUE, !.remembered = TRUE]
-----------------------------------------------------------------------------
IsAsleep(b) == heard[b].source = "standby"

Belongs(b) ==
  /\ b \in Consoles => b \in allowed
  /\ heard[b].known /\ heard[b].fresh
  /\ heard[b].source = "standby" => heard[b].waking
  /\ heard[b].source = "zone" \/ heard[b].waking \/ heard[b].remembered

TargetMembers == {b \in Boxes : Belongs(b)}
-----------------------------------------------------------------------------
BelongingInit == heard = [b \in Boxes |-> Unheard] /\ allowed \in SUBSET Consoles

Observes(b, h) == heard' = [heard EXCEPT ![b] = h] /\ UNCHANGED allowed

Observe(b)  == \E s \in Sources : Observes(b, Named(heard[b], s))
Frame(b)    == Observes(b, Spoke(heard[b]))
Woke(b)     == Observes(b, Woken(heard[b]))
Seen(b)     == Observes(b, SeenAlive(heard[b]))
Restore     == \E members \in SUBSET Boxes :
                 /\ heard' = [b \in Boxes |-> IF b \in members THEN Restored(heard[b]) ELSE heard[b]]
                 /\ UNCHANGED allowed
Allow       == allowed' \in SUBSET Consoles /\ UNCHANGED heard

\* Time passes: any wakes and any boxes' freshness run out, and none comes back.
TimePasses ==
  /\ \E asleep, silent \in SUBSET Boxes :
       heard' = [b \in Boxes |-> [heard[b] EXCEPT !.waking = @ /\ b \notin asleep,
                                                  !.fresh  = @ /\ b \notin silent]]
  /\ UNCHANGED allowed

BelongingNext ==
  \/ \E b \in Boxes : Observe(b) \/ Frame(b) \/ Woke(b) \/ Seen(b)
  \/ Restore \/ Allow \/ TimePasses

BelongingSpec == BelongingInit /\ [][BelongingNext]_belongingVars
=============================================================================
