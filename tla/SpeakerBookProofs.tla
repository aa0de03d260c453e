-------------------------- MODULE SpeakerBookProofs --------------------------
(***************************************************************************)
(* Proofs about Membership and about SpeakerBook, which extends it.        *)
(*                                                                         *)
(* Of the rule, for every number of boxes and every setting of the         *)
(* time-outs: its types, that a box on AUX is left alone, that a wake      *)
(* lasts its window, and that the rule with its moments implements the one *)
(* without them (Belonging).                                               *)
(*                                                                         *)
(* Of the book, for every number of boxes, reads and frames: its types,    *)
(* that reply speed decides nothing, that the channels come from the first *)
(* box switched on, and that no wake is lost between an answer and frames. *)
(***************************************************************************)
EXTENDS SpeakerBook, SequenceTheorems, FiniteSetTheorems, WellFoundedInduction, TLAPS

\* A box last heard on something of its own has no wake standing and is no
\* member from before, unless somebody dialled on it since.
OtherHasNoClaim ==
  \A b \in Boxes :
    Known(b) /\ entry[b].source = "other" /\ b \notin dialled
      => entry[b].woke_at = NotAwake /\ ~entry[b].remembered

IInv == TypeOK /\ OtherHasNoClaim
-----------------------------------------------------------------------------
(* Records *)

LEMMA RecordIsSomething == \A h \in Records : h # Nothing
<1> TAKE h \in Records
<1>1. DOMAIN h = {"last_seen", "source", "woke_at", "remembered"} BY DEF Records
<1>2. DOMAIN Nothing = {"last_seen"} BY DEF Nothing
<1> QED BY <1>1, <1>2

LEMMA MomentsRead ==
  ASSUME TypeOK
  PROVE  /\ now \in Moments /\ Received \subseteq Moments
         /\ \A at \in Received : at \in Int /\ now - at <= MaxLag /\ at # NotAwake
         /\ NotAwake \notin Moments
BY ClockAssumption DEF TypeOK, Moments, Received, NotAwake

LEMMA FreshIsARecord ==
  \A at \in Moments : Fresh(at) \in Records /\ [Fresh(at) EXCEPT !.remembered = TRUE] \in Records
BY DEF Fresh, Records

LEMMA WakeIsAMoment ==
  ASSUME NEW h \in Records, NEW s, NEW at \in Moments
  PROVE  WakeAfter(h, s, at) \in Moments \cup {NotAwake}
BY DEF Records, WakeAfter
-----------------------------------------------------------------------------
(* Type correctness *)

LEMMA TypeInit == Init => TypeOK
  BY ClockAssumption DEF Init, TypeOK

LEMMA TypeStep == TypeOK /\ [Next]_vars => TypeOK'
<1> SUFFICES ASSUME TypeOK, [Next]_vars PROVE TypeOK'  OBVIOUS
<1> USE MomentsRead
<1>1. ASSUME NEW b \in Boxes, Observe(b) PROVE TypeOK'
  <2>1. PICK s \in Names, at \in Received :
          LET h == IF Known(b) THEN entry[b] ELSE Fresh(at) IN
          /\ Sets(b, [last_seen |-> at, source |-> s,
                      woke_at |-> WakeAfter(h, s, at), remembered |-> FALSE])
          /\ dialled' = IF s \in RadioNames THEN dialled ELSE dialled \ {b}
    BY <1>1 DEF Observe
  <2> DEFINE h == IF Known(b) THEN entry[b] ELSE Fresh(at)
             r == [last_seen |-> at, source |-> s, woke_at |-> WakeAfter(h, s, at), remembered |-> FALSE]
  <2>2. h \in Records BY FreshIsARecord DEF TypeOK, Known
  <2>3. r \in Records
    <3>1. WakeAfter(h, s, at) \in Moments \cup {NotAwake} BY <2>2, WakeIsAMoment
    <3> HIDE DEF h
    <3> QED BY <3>1 DEF Records
  <2>4. Sets(b, r) /\ dialled' \in SUBSET Boxes BY <2>1 DEF TypeOK
  <2> HIDE DEF r
  <2> QED BY <2>3, <2>4 DEF TypeOK, Sets
<1>2. ASSUME NEW b \in Boxes, Frame(b) PROVE TypeOK'
  <2>1. PICK at \in Received :
          LET h == IF Known(b) THEN entry[b] ELSE Fresh(at) IN
          /\ Sets(b, [h EXCEPT !.last_seen = at])
          /\ UNCHANGED dialled
    BY <1>2 DEF Frame
  <2> DEFINE h == IF Known(b) THEN entry[b] ELSE Fresh(at)
  <2>2. h \in Records BY FreshIsARecord DEF TypeOK, Known
  <2>3. [h EXCEPT !.last_seen = at] \in Records
    <3> HIDE DEF h
    <3> QED BY <2>2 DEF Records
  <2> QED BY <2>1, <2>3 DEF TypeOK, Sets
<1>3. ASSUME NEW b \in Boxes, Woke(b) PROVE TypeOK'
  <2>1. PICK at \in Received : Sets(b, [entry[b] EXCEPT !.woke_at = at])  BY <1>3 DEF Woke
  <2>2. entry[b] \in Records BY <1>3 DEF TypeOK, Woke, Known
  <2>3. [entry[b] EXCEPT !.woke_at = at] \in Records BY <2>2 DEF Records
  <2> QED BY <1>3, <2>1, <2>3 DEF TypeOK, Sets, Woke
<1>4. ASSUME NEW b \in Boxes, Seen(b) PROVE TypeOK'
  <2>1. entry[b] \in Records BY <1>4 DEF TypeOK, Seen, Known
  <2>2. [entry[b] EXCEPT !.last_seen = now] \in Records BY <2>1 DEF Records
  <2> QED BY <1>4, <2>2 DEF TypeOK, Sets, Seen
<1>5. CASE Restore
  BY <1>5, FreshIsARecord DEF TypeOK, Restore
<1>6. CASE Allow
  BY <1>6 DEF TypeOK, Allow
<1>7. CASE Tick
  BY <1>7, ClockAssumption DEF TypeOK, Tick
<1>8. CASE UNCHANGED vars
  BY <1>8 DEF TypeOK, vars
<1> QED BY <1>1, <1>2, <1>3, <1>4, <1>5, <1>6, <1>7, <1>8 DEF Next

\* The types, however many boxes there are and however long the time-outs.
THEOREM TypeCorrect == Spec => []TypeOK
  BY TypeInit, TypeStep, PTL DEF Spec
-----------------------------------------------------------------------------
(* A box on AUX *)

LEMMA ClaimInit == Init => OtherHasNoClaim
<1> SUFFICES ASSUME Init PROVE OtherHasNoClaim  OBVIOUS
<1>1. \A b \in Boxes : ~Known(b) BY DEF Init, Known
<1> QED BY <1>1 DEF OtherHasNoClaim

LEMMA ClaimStep == IInv /\ [Next]_vars => OtherHasNoClaim'
<1> SUFFICES ASSUME IInv, [Next]_vars, NEW c \in Boxes,
                    Known(c)', entry'[c].source = "other", c \notin dialled'
             PROVE  entry'[c].woke_at = NotAwake /\ ~entry'[c].remembered
  BY DEF OtherHasNoClaim
<1> USE DEF IInv
<1>1. ASSUME Known(c), entry'[c].source = entry[c].source, c \notin dialled,
             entry'[c].woke_at = entry[c].woke_at, entry'[c].remembered = entry[c].remembered
      PROVE  entry'[c].woke_at = NotAwake /\ ~entry'[c].remembered
  BY <1>1 DEF OtherHasNoClaim
<1>2. ASSUME NEW b \in Boxes, NEW h, Sets(b, h), b # c, dialled \ {b} \subseteq dialled'
      PROVE  entry'[c].woke_at = NotAwake /\ ~entry'[c].remembered
  <2>1. entry'[c] = entry[c] BY <1>2 DEF TypeOK, Sets
  <2> QED BY <1>1, <1>2, <2>1 DEF Known
<1>3. ASSUME NEW b \in Boxes, Observe(b) PROVE entry'[c].woke_at = NotAwake /\ ~entry'[c].remembered
  <2>1. PICK s \in Names, at \in Received :
          LET h == IF Known(b) THEN entry[b] ELSE Fresh(at) IN
          /\ Sets(b, [last_seen |-> at, source |-> s,
                      woke_at |-> WakeAfter(h, s, at), remembered |-> FALSE])
          /\ dialled' = IF s \in RadioNames THEN dialled ELSE dialled \ {b}
    BY <1>3 DEF Observe
  <2> DEFINE h == IF Known(b) THEN entry[b] ELSE Fresh(at)
             r == [last_seen |-> at, source |-> s, woke_at |-> WakeAfter(h, s, at), remembered |-> FALSE]
  <2>2. CASE b # c BY <1>2, <2>1, <2>2
  <2>3. CASE b = c
    <3>1. entry'[c] = r BY <2>1, <2>3 DEF TypeOK, Sets
    <3>2. s = "other" BY <3>1
    <3>3. WakeAfter(h, s, at) = NotAwake BY <3>2 DEF WakeAfter, RadioNames
    <3> QED BY <3>1, <3>3
  <2> QED BY <2>2, <2>3
<1>4. ASSUME NEW b \in Boxes, Frame(b) PROVE entry'[c].woke_at = NotAwake /\ ~entry'[c].remembered
  <2>1. PICK at \in Received :
          LET h == IF Known(b) THEN entry[b] ELSE Fresh(at) IN
          /\ Sets(b, [h EXCEPT !.last_seen = at])
          /\ UNCHANGED dialled
    BY <1>4 DEF Frame
  <2> DEFINE h == IF Known(b) THEN entry[b] ELSE Fresh(at)
  <2>2. CASE b # c BY <1>2, <2>1, <2>2
  <2>3. CASE b = c
    <3>1. h \in Records BY FreshIsARecord, MomentsRead DEF TypeOK, Known
    <3>2. entry'[c] = [h EXCEPT !.last_seen = at] BY <2>1, <2>3 DEF TypeOK, Sets
    <3>3. /\ entry'[c].source = h.source /\ entry'[c].woke_at = h.woke_at
          /\ entry'[c].remembered = h.remembered
      <4> HIDE DEF h
      <4> QED BY <3>1, <3>2 DEF Records
    <3>4. Known(b) BY <3>3 DEF Fresh
    <3> QED BY <1>1, <2>1, <2>3, <3>3, <3>4
  <2> QED BY <2>2, <2>3
<1>5. ASSUME NEW b \in Boxes, Woke(b) PROVE entry'[c].woke_at = NotAwake /\ ~entry'[c].remembered
  <2>1. b # c BY <1>5 DEF Woke
  <2> QED BY <1>2, <1>5, <2>1 DEF Woke
<1>6. ASSUME NEW b \in Boxes, Seen(b) PROVE entry'[c].woke_at = NotAwake /\ ~entry'[c].remembered
  <2>1. CASE b # c BY <1>2, <1>6, <2>1 DEF Seen
  <2>2. CASE b = c
    <3>1. entry[c] \in Records BY <1>6, <2>2 DEF TypeOK, Seen, Known
    <3>2. entry'[c] = [entry[c] EXCEPT !.last_seen = now] BY <1>6, <2>2 DEF TypeOK, Sets, Seen
    <3>3. /\ entry'[c].source = entry[c].source /\ entry'[c].woke_at = entry[c].woke_at
          /\ entry'[c].remembered = entry[c].remembered
      BY <3>1, <3>2 DEF Records
    <3> QED BY <1>1, <1>6, <2>2, <3>3 DEF Seen
  <2> QED BY <2>1, <2>2
<1>7. CASE Restore
  <2>1. entry'[c] = entry[c] \/ entry'[c] = [Fresh(now) EXCEPT !.remembered = TRUE]
    BY <1>7 DEF TypeOK, Restore
  <2>2. [Fresh(now) EXCEPT !.remembered = TRUE].source = "none" BY DEF Fresh
  <2>3. entry'[c] = entry[c] BY <2>1, <2>2
  <2> QED BY <1>1, <1>7, <2>3 DEF Known, Restore
<1>8. CASE Allow \/ Tick \/ UNCHANGED vars
  <2>1. entry' = entry /\ dialled' = dialled BY <1>8 DEF Allow, Tick, vars
  <2> QED BY <1>1, <2>1 DEF Known
<1> QED BY <1>3, <1>4, <1>5, <1>6, <1>7, <1>8 DEF Next

\* A box that last named AUX or Bluetooth is not taken unless somebody dialled
\* on it since, at whatever moments the frames were received and read.
THEOREM LeftAlone == Spec => []OtherIsLeftAlone
<1>1. Init => IInv BY TypeInit, ClaimInit DEF IInv
<1>2. IInv /\ [Next]_vars => IInv' BY TypeStep, ClaimStep DEF IInv
<1>3. IInv => OtherIsLeftAlone
  BY DEF IInv, OtherHasNoClaim, OtherIsLeftAlone, Belongs, StillWaking
<1> QED BY <1>1, <1>2, <1>3, PTL DEF Spec
-----------------------------------------------------------------------------
(* A wake and its window *)

\* What a box that wakes needs, to belong as long as it stays on the radio.
Awaiting(b) == Known(b) /\ Reachable(b) /\ StillWaking(b)

LEMMA AnEventKeepsAwaiting ==
  ASSUME TypeOK, NEW b \in Boxes, NEW h \in Records, Sets(b, h), Awaiting(b),
         h.last_seen = entry[b].last_seen \/ h.last_seen \in Received,
         h.woke_at = entry[b].woke_at \/ h.woke_at \in Received
  PROVE  Awaiting(b)'
<1>1. entry'[b] = h /\ now' = now BY DEF Sets, TypeOK
<1>2. Known(b)' BY <1>1, RecordIsSomething DEF Known
<1>3. ASSUME NEW at \in Received
      PROVE  now - at <= UnreachableTimeout /\ now - at <= WakeWindow /\ at # NotAwake
  <2>1. now \in Int /\ at \in Int /\ now - at <= MaxLag BY MomentsRead, ClockAssumption DEF TypeOK
  <2> QED BY <2>1, MomentsRead, ClockAssumption
<1>4. now - h.last_seen <= UnreachableTimeout BY <1>3 DEF Awaiting, Reachable
<1>5. h.woke_at # NotAwake /\ now - h.woke_at <= WakeWindow BY <1>3 DEF Awaiting, StillWaking
<1>6. Reachable(b)' BY <1>1, <1>4 DEF Reachable
<1>7. StillWaking(b)' BY <1>1, <1>5 DEF StillWaking
<1> QED BY <1>2, <1>6, <1>7 DEF Awaiting

LEMMA NowIsReceived == TypeOK => now \in Received
  BY ClockAssumption DEF TypeOK, Received

LEMMA AwaitingStep ==
  ASSUME TypeOK, [Next]_vars, NEW c \in Boxes, Awaiting(c), entry'[c].source \in RadioNames,
         now' = now
  PROVE  Awaiting(c)'
<1>1. entry[c] \in Records BY DEF TypeOK, Awaiting, Known
<1>2. ASSUME entry'[c] = entry[c] PROVE Awaiting(c)'
  BY <1>2 DEF Awaiting, Known, Reachable, StillWaking
<1>3. ASSUME NEW b \in Boxes, b # c, NEW h, Sets(b, h) PROVE Awaiting(c)'
  BY <1>2, <1>3 DEF Sets, TypeOK
<1>4. ASSUME NEW b \in Boxes, Observe(b) PROVE Awaiting(c)'
  <2>1. PICK s \in Names, at \in Received :
          LET h == IF Known(b) THEN entry[b] ELSE Fresh(at) IN
          Sets(b, [last_seen |-> at, source |-> s,
                   woke_at |-> WakeAfter(h, s, at), remembered |-> FALSE])
    BY <1>4 DEF Observe
  <2>2. CASE b # c BY <1>3, <2>1, <2>2
  <2>3. CASE b = c
    <3> DEFINE w == WakeAfter(entry[c], s, at)
               r == [last_seen |-> at, source |-> s, woke_at |-> w, remembered |-> FALSE]
    <3>1. Sets(c, r) BY <2>1, <2>3 DEF Awaiting
    <3>2. entry'[c].source = s BY <3>1 DEF Sets, TypeOK
    <3>3. w = entry[c].woke_at \/ w = at BY <3>2 DEF WakeAfter
    <3>4. w \in Moments \cup {NotAwake} BY <1>1, MomentsRead, WakeIsAMoment
    <3> HIDE DEF w
    <3>5. r \in Records /\ r.last_seen = at /\ r.woke_at = w BY <3>4, MomentsRead DEF Records
    <3> HIDE DEF r
    <3> QED BY <3>1, <3>3, <3>5, AnEventKeepsAwaiting
  <2> QED BY <2>2, <2>3
<1>5. ASSUME NEW b \in Boxes, Frame(b) PROVE Awaiting(c)'
  <2>1. PICK at \in Received :
          LET h == IF Known(b) THEN entry[b] ELSE Fresh(at) IN Sets(b, [h EXCEPT !.last_seen = at])
    BY <1>5 DEF Frame
  <2>2. CASE b # c BY <1>3, <2>1, <2>2
  <2>3. CASE b = c
    <3> DEFINE r == [entry[c] EXCEPT !.last_seen = at]
    <3>1. Sets(c, r) BY <2>1, <2>3 DEF Awaiting
    <3>2. r \in Records /\ r.last_seen = at /\ r.woke_at = entry[c].woke_at
      BY <1>1, MomentsRead DEF Records
    <3> HIDE DEF r
    <3> QED BY <3>1, <3>2, AnEventKeepsAwaiting
  <2> QED BY <2>2, <2>3
<1>6. ASSUME NEW b \in Boxes, Woke(b) PROVE Awaiting(c)'
  <2>1. PICK at \in Received : Sets(b, [entry[b] EXCEPT !.woke_at = at]) BY <1>6 DEF Woke
  <2>2. CASE b # c BY <1>3, <2>1, <2>2
  <2>3. CASE b = c
    <3> DEFINE r == [entry[c] EXCEPT !.woke_at = at]
    <3>1. Sets(c, r) BY <2>1, <2>3
    <3>2. r \in Records /\ r.last_seen = entry[c].last_seen /\ r.woke_at = at
      BY <1>1, MomentsRead DEF Records
    <3> HIDE DEF r
    <3> QED BY <3>1, <3>2, AnEventKeepsAwaiting
  <2> QED BY <2>2, <2>3
<1>7. ASSUME NEW b \in Boxes, Seen(b) PROVE Awaiting(c)'
  <2>1. Sets(b, [entry[b] EXCEPT !.last_seen = now]) BY <1>7 DEF Seen
  <2>2. CASE b # c BY <1>3, <2>1, <2>2
  <2>3. CASE b = c
    <3> DEFINE r == [entry[c] EXCEPT !.last_seen = now]
    <3>1. Sets(c, r) BY <2>1, <2>3
    <3>2. r \in Records /\ r.last_seen = now /\ r.woke_at = entry[c].woke_at
      BY <1>1, MomentsRead, NowIsReceived DEF Records
    <3> HIDE DEF r
    <3> QED BY <3>1, <3>2, NowIsReceived, AnEventKeepsAwaiting
  <2> QED BY <2>2, <2>3
<1>8. CASE Restore \/ Allow \/ Tick \/ UNCHANGED vars
  BY <1>2, <1>8 DEF Restore, Allow, Tick, vars, TypeOK, Awaiting
<1> QED BY <1>4, <1>5, <1>6, <1>7, <1>8 DEF Next

\* A woken box goes on belonging through anything it says of internet radio,
\* its own station named again and again included (WAKE_WINDOW_S).
THEOREM WindowIsKept == Spec => WakeLastsItsWindow
<1> DEFINE Keeps ==
      \A b \in Boxes :
        Known(b) /\ StillWaking(b) /\ Belongs(b) /\ entry'[b].source \in RadioNames /\ now' = now
          /\ allowed' = allowed
          => Belongs(b)'
<1>1. TypeOK /\ [Next]_vars => Keeps
  <2> SUFFICES ASSUME TypeOK, [Next]_vars, NEW b \in Boxes,
                      StillWaking(b), Belongs(b), entry'[b].source \in RadioNames, now' = now,
                      allowed' = allowed
               PROVE  Belongs(b)'
    OBVIOUS
  <2>1. Awaiting(b)' BY AwaitingStep DEF Belongs, Awaiting
  <2> QED BY <2>1 DEF Belongs, Awaiting, RadioNames
<1>2. TypeOK /\ [Next]_vars => [Keeps]_vars BY <1>1
<1> QED BY <1>2, TypeCorrect, PTL DEF Spec, WakeLastsItsWindow
-----------------------------------------------------------------------------
(* The rule without its moments *)

Entries == Timed!Entries

\* What Timeless keeps of a record read at moment t.
Kept(h, t) ==
  [known |-> TRUE, source |-> h.source, waking |-> h.woke_at # NotAwake /\ t - h.woke_at <= WakeWindow,
   fresh |-> t - h.last_seen <= UnreachableTimeout, remembered |-> h.remembered]

LEMMA EntriesSpelled ==
  Entries = [known : BOOLEAN, source : Names \cup {"none"}, waking : BOOLEAN, fresh : BOOLEAN,
             remembered : BOOLEAN]
BY DEF Entries, Timed!Entries, Timed!Sources, Timed!NoSource, Names

LEMMA SameEntry ==
  ASSUME NEW g \in Entries, NEW h \in Entries,
         g.source = h.source, g.known <=> h.known, g.waking <=> h.waking, g.fresh <=> h.fresh,
         g.remembered <=> h.remembered
  PROVE  g = h
<1>1. \A x, y \in BOOLEAN : (x <=> y) => x = y OBVIOUS
<1>2. /\ g.known = h.known /\ g.waking = h.waking /\ g.fresh = h.fresh
      /\ g.remembered = h.remembered
  BY <1>1, EntriesSpelled
<1> QED BY <1>2, EntriesSpelled

LEMMA ReadIsAnEntry ==
  ASSUME NEW h \in Records, NEW t \in Int
  PROVE  /\ Kept(h, t) \in Entries
         /\ Kept(h, t).known /\ Kept(h, t).source = h.source
         /\ (Kept(h, t).remembered <=> h.remembered)
         /\ (Kept(h, t).waking <=> h.woke_at # NotAwake /\ t - h.woke_at <= WakeWindow)
         /\ (Kept(h, t).fresh <=> t - h.last_seen <= UnreachableTimeout)
<1> DEFINE waking == h.woke_at # NotAwake /\ t - h.woke_at <= WakeWindow
           fresh  == t - h.last_seen <= UnreachableTimeout
<1>1. waking \in BOOLEAN /\ fresh \in BOOLEAN OBVIOUS
<1>2. h.source \in Names \cup {"none"} /\ h.remembered \in BOOLEAN BY DEF Records
<1>3. Kept(h, t) = [known |-> TRUE, source |-> h.source, waking |-> waking, fresh |-> fresh,
                    remembered |-> h.remembered]
  BY DEF Kept
<1> HIDE DEF waking, fresh
<1>4. Kept(h, t) \in Entries BY <1>1, <1>2, <1>3, EntriesSpelled
<1>5. Kept(h, t).waking = waking /\ Kept(h, t).fresh = fresh BY <1>3
<1>6. Kept(h, t).known /\ Kept(h, t).source = h.source /\ (Kept(h, t).remembered <=> h.remembered)
  BY <1>3
<1> QED BY <1>4, <1>5, <1>6 DEF waking, fresh

LEMMA UnheardIsAnEntry ==
  /\ Timed!Unheard \in Entries
  /\ ~Timed!Unheard.known /\ Timed!Unheard.source = "none" /\ ~Timed!Unheard.waking
  /\ ~Timed!Unheard.fresh /\ ~Timed!Unheard.remembered
BY EntriesSpelled DEF Timed!Unheard, Timed!NoSource

LEMMA NamedIs ==
  ASSUME NEW h \in Entries, NEW s \in Names
  PROVE  /\ Timed!Named(h, s) \in Entries
         /\ Timed!Named(h, s).known /\ Timed!Named(h, s).source = s
         /\ Timed!Named(h, s).fresh /\ ~Timed!Named(h, s).remembered
         /\ Timed!Named(h, s).waking <=> s \in RadioNames /\ (h.waking \/ h.source = "standby")
BY EntriesSpelled DEF Timed!Named, Timed!RadioNames, RadioNames

LEMMA SpokeIs ==
  ASSUME NEW h \in Entries
  PROVE  /\ Timed!Spoke(h) \in Entries
         /\ Timed!Spoke(h).known /\ Timed!Spoke(h).source = h.source
         /\ (Timed!Spoke(h).waking <=> h.waking) /\ Timed!Spoke(h).fresh
         /\ (Timed!Spoke(h).remembered <=> h.remembered)
BY EntriesSpelled DEF Timed!Spoke

LEMMA WokenIs ==
  ASSUME NEW h \in Entries, h.known
  PROVE  /\ Timed!Woken(h) \in Entries
         /\ Timed!Woken(h).known /\ Timed!Woken(h).source = h.source
         /\ Timed!Woken(h).waking /\ (Timed!Woken(h).fresh <=> h.fresh)
         /\ (Timed!Woken(h).remembered <=> h.remembered)
BY EntriesSpelled DEF Timed!Woken

LEMMA SeenAliveIs ==
  ASSUME NEW h \in Entries, h.known
  PROVE  /\ Timed!SeenAlive(h) \in Entries
         /\ Timed!SeenAlive(h).known /\ Timed!SeenAlive(h).source = h.source
         /\ (Timed!SeenAlive(h).waking <=> h.waking) /\ Timed!SeenAlive(h).fresh
         /\ (Timed!SeenAlive(h).remembered <=> h.remembered)
BY EntriesSpelled DEF Timed!SeenAlive
-----------------------------------------------------------------------------
(* Each event at a box is the untimed rule's event at that box. *)

AllHeard == [b \in Boxes |-> Timeless(b)]

LEMMA TimelessIs ==
  ASSUME TypeOK, NEW b \in Boxes
  PROVE  /\ Known(b) => entry[b] \in Records /\ Timeless(b) = Kept(entry[b], now)
         /\ ~Known(b) => Timeless(b) = Timed!Unheard
         /\ Timeless(b) \in Entries
         /\ now \in Int
<1>1. now \in Int BY ClockAssumption DEF TypeOK
<1>2. Known(b) => entry[b] \in Records /\ Timeless(b) = Kept(entry[b], now)
  BY DEF TypeOK, Known, Timeless, Kept, StillWaking, Reachable
<1>3. ~Known(b) => Timeless(b) = Timed!Unheard
  BY DEF Timeless, Timed!Unheard, Timed!NoSource
<1> QED BY <1>1, <1>2, <1>3, ReadIsAnEntry, UnheardIsAnEntry

\* A step that sets one box's record leaves the others as they were heard.
LEMMA OnlyThatBox ==
  ASSUME TypeOK, NEW b \in Boxes, NEW h \in Records, Sets(b, h)
  PROVE  /\ entry'[b] = h
         /\ AllHeard' = [AllHeard EXCEPT ![b] = Kept(h, now)]
         /\ allowed' = allowed
<1>1. entry' = [entry EXCEPT ![b] = h] /\ now' = now /\ allowed' = allowed BY DEF Sets
<1>2. entry'[b] = h /\ \A c \in Boxes \ {b} : entry'[c] = entry[c] BY <1>1 DEF TypeOK
<1>3. ASSUME NEW c \in Boxes \ {b} PROVE Timeless(c)' = Timeless(c)
  BY <1>1, <1>2 DEF Timeless, Known, StillWaking, Reachable
<1>4. Timeless(b)' = Kept(h, now)
  <2>1. Known(b)' BY <1>2, RecordIsSomething DEF Known, Nothing
  <2> QED BY <1>1, <1>2, <2>1 DEF Timeless, Kept, StillWaking, Reachable
<1> QED BY <1>1, <1>2, <1>3, <1>4 DEF AllHeard

LEMMA ObserveMaps ==
  ASSUME TypeOK, NEW b \in Boxes, Observe(b)
  PROVE  Timed!Observe(b)
<1>1. PICK s \in Names, at \in Received :
        LET h == IF Known(b) THEN entry[b] ELSE Fresh(at) IN
        Sets(b, [last_seen |-> at, source |-> s,
                 woke_at |-> WakeAfter(h, s, at), remembered |-> FALSE])
  BY DEF Observe
<1> DEFINE h == IF Known(b) THEN entry[b] ELSE Fresh(at)
           r == [last_seen |-> at, source |-> s, woke_at |-> WakeAfter(h, s, at), remembered |-> FALSE]
           e == Timeless(b)
<1>2. h \in Records BY FreshIsARecord, MomentsRead DEF TypeOK, Known
<1>3. r \in Records
  <2>1. WakeAfter(h, s, at) \in Moments \cup {NotAwake} BY <1>2, WakeIsAMoment, MomentsRead
  <2> HIDE DEF h
  <2> QED BY <2>1, MomentsRead DEF Records
<1>4. e \in Entries /\ now \in Int BY TimelessIs
<1>5. e.source = h.source /\ (e.waking <=> h.woke_at # NotAwake /\ now - h.woke_at <= WakeWindow)
  <2>1. CASE Known(b)
    <3>1. h = entry[b] /\ e = Kept(entry[b], now) /\ entry[b] \in Records BY <2>1, TimelessIs
    <3> HIDE DEF h, e
    <3> QED BY <3>1, <1>4, ReadIsAnEntry
  <2>2. CASE ~Known(b)
    <3>1. e = Timed!Unheard BY <2>2, TimelessIs
    <3>2. h.source = "none" /\ h.woke_at = NotAwake BY <2>2 DEF Fresh
    <3> HIDE DEF h, e
    <3> QED BY <3>1, <3>2, UnheardIsAnEntry
  <2> QED BY <2>1, <2>2
<1>6. /\ Kept(r, now) \in Entries /\ Kept(r, now).known /\ Kept(r, now).source = s
      /\ ~Kept(r, now).remembered
      /\ Kept(r, now).waking <=> WakeAfter(h, s, at) # NotAwake /\ now - WakeAfter(h, s, at) <= WakeWindow
      /\ Kept(r, now).fresh <=> now - at <= UnreachableTimeout
  <2>1. /\ r.last_seen = at /\ r.source = s /\ r.woke_at = WakeAfter(h, s, at) /\ r.remembered = FALSE
    OBVIOUS
  <2> HIDE DEF h, r, e
  <2> QED BY <1>3, <1>4, <2>1, ReadIsAnEntry
<1>7. Kept(r, now).fresh
  <2>1. now - at <= UnreachableTimeout BY <1>4, MomentsRead, ClockAssumption
  <2> HIDE DEF h, r, e
  <2> QED BY <1>6, <2>1
<1>8. Kept(r, now).waking <=> s \in RadioNames /\ (e.waking \/ e.source = "standby")
  <2>1. now - at <= WakeWindow /\ at # NotAwake BY MomentsRead, ClockAssumption DEF TypeOK
  <2> HIDE DEF h, r, e
  <2> QED BY <1>5, <1>6, <2>1 DEF WakeAfter
<1>9. Kept(r, now) = Timed!Named(e, s)
  <2> HIDE DEF h, r, e
  <2>1. /\ Timed!Named(e, s) \in Entries
        /\ Timed!Named(e, s).known /\ Timed!Named(e, s).source = s
        /\ Timed!Named(e, s).fresh /\ ~Timed!Named(e, s).remembered
        /\ Timed!Named(e, s).waking <=> s \in RadioNames /\ (e.waking \/ e.source = "standby")
    BY <1>4, NamedIs
  <2>2. Kept(r, now).waking <=> Timed!Named(e, s).waking BY <1>8, <2>1
  <2>3. Kept(r, now).source = Timed!Named(e, s).source BY <1>6, <2>1
  <2>4. ~Kept(r, now).remembered /\ Kept(r, now).known /\ Kept(r, now) \in Entries BY <1>6
  <2> QED BY <1>7, <2>1, <2>2, <2>3, <2>4, SameEntry
<1>10. AllHeard' = [AllHeard EXCEPT ![b] = Timed!Named(e, s)] /\ allowed' = allowed
  <2>1. Sets(b, r) BY <1>1
  <2> HIDE DEF h, r, e
  <2> QED BY <1>3, <1>9, <2>1, OnlyThatBox
<1>11. AllHeard[b] = e BY DEF AllHeard
<1> HIDE DEF h, r, e
<1> QED BY <1>10, <1>11 DEF Timed!Observe, Timed!Observes, Timed!Sources, Names, AllHeard

LEMMA FrameMaps ==
  ASSUME TypeOK, NEW b \in Boxes, Frame(b)
  PROVE  Timed!Frame(b)
<1>1. PICK at \in Received :
        LET h == IF Known(b) THEN entry[b] ELSE Fresh(at) IN Sets(b, [h EXCEPT !.last_seen = at])
  BY DEF Frame
<1> DEFINE h == IF Known(b) THEN entry[b] ELSE Fresh(at)
           r == [h EXCEPT !.last_seen = at]
           e == Timeless(b)
<1>2. h \in Records BY FreshIsARecord, MomentsRead DEF TypeOK, Known
<1>3. /\ r \in Records /\ r.last_seen = at /\ r.source = h.source /\ r.woke_at = h.woke_at
      /\ r.remembered = h.remembered
  <2> HIDE DEF h
  <2> QED BY <1>2, MomentsRead DEF Records
<1>4. e \in Entries /\ now \in Int BY TimelessIs
<1>5. /\ e.source = h.source /\ (e.waking <=> h.woke_at # NotAwake /\ now - h.woke_at <= WakeWindow)
      /\ (e.remembered <=> h.remembered)
  <2>1. CASE Known(b)
    <3>1. h = entry[b] /\ e = Kept(entry[b], now) /\ entry[b] \in Records BY <2>1, TimelessIs
    <3> HIDE DEF h, e
    <3> QED BY <3>1, <1>4, ReadIsAnEntry
  <2>2. CASE ~Known(b)
    <3>1. e = Timed!Unheard BY <2>2, TimelessIs
    <3>2. h.source = "none" /\ h.woke_at = NotAwake /\ ~h.remembered BY <2>2 DEF Fresh
    <3> HIDE DEF h, e
    <3> QED BY <3>1, <3>2, UnheardIsAnEntry
  <2> QED BY <2>1, <2>2
<1>6. now - at <= UnreachableTimeout BY <1>4, MomentsRead, ClockAssumption
<1>7. Kept(r, now) = Timed!Spoke(e)
  <2> HIDE DEF h, r, e
  <2>1. /\ Timed!Spoke(e) \in Entries
        /\ Timed!Spoke(e).known /\ Timed!Spoke(e).source = e.source
        /\ (Timed!Spoke(e).waking <=> e.waking) /\ Timed!Spoke(e).fresh
        /\ (Timed!Spoke(e).remembered <=> e.remembered)
    BY <1>4, SpokeIs
  <2>2. /\ Kept(r, now) \in Entries /\ Kept(r, now).known /\ Kept(r, now).source = e.source
        /\ (Kept(r, now).waking <=> e.waking) /\ Kept(r, now).fresh
        /\ (Kept(r, now).remembered <=> e.remembered)
    BY <1>3, <1>4, <1>5, <1>6, ReadIsAnEntry
  <2> QED BY <2>1, <2>2, SameEntry
<1>8. AllHeard' = [AllHeard EXCEPT ![b] = Timed!Spoke(e)] /\ allowed' = allowed
  <2>1. Sets(b, r) BY <1>1
  <2> HIDE DEF h, r, e
  <2> QED BY <1>3, <1>7, <2>1, OnlyThatBox
<1>9. AllHeard[b] = e BY DEF AllHeard
<1> HIDE DEF h, r, e
<1> QED BY <1>8, <1>9 DEF Timed!Frame, Timed!Observes, AllHeard

LEMMA WokeMaps ==
  ASSUME TypeOK, NEW b \in Boxes, Woke(b)
  PROVE  Timed!Woke(b)
<1>1. PICK at \in Received : Sets(b, [entry[b] EXCEPT !.woke_at = at]) BY DEF Woke
<1> DEFINE r == [entry[b] EXCEPT !.woke_at = at]
           e == Timeless(b)
<1>2. entry[b] \in Records /\ e = Kept(entry[b], now) /\ now \in Int BY TimelessIs DEF Woke
<1>3. /\ r \in Records /\ r.last_seen = entry[b].last_seen /\ r.source = entry[b].source
      /\ r.woke_at = at /\ r.remembered = entry[b].remembered
  BY <1>2, MomentsRead DEF Records
<1>4. now - at <= WakeWindow /\ at # NotAwake BY <1>2, MomentsRead, ClockAssumption
<1>5. Kept(r, now) = Timed!Woken(e)
  <2> HIDE DEF r, e
  <2>1. /\ e \in Entries /\ e.known /\ e.source = entry[b].source
        /\ (e.fresh <=> now - entry[b].last_seen <= UnreachableTimeout)
        /\ (e.remembered <=> entry[b].remembered)
    BY <1>2, ReadIsAnEntry
  <2>2. /\ Timed!Woken(e) \in Entries
        /\ Timed!Woken(e).known /\ Timed!Woken(e).source = e.source
        /\ Timed!Woken(e).waking /\ (Timed!Woken(e).fresh <=> e.fresh)
        /\ (Timed!Woken(e).remembered <=> e.remembered)
    BY <2>1, WokenIs
  <2>3. /\ Kept(r, now) \in Entries /\ Kept(r, now).known /\ Kept(r, now).source = e.source
        /\ Kept(r, now).waking /\ (Kept(r, now).fresh <=> e.fresh)
        /\ (Kept(r, now).remembered <=> e.remembered)
    BY <1>2, <1>3, <1>4, <2>1, ReadIsAnEntry
  <2> QED BY <2>2, <2>3, SameEntry
<1>6. AllHeard' = [AllHeard EXCEPT ![b] = Timed!Woken(e)] /\ allowed' = allowed
  <2> HIDE DEF e
  <2> QED BY <1>1, <1>3, <1>5, OnlyThatBox
<1>7. AllHeard[b] = e BY DEF AllHeard
<1> HIDE DEF r, e
<1> QED BY <1>6, <1>7 DEF Timed!Woke, Timed!Observes, AllHeard

LEMMA SeenMaps ==
  ASSUME TypeOK, NEW b \in Boxes, Seen(b)
  PROVE  Timed!Seen(b)
<1> DEFINE r == [entry[b] EXCEPT !.last_seen = now]
           e == Timeless(b)
<1>1. Sets(b, r) BY DEF Seen
<1>2. entry[b] \in Records /\ e = Kept(entry[b], now) /\ now \in Int BY TimelessIs DEF Seen
<1>3. /\ r \in Records /\ r.last_seen = now /\ r.source = entry[b].source
      /\ r.woke_at = entry[b].woke_at /\ r.remembered = entry[b].remembered
  BY <1>2, MomentsRead DEF Records
<1>4. now - now <= UnreachableTimeout BY <1>2, ClockAssumption
<1>5. Kept(r, now) = Timed!SeenAlive(e)
  <2> HIDE DEF r, e
  <2>1. /\ e \in Entries /\ e.known /\ e.source = entry[b].source
        /\ (e.waking <=> entry[b].woke_at # NotAwake /\ now - entry[b].woke_at <= WakeWindow)
        /\ (e.remembered <=> entry[b].remembered)
    BY <1>2, ReadIsAnEntry
  <2>2. /\ Timed!SeenAlive(e) \in Entries
        /\ Timed!SeenAlive(e).known /\ Timed!SeenAlive(e).source = e.source
        /\ (Timed!SeenAlive(e).waking <=> e.waking) /\ Timed!SeenAlive(e).fresh
        /\ (Timed!SeenAlive(e).remembered <=> e.remembered)
    BY <2>1, SeenAliveIs
  <2>3. /\ Kept(r, now) \in Entries /\ Kept(r, now).known /\ Kept(r, now).source = e.source
        /\ (Kept(r, now).waking <=> e.waking) /\ Kept(r, now).fresh
        /\ (Kept(r, now).remembered <=> e.remembered)
    BY <1>2, <1>3, <1>4, <2>1, ReadIsAnEntry
  <2> QED BY <2>2, <2>3, SameEntry
<1>6. AllHeard' = [AllHeard EXCEPT ![b] = Timed!SeenAlive(e)] /\ allowed' = allowed
  <2> HIDE DEF e
  <2> QED BY <1>1, <1>3, <1>5, OnlyThatBox
<1>7. AllHeard[b] = e BY DEF AllHeard
<1> HIDE DEF r, e
<1> QED BY <1>6, <1>7 DEF Timed!Seen, Timed!Observes, AllHeard

LEMMA RestoreMaps == TypeOK /\ Restore => Timed!Restore
<1> SUFFICES ASSUME TypeOK, Restore PROVE Timed!Restore  OBVIOUS
<1>1. PICK members \in SUBSET Boxes :
        /\ entry' = [b \in Boxes |-> IF b \in members /\ ~Known(b)
                                       THEN [Fresh(now) EXCEPT !.remembered = TRUE] ELSE entry[b]]
        /\ now' = now /\ allowed' = allowed
  BY DEF Restore
<1> DEFINE r == [Fresh(now) EXCEPT !.remembered = TRUE]
<1>2. now \in Int /\ r \in Records BY FreshIsARecord, MomentsRead, ClockAssumption DEF TypeOK, Moments
<1>3. r.last_seen = now /\ r.source = "none" /\ r.woke_at = NotAwake /\ r.remembered BY DEF Fresh
<1>4. ASSUME NEW b \in Boxes
      PROVE  Timeless(b)' = IF b \in members THEN Timed!Restored(Timeless(b)) ELSE Timeless(b)
  <2>1. CASE b \in members /\ ~Known(b)
    <3>1. entry'[b] = r BY <1>1, <2>1
    <3>2. Known(b)' BY <1>2, <3>1, RecordIsSomething DEF Known
    <3>3. Timeless(b)' = Kept(r, now)
      BY <1>1, <3>1, <3>2 DEF Timeless, Kept, StillWaking, Reachable
    <3>4. Timeless(b) = Timed!Unheard /\ ~Timed!Unheard.known BY <2>1, TimelessIs, UnheardIsAnEntry
    <3> DEFINE g == [Timed!Unheard EXCEPT !.known = TRUE, !.fresh = TRUE, !.remembered = TRUE]
    <3>5. Timed!Restored(Timeless(b)) = g BY <3>4 DEF Timed!Restored
    <3>6. g \in Entries /\ g.known /\ g.source = "none" /\ ~g.waking /\ g.fresh /\ g.remembered
      BY UnheardIsAnEntry, EntriesSpelled
    <3>7. now - now <= UnreachableTimeout BY <1>2, ClockAssumption
    <3> HIDE DEF r, g
    <3>8. /\ Kept(r, now) \in Entries /\ Kept(r, now).known /\ Kept(r, now).source = "none"
          /\ ~Kept(r, now).waking /\ Kept(r, now).fresh /\ Kept(r, now).remembered
      BY <1>2, <1>3, <3>7, ReadIsAnEntry
    <3>9. Kept(r, now) = g BY <3>6, <3>8, SameEntry
    <3> QED BY <2>1, <3>3, <3>5, <3>9
  <2>2. CASE ~(b \in members /\ ~Known(b))
    <3>1. entry'[b] = entry[b] BY <1>1, <2>2
    <3>2. Timeless(b)' = Timeless(b) BY <1>1, <3>1 DEF Timeless, Known, StillWaking, Reachable
    <3>3. Known(b) => Timeless(b).known BY DEF Timeless
    <3> QED BY <2>2, <3>2, <3>3 DEF Timed!Restored
  <2> QED BY <2>1, <2>2
<1>5. AllHeard' = [b \in Boxes |-> IF b \in members THEN Timed!Restored(AllHeard[b]) ELSE AllHeard[b]]
  BY <1>4 DEF AllHeard
<1> QED BY <1>1, <1>5 DEF Timed!Restore, AllHeard

\* Time takes a wake and freshness away, and gives neither back.
LEMMA OnlyWanes ==
  ASSUME NEW h \in Records, NEW t \in Int, NEW u \in Int, t <= u
  PROVE  /\ Kept(h, u).waking => Kept(h, t).waking
         /\ Kept(h, u).fresh => Kept(h, t).fresh
<1>1. h.last_seen \in Int /\ h.woke_at \in Int BY ClockAssumption DEF Records, Moments, NotAwake
<1>2. /\ u - h.woke_at <= WakeWindow => t - h.woke_at <= WakeWindow
      /\ u - h.last_seen <= UnreachableTimeout => t - h.last_seen <= UnreachableTimeout
  BY <1>1, ClockAssumption
<1> QED BY <1>2, ReadIsAnEntry

LEMMA TickMaps == TypeOK /\ Tick => Timed!TimePasses
<1> SUFFICES ASSUME TypeOK, Tick PROVE Timed!TimePasses  OBVIOUS
<1>1. entry' = entry /\ allowed' = allowed /\ now' = now + 1 BY DEF Tick
<1> DEFINE asleep == {b \in Boxes : Known(b) /\ ~Kept(entry[b], now + 1).waking}
           silent == {b \in Boxes : Known(b) /\ ~Kept(entry[b], now + 1).fresh}
           g(b) == [Timeless(b) EXCEPT !.waking = @ /\ b \notin asleep, !.fresh = @ /\ b \notin silent]
<1>2. ASSUME NEW b \in Boxes PROVE Timeless(b)' = g(b)
  <2> DEFINE e == Timeless(b)
             h == entry[b]
  <2>1. e \in Entries /\ now \in Int BY TimelessIs
  <2>2. /\ g(b) \in Entries /\ (g(b).known <=> e.known) /\ g(b).source = e.source
        /\ (g(b).waking <=> e.waking /\ b \notin asleep) /\ (g(b).fresh <=> e.fresh /\ b \notin silent)
        /\ (g(b).remembered <=> e.remembered)
    <3> HIDE DEF e, asleep, silent
    <3> QED BY <2>1, EntriesSpelled DEF e
  <2>3. CASE Known(b)
    <3>1. h \in Records /\ e = Kept(h, now) BY <2>3, TimelessIs
    <3>2. Timeless(b)' = Kept(h, now + 1)
      BY <1>1, <2>3 DEF Timeless, Known, Kept, StillWaking, Reachable
    <3>3. (b \notin asleep <=> Kept(h, now + 1).waking) /\ (b \notin silent <=> Kept(h, now + 1).fresh)
      BY <2>3
    <3> HIDE DEF e, h, g, asleep, silent
    <3>4. Kept(h, now) \in Entries /\ Kept(h, now + 1) \in Entries
      BY <2>1, <3>1, ReadIsAnEntry
    <3>5. /\ Kept(h, now + 1).known /\ Kept(h, now + 1).source = e.source
          /\ (Kept(h, now + 1).remembered <=> e.remembered) /\ e.known
      BY <2>1, <3>1, ReadIsAnEntry
    <3>6. (Kept(h, now + 1).waking => e.waking) /\ (Kept(h, now + 1).fresh => e.fresh)
      <4>1. now + 1 \in Int /\ now <= now + 1 BY <2>1
      <4> QED BY <2>1, <3>1, <4>1, OnlyWanes
    <3> QED BY <2>2, <3>2, <3>3, <3>4, <3>5, <3>6, SameEntry
  <2>4. CASE ~Known(b)
    <3>1. Timeless(b)' = e BY <1>1, <2>4 DEF Timeless, Known
    <3>2. e = Timed!Unheard BY <2>4, TimelessIs
    <3> HIDE DEF e, g, asleep, silent
    <3> QED BY <2>1, <2>2, <3>1, <3>2, UnheardIsAnEntry, SameEntry
  <2> QED BY <2>3, <2>4
<1>3. AllHeard' = [b \in Boxes |-> g(b)]
  <2> HIDE DEF g
  <2> QED BY <1>2 DEF AllHeard
<1>4. asleep \in SUBSET Boxes /\ silent \in SUBSET Boxes OBVIOUS
<1>5. AllHeard' = [b \in Boxes |-> [AllHeard[b] EXCEPT !.waking = @ /\ b \notin asleep,
                                               !.fresh = @ /\ b \notin silent]]
  <2> HIDE DEF asleep, silent
  <2> QED BY <1>3 DEF AllHeard
<1> HIDE DEF asleep, silent
<1> QED BY <1>1, <1>4, <1>5 DEF Timed!TimePasses, AllHeard

LEMMA InitMaps == Init => Timed!BelongingInit
<1> SUFFICES ASSUME Init PROVE Timed!BelongingInit  OBVIOUS
<1>1. \A b \in Boxes : Timeless(b) = Timed!Unheard
  BY DEF Init, Timeless, Known, Timed!Unheard, Timed!NoSource
<1> QED BY <1>1 DEF Init, Timed!BelongingInit

LEMMA StepMaps == TypeOK /\ [Next]_vars => [Timed!BelongingNext]_(Timed!belongingVars)
<1> SUFFICES ASSUME TypeOK, [Next]_vars PROVE [Timed!BelongingNext]_(Timed!belongingVars)  OBVIOUS
<1>1. ASSUME NEW b \in Boxes, Observe(b) \/ Frame(b) \/ Woke(b) \/ Seen(b)
      PROVE  Timed!BelongingNext
  BY <1>1, ObserveMaps, FrameMaps, WokeMaps, SeenMaps DEF Timed!BelongingNext
<1>2. CASE Restore BY <1>2, RestoreMaps DEF Timed!BelongingNext
<1>3. CASE Allow
  <2>1. \A b \in Boxes : Timeless(b)' = Timeless(b)
    BY <1>3 DEF Allow, Timeless, Known, StillWaking, Reachable
  <2>2. Timed!Allow BY <1>3, <2>1 DEF Allow, Timed!Allow
  <2> QED BY <2>2 DEF Timed!BelongingNext
<1>4. CASE Tick BY <1>4, TickMaps DEF Timed!BelongingNext
<1>5. CASE UNCHANGED vars
  <2>1. \A b \in Boxes : Timeless(b)' = Timeless(b)
    BY <1>5 DEF vars, Timeless, Known, StillWaking, Reachable
  <2> QED BY <1>5, <2>1 DEF vars, Timed!belongingVars
<1> QED BY <1>1, <1>2, <1>3, <1>4, <1>5 DEF Next

\* The rule with its moments is the rule without them, for every number of
\* boxes and every setting of the windows that an event's delay fits in
\* (domain/membership.py: observe, woke, seen, restore, and _belongs's clock).
THEOREM TimeIsAllItAdds == Spec => ImplementsBelonging
<1>1. Init => Timed!BelongingInit BY InitMaps
<1>2. TypeOK /\ [Next]_vars => [Timed!BelongingNext]_(Timed!belongingVars) BY StepMaps
<1> QED BY <1>1, <1>2, TypeCorrect, PTL DEF Spec, ImplementsBelonging, Timed!BelongingSpec
-----------------------------------------------------------------------------
(* SpeakerBook *)

\* What the book makes of a frame or an answer, at the one moment its clock stands at.
Heards ==
  {h \in [last_seen : {0}, source : Playing, woke_at : {0, NotAwake}, remembered : {FALSE}] :
     h.source # "radio" => h.woke_at = NotAwake}

EntriesTyped ==
  /\ now = 0 /\ dialled = {}
  /\ entry \in [Boxes -> Heards \cup {Nothing}] /\ said \in [Boxes -> Heards \cup {Nothing}]

BoxesTyped ==
  /\ plays \in [Boxes -> Playing] /\ channel \in [Boxes -> {"none", "apart", "open"}]
  /\ events \in Seq([box : Boxes, source : Playing]) /\ unheard \subseteq Boxes

RoundTyped ==
  /\ question \in [Boxes -> {"none", "out"} \cup Answers]
  /\ spoke \subseteq Boxes /\ last \in [Boxes -> Playing \cup {"none"}]
  /\ round \in [asked : SUBSET Boxes, opensAt : Nat, placed : SUBSET Boxes, nr : Nat]
  /\ switchedOn \in Seq(Boxes) /\ rank \in [Boxes -> Nat \X {0, 1} \X Nat]

BookTyped ==
  /\ reply \in Lists \cup {NoReply} /\ book \subseteq Boxes
  /\ poller \in {"read", "reading", "seed", "ask", "opened", "asking", "wait"}

SeedTyped ==
  /\ seeding \in [Seeders -> {"idle", "waits", "holds"}]
  /\ asking \in [Seeders -> Boxes \cup {"none"}] /\ asked \subseteq Boxes

BookTypeOK == EntriesTyped /\ BoxesTyped /\ RoundTyped /\ BookTyped /\ SeedTyped

\* Questions go out in a round, and only to boxes of the book, which are the ones that are watched.
OfTheBook ==
  /\ poller # "asking" => \A b \in Boxes : question[b] = "none"
  /\ \A b \in Boxes : question[b] # "none" => b \in round.asked
  /\ round.asked \subseteq book
  /\ \A b \in Boxes : channel[b] # "none" => b \in book
  /\ \A i \in DOMAIN events : events[i].box \in book
  /\ \A i \in DOMAIN switchedOn : switchedOn[i] \in book

\* The poller seeds at its one place.
PollerSeeds == seeding["poller"] # "idle" => poller = "seed"
-----------------------------------------------------------------------------
(* Who stands where among the boxes switched on *)

\* A box stands there once, with a rank of this round or an earlier one, and none that a frame read now would not come after.
OnceEach ==
  /\ \A i, j \in DOMAIN switchedOn : switchedOn[i] = switchedOn[j] => i = j
  /\ \A i \in DOMAIN switchedOn :
       LET r == rank[switchedOn[i]] IN r[1] <= round.nr /\ (r[1] = round.nr /\ r[2] = 1 => r[3] < Len(switchedOn))

\* While a round is out: who was there before it, the answers placed, the frames read since.
InThreeParts ==
  LET opens == round.opensAt
      frames == round.opensAt + Cardinality(round.placed)
  IN RoundIsOut =>
       /\ round.placed \subseteq round.asked /\ frames <= Len(switchedOn)
       /\ \A i \in 1 .. opens : rank[switchedOn[i]][1] < round.nr
       /\ \A i \in opens + 1 .. frames :
            switchedOn[i] \in round.placed /\ rank[switchedOn[i]] = <<round.nr, 0, Place(switchedOn[i])>>
       /\ \A o \in round.placed : \E i \in opens + 1 .. frames : switchedOn[i] = o
       /\ \A i \in frames + 1 .. Len(switchedOn) : rank[switchedOn[i]][1] = round.nr /\ rank[switchedOn[i]][2] = 1

PlaceInv == OnceEach /\ InThreeParts /\ ReplySpeedDecidesNothing
-----------------------------------------------------------------------------
(* Who seeds *)

Early(b) == RoundIsOut => rank[b][1] < round.nr

\* One that holds the lock asks a box that stands before all not asked yet, and the list is still empty.
Holds(t) ==
  /\ channels = {} /\ asking[t] \in asked /\ Early(asking[t])
  /\ \E i \in DOMAIN switchedOn : switchedOn[i] = asking[t] /\ \A j \in 1 .. i - 1 : switchedOn[j] \in asked

OneSeeds ==
  /\ \A t, u \in Seeders : seeding[t] = "holds" /\ seeding[u] = "holds" => t = u
  /\ \A t \in Seeders : seeding[t] = "holds" => Holds(t)
  /\ seeding["pass"] = "waits" => \A i \in DOMAIN switchedOn : Early(switchedOn[i])
-----------------------------------------------------------------------------
(* What is known of a box, and what it said *)

SourceOf(h) == IF h = Nothing THEN "none" ELSE h.source

Unread(b) == {i \in DOMAIN events : events[i].box = b}

LastUnread(b, i) == i \in Unread(b) /\ \A j \in Unread(b) : j <= i

OnlyRadioAfter(b, i) == \A j \in Unread(b) : j > i => events[j].source = "radio"

\* An entry that the frames still unread will turn into one of this source, and into one that is awake.
ComesTo(h, b, s) ==
  /\ Unread(b) = {} => SourceOf(h) = s
  /\ \A i \in Unread(b) : LastUnread(b, i) => events[i].source = s

WillWake(h, b) ==
  \/ OnlyRadioAfter(b, 0) /\ (Awake(h) \/ (SourceOf(h) = "standby" /\ Unread(b) # {}))
  \/ \E i \in Unread(b) : events[i].source = "standby" /\ OnlyRadioAfter(b, i) /\ ~LastUnread(b, i)

\* The entry with the answer on its way taken.
WithItsAnswer(b) ==
  IF question[b] \notin Playing THEN entry[b]
  ELSE IF ~Stale(b) THEN Heard(entry[b], question[b])
  ELSE IF question[b] = "standby" /\ last[b] \in {"radio", "other"}
       THEN Heard(Heard(entry[b], question[b]), last[b])
       ELSE entry[b]

\* A box that named a source since it was asked is known by that.
StaleIsKnown == \A b \in spoke : question[b] # "none" => SourceOf(entry[b]) = last[b]

Told(b) ==
  /\ ComesTo(WithItsAnswer(b), b, SourceOf(said[b]))
  /\ Awake(said[b]) => WillWake(WithItsAnswer(b), b)

KnownInv == StaleIsKnown /\ \A b \in Boxes \ unheard : Told(b)

BookInv == BookTypeOK /\ OfTheBook /\ PollerSeeds /\ PlaceInv
-----------------------------------------------------------------------------
(* Sequences and places *)

LEMMA LessIsWellFounded ==
  \E R : IsWellFoundedOn(R, Nat) /\ \A x, y \in Nat : y < x => <<y, x>> \in R
<1>1. IsWellFoundedOn(OpToRel(<,Nat), Nat) BY NatLessThanWellFounded
<1>2. \A x, y \in Nat : y < x => <<y,x>> \in OpToRel(<,Nat) BY DEF OpToRel
<1> QED BY <1>1, <1>2

LEMMA Least ==
  ASSUME NEW T \in SUBSET Nat, T # {}
  PROVE  \E x \in T : \A y \in T : x <= y
<1>1. PICK R : IsWellFoundedOn(R, Nat) /\ \A x, y \in Nat : y < x => <<y, x>> \in R BY LessIsWellFounded
<1>2. PICK x \in T : \A y \in T : <<y, x>> \notin R BY <1>1, WFMin
<1>3. ASSUME NEW y \in T PROVE x <= y
  <2>1. x \in Nat /\ y \in Nat /\ <<y, x>> \notin R BY <1>2
  <2>2. ~(y < x) BY <1>1, <2>1
  <2> QED BY <2>1, <2>2
<1> QED BY <1>3

\* Where the boxes stand after one is put among them.
LEMMA Inserted ==
  ASSUME NEW S, NEW s \in Seq(S), NEW at \in 1 .. Len(s) + 1, NEW e \in S
  PROVE  LET t == InsertAt(s, at, e) IN
         /\ t \in Seq(S) /\ Len(t) = Len(s) + 1 /\ t[at] = e
         /\ \A i \in 1 .. at - 1 : t[i] = s[i]
         /\ \A i \in at + 1 .. Len(s) + 1 : t[i] = s[i - 1]
<1> DEFINE a == SubSeq(s, 1, at - 1)
           c == SubSeq(s, at, Len(s))
           t == InsertAt(s, at, e)
<1>0. Len(s) \in Nat /\ at \in Nat BY LenProperties
<1>1. a \in Seq(S) /\ Len(a) = at - 1 /\ \A i \in 1 .. at - 1 : a[i] = s[i]
  <2>1. \A i \in 1 .. at - 1 : s[i] \in S BY <1>0, ElementOfSeq
  <2>2. /\ a \in Seq(S) /\ Len(a) = IF 1 <= at - 1 THEN at - 1 - 1 + 1 ELSE 0
        /\ \A i \in 1 .. at - 1 - 1 + 1 : a[i] = s[1 + i - 1]
    <3> HIDE DEF a
    <3>1. 1 \in Int /\ at - 1 \in Int BY <1>0
    <3> QED BY <2>1, <3>1, SubSeqProperties DEF a
  <2> HIDE DEF a
  <2> QED BY <2>2, <1>0
<1>2. c \in Seq(S) /\ Len(c) = Len(s) - at + 1 /\ \A i \in 1 .. Len(s) - at + 1 : c[i] = s[at + i - 1]
  <2>1. \A i \in at .. Len(s) : s[i] \in S BY <1>0, ElementOfSeq
  <2>2. /\ c \in Seq(S) /\ Len(c) = IF at <= Len(s) THEN Len(s) - at + 1 ELSE 0
        /\ \A i \in 1 .. Len(s) - at + 1 : c[i] = s[at + i - 1]
    <3>1. Len(s) \in Int /\ at \in Int BY <1>0
    <3> QED BY <2>1, <3>1, SubSeqProperties
  <2> HIDE DEF c
  <2> QED BY <2>2, <1>0
<1>3. <<e>> \in Seq(S) /\ Len(<<e>>) = 1 /\ <<e>>[1] = e OBVIOUS
<1> DEFINE ae == a \o <<e>>
<1>4. /\ ae \in Seq(S) /\ Len(ae) = at
      /\ \A i \in 1 .. at : ae[i] = IF i <= at - 1 THEN a[i] ELSE <<e>>[i - (at - 1)]
  <2> HIDE DEF a
  <2>1. /\ a \o <<e>> \in Seq(S) /\ Len(a \o <<e>>) = Len(a) + Len(<<e>>)
        /\ \A i \in 1 .. Len(a) + Len(<<e>>) : (a \o <<e>>)[i] = IF i <= Len(a) THEN a[i] ELSE <<e>>[i - Len(a)]
    BY <1>1, <1>3, ConcatProperties
  <2> QED BY <1>0, <1>1, <1>3, <2>1
<1>5. /\ t \in Seq(S) /\ Len(t) = Len(s) + 1
      /\ \A i \in 1 .. Len(s) + 1 : t[i] = IF i <= at THEN ae[i] ELSE c[i - at]
  <2>1. t = ae \o c BY DEF InsertAt
  <2> HIDE DEF ae, c, t
  <2>2. /\ ae \o c \in Seq(S) /\ Len(ae \o c) = Len(ae) + Len(c)
        /\ \A i \in 1 .. Len(ae) + Len(c) : (ae \o c)[i] = IF i <= Len(ae) THEN ae[i] ELSE c[i - Len(ae)]
    BY <1>2, <1>4, ConcatProperties
  <2> QED BY <1>0, <1>2, <1>4, <2>1, <2>2
<1> HIDE DEF a, c, t, ae
<1>6. t[at] = e
  <2>1. t[at] = ae[at] BY <1>0, <1>5
  <2>2. ae[at] = <<e>>[at - (at - 1)] BY <1>0, <1>4
  <2>3. at - (at - 1) = 1 BY <1>0
  <2> QED BY <1>3, <2>1, <2>2, <2>3
<1>7. \A i \in 1 .. at - 1 : t[i] = s[i] BY <1>0, <1>1, <1>4, <1>5
<1>8. \A i \in at + 1 .. Len(s) + 1 : t[i] = s[i - 1]
  <2> TAKE i \in at + 1 .. Len(s) + 1
  <2>1. t[i] = c[i - at] BY <1>0, <1>5
  <2>2. i - at \in 1 .. Len(s) - at + 1 /\ at + (i - at) - 1 = i - 1 BY <1>0
  <2> QED BY <2>1, <2>2, <1>2
<1> QED BY <1>5, <1>6, <1>7, <1>8 DEF t

LEMMA PlaceIs == \A b \in Boxes : Place(b) \in DOMAIN Order /\ Place(b) \in Nat /\ Order[Place(b)] = b
<1> TAKE b \in Boxes
<1>1. Place(b) \in DOMAIN Order /\ Order[Place(b)] = b BY BookAssumption DEF Place
<1>2. DOMAIN Order = 1 .. Len(Order) /\ Len(Order) \in Nat BY BookAssumption, LenProperties
<1> QED BY <1>1, <1>2

LEMMA BoxesAreFinite == IsFiniteSet(Boxes)
<1>1. Len(Order) \in Nat /\ Order \in [1 .. Len(Order) -> Boxes] /\ DOMAIN Order = 1 .. Len(Order)
  BY BookAssumption, LenProperties
<1>2. Order \in Surjection(1 .. Len(Order), Boxes) BY <1>1, BookAssumption DEF Surjection
<1>3. IsFiniteSet(1 .. Len(Order)) BY <1>1, FS_Interval
<1> QED BY <1>2, <1>3, FS_Surjection

LEMMA FirstUnaskedIs ==
  ASSUME switchedOn \in Seq(Boxes), FirstUnasked # 0
  PROVE  /\ FirstUnasked \in DOMAIN switchedOn
         /\ \A j \in 1 .. FirstUnasked - 1 : switchedOn[j] \in book => switchedOn[j] \in asked
<1> DEFINE I == {i \in 1 .. Len(switchedOn) : switchedOn[i] \notin asked /\ switchedOn[i] \in book}
<1>1. FirstUnasked = IF I # {} THEN Min(I) ELSE 0 BY DEF FirstUnasked, SelectInSeq
<1>2. I # {} /\ FirstUnasked = CHOOSE x \in I : \A y \in I : x =< y BY <1>1 DEF Min
<1>3. Len(switchedOn) \in Nat /\ DOMAIN switchedOn = 1 .. Len(switchedOn) BY LenProperties
<1>4. I \in SUBSET Nat BY <1>3
<1> HIDE DEF I
<1>5. \E x \in I : \A y \in I : x <= y BY <1>2, <1>4, Least
<1>6. FirstUnasked \in I /\ \A y \in I : FirstUnasked <= y BY <1>2, <1>5
<1> QED BY <1>3, <1>6 DEF I

\* Of boxes that stand in the registry's order, those before place p are as many as their number says.
LEMMA CountedByPlace ==
  ASSUME NEW k \in Nat, NEW S \in SUBSET Boxes, NEW f \in Bijection(1 .. k, S),
         \A i, j \in 1 .. k : i < j => Place(f[i]) < Place(f[j]), NEW p \in Nat
  PROVE  LET c == Cardinality({o \in S : Place(o) < p}) IN
         c \in 0 .. k /\ \A i \in 1 .. k : i <= c <=> Place(f[i]) < p
<1> DEFINE T == {i \in 1 .. k + 1 : i = k + 1 \/ p <= Place(f[i])}
           P == {o \in S : Place(o) < p}
<1>0. f \in [1 .. k -> S] /\ \A i \in 1 .. k : f[i] \in S /\ Place(f[i]) \in Nat
  BY PlaceIs DEF Bijection, Injection
<1>1. k + 1 \in T /\ T \in SUBSET Nat OBVIOUS
<1> HIDE DEF T
<1>2. PICK m \in T : \A n \in T : m <= n BY <1>1, Least
<1>3. m \in 1 .. k + 1 /\ (m = k + 1 \/ p <= Place(f[m])) BY <1>2 DEF T
<1>4. ASSUME NEW i \in 1 .. k PROVE i <= m - 1 <=> Place(f[i]) < p
  <2>1. CASE i <= m - 1
    <3>1. i \notin T BY <1>2, <1>3, <2>1
    <3> QED BY <1>0, <2>1, <3>1 DEF T
  <2>2. CASE i = m BY <1>0, <1>3, <2>2
  <2>3. CASE m < i
    <3>1. Place(f[m]) < Place(f[i]) /\ Place(f[m]) \in Nat /\ p <= Place(f[m]) BY <1>0, <1>3, <2>3
    <3> QED BY <1>0, <1>3, <2>3, <3>1
  <2> QED BY <1>3, <2>1, <2>2, <2>3
<1> DEFINE h == [i \in 1 .. m - 1 |-> f[i]]
<1>5. h \in Bijection(1 .. m - 1, P)
  <2>1. h \in [1 .. m - 1 -> P] BY <1>0, <1>3, <1>4
  <2>2. \A i, j \in 1 .. m - 1 : h[i] = h[j] => i = j
    <3>1. \A i, j \in 1 .. k : f[i] = f[j] => i = j BY DEF Bijection, Injection, IsInjective
    <3> QED BY <1>3, <3>1
  <2>3. \A o \in P : \E i \in 1 .. m - 1 : h[i] = o
    <3> TAKE o \in P
    <3>1. PICK i \in 1 .. k : f[i] = o BY DEF Bijection, Surjection
    <3>2. i <= m - 1 BY <1>4, <3>1
    <3> QED BY <1>3, <3>1, <3>2
  <2> HIDE DEF h, P
  <2> QED BY <2>1, <2>2, <2>3 DEF Bijection, Injection, Surjection, IsInjective
<1>6. IsFiniteSet(1 .. m - 1) /\ Cardinality(1 .. m - 1) = m - 1
  <2>1. 1 \in Int /\ m - 1 \in Int /\ m - 1 >= 0 BY <1>3
  <2>2. IsFiniteSet(1 .. m - 1) /\ Cardinality(1 .. m - 1) = IF 1 > m - 1 THEN 0 ELSE m - 1 - 1 + 1
    BY <2>1, FS_Interval
  <2> QED BY <2>1, <2>2
<1>7. Cardinality(P) = m - 1
  <2>1. ExistsBijection(1 .. m - 1, P) BY <1>5 DEF ExistsBijection
  <2> HIDE DEF P
  <2> QED BY <1>6, <2>1, FS_Bijection
<1>8. m - 1 \in 0 .. k BY <1>3
<1> HIDE DEF P
<1> QED BY <1>4, <1>7, <1>8 DEF P

-----------------------------------------------------------------------------
(* The types *)

\* What one named source makes of an entry.
LEMMA HeardIs ==
  ASSUME now = 0, NEW h \in Heards \cup {Nothing}, NEW s \in Playing
  PROVE  /\ Heard(h, s) \in Heards /\ SourceOf(Heard(h, s)) = s
         /\ Awake(Heard(h, s)) <=> s = "radio" /\ (SourceOf(h) = "standby" \/ Awake(h))
<1> DEFINE before == IF h = Nothing THEN Fresh(0) ELSE h
           w == WakeAfter(before, s, 0)
           r == [last_seen |-> 0, source |-> s, woke_at |-> w, remembered |-> FALSE]
<1>1. Heard(h, s) = r BY DEF Heard
<1>2. NotAwake \in Int /\ NotAwake < 0 BY ClockAssumption DEF NotAwake
<1>3. \A g \in Heards : g # Nothing
  <2> TAKE g \in Heards
  <2>1. DOMAIN g = {"last_seen", "source", "woke_at", "remembered"} BY DEF Heards
  <2>2. DOMAIN Nothing = {"last_seen"} BY DEF Nothing
  <2> QED BY <2>1, <2>2
<1>4. /\ before.source = "standby" <=> SourceOf(h) = "standby"
      /\ before.woke_at # NotAwake <=> Awake(h)
      /\ before.woke_at \in {0, NotAwake}
  <2>1. CASE h = Nothing
    BY <2>1 DEF SourceOf, Awake, Fresh
  <2>2. CASE h \in Heards
    <3>1. before = h BY <1>3, <2>2
    <3> HIDE DEF before
    <3> QED BY <1>3, <2>2, <3>1 DEF SourceOf, Awake, Heards
  <2> QED BY <2>1, <2>2
<1> HIDE DEF before
<1>5. /\ w \in {0, NotAwake} /\ (s # "radio" => w = NotAwake)
      /\ w # NotAwake <=> s = "radio" /\ (SourceOf(h) = "standby" \/ Awake(h))
  BY <1>2, <1>4 DEF WakeAfter, RadioNames, Playing
<1> HIDE DEF w
<1>6. r \in Heards BY <1>5 DEF Heards
<1>7. r # Nothing BY <1>3, <1>6
<1>8. r.source = s /\ r.woke_at = w OBVIOUS
<1> HIDE DEF r
<1> QED BY <1>1, <1>5, <1>6, <1>7, <1>8 DEF SourceOf, Awake

LEMMA TypeStart == Start => BookTypeOK
<1> SUFFICES ASSUME Start PROVE BookTypeOK OBVIOUS
<1> USE DEF Start, Init, NoSpeakerKnownYet
<1>1. EntriesTyped BY DEF EntriesTyped
<1>2. BoxesTyped BY DEF BoxesTyped, Playing
<1>3. RoundTyped BY DEF RoundTyped, NoRound
<1>4. BookTyped /\ SeedTyped BY DEF BookTyped, SeedTyped
<1> QED BY <1>1, <1>2, <1>3, <1>4 DEF BookTypeOK

LEMMA EntersTypes ==
  ASSUME BookTypeOK, NEW t \in Seeders, Enters(t)
  PROVE  SeedTyped' /\ (poller' = poller \/ poller' = "ask")
<1>1. CASE StillMaySeed /\ FirstUnasked # 0
  <2>1. switchedOn[FirstUnasked] \in Boxes
    BY <1>1, FirstUnaskedIs, ElementOfSeq, LenProperties DEF BookTypeOK, RoundTyped
  <2> QED BY <1>1, <2>1 DEF Enters, BookTypeOK, SeedTyped
<1>2. CASE ~(StillMaySeed /\ FirstUnasked # 0)
  BY <1>2 DEF Enters, SeedingIsOver, BookTypeOK, SeedTyped
<1> QED BY <1>1, <1>2

LEMMA NotedTypes ==
  ASSUME BookTypeOK, NEW b \in Boxes, NEW s, NEW at, NEW key \in Nat \X {0, 1} \X Nat,
         NotedSwitchedOn(b, s, at, key), switchedOn' # switchedOn => at \in 1 .. Len(switchedOn) + 1
  PROVE  switchedOn' \in Seq(Boxes) /\ rank' \in [Boxes -> Nat \X {0, 1} \X Nat]
<1>1. CASE switchedOn' = switchedOn
  BY <1>1 DEF NotedSwitchedOn, BookTypeOK, RoundTyped
<1>2. CASE switchedOn' # switchedOn
  <2>1. switchedOn' = InsertAt(switchedOn, at, b) /\ rank' = [rank EXCEPT ![b] = key]
    BY <1>2 DEF NotedSwitchedOn
  <2>2. switchedOn \in Seq(Boxes) /\ rank \in [Boxes -> Nat \X {0, 1} \X Nat] BY DEF BookTypeOK, RoundTyped
  <2>3. InsertAt(switchedOn, at, b) \in Seq(Boxes) BY <1>2, <2>2, Inserted
  <2> QED BY <2>1, <2>2, <2>3
<1> QED BY <1>1, <1>2

-----------------------------------------------------------------------------
(* Where an answer is put *)

\* It goes behind the answers of the boxes that stand before it, and before the others.
LEMMA SlotIs ==
  ASSUME BookTypeOK, PlaceInv, RoundIsOut, NEW b \in round.asked, b \notin ToSet(switchedOn)
  PROVE  LET opens == round.opensAt
             frames == round.opensAt + Cardinality(round.placed)
         IN /\ Cardinality(round.placed) \in Nat /\ opens \in Nat /\ frames <= Len(switchedOn)
            /\ SlotFor(b) \in opens + 1 .. frames + 1
            /\ \A i \in opens + 1 .. SlotFor(b) - 1 : Place(switchedOn[i]) < Place(b)
            /\ \A i \in SlotFor(b) .. frames : Place(b) < Place(switchedOn[i])
<1> DEFINE opens == round.opensAt
           k == Cardinality(round.placed)
           f == [i \in 1 .. k |-> switchedOn[opens + i]]
           before == {o \in round.placed : Place(o) < Place(b)}
           c == Cardinality(before)
<1>1. /\ round.asked \subseteq Boxes /\ opens \in Nat /\ round.placed \subseteq Boxes
      /\ switchedOn \in Seq(Boxes) /\ b \in Boxes /\ round.nr \in Nat
  BY DEF BookTypeOK, RoundTyped
<1>2. Len(switchedOn) \in Nat /\ DOMAIN switchedOn = 1 .. Len(switchedOn)
      /\ \A i \in 1 .. Len(switchedOn) : switchedOn[i] \in Boxes
  BY <1>1, LenProperties, ElementOfSeq
<1>3. k \in Nat BY <1>1, BoxesAreFinite, FS_Subset, FS_CardinalityType
<1>4. /\ round.placed \subseteq round.asked /\ opens + k <= Len(switchedOn)
      /\ \A i \in opens + 1 .. opens + k :
           switchedOn[i] \in round.placed /\ rank[switchedOn[i]] = <<round.nr, 0, Place(switchedOn[i])>>
      /\ \A o \in round.placed : \E i \in opens + 1 .. opens + k : switchedOn[i] = o
  BY DEF PlaceInv, InThreeParts
<1> HIDE DEF opens, k
<1>5. ASSUME NEW i \in 1 .. k
      PROVE  /\ opens + i \in opens + 1 .. opens + k /\ opens + i \in 1 .. Len(switchedOn)
             /\ f[i] = switchedOn[opens + i]
             /\ f[i] \in round.placed /\ rank[f[i]] = <<round.nr, 0, Place(f[i])>> /\ Place(f[i]) \in Nat
  <2>1. opens + i \in opens + 1 .. opens + k /\ opens + i \in 1 .. Len(switchedOn) BY <1>1, <1>2, <1>3, <1>4
  <2> QED BY <1>1, <1>4, <2>1, PlaceIs
<1>6. f \in Bijection(1 .. k, round.placed)
  <2>1. f \in [1 .. k -> round.placed] BY <1>5
  <2>2. \A i, j \in 1 .. k : f[i] = f[j] => i = j
    <3> SUFFICES ASSUME NEW i \in 1 .. k, NEW j \in 1 .. k, f[i] = f[j] PROVE i = j  OBVIOUS
    <3>1. opens + i = opens + j BY <1>2, <1>5 DEF PlaceInv, OnceEach
    <3> QED BY <1>1, <1>3, <3>1
  <2>3. \A o \in round.placed : \E i \in 1 .. k : f[i] = o
    <3> TAKE o \in round.placed
    <3>1. PICK i \in opens + 1 .. opens + k : switchedOn[i] = o BY <1>4
    <3>2. i - opens \in 1 .. k /\ opens + (i - opens) = i BY <1>1, <1>3, <3>1
    <3> QED BY <3>1, <3>2
  <2> HIDE DEF f
  <2> QED BY <2>1, <2>2, <2>3 DEF Bijection, Injection, Surjection, IsInjective
<1>7. ASSUME NEW i \in 1 .. k, NEW j \in 1 .. k, i < j PROVE Place(f[i]) < Place(f[j])
  <2>1. opens + i < opens + j BY <1>1, <1>7
  <2>2. Before(rank[f[i]], rank[f[j]]) BY <1>2, <1>5, <2>1 DEF PlaceInv, ReplySpeedDecidesNothing
  <2>3. Before(<<round.nr, 0, Place(f[i])>>, <<round.nr, 0, Place(f[j])>>) BY <1>5, <2>2
  <2> HIDE DEF f
  <2> QED BY <1>1, <2>3 DEF Before
<1>8. c \in 0 .. k /\ \A i \in 1 .. k : i <= c <=> Place(f[i]) < Place(b)
  <2>1. Place(b) \in Nat BY <1>1, PlaceIs
  <2> HIDE DEF f
  <2> QED BY <1>1, <1>3, <1>6, <1>7, <2>1, CountedByPlace
<1>9. SlotFor(b) = opens + c + 1
  <2>1. {o \in round.asked : Place(o) < Place(b)} \cap round.placed = before BY <1>4
  <2> QED BY <2>1 DEF SlotFor, OpensAt, opens
<1> HIDE DEF c
<1>10. ASSUME NEW i \in opens + 1 .. opens + k
       PROVE  /\ i - opens <= c <=> Place(switchedOn[i]) < Place(b)
              /\ Place(switchedOn[i]) \in Nat /\ Place(switchedOn[i]) # Place(b)
  <2>1. i - opens \in 1 .. k /\ opens + (i - opens) = i /\ i \in 1 .. Len(switchedOn)
    BY <1>1, <1>2, <1>3, <1>4
  <2>2. f[i - opens] = switchedOn[i] BY <2>1
  <2>3. switchedOn[i] \in Boxes /\ switchedOn[i] # b BY <1>2, <2>1 DEF ToSet
  <2>4. Place(switchedOn[i]) # Place(b) /\ Place(switchedOn[i]) \in Nat BY <1>1, <2>3, PlaceIs
  <2> HIDE DEF f
  <2>5. i - opens <= c <=> Place(f[i - opens]) < Place(b) BY <1>8, <2>1
  <2> QED BY <2>2, <2>4, <2>5
<1>11. \A i \in opens + 1 .. SlotFor(b) - 1 : Place(switchedOn[i]) < Place(b)
  <2> TAKE i \in opens + 1 .. SlotFor(b) - 1
  <2>1. i \in opens + 1 .. opens + k /\ i - opens <= c BY <1>1, <1>3, <1>8, <1>9
  <2> QED BY <1>10, <2>1
<1>12. \A i \in SlotFor(b) .. opens + k : Place(b) < Place(switchedOn[i])
  <2> TAKE i \in SlotFor(b) .. opens + k
  <2>1. i \in opens + 1 .. opens + k /\ ~(i - opens <= c) BY <1>1, <1>3, <1>8, <1>9
  <2>2. Place(b) \in Nat BY <1>1, PlaceIs
  <2> QED BY <1>10, <2>1, <2>2
<1>13. SlotFor(b) \in opens + 1 .. opens + k + 1 BY <1>1, <1>3, <1>8, <1>9
<1> HIDE DEF f, before
<1> QED BY <1>1, <1>3, <1>4, <1>11, <1>12, <1>13 DEF opens, k

-----------------------------------------------------------------------------
(* Every step keeps the types *)

LEMMA BookTypeStep ==
  ASSUME BookTypeOK, OfTheBook, PlaceInv, BookNext
  PROVE  BookTypeOK'
<1>1. CASE ReadBegins
  BY <1>1 DEF ReadBegins, memberVars, bookVars, roundVars, seedVars, boxVars,
    BookTypeOK, EntriesTyped, BoxesTyped, RoundTyped, BookTyped, SeedTyped
<1>2. CASE RegistryAnswers
  BY <1>2 DEF RegistryAnswers, memberVars, bookVars, roundVars, seedVars, boxVars,
    BookTypeOK, EntriesTyped, BoxesTyped, RoundTyped, BookTyped, SeedTyped
<1>3. CASE ReadFails
  BY <1>3 DEF ReadFails, memberVars, bookVars, roundVars, seedVars, boxVars,
    BookTypeOK, EntriesTyped, BoxesTyped, RoundTyped, BookTyped, SeedTyped
<1>4. CASE PreferencesAreTaken
  BY <1>4 DEF PreferencesAreTaken, ConsolesAreTaken, memberVars, bookVars, roundVars, seedVars, boxVars,
    BookTypeOK, EntriesTyped, BoxesTyped, RoundTyped, BookTyped, SeedTyped
<1>5. CASE PreferencesChange
  BY <1>5 DEF PreferencesChange, memberVars, bookVars, roundVars, seedVars, boxVars,
    BookTypeOK, EntriesTyped, BoxesTyped, RoundTyped, BookTyped, SeedTyped
<1>6. CASE RoundEnds
  BY <1>6 DEF RoundEnds, NoRound, RoundIsOut, memberVars, bookVars, roundVars, seedVars, boxVars,
    BookTypeOK, EntriesTyped, BoxesTyped, RoundTyped, BookTyped, SeedTyped
<1>7. CASE Dials
  BY <1>7 DEF Dials, Goes, memberVars, bookVars, roundVars, seedVars, boxVars,
    BookTypeOK, EntriesTyped, BoxesTyped, RoundTyped, BookTyped, SeedTyped
<1>8. CASE Steps
  BY <1>8 DEF Steps, Goes, memberVars, bookVars, roundVars, seedVars, boxVars,
    BookTypeOK, EntriesTyped, BoxesTyped, RoundTyped, BookTyped, SeedTyped
<1>9. CASE ReadIsTaken
  <2>1. book' \in SUBSET Boxes
    BY <1>9, BookAssumption DEF ReadIsTaken, Remembered, BookTypeOK, BookTyped
  <2>2. channel' \in [Boxes -> {"none", "apart", "open"}]
    BY <1>9 DEF ReadIsTaken, Remembered, BookTypeOK, BoxesTyped
  <2> QED BY <1>9, <2>1, <2>2 DEF ReadIsTaken, memberVars, bookVars, roundVars, seedVars, boxVars,
    BookTypeOK, EntriesTyped, BoxesTyped, RoundTyped, BookTyped, SeedTyped
<1>10. CASE RoundOpens
  <2> DEFINE new == book \cap notAsked
  <2>1. CASE new = {}
    BY <1>10, <2>1 DEF RoundOpens, memberVars, bookVars, roundVars, seedVars, boxVars,
      BookTypeOK, EntriesTyped, BoxesTyped, RoundTyped, BookTyped, SeedTyped
  <2>2. CASE new # {}
    <3>1. /\ round' = [asked |-> new, opensAt |-> Len(switchedOn), placed |-> {}, nr |-> round.nr + 1]
          /\ poller' = "opened"
      BY <1>10, <2>2 DEF RoundOpens
    <3>2. Len(switchedOn) \in Nat /\ new \subseteq Boxes /\ round.nr \in Nat
      BY LenProperties DEF BookTypeOK, RoundTyped, BookTyped
    <3>3. round' \in [asked : SUBSET Boxes, opensAt : Nat, placed : SUBSET Boxes, nr : Nat]
      BY <3>1, <3>2
    <3> QED BY <1>10, <3>1, <3>3 DEF RoundOpens, memberVars, bookVars, roundVars, seedVars, boxVars,
      BookTypeOK, EntriesTyped, BoxesTyped, RoundTyped, BookTyped, SeedTyped
  <2> QED BY <2>1, <2>2
<1>20. CASE QuestionsGoOut
  <2>1. question' \in [Boxes -> {"none", "out"} \cup Answers]
    BY <1>20 DEF QuestionsGoOut, BookTypeOK, RoundTyped
  <2> QED BY <1>20, <2>1 DEF QuestionsGoOut, memberVars, bookVars, roundVars, seedVars, boxVars,
    BookTypeOK, EntriesTyped, BoxesTyped, RoundTyped, BookTyped, SeedTyped
<1>11. ASSUME NEW b \in Boxes, BoxAnswers(b) PROVE BookTypeOK'
  <2>1. plays[b] \in Playing BY DEF BookTypeOK, BoxesTyped
  <2>2. question' \in [Boxes -> {"none", "out"} \cup Answers]
    BY <1>11, <2>1 DEF BoxAnswers, Answers, BookTypeOK, RoundTyped
  <2>3. said' \in [Boxes -> Heards \cup {Nothing}]
    <3>1. said[b] \in Heards \cup {Nothing} /\ now = 0 /\ said \in [Boxes -> Heards \cup {Nothing}]
      BY DEF BookTypeOK, EntriesTyped
    <3>2. Heard(said[b], plays[b]) \in Heards BY <2>1, <3>1, HeardIs
    <3> QED BY <1>11, <3>1, <3>2 DEF BoxAnswers
  <2>4. unheard' \subseteq Boxes BY <1>11 DEF BoxAnswers, BookTypeOK, BoxesTyped
  <2> QED BY <1>11, <2>2, <2>3, <2>4 DEF BoxAnswers, memberVars, bookVars, roundVars, seedVars, boxVars,
    BookTypeOK, EntriesTyped, BoxesTyped, RoundTyped, BookTyped, SeedTyped
<1>12. ASSUME NEW b \in Boxes, AnswerIsTaken(b) PROVE BookTypeOK'
  <2> DEFINE s == question[b]
  <2>1. s \in Answers /\ question' = [question EXCEPT ![b] = "none"] BY <1>12 DEF AnswerIsTaken
  <2>2. question' \in [Boxes -> {"none", "out"} \cup Answers] BY <2>1 DEF BookTypeOK, RoundTyped
  <2>3. UNCHANGED <<now, allowed, dialled, service, bookVars, spoke, last, seedVars, boxVars>>
    BY <1>12 DEF AnswerIsTaken
  <2>4. ASSUME UNCHANGED <<entry, switchedOn, rank, round>> PROVE BookTypeOK'
    BY <2>2, <2>3, <2>4 DEF memberVars, bookVars, roundVars, seedVars, boxVars, BookTypeOK, EntriesTyped, BoxesTyped, RoundTyped, BookTyped, SeedTyped
  <2>5. ASSUME s # "silence", Stale(b) PROVE BookTypeOK'
    <3>1. s \in Playing BY <2>1, <2>5 DEF Answers
    <3>2. SwitchedOnAfterItAnswered(b, s) /\ UNCHANGED <<switchedOn, rank, round>>
      BY <1>12, <2>5 DEF AnswerIsTaken
    <3>3. entry' \in [Boxes -> Heards \cup {Nothing}]
      <4>1. CASE entry' = entry BY <4>1 DEF BookTypeOK, EntriesTyped
      <4>2. CASE entry' # entry
        <5>1. last[b] \in Playing /\ entry' = [entry EXCEPT ![b] = Heard(Heard(@, s), last[b])]
          BY <3>2, <4>2 DEF SwitchedOnAfterItAnswered, Playing
        <5>2. Heard(entry[b], s) \in Heards BY <3>1, HeardIs DEF BookTypeOK, EntriesTyped
        <5>3. Heard(Heard(entry[b], s), last[b]) \in Heards
          BY <5>1, <5>2, HeardIs DEF BookTypeOK, EntriesTyped
        <5> QED BY <5>1, <5>3 DEF BookTypeOK, EntriesTyped
      <4> QED BY <4>1, <4>2
    <3> QED BY <2>2, <2>3, <3>2, <3>3 DEF memberVars, bookVars, roundVars, seedVars, boxVars, BookTypeOK, EntriesTyped, BoxesTyped, RoundTyped, BookTyped, SeedTyped
  <2>6. ASSUME s # "silence", ~Stale(b) PROVE BookTypeOK'
    <3>1. s \in Playing BY <2>1, <2>6 DEF Answers
    <3>2. /\ NotedSwitchedOn(b, s, SlotFor(b), <<round.nr, 0, Place(b)>>)
          /\ round' = [round EXCEPT !.placed = IF switchedOn' # switchedOn THEN @ \cup {b} ELSE @]
          /\ entry' = [entry EXCEPT ![b] = Heard(@, s)]
      BY <1>12, <2>6 DEF AnswerIsTaken
    <3>3. entry' \in [Boxes -> Heards \cup {Nothing}] BY <3>1, <3>2, HeardIs DEF BookTypeOK, EntriesTyped
    <3>4. RoundIsOut /\ b \in round.asked BY <2>1 DEF OfTheBook, RoundIsOut, Answers, Playing
    <3>5. switchedOn' # switchedOn => SlotFor(b) \in 1 .. Len(switchedOn) + 1
      <4> HAVE switchedOn' # switchedOn
      <4>1. b \notin ToSet(switchedOn) BY <3>2 DEF NotedSwitchedOn
      <4>2. Len(switchedOn) \in Nat BY LenProperties DEF BookTypeOK, RoundTyped
      <4> QED BY <3>4, <4>1, <4>2, SlotIs
    <3>6. <<round.nr, 0, Place(b)>> \in Nat \X {0, 1} \X Nat BY PlaceIs DEF BookTypeOK, RoundTyped
    <3>7. switchedOn' \in Seq(Boxes) /\ rank' \in [Boxes -> Nat \X {0, 1} \X Nat]
      BY <3>2, <3>5, <3>6, NotedTypes
    <3>8. round' \in [asked : SUBSET Boxes, opensAt : Nat, placed : SUBSET Boxes, nr : Nat]
      BY <3>2 DEF BookTypeOK, RoundTyped
    <3> QED BY <2>2, <2>3, <3>3, <3>7, <3>8 DEF memberVars, bookVars, roundVars, seedVars, boxVars, BookTypeOK, EntriesTyped, BoxesTyped, RoundTyped, BookTyped, SeedTyped
  <2> QED BY <1>12, <2>4, <2>5, <2>6 DEF AnswerIsTaken
<1>13. ASSUME NEW b \in Boxes, Connect(b) \/ Drop(b) PROVE BookTypeOK'
  BY <1>13 DEF Connect, Drop, memberVars, bookVars, roundVars, seedVars, boxVars,
    BookTypeOK, EntriesTyped, BoxesTyped, RoundTyped, BookTyped, SeedTyped
<1>14. ASSUME NEW b \in Boxes, NEW s \in Playing, BoxPlays(b, s) PROVE BookTypeOK'
  <2>1. plays' \in [Boxes -> Playing] BY <1>14 DEF BoxPlays, BookTypeOK, BoxesTyped
  <2>2. events' \in Seq([box : Boxes, source : Playing])
    <3>1. [box |-> b, source |-> s] \in [box : Boxes, source : Playing] OBVIOUS
    <3>2. events \in Seq([box : Boxes, source : Playing]) BY DEF BookTypeOK, BoxesTyped
    <3>3. Append(events, [box |-> b, source |-> s]) \in Seq([box : Boxes, source : Playing])
      BY <3>1, <3>2, AppendProperties
    <3> QED BY <1>14, <3>2, <3>3 DEF BoxPlays
  <2>3. said' \in [Boxes -> Heards \cup {Nothing}]
    BY <1>14, HeardIs DEF BoxPlays, BookTypeOK, EntriesTyped
  <2>4. unheard' \subseteq Boxes BY <1>14 DEF BoxPlays, BookTypeOK, BoxesTyped
  <2> QED BY <1>14, <2>1, <2>2, <2>3, <2>4 DEF BoxPlays, memberVars, bookVars, roundVars, seedVars, boxVars,
    BookTypeOK, EntriesTyped, BoxesTyped, RoundTyped, BookTyped, SeedTyped
<1>15. CASE Read
  <2> DEFINE e == Head(events)
  <2>1. events # <<>> /\ events' = Tail(events) BY <1>15 DEF Read
  <2>2. e \in [box : Boxes, source : Playing] /\ events' \in Seq([box : Boxes, source : Playing])
    BY <2>1, HeadTailProperties DEF BookTypeOK, BoxesTyped
  <2>3. e.box \in Boxes /\ e.source \in Playing BY <2>2
  <2>4. Len(switchedOn) \in Nat BY LenProperties DEF BookTypeOK, RoundTyped
  <2>5. <<round.nr, 1, Len(switchedOn)>> \in Nat \X {0, 1} \X Nat BY <2>4 DEF BookTypeOK, RoundTyped
  <2>6. switchedOn' \in Seq(Boxes) /\ rank' \in [Boxes -> Nat \X {0, 1} \X Nat]
    <3>1. NotedSwitchedOn(e.box, e.source, Len(switchedOn) + 1, <<round.nr, 1, Len(switchedOn)>>) BY <1>15 DEF Read
    <3>2. Len(switchedOn) + 1 \in 1 .. Len(switchedOn) + 1 BY <2>4
    <3> HIDE DEF e
    <3> QED BY <2>3, <2>5, <3>1, <3>2, NotedTypes
  <2>7. spoke' = spoke \cup {e.box} /\ last' = [last EXCEPT ![e.box] = e.source]
        /\ entry' = [entry EXCEPT ![e.box] = Heard(@, e.source)]
    BY <1>15 DEF Read
  <2> HIDE DEF e
  <2>8. entry' \in [Boxes -> Heards \cup {Nothing}]
    BY <2>3, <2>7, HeardIs DEF BookTypeOK, EntriesTyped
  <2>9. spoke' \subseteq Boxes /\ last' \in [Boxes -> Playing \cup {"none"}]
    BY <2>3, <2>7 DEF BookTypeOK, RoundTyped
  <2> QED BY <1>15, <2>2, <2>6, <2>8, <2>9 DEF Read, memberVars, bookVars, roundVars, seedVars, boxVars,
    BookTypeOK, EntriesTyped, BoxesTyped, RoundTyped, BookTyped, SeedTyped
<1>16. ASSUME NEW t \in Seeders, SeedIsCalled(t) PROVE BookTypeOK'
  <2>1. SeedTyped' /\ (poller' = poller \/ poller' = "ask")
    BY <1>16, EntersTypes DEF SeedIsCalled, SeedingIsOver, BookTypeOK, SeedTyped
  <2> QED BY <1>16, <2>1 DEF SeedIsCalled, memberVars, bookVars, roundVars, seedVars, boxVars,
    BookTypeOK, EntriesTyped, BoxesTyped, RoundTyped, BookTyped
<1>17. ASSUME NEW t \in Seeders, SeedEnters(t) PROVE BookTypeOK'
  <2>1. SeedTyped' /\ (poller' = poller \/ poller' = "ask")
    BY <1>17, EntersTypes DEF SeedEnters
  <2> QED BY <1>17, <2>1 DEF SeedEnters, memberVars, bookVars, roundVars, seedVars, boxVars,
    BookTypeOK, EntriesTyped, BoxesTyped, RoundTyped, BookTyped
<1>18. ASSUME NEW t \in Seeders, SeedEnds(t) PROVE BookTypeOK'
  BY <1>18 DEF SeedEnds, SeedingIsOver, memberVars, bookVars, roundVars, seedVars, boxVars,
    BookTypeOK, EntriesTyped, BoxesTyped, RoundTyped, BookTyped, SeedTyped
<1>19. ASSUME NEW rotates \in BOOLEAN, Thumbed(rotates) PROVE BookTypeOK'
  BY <1>19 DEF Thumbed, memberVars, bookVars, roundVars, seedVars, boxVars,
    BookTypeOK, EntriesTyped, BoxesTyped, RoundTyped, BookTyped, SeedTyped
<1> QED BY <1>20, <1>1, <1>2, <1>3, <1>4, <1>5, <1>6, <1>7, <1>8, <1>9, <1>10, <1>11, <1>12, <1>13, <1>14, <1>15, <1>16, <1>17, <1>18, <1>19 DEF BookNext

-----------------------------------------------------------------------------
(* Only boxes of the book *)

LEMMA StandsOrStood ==
  ASSUME BookTypeOK, NEW b \in Boxes, NEW s, NEW at, NEW key, NotedSwitchedOn(b, s, at, key),
         switchedOn' # switchedOn => at \in 1 .. Len(switchedOn) + 1
  PROVE  \A i \in DOMAIN switchedOn' : switchedOn'[i] = b \/ \E j \in DOMAIN switchedOn : switchedOn'[i] = switchedOn[j]
<1>1. CASE switchedOn' = switchedOn BY <1>1
<1>2. CASE switchedOn' # switchedOn
  <2>1. switchedOn' = InsertAt(switchedOn, at, b) BY <1>2 DEF NotedSwitchedOn
  <2>2. switchedOn \in Seq(Boxes) BY DEF BookTypeOK, RoundTyped
  <2>3. Len(switchedOn) \in Nat /\ DOMAIN switchedOn = 1 .. Len(switchedOn) /\ at \in 1 .. Len(switchedOn) + 1
    BY <1>2, <2>2, LenProperties
  <2> DEFINE t == InsertAt(switchedOn, at, b)
  <2>4. /\ t \in Seq(Boxes) /\ Len(t) = Len(switchedOn) + 1 /\ t[at] = b
        /\ \A i \in 1 .. at - 1 : t[i] = switchedOn[i]
        /\ \A i \in at + 1 .. Len(switchedOn) + 1 : t[i] = switchedOn[i - 1]
    <3>1. at \in 1 .. Len(switchedOn) + 1 BY <2>3
    <3> HIDE DEF t
    <3>2. t = InsertAt(switchedOn, at, b) BY DEF t
    <3> QED BY ONLY <2>2, <3>1, <3>2, <1>2, Inserted, SMTT(30)
  <2>5. DOMAIN t = 1 .. Len(switchedOn) + 1 BY <2>4, LenProperties
  <2> HIDE DEF t
  <2> SUFFICES ASSUME NEW i \in 1 .. Len(switchedOn) + 1
               PROVE  t[i] = b \/ \E j \in DOMAIN switchedOn : t[i] = switchedOn[j]
    BY <2>1, <2>5 DEF t
  <2>6. CASE i < at
    <3>1. i \in 1 .. at - 1 /\ i \in DOMAIN switchedOn BY <2>3, <2>6
    <3> QED BY <2>4, <3>1
  <2>7. CASE i = at BY <2>4, <2>7
  <2>8. CASE at < i
    <3>1. i \in at + 1 .. Len(switchedOn) + 1 /\ i - 1 \in DOMAIN switchedOn BY <2>3, <2>8
    <3> QED BY <2>4, <3>1
  <2> QED BY <2>3, <2>6, <2>7, <2>8
<1> QED BY <1>1, <1>2

LEMMA SlotStays ==
  ASSUME BookTypeOK, OfTheBook, PlaceInv, NEW b \in Boxes, AnswerIsTaken(b), question[b] # "silence", ~Stale(b)
  PROVE  /\ RoundIsOut /\ b \in round.asked /\ question[b] \in Playing
         /\ NotedSwitchedOn(b, question[b], SlotFor(b), <<round.nr, 0, Place(b)>>)
         /\ round' = [round EXCEPT !.placed = IF switchedOn' # switchedOn THEN @ \cup {b} ELSE @]
         /\ switchedOn' # switchedOn => SlotFor(b) \in 1 .. Len(switchedOn) + 1
<1>1. question[b] \in Answers BY DEF AnswerIsTaken
<1>2. question[b] \in Playing /\ question[b] # "none" BY <1>1 DEF Answers, Playing
<1>3. RoundIsOut /\ b \in round.asked BY <1>2 DEF OfTheBook, RoundIsOut
<1>4. /\ NotedSwitchedOn(b, question[b], SlotFor(b), <<round.nr, 0, Place(b)>>)
      /\ round' = [round EXCEPT !.placed = IF switchedOn' # switchedOn THEN @ \cup {b} ELSE @]
  BY DEF AnswerIsTaken
<1>5. switchedOn' # switchedOn => SlotFor(b) \in 1 .. Len(switchedOn) + 1
  <2> HAVE switchedOn' # switchedOn
  <2>1. b \notin ToSet(switchedOn) BY <1>4 DEF NotedSwitchedOn
  <2>2. Len(switchedOn) \in Nat BY LenProperties DEF BookTypeOK, RoundTyped
  <2> QED BY <1>3, <2>1, <2>2, SlotIs
<1> QED BY <1>2, <1>3, <1>4, <1>5

LEMMA SameBook ==
  ASSUME OfTheBook, UNCHANGED <<question, round, book, channel, events, switchedOn>>, poller = "asking" => poller' = "asking"
  PROVE  OfTheBook'
BY DEF OfTheBook

LEMMA BookStep ==
  ASSUME BookTypeOK, OfTheBook, PlaceInv, PollerSeeds, BookNext
  PROVE  OfTheBook'
<1>1. CASE ReadBegins \/ RegistryAnswers \/ ReadFails
  BY <1>1, SameBook DEF ReadBegins, RegistryAnswers, ReadFails, RoundIsOut, roundVars, seedVars, boxVars
<1>2. CASE PreferencesAreTaken \/ PreferencesChange \/ Dials \/ Steps
  BY <1>2, SameBook DEF PreferencesAreTaken, PreferencesChange, Dials, Steps, Goes, RoundIsOut,
    bookVars, roundVars, boxVars
<1>3. ASSUME NEW rotates \in BOOLEAN, Thumbed(rotates) PROVE OfTheBook'
  BY <1>3, SameBook DEF Thumbed, RoundIsOut, bookVars, roundVars, boxVars
<1>4. ASSUME NEW t \in Seeders, SeedIsCalled(t) \/ SeedEnters(t) \/ SeedEnds(t) PROVE OfTheBook'
  <2>1. poller' = poller \/ (poller = "seed" /\ poller' = "ask")
    BY <1>4 DEF SeedIsCalled, SeedEnters, SeedEnds, Enters, SeedingIsOver, Calls, HasItsTurn, PollerSeeds
  <2> QED BY <1>4, <2>1, SameBook DEF SeedIsCalled, SeedEnters, SeedEnds, RoundIsOut, roundVars, boxVars
<1>5. CASE ReadIsTaken
  <2>1. /\ book \subseteq book' /\ poller = "reading" /\ poller' = "seed"
        /\ \A b \in Boxes : channel'[b] # "none" => b \in book' \/ channel[b] # "none"
        /\ UNCHANGED <<question, round, events, switchedOn>>
    BY <1>5 DEF ReadIsTaken, Remembered, roundVars
  <2> QED BY <2>1 DEF OfTheBook, RoundIsOut
<1>6. CASE RoundOpens
  <2> DEFINE new == book \cap notAsked
  <2>0. /\ poller = "ask" /\ poller' # "asking"
        /\ UNCHANGED <<book, channel, events, switchedOn, question>>
    BY <1>6 DEF RoundOpens, boxVars
  <2>1. CASE new = {}
    <3>1. round' = round BY <1>6, <2>1 DEF RoundOpens
    <3> QED BY <2>0, <3>1, SameBook
  <2>2. CASE new # {}
    <3>1. round'.asked = new BY <1>6, <2>2 DEF RoundOpens
    <3>2. \A b \in Boxes : question[b] = "none" BY <2>0 DEF OfTheBook
    <3> QED BY <2>0, <3>1, <3>2 DEF OfTheBook
  <2> QED BY <2>1, <2>2
<1>13. CASE QuestionsGoOut
  <2>1. poller = "opened" /\ poller' = "asking" /\ UNCHANGED <<book, channel, events, switchedOn, round>>
    BY <1>13 DEF QuestionsGoOut, boxVars
  <2>2. \A b \in Boxes : question[b] = "none" BY <2>1 DEF OfTheBook
  <2>3. \A b \in Boxes : question'[b] # "none" => b \in round.asked BY <1>13, <2>2 DEF QuestionsGoOut
  <2> QED BY <2>1, <2>3 DEF OfTheBook
<1>7. CASE RoundEnds
  <2>1. /\ \A b \in Boxes : question[b] = "none"
        /\ round'.asked = {} /\ UNCHANGED <<question, book, channel, events, switchedOn>>
    BY <1>7 DEF RoundEnds, NoRound, boxVars
  <2> QED BY <2>1 DEF OfTheBook
<1>8. ASSUME NEW b \in Boxes, BoxAnswers(b) PROVE OfTheBook'
  <2>1. question[b] # "none" /\ \A a \in Boxes : a # b => question'[a] = question[a]
    BY <1>8 DEF BoxAnswers, BookTypeOK, RoundTyped
  <2>2. UNCHANGED <<poller, round, book, channel, events, switchedOn>> BY <1>8 DEF BoxAnswers, bookVars
  <2> QED BY <2>1, <2>2 DEF OfTheBook, RoundIsOut
<1>9. ASSUME NEW b \in Boxes, AnswerIsTaken(b) PROVE OfTheBook'
  <2>1. question[b] # "none" /\ question' = [question EXCEPT ![b] = "none"] BY <1>9 DEF AnswerIsTaken, Answers, Playing
  <2>2. UNCHANGED <<poller, book, channel, events>> BY <1>9 DEF AnswerIsTaken, bookVars, boxVars
  <2>3. round'.asked = round.asked /\ \A i \in DOMAIN switchedOn' : switchedOn'[i] \in book
    <3>1. CASE question[b] = "silence" \/ Stale(b)
      BY <1>9, <3>1 DEF AnswerIsTaken, OfTheBook
    <3>2. CASE question[b] # "silence" /\ ~Stale(b)
      <4>1. b \in book BY <1>9, <3>2, SlotStays DEF OfTheBook
      <4>2. \A i \in DOMAIN switchedOn' :
              switchedOn'[i] = b \/ \E j \in DOMAIN switchedOn : switchedOn'[i] = switchedOn[j]
        BY <1>9, <3>2, SlotStays, StandsOrStood
      <4>3. round'.asked = round.asked
        <5>1. round' = [round EXCEPT !.placed = IF switchedOn' # switchedOn THEN @ \cup {b} ELSE @]
          BY <1>9, <3>2, SlotStays
        <5> QED BY <5>1 DEF BookTypeOK, RoundTyped
      <4> QED BY <4>1, <4>2, <4>3 DEF OfTheBook
    <3> QED BY <3>1, <3>2
  <2>4. \A a \in Boxes : question'[a] # "none" => question'[a] = question[a]
    BY <2>1 DEF BookTypeOK, RoundTyped
  <2> QED BY <2>1, <2>2, <2>3, <2>4 DEF OfTheBook, RoundIsOut
<1>10. ASSUME NEW b \in Boxes, Connect(b) \/ Drop(b) PROVE OfTheBook'
  <2>1. channel[b] # "none" /\ \A a \in Boxes : a # b => channel'[a] = channel[a]
    BY <1>10 DEF Connect, Drop, BookTypeOK, BoxesTyped
  <2>2. UNCHANGED <<poller, question, round, book, events, switchedOn>> BY <1>10 DEF Connect, Drop, bookVars, roundVars
  <2> QED BY <2>1, <2>2 DEF OfTheBook, RoundIsOut
<1>11. ASSUME NEW b \in Boxes, NEW s \in Playing, BoxPlays(b, s) PROVE OfTheBook'
  <2>1. UNCHANGED <<poller, question, round, book, channel, switchedOn>>
    BY <1>11 DEF BoxPlays, bookVars, roundVars
  <2>2. CASE channel[b] = "open"
    <3>1. b \in book /\ events' = Append(events, [box |-> b, source |-> s])
      BY <1>11, <2>2 DEF BoxPlays, OfTheBook
    <3>2. events \in Seq([box : Boxes, source : Playing]) BY DEF BookTypeOK, BoxesTyped
    <3>3. [box |-> b, source |-> s] \in [box : Boxes, source : Playing] OBVIOUS
    <3>4. /\ Len(events) \in Nat /\ DOMAIN events = 1 .. Len(events) /\ DOMAIN events' = 1 .. Len(events) + 1
          /\ \A i \in 1 .. Len(events) : events'[i] = events[i]
          /\ events'[Len(events) + 1] = [box |-> b, source |-> s]
      BY <3>1, <3>2, <3>3, AppendProperties, LenProperties
    <3>5. \A i \in DOMAIN events' : events'[i].box \in book
      <4> TAKE i \in DOMAIN events'
      <4>1. CASE i \in DOMAIN events BY <3>4, <4>1 DEF OfTheBook
      <4>2. CASE i = Len(events) + 1 BY <3>1, <3>4, <4>2
      <4> QED BY <3>4, <4>1, <4>2
    <3> QED BY <2>1, <3>5 DEF OfTheBook, RoundIsOut
  <2>3. CASE channel[b] # "open"
    <3>1. events' = events BY <1>11, <2>3 DEF BoxPlays
    <3> QED BY <2>1, <3>1, SameBook DEF RoundIsOut
  <2> QED BY <2>2, <2>3
<1>12. CASE Read
  <2> DEFINE e == Head(events)
  <2>1. events # <<>> /\ events' = Tail(events) BY <1>12 DEF Read
  <2>2. events \in Seq([box : Boxes, source : Playing]) BY DEF BookTypeOK, BoxesTyped
  <2>3. /\ Len(events) \in Nat /\ DOMAIN events = 1 .. Len(events) /\ Len(events) > 0 /\ e = events[1]
        /\ DOMAIN events' = 1 .. Len(events) - 1 /\ \A i \in 1 .. Len(events) - 1 : events'[i] = events[i + 1]
    BY <2>1, <2>2, HeadTailProperties, LenProperties, EmptySeq
  <2>4. e \in [box : Boxes, source : Playing] BY <2>1, <2>2, HeadTailProperties
  <2>5. e.box \in book
    <3>1. 1 \in DOMAIN events BY <2>3
    <3> QED BY <2>3, <3>1 DEF OfTheBook
  <2>6. \A i \in DOMAIN events' : events'[i].box \in book
    <3> TAKE i \in DOMAIN events'
    <3>1. i + 1 \in DOMAIN events /\ events'[i] = events[i + 1] BY <2>3
    <3> QED BY <3>1 DEF OfTheBook
  <2>7. Len(switchedOn) + 1 \in 1 .. Len(switchedOn) + 1
    BY LenProperties DEF BookTypeOK, RoundTyped
  <2>8. NotedSwitchedOn(e.box, e.source, Len(switchedOn) + 1, <<round.nr, 1, Len(switchedOn)>>) BY <1>12 DEF Read
  <2>9. UNCHANGED <<poller, question, round, book, channel>> BY <1>12 DEF Read, bookVars
  <2>10. e.box \in Boxes BY <2>4
  <2> HIDE DEF e
  <2>11. \A i \in DOMAIN switchedOn' :
          switchedOn'[i] = e.box \/ \E j \in DOMAIN switchedOn : switchedOn'[i] = switchedOn[j]
    BY <2>7, <2>8, <2>10, StandsOrStood
  <2> QED BY <2>5, <2>6, <2>9, <2>11 DEF OfTheBook, RoundIsOut
<1> QED BY <1>1, <1>2, <1>3, <1>4, <1>5, <1>6, <1>7, <1>8, <1>9, <1>10, <1>11, <1>12, <1>13 DEF BookNext

LEMMA PollerStep ==
  ASSUME BookTypeOK, PollerSeeds, BookNext
  PROVE  PollerSeeds'
<1>1. CASE seeding' = seeding /\ (poller' = poller \/ poller # "seed")
  BY <1>1 DEF PollerSeeds
<1>2. ASSUME NEW t \in Seeders, SeedIsCalled(t) \/ SeedEnters(t) \/ SeedEnds(t) PROVE PollerSeeds'
  BY <1>2 DEF SeedIsCalled, SeedEnters, SeedEnds, Enters, SeedingIsOver, Calls, HasItsTurn, PollerSeeds,
    BookTypeOK, SeedTyped, Seeders
<1>3. ASSUME ~\E t \in Seeders : SeedIsCalled(t) \/ SeedEnters(t) \/ SeedEnds(t)
      PROVE  seeding' = seeding /\ (poller' = poller \/ poller # "seed")
  BY <1>3 DEF BookNext, ReadBegins, RegistryAnswers, ReadIsTaken, ReadFails, PreferencesAreTaken, PreferencesChange,
    RoundOpens, QuestionsGoOut, RoundEnds, RoundIsOut, Read, Dials, Steps, Goes, BoxAnswers, AnswerIsTaken, Connect, Drop, BoxPlays, Thumbed,
    bookVars, seedVars
<1> QED BY <1>1, <1>2, <1>3
-----------------------------------------------------------------------------
(* The order of the boxes switched on *)

LEMMA SamePlaces ==
  ASSUME PlaceInv, UNCHANGED <<switchedOn, rank, round>>, RoundIsOut' => RoundIsOut
  PROVE  PlaceInv'
BY DEF PlaceInv, OnceEach, InThreeParts, ReplySpeedDecidesNothing, Before

LEMMA RankIs ==
  ASSUME BookTypeOK, NEW i \in 1 .. Len(switchedOn)
  PROVE  LET r == rank[switchedOn[i]] IN
         r \in Nat \X {0, 1} \X Nat /\ r[1] \in Nat /\ r[2] \in {0, 1} /\ r[3] \in Nat
<1>1. switchedOn[i] \in Boxes BY ElementOfSeq DEF BookTypeOK, RoundTyped
<1>2. rank[switchedOn[i]] \in Nat \X {0, 1} \X Nat BY <1>1 DEF BookTypeOK, RoundTyped
<1> QED BY <1>2

\* A box is put where its rank says.
PutsAt(b, at, key) ==
  /\ b \notin ToSet(switchedOn) /\ at \in 1 .. Len(switchedOn) + 1 /\ key \in Nat \X {0, 1} \X Nat
  /\ switchedOn' = InsertAt(switchedOn, at, b) /\ rank' = [rank EXCEPT ![b] = key]

LEMMA Put ==
  ASSUME BookTypeOK, NEW b \in Boxes, NEW at, NEW key, PutsAt(b, at, key)
  PROVE  /\ Len(switchedOn) \in Nat /\ Len(switchedOn') = Len(switchedOn) + 1
         /\ DOMAIN switchedOn = 1 .. Len(switchedOn) /\ DOMAIN switchedOn' = 1 .. Len(switchedOn) + 1
         /\ switchedOn'[at] = b /\ rank'[switchedOn'[at]] = key
         /\ \A i \in 1 .. at - 1 :
              switchedOn'[i] = switchedOn[i] /\ rank'[switchedOn'[i]] = rank[switchedOn[i]]
         /\ \A i \in at + 1 .. Len(switchedOn) + 1 :
              switchedOn'[i] = switchedOn[i - 1] /\ rank'[switchedOn'[i]] = rank[switchedOn[i - 1]]
<1> DEFINE N == Len(switchedOn)
           t == InsertAt(switchedOn, at, b)
<1>1. switchedOn \in Seq(Boxes) /\ rank \in [Boxes -> Nat \X {0, 1} \X Nat] BY DEF BookTypeOK, RoundTyped
<1>2. N \in Nat /\ DOMAIN switchedOn = 1 .. N /\ \A i \in 1 .. N : switchedOn[i] \in Boxes
  BY <1>1, LenProperties, ElementOfSeq
<1>3. \A i \in 1 .. N : switchedOn[i] # b BY <1>2 DEF PutsAt, ToSet
<1>4. at \in 1 .. N + 1 /\ switchedOn' = t /\ rank' = [rank EXCEPT ![b] = key] BY DEF PutsAt
<1>5. /\ t \in Seq(Boxes) /\ Len(t) = N + 1 /\ t[at] = b
      /\ \A i \in 1 .. at - 1 : t[i] = switchedOn[i]
      /\ \A i \in at + 1 .. N + 1 : t[i] = switchedOn[i - 1]
  <2>1. at \in 1 .. Len(switchedOn) + 1 BY <1>4
  <2> HIDE DEF t, N
  <2>2. LET u == InsertAt(switchedOn, at, b) IN
        /\ u \in Seq(Boxes) /\ Len(u) = Len(switchedOn) + 1 /\ u[at] = b
        /\ \A i \in 1 .. at - 1 : u[i] = switchedOn[i]
        /\ \A i \in at + 1 .. Len(switchedOn) + 1 : u[i] = switchedOn[i - 1]
    BY <1>1, <2>1, Inserted
  <2> QED BY <2>2 DEF t, N
<1>6. DOMAIN t = 1 .. N + 1 BY <1>5, LenProperties
<1> HIDE DEF t, N
<1>7. rank'[b] = key BY <1>1, <1>4
<1>8. \A i \in 1 .. N : rank'[switchedOn[i]] = rank[switchedOn[i]] BY <1>1, <1>2, <1>3, <1>4
<1>9. \A i \in 1 .. at - 1 :
         switchedOn'[i] = switchedOn[i] /\ rank'[switchedOn'[i]] = rank[switchedOn[i]]
  <2> TAKE i \in 1 .. at - 1
  <2>1. i \in 1 .. N BY <1>2, <1>4
  <2> QED BY <1>4, <1>5, <1>8, <2>1
<1>10. \A i \in at + 1 .. N + 1 :
         switchedOn'[i] = switchedOn[i - 1] /\ rank'[switchedOn'[i]] = rank[switchedOn[i - 1]]
  <2> TAKE i \in at + 1 .. N + 1
  <2>1. i - 1 \in 1 .. N BY <1>2, <1>4
  <2> QED BY <1>4, <1>5, <1>8, <2>1
<1> QED BY <1>2, <1>4, <1>5, <1>6, <1>7, <1>9, <1>10 DEF N

\* Put where its rank says, the boxes stay in the order of their ranks.
LEMMA PutInOrder ==
  ASSUME BookTypeOK, OnceEach, ReplySpeedDecidesNothing, NEW b \in Boxes, NEW at, NEW key, PutsAt(b, at, key),
         \A i \in 1 .. at - 1 : Before(rank[switchedOn[i]], key),
         \A i \in at .. Len(switchedOn) : Before(key, rank[switchedOn[i]])
  PROVE  /\ ReplySpeedDecidesNothing'
         /\ \A i, j \in DOMAIN switchedOn' : switchedOn'[i] = switchedOn'[j] => i = j
<1> DEFINE N == Len(switchedOn)
           Old(i) == IF i < at THEN i ELSE i - 1
<1>1. /\ N \in Nat /\ DOMAIN switchedOn = 1 .. N /\ DOMAIN switchedOn' = 1 .. N + 1 /\ at \in 1 .. N + 1
      /\ switchedOn'[at] = b /\ rank'[switchedOn'[at]] = key
  <2>1. at \in 1 .. N + 1 BY DEF PutsAt
  <2> HIDE DEF Old
  <2> QED BY <2>1, Put
<1>2. ASSUME NEW i \in 1 .. N + 1, i # at
      PROVE  /\ Old(i) \in 1 .. N /\ switchedOn'[i] = switchedOn[Old(i)]
             /\ rank'[switchedOn'[i]] = rank[switchedOn[Old(i)]] /\ (i < at <=> Old(i) < at)
             /\ switchedOn'[i] # b
  <2>1. Old(i) \in 1 .. N /\ (i < at <=> Old(i) < at) BY <1>1, <1>2
  <2>2. switchedOn[Old(i)] # b BY <1>1, <2>1 DEF PutsAt, ToSet
  <2>3. CASE i < at
    <3>1. i \in 1 .. at - 1 BY <1>1, <2>3
    <3> QED BY <2>1, <2>2, <2>3, <3>1, Put
  <2>4. CASE ~(i < at)
    <3>1. i \in at + 1 .. Len(switchedOn) + 1 BY <1>1, <1>2, <2>4
    <3> QED BY <2>1, <2>2, <2>4, <3>1, Put
  <2> QED BY <2>3, <2>4
<1>3. ASSUME NEW i \in 1 .. N + 1, NEW j \in 1 .. N + 1, i < j
      PROVE  Before(rank'[switchedOn'[i]], rank'[switchedOn'[j]])
  <2>1. CASE i = at
    <3>1. j # at /\ ~(j < at) BY <1>1, <1>3, <2>1
    <3>2. Old(j) \in at .. Len(switchedOn) BY <1>1, <1>2, <3>1
    <3> QED BY <1>1, <1>2, <2>1, <3>1, <3>2
  <2>2. CASE j = at
    <3>1. i # at /\ i < at BY <1>1, <1>3, <2>2
    <3>2. Old(i) \in 1 .. at - 1 BY <1>1, <1>2, <3>1
    <3> QED BY <1>1, <1>2, <2>2, <3>1, <3>2
  <2>3. CASE i # at /\ j # at
    <3>1. Old(i) < Old(j) BY <1>1, <1>3, <2>3
    <3>2. Before(rank[switchedOn[Old(i)]], rank[switchedOn[Old(j)]])
      BY <1>1, <1>2, <2>3, <3>1 DEF ReplySpeedDecidesNothing
    <3> QED BY <1>2, <2>3, <3>2
  <2> QED BY <2>1, <2>2, <2>3
<1>4. ASSUME NEW i \in 1 .. N + 1, NEW j \in 1 .. N + 1, switchedOn'[i] = switchedOn'[j] PROVE i = j
  <2>1. CASE i = at \/ j = at BY <1>1, <1>2, <1>4, <2>1
  <2>2. CASE i # at /\ j # at
    <3>1. /\ Old(i) \in DOMAIN switchedOn /\ Old(j) \in DOMAIN switchedOn
          /\ switchedOn[Old(i)] = switchedOn[Old(j)]
      BY <1>1, <1>2, <1>4, <2>2
    <3>2. Old(i) = Old(j)
      <4> HIDE DEF Old
      <4> QED BY <3>1 DEF OnceEach
    <3> QED BY <1>1, <2>2, <3>2
  <2> QED BY <2>1, <2>2
<1>5. ReplySpeedDecidesNothing' BY <1>1, <1>3 DEF ReplySpeedDecidesNothing, Before
<1> QED BY <1>1, <1>4, <1>5

\* A frame's box goes to the end.
LEMMA PlacesAtTheEnd ==
  ASSUME BookTypeOK, PlaceInv, NEW b \in Boxes, PutsAt(b, Len(switchedOn) + 1, <<round.nr, 1, Len(switchedOn)>>),
         UNCHANGED <<round, poller>>
  PROVE  PlaceInv'
<1> DEFINE N == Len(switchedOn)
           at == N + 1
           key == <<round.nr, 1, N>>
<1>1. /\ N \in Nat /\ DOMAIN switchedOn = 1 .. N /\ DOMAIN switchedOn' = 1 .. N + 1 /\ Len(switchedOn') = N + 1
      /\ switchedOn'[N + 1] = b /\ rank'[switchedOn'[N + 1]] = key
      /\ \A i \in 1 .. N : switchedOn'[i] = switchedOn[i] /\ rank'[switchedOn'[i]] = rank[switchedOn[i]]
  <2> DEFINE a == N + 1
  <2>1. PutsAt(b, a, key) /\ Len(switchedOn) \in Nat /\ a - 1 = Len(switchedOn)
    BY LenProperties DEF BookTypeOK, RoundTyped
  <2> HIDE DEF a, key
  <2> QED BY <2>1, Put DEF a
<1>2. round.nr \in Nat /\ round.opensAt \in Nat BY DEF BookTypeOK, RoundTyped
<1>3. ASSUME NEW i \in 1 .. N PROVE Before(rank[switchedOn[i]], key)
  <2>1. LET r == rank[switchedOn[i]] IN
        /\ r[1] \in Nat /\ r[2] \in {0, 1} /\ r[3] \in Nat
        /\ r[1] <= round.nr /\ (r[1] = round.nr /\ r[2] = 1 => r[3] < N)
    BY <1>1, RankIs DEF PlaceInv, OnceEach
  <2>2. key[1] = round.nr /\ key[2] = 1 /\ key[3] = N OBVIOUS
  <2> HIDE DEF key
  <2> QED BY <1>1, <1>2, <2>1, <2>2 DEF Before
<1>4. /\ ReplySpeedDecidesNothing'
      /\ \A i, j \in DOMAIN switchedOn' : switchedOn'[i] = switchedOn'[j] => i = j
  <2>1. PutsAt(b, at, key) OBVIOUS
  <2>2. \A i \in 1 .. at - 1 : Before(rank[switchedOn[i]], key) BY <1>1, <1>3
  <2>3. \A i \in at .. Len(switchedOn) : Before(key, rank[switchedOn[i]]) BY <1>1
  <2> HIDE DEF at, key
  <2> QED BY <2>1, <2>2, <2>3, PutInOrder DEF PlaceInv
<1>5. \A i \in 1 .. N + 1 :
        LET r == rank'[switchedOn'[i]] IN r[1] <= round.nr /\ (r[1] = round.nr /\ r[2] = 1 => r[3] < N + 1)
  <2> TAKE i \in 1 .. N + 1
  <2>1. CASE i = N + 1 BY <1>1, <1>2, <2>1
  <2>2. CASE i \in 1 .. N
    <3>1. LET r == rank[switchedOn[i]] IN
          /\ r[3] \in Nat /\ r[1] <= round.nr /\ (r[1] = round.nr /\ r[2] = 1 => r[3] < N)
      BY <1>1, <2>2, RankIs DEF PlaceInv, OnceEach
    <3> QED BY <1>1, <2>2, <3>1
  <2> QED BY <1>1, <2>1, <2>2
<1>6. OnceEach' BY <1>1, <1>4, <1>5 DEF OnceEach
<1>7. InThreeParts'
  <2> DEFINE opens == round.opensAt
             frames == round.opensAt + Cardinality(round.placed)
  <2> SUFFICES ASSUME RoundIsOut
               PROVE  /\ round.placed \subseteq round.asked /\ frames <= N + 1
                      /\ \A i \in 1 .. opens : rank'[switchedOn'[i]][1] < round.nr
                      /\ \A i \in opens + 1 .. frames :
                           /\ switchedOn'[i] \in round.placed
                           /\ rank'[switchedOn'[i]] = <<round.nr, 0, Place(switchedOn'[i])>>
                      /\ \A o \in round.placed : \E i \in opens + 1 .. frames : switchedOn'[i] = o
                      /\ \A i \in frames + 1 .. N + 1 :
                           rank'[switchedOn'[i]][1] = round.nr /\ rank'[switchedOn'[i]][2] = 1
    BY <1>1 DEF InThreeParts, RoundIsOut
  <2>1. Cardinality(round.placed) \in Nat
    BY BoxesAreFinite, FS_Subset, FS_CardinalityType DEF BookTypeOK, RoundTyped
  <2>2. frames \in Nat /\ opens <= frames BY <1>2, <2>1
  <2>3. /\ round.placed \subseteq round.asked /\ frames <= N
        /\ \A i \in 1 .. opens : rank[switchedOn[i]][1] < round.nr
        /\ \A i \in opens + 1 .. frames :
             switchedOn[i] \in round.placed /\ rank[switchedOn[i]] = <<round.nr, 0, Place(switchedOn[i])>>
        /\ \A o \in round.placed : \E i \in opens + 1 .. frames : switchedOn[i] = o
        /\ \A i \in frames + 1 .. N : rank[switchedOn[i]][1] = round.nr /\ rank[switchedOn[i]][2] = 1
    BY DEF PlaceInv, InThreeParts
  <2> HIDE DEF frames, N, opens
  <2>4. opens \in Nat BY <1>2 DEF opens
  <2>5. /\ \A i \in 1 .. opens : i \in 1 .. N
        /\ \A i \in opens + 1 .. frames : i \in 1 .. N
        /\ \A i \in frames + 1 .. N : i \in 1 .. N
        /\ \A i \in frames + 1 .. N + 1 : i = N + 1 \/ i \in frames + 1 .. N
        /\ frames <= N + 1
    BY <1>1, <2>2, <2>3, <2>4
  <2>6. \A i \in frames + 1 .. N + 1 : rank'[switchedOn'[i]][1] = round.nr /\ rank'[switchedOn'[i]][2] = 1
    <3> TAKE i \in frames + 1 .. N + 1
    <3>1. CASE i = N + 1 BY <1>1, <3>1
    <3>2. CASE i \in frames + 1 .. N
      <4>1. i \in 1 .. N BY <2>5, <3>2
      <4> QED BY <1>1, <2>3, <3>2, <4>1
    <3> QED BY <2>5, <3>1, <3>2
  <2>7. \A i \in 1 .. opens : rank'[switchedOn'[i]][1] < round.nr
    BY <1>1, <2>3, <2>5
  <2>8. \A i \in opens + 1 .. frames :
          switchedOn'[i] \in round.placed /\ rank'[switchedOn'[i]] = <<round.nr, 0, Place(switchedOn'[i])>>
    <3> HIDE DEF key
    <3> QED BY <1>1, <2>3, <2>5
  <2>9. \A o \in round.placed : \E i \in opens + 1 .. frames : switchedOn'[i] = o
    <3> TAKE o \in round.placed
    <3>1. PICK i \in opens + 1 .. frames : switchedOn[i] = o BY <2>3
    <3>2. switchedOn'[i] = o BY <1>1, <2>5, <3>1
    <3> QED BY <3>2
  <2> QED BY <2>3, <2>5, <2>6, <2>7, <2>8, <2>9
<1> QED BY <1>4, <1>6, <1>7 DEF PlaceInv

\* An answer's box goes to its slot.
LEMMA PlacesAtItsSlot ==
  ASSUME BookTypeOK, PlaceInv, RoundIsOut, NEW b \in round.asked,
         PutsAt(b, SlotFor(b), <<round.nr, 0, Place(b)>>),
         round' = [round EXCEPT !.placed = @ \cup {b}], poller' = poller
  PROVE  PlaceInv'
<1> DEFINE N == Len(switchedOn)
           at == SlotFor(b)
           key == <<round.nr, 0, Place(b)>>
           opens == round.opensAt
           k == Cardinality(round.placed)
           frames == opens + k
<1>0. /\ b \in Boxes /\ round.nr \in Nat /\ opens \in Nat /\ Place(b) \in Nat /\ round.placed \subseteq Boxes
      /\ b \notin ToSet(switchedOn) /\ RoundIsOut'
  BY PlaceIs DEF BookTypeOK, RoundTyped, PutsAt, RoundIsOut
<1>1. /\ k \in Nat /\ frames <= N /\ at \in opens + 1 .. frames + 1
      /\ \A i \in opens + 1 .. at - 1 : Place(switchedOn[i]) < Place(b)
      /\ \A i \in at .. frames : Place(b) < Place(switchedOn[i])
  BY <1>0, SlotIs
<1>2. /\ N \in Nat /\ DOMAIN switchedOn = 1 .. N /\ DOMAIN switchedOn' = 1 .. N + 1 /\ Len(switchedOn') = N + 1
      /\ switchedOn'[at] = b /\ rank'[switchedOn'[at]] = key
      /\ \A i \in 1 .. at - 1 : switchedOn'[i] = switchedOn[i] /\ rank'[switchedOn'[i]] = rank[switchedOn[i]]
      /\ \A i \in at + 1 .. N + 1 : switchedOn'[i] = switchedOn[i - 1] /\ rank'[switchedOn'[i]] = rank[switchedOn[i - 1]]
  <2>1. PutsAt(b, at, key) OBVIOUS
  <2> HIDE DEF at, key
  <2> QED BY <1>0, <2>1, Put
<1>3. /\ round.placed \subseteq round.asked
      /\ \A i \in 1 .. opens : rank[switchedOn[i]][1] < round.nr
      /\ \A i \in opens + 1 .. frames :
           switchedOn[i] \in round.placed /\ rank[switchedOn[i]] = <<round.nr, 0, Place(switchedOn[i])>>
      /\ \A o \in round.placed : \E i \in opens + 1 .. frames : switchedOn[i] = o
      /\ \A i \in frames + 1 .. N : rank[switchedOn[i]][1] = round.nr /\ rank[switchedOn[i]][2] = 1
  BY DEF PlaceInv, InThreeParts
<1>4. \A i \in 1 .. N : /\ rank[switchedOn[i]][1] \in Nat /\ rank[switchedOn[i]][2] \in {0, 1}
                        /\ rank[switchedOn[i]][3] \in Nat
                        /\ switchedOn[i] \in Boxes /\ Place(switchedOn[i]) \in Nat
  <2> TAKE i \in 1 .. N
  <2>1. switchedOn[i] \in Boxes BY <1>2, ElementOfSeq DEF BookTypeOK, RoundTyped
  <2> QED BY <2>1, RankIs, PlaceIs
<1>5. key[1] = round.nr /\ key[2] = 0 /\ key[3] = Place(b) OBVIOUS
<1> HIDE DEF N, at, key, opens, k
<1>6. ASSUME NEW i \in 1 .. at - 1 PROVE Before(rank[switchedOn[i]], key)
  <2>1. i \in 1 .. N BY <1>0, <1>1, <1>2
  <2>2. CASE i <= opens
    <3>1. rank[switchedOn[i]][1] < round.nr BY <1>0, <1>1, <1>3, <2>2
    <3> QED BY <1>0, <1>4, <1>5, <2>1, <3>1 DEF Before
  <2>3. CASE opens < i
    <3>1. i \in opens + 1 .. frames /\ i \in opens + 1 .. at - 1 BY <1>0, <1>1, <2>3
    <3> DEFINE r == rank[switchedOn[i]]
    <3>2. r = <<round.nr, 0, Place(switchedOn[i])>> /\ Place(switchedOn[i]) < Place(b) BY <1>1, <1>3, <3>1
    <3>3. r[1] = round.nr /\ r[2] = 0 /\ r[3] = Place(switchedOn[i]) BY <3>2
    <3> HIDE DEF r
    <3>4. Before(r, key) BY <1>0, <1>4, <1>5, <2>1, <3>2, <3>3 DEF Before
    <3> QED BY <3>4 DEF r
  <2> QED BY <1>0, <2>1, <2>2, <2>3
<1>7. ASSUME NEW i \in at .. N PROVE Before(key, rank[switchedOn[i]])
  <2>1. i \in 1 .. N BY <1>0, <1>1, <1>2
  <2>2. CASE i <= frames
    <3>1. i \in opens + 1 .. frames /\ i \in at .. frames BY <1>0, <1>1, <2>2
    <3> DEFINE r == rank[switchedOn[i]]
    <3>2. r = <<round.nr, 0, Place(switchedOn[i])>> /\ Place(b) < Place(switchedOn[i]) BY <1>1, <1>3, <3>1
    <3>3. r[1] = round.nr /\ r[2] = 0 /\ r[3] = Place(switchedOn[i]) BY <3>2
    <3> HIDE DEF r
    <3>4. Before(key, r) BY <1>0, <1>4, <1>5, <2>1, <3>2, <3>3 DEF Before
    <3> QED BY <3>4 DEF r
  <2>3. CASE frames < i
    <3>1. i \in frames + 1 .. N BY <1>0, <1>1, <2>1, <2>3
    <3>2. rank[switchedOn[i]][1] = round.nr /\ rank[switchedOn[i]][2] = 1 BY <1>3, <3>1
    <3> QED BY <1>0, <1>4, <1>5, <2>1, <3>2 DEF Before
  <2> QED BY <1>0, <1>1, <2>1, <2>2, <2>3
<1>8. /\ ReplySpeedDecidesNothing'
      /\ \A i, j \in DOMAIN switchedOn' : switchedOn'[i] = switchedOn'[j] => i = j
  <2>1. PutsAt(b, at, key) BY DEF at, key
  <2>2. \A i \in at .. Len(switchedOn) : Before(key, rank[switchedOn[i]]) BY <1>7 DEF N
  <2> QED BY <1>0, <1>6, <2>1, <2>2, PutInOrder DEF PlaceInv
<1>9. \A i \in 1 .. N + 1 :
        LET r == rank'[switchedOn'[i]] IN r[1] <= round.nr /\ (r[1] = round.nr /\ r[2] = 1 => r[3] < N + 1)
  <2>1. ASSUME NEW i \in 1 .. N
        PROVE  LET r == rank[switchedOn[i]] IN r[1] <= round.nr /\ (r[1] = round.nr /\ r[2] = 1 => r[3] < N + 1)
    <3>1. LET r == rank[switchedOn[i]] IN
          /\ r[3] \in Nat /\ r[1] <= round.nr /\ (r[1] = round.nr /\ r[2] = 1 => r[3] < N)
      BY <1>2, <1>4, RankIs DEF PlaceInv, OnceEach, N
    <3> QED BY <1>2, <3>1
  <2> TAKE i \in 1 .. N + 1
  <2>2. CASE i = at BY <1>0, <1>2, <1>5, <2>2
  <2>3. CASE i < at
    <3>1. i \in 1 .. at - 1 /\ i \in 1 .. N BY <1>0, <1>1, <1>2, <2>3
    <3> QED BY <1>2, <2>1, <3>1
  <2>4. CASE at < i
    <3>1. i \in at + 1 .. N + 1 /\ i - 1 \in 1 .. N BY <1>0, <1>1, <1>2, <2>4
    <3> QED BY <1>2, <2>1, <3>1
  <2> QED BY <1>0, <1>1, <2>2, <2>3, <2>4
<1>10. round'.nr = round.nr /\ round'.opensAt = opens /\ round'.asked = round.asked
       /\ round'.placed = round.placed \cup {b}
  BY DEF BookTypeOK, RoundTyped, opens
<1>11. OnceEach' BY <1>2, <1>8, <1>9, <1>10 DEF OnceEach
<1>12. Cardinality(round'.placed) = k + 1
  <2>1. b \notin round.placed
    <3> SUFFICES ASSUME b \in round.placed PROVE FALSE OBVIOUS
    <3>1. PICK i \in opens + 1 .. frames : switchedOn[i] = b BY <1>3
    <3>2. i \in DOMAIN switchedOn BY <1>0, <1>1, <1>2, <3>1
    <3> QED BY <1>0, <3>1, <3>2 DEF ToSet
  <2>2. IsFiniteSet(round.placed) BY <1>0, BoxesAreFinite, FS_Subset
  <2> QED BY <1>10, <2>1, <2>2, FS_AddElement DEF k
<1>13. InThreeParts'
  <2> SUFFICES /\ round'.placed \subseteq round'.asked /\ frames + 1 <= N + 1
               /\ \A i \in 1 .. opens : rank'[switchedOn'[i]][1] < round.nr
               /\ \A i \in opens + 1 .. frames + 1 :
                    /\ switchedOn'[i] \in round'.placed
                    /\ rank'[switchedOn'[i]] = <<round.nr, 0, Place(switchedOn'[i])>>
               /\ \A o \in round'.placed : \E i \in opens + 1 .. frames + 1 : switchedOn'[i] = o
               /\ \A i \in frames + 1 + 1 .. N + 1 :
                    rank'[switchedOn'[i]][1] = round.nr /\ rank'[switchedOn'[i]][2] = 1
    <3>1. opens + (k + 1) = frames + 1 BY <1>0, <1>1
    <3>2. /\ round'.opensAt + Cardinality(round'.placed) = frames + 1 /\ round'.opensAt = opens
          /\ round'.nr = round.nr /\ Len(switchedOn') = N + 1
      BY <1>2, <1>10, <1>12, <3>1
    <3> HIDE DEF frames
    <3> QED BY <3>2 DEF InThreeParts
  <2>1. round'.placed \subseteq round'.asked BY <1>3, <1>10
  <2>2. frames + 1 <= N + 1 BY <1>0, <1>1, <1>2
  <2>3. \A i \in 1 .. opens : rank'[switchedOn'[i]][1] < round.nr
    <3> TAKE i \in 1 .. opens
    <3>1. i \in 1 .. at - 1 BY <1>0, <1>1
    <3> QED BY <1>2, <1>3, <3>1
  <2>4. ASSUME NEW i \in opens + 1 .. frames + 1
        PROVE  /\ switchedOn'[i] \in round'.placed
               /\ rank'[switchedOn'[i]] = <<round.nr, 0, Place(switchedOn'[i])>>
    <3>1. CASE i = at BY <1>2, <1>10, <3>1 DEF key
    <3>2. CASE i < at
      <4>1. i \in opens + 1 .. frames /\ i \in 1 .. at - 1 BY <1>0, <1>1, <3>2
      <4> QED BY <1>2, <1>3, <1>10, <4>1
    <3>3. CASE at < i
      <4>1. i - 1 \in opens + 1 .. frames /\ i \in at + 1 .. N + 1 BY <1>0, <1>1, <1>2, <3>3
      <4>2. switchedOn'[i] = switchedOn[i - 1] /\ rank'[switchedOn'[i]] = rank[switchedOn[i - 1]] BY <1>2, <4>1
      <4> QED BY <1>3, <1>10, <4>1, <4>2
    <3> QED BY <1>0, <1>1, <3>1, <3>2, <3>3
  <2>5. \A o \in round'.placed : \E i \in opens + 1 .. frames + 1 : switchedOn'[i] = o
    <3> TAKE o \in round'.placed
    <3>1. CASE o = b
      <4>1. at \in opens + 1 .. frames + 1 BY <1>1
      <4> QED BY <1>2, <3>1, <4>1
    <3>2. CASE o \in round.placed
      <4>1. PICK i \in opens + 1 .. frames : switchedOn[i] = o BY <1>3, <3>2
      <4>2. CASE i < at
        <5>1. i \in 1 .. at - 1 /\ i \in opens + 1 .. frames + 1 BY <1>0, <1>1, <4>2
        <5> QED BY <1>2, <4>1, <5>1
      <4>3. CASE ~(i < at)
        <5>1. i + 1 \in at + 1 .. N + 1 /\ i + 1 \in opens + 1 .. frames + 1 /\ (i + 1) - 1 = i
          BY <1>0, <1>1, <1>2, <4>3
        <5> QED BY <1>2, <4>1, <5>1
      <4> QED BY <4>2, <4>3
    <3> QED BY <1>10, <3>1, <3>2
  <2>6. \A i \in frames + 1 + 1 .. N + 1 : rank'[switchedOn'[i]][1] = round.nr /\ rank'[switchedOn'[i]][2] = 1
    <3> TAKE i \in frames + 1 + 1 .. N + 1
    <3>1. i - 1 \in frames + 1 .. N /\ i \in at + 1 .. N + 1 BY <1>0, <1>1, <1>2
    <3> QED BY <1>2, <1>3, <3>1
  <2> HIDE DEF frames
  <2> QED BY <2>1, <2>2, <2>3, <2>4, <2>5, <2>6
<1> QED BY <1>8, <1>11, <1>13 DEF PlaceInv

LEMMA PlaceStep ==
  ASSUME BookTypeOK, OfTheBook, PlaceInv, PollerSeeds, BookNext
  PROVE  PlaceInv'
<1>1. CASE ReadBegins \/ RegistryAnswers \/ ReadFails \/ ReadIsTaken
  BY <1>1, SamePlaces DEF ReadBegins, RegistryAnswers, ReadFails, ReadIsTaken, RoundIsOut, roundVars
<1>2. CASE PreferencesAreTaken \/ PreferencesChange \/ Dials \/ Steps
  BY <1>2, SamePlaces DEF PreferencesAreTaken, PreferencesChange, Dials, Steps, Goes, RoundIsOut, bookVars, roundVars
<1>3. ASSUME NEW rotates \in BOOLEAN, Thumbed(rotates) PROVE PlaceInv'
  BY <1>3, SamePlaces DEF Thumbed, RoundIsOut, bookVars, roundVars
<1>4. ASSUME NEW t \in Seeders, SeedIsCalled(t) \/ SeedEnters(t) \/ SeedEnds(t) PROVE PlaceInv'
  <2>1. poller' = poller \/ (poller = "seed" /\ poller' = "ask")
    BY <1>4 DEF SeedIsCalled, SeedEnters, SeedEnds, Enters, SeedingIsOver, Calls, HasItsTurn, PollerSeeds
  <2> QED BY <1>4, <2>1, SamePlaces DEF SeedIsCalled, SeedEnters, SeedEnds, RoundIsOut, roundVars
<1>5. ASSUME NEW b \in Boxes, BoxAnswers(b) \/ Connect(b) \/ Drop(b) \/ \E s \in Playing : BoxPlays(b, s) PROVE PlaceInv'
  BY <1>5, SamePlaces DEF BoxAnswers, Connect, Drop, BoxPlays, RoundIsOut, bookVars, roundVars
<1>6. CASE RoundOpens
  <2> DEFINE new == book \cap notAsked
  <2>0. poller = "ask" /\ UNCHANGED <<switchedOn, rank>> BY <1>6 DEF RoundOpens
  <2>1. CASE new = {}
    <3>1. UNCHANGED round /\ poller' = "wait" BY <1>6, <2>1 DEF RoundOpens
    <3> QED BY <2>0, <3>1, SamePlaces DEF RoundIsOut
  <2>2. CASE new # {}
    <3>1. /\ round' = [asked |-> new, opensAt |-> Len(switchedOn), placed |-> {}, nr |-> round.nr + 1]
          /\ poller' = "opened"
      BY <1>6, <2>2 DEF RoundOpens
    <3>2. /\ round'.opensAt = Len(switchedOn) /\ round'.placed = {} /\ round'.nr = round.nr + 1
          /\ round.nr \in Nat /\ Len(switchedOn) \in Nat /\ DOMAIN switchedOn = 1 .. Len(switchedOn)
      BY <3>1, LenProperties DEF BookTypeOK, RoundTyped
    <3>3. \A i \in 1 .. Len(switchedOn) : rank[switchedOn[i]][1] \in Nat /\ rank[switchedOn[i]][1] <= round.nr
      BY <3>2, RankIs DEF PlaceInv, OnceEach
    <3>4. OnceEach'
      <4>1. \A i \in DOMAIN switchedOn : LET r == rank[switchedOn[i]] IN
              r[1] <= round.nr + 1 /\ (r[1] = round.nr + 1 /\ r[2] = 1 => r[3] < Len(switchedOn))
        BY <3>2, <3>3
      <4> QED BY <2>0, <3>2, <4>1 DEF PlaceInv, OnceEach
    <3>5. InThreeParts'
      <4>1. round'.opensAt + Cardinality(round'.placed) = Len(switchedOn) BY <3>2, FS_EmptySet
      <4>2. \A i \in 1 .. Len(switchedOn) : rank[switchedOn[i]][1] < round.nr + 1 BY <3>2, <3>3
      <4>3. 1 .. Len(switchedOn) = DOMAIN switchedOn /\ Len(switchedOn) + 1 .. Len(switchedOn) = {}
            /\ Len(switchedOn) <= Len(switchedOn)
        BY <3>2
      <4> QED BY <2>0, <3>2, <4>1, <4>2, <4>3 DEF InThreeParts
    <3>6. ReplySpeedDecidesNothing' BY <2>0 DEF PlaceInv, ReplySpeedDecidesNothing, Before
    <3> QED BY <3>4, <3>5, <3>6 DEF PlaceInv
  <2> QED BY <2>1, <2>2
<1>10. CASE QuestionsGoOut BY <1>10, SamePlaces DEF QuestionsGoOut, RoundIsOut
<1>7. CASE RoundEnds
  <2>1. round'.nr = round.nr /\ poller' = "wait" /\ UNCHANGED <<switchedOn, rank>>
    BY <1>7 DEF RoundEnds, NoRound
  <2> QED BY <2>1 DEF PlaceInv, OnceEach, InThreeParts, RoundIsOut, ReplySpeedDecidesNothing, Before
<1>8. ASSUME NEW b \in Boxes, AnswerIsTaken(b) PROVE PlaceInv'
  <2>1. UNCHANGED poller BY <1>8 DEF AnswerIsTaken, bookVars
  <2>2. CASE UNCHANGED <<switchedOn, rank, round>> BY <2>1, <2>2, SamePlaces DEF RoundIsOut
  <2>3. CASE question[b] # "silence" /\ ~Stale(b)
    <3>1. /\ RoundIsOut /\ b \in round.asked
          /\ NotedSwitchedOn(b, question[b], SlotFor(b), <<round.nr, 0, Place(b)>>)
          /\ round' = [round EXCEPT !.placed = IF switchedOn' # switchedOn THEN @ \cup {b} ELSE @]
          /\ switchedOn' # switchedOn => SlotFor(b) \in 1 .. Len(switchedOn) + 1
      BY <1>8, <2>3, SlotStays
    <3>2. CASE switchedOn' = switchedOn
      <4>1. round' = round BY <3>1, <3>2 DEF BookTypeOK, RoundTyped
      <4>2. CASE rank' = rank BY <2>1, <3>2, <4>1, <4>2, SamePlaces DEF RoundIsOut
      <4>3. CASE rank' # rank
        <5>1. b \notin ToSet(switchedOn) /\ switchedOn = InsertAt(switchedOn, SlotFor(b), b)
          BY <3>1, <3>2, <4>3 DEF NotedSwitchedOn
        <5>2. Len(switchedOn) \in Nat /\ switchedOn \in Seq(Boxes)
          BY LenProperties DEF BookTypeOK, RoundTyped
        <5>3. SlotFor(b) \in 1 .. Len(switchedOn) + 1 BY <3>1, <5>1, <5>2, SlotIs
        <5>4. Len(InsertAt(switchedOn, SlotFor(b), b)) = Len(switchedOn) + 1 BY <5>2, <5>3, Inserted
        <5> QED BY <5>1, <5>2, <5>4
      <4> QED BY <4>2, <4>3
    <3>3. CASE switchedOn' # switchedOn
      <4>1. round' = [round EXCEPT !.placed = @ \cup {b}] BY <3>1, <3>3
      <4>2. PutsAt(b, SlotFor(b), <<round.nr, 0, Place(b)>>)
        <5>1. <<round.nr, 0, Place(b)>> \in Nat \X {0, 1} \X Nat BY PlaceIs DEF BookTypeOK, RoundTyped
        <5> QED BY <3>1, <3>3, <5>1 DEF NotedSwitchedOn, PutsAt
      <4> QED BY <2>1, <3>1, <4>1, <4>2, PlacesAtItsSlot
    <3> QED BY <3>2, <3>3
  <2> QED BY <1>8, <2>2, <2>3 DEF AnswerIsTaken
<1>9. CASE Read
  <2> DEFINE e == Head(events)
  <2>1. e.box \in Boxes
    <3>1. e \in [box : Boxes, source : Playing] BY <1>9, HeadTailProperties DEF Read, BookTypeOK, BoxesTyped
    <3> QED BY <3>1
  <2>2. NotedSwitchedOn(e.box, e.source, Len(switchedOn) + 1, <<round.nr, 1, Len(switchedOn)>>) BY <1>9 DEF Read
  <2>3. UNCHANGED <<poller, round>> BY <1>9 DEF Read, bookVars
  <2> HIDE DEF e
  <2>4. CASE UNCHANGED <<switchedOn, rank>> BY <2>3, <2>4, SamePlaces DEF RoundIsOut
  <2>5. CASE ~UNCHANGED <<switchedOn, rank>>
    <3>1. Len(switchedOn) \in Nat BY LenProperties DEF BookTypeOK, RoundTyped
    <3>2. <<round.nr, 1, Len(switchedOn)>> \in Nat \X {0, 1} \X Nat BY <3>1 DEF BookTypeOK, RoundTyped
    <3>3. PutsAt(e.box, Len(switchedOn) + 1, <<round.nr, 1, Len(switchedOn)>>)
      BY <2>2, <2>5, <3>1, <3>2 DEF NotedSwitchedOn, PutsAt
    <3> QED BY <2>1, <2>3, <3>3, PlacesAtTheEnd
  <2> QED BY <2>4, <2>5
<1> QED BY <1>1, <1>2, <1>3, <1>4, <1>5, <1>6, <1>7, <1>8, <1>9, <1>10 DEF BookNext

-----------------------------------------------------------------------------
(* Seeding *)

LEMMA SameSeeds ==
  ASSUME OneSeeds, UNCHANGED <<seeding, asking, asked, channels, switchedOn, rank, round>>, RoundIsOut' => RoundIsOut
  PROVE  OneSeeds'
BY DEF OneSeeds, Holds, Early

\* Who stands there stays behind the same boxes, unless one is put before it.
LEMMA StillFirst ==
  ASSUME BookTypeOK, NEW b \in Boxes, NEW at, NEW key, PutsAt(b, at, key), NEW i \in 1 .. at - 1
  PROVE  /\ i \in DOMAIN switchedOn /\ i \in DOMAIN switchedOn'
         /\ switchedOn'[i] = switchedOn[i] /\ rank'[switchedOn[i]] = rank[switchedOn[i]]
         /\ \A j \in 1 .. i - 1 : switchedOn'[j] = switchedOn[j]
<1>1. at \in 1 .. Len(switchedOn) + 1 BY DEF PutsAt
<1>2. Len(switchedOn) \in Nat /\ DOMAIN switchedOn = 1 .. Len(switchedOn)
      /\ DOMAIN switchedOn' = 1 .. Len(switchedOn) + 1
  BY Put
<1>3. \A j \in 1 .. at - 1 : switchedOn'[j] = switchedOn[j] /\ rank'[switchedOn'[j]] = rank[switchedOn[j]] BY Put
<1>4. i \in 1 .. Len(switchedOn) /\ i \in 1 .. Len(switchedOn) + 1 /\ \A j \in 1 .. i - 1 : j \in 1 .. at - 1
  BY <1>1, <1>2
<1> QED BY <1>2, <1>3, <1>4

\* Whoever holds the lock goes on holding it rightly when a box is put behind the one it asks.
LEMMA HoldsOn ==
  ASSUME BookTypeOK, NEW t \in Seeders, Holds(t), NEW b \in Boxes, NEW at, NEW key, PutsAt(b, at, key),
         \A i \in DOMAIN switchedOn : switchedOn[i] = asking[t] => i < at,
         UNCHANGED <<asking, asked, channels, poller>>, round'.nr = round.nr
  PROVE  Holds(t)'
<1>1. PICK i \in DOMAIN switchedOn : switchedOn[i] = asking[t] /\ \A j \in 1 .. i - 1 : switchedOn[j] \in asked
  BY DEF Holds
<1>2. at \in 1 .. Len(switchedOn) + 1 /\ Len(switchedOn) \in Nat /\ DOMAIN switchedOn = 1 .. Len(switchedOn)
  BY LenProperties DEF PutsAt, BookTypeOK, RoundTyped
<1>3. i \in 1 .. at - 1 BY <1>1, <1>2
<1>4. /\ i \in DOMAIN switchedOn' /\ switchedOn'[i] = asking[t] /\ rank'[asking[t]] = rank[asking[t]]
      /\ \A j \in 1 .. i - 1 : switchedOn'[j] \in asked
  BY <1>1, <1>3, StillFirst
<1>5. Early(asking[t])'
  BY <1>4 DEF Holds, Early, RoundIsOut
<1> QED BY <1>4, <1>5 DEF Holds

LEMMA EntersHolds ==
  ASSUME BookTypeOK, OfTheBook, NEW t \in Seeders, Enters(t), UNCHANGED <<switchedOn, rank, round, channels>>,
         \A u \in Seeders : seeding[u] # "holds", RoundIsOut => t = "pass",
         RoundIsOut => \A i \in DOMAIN switchedOn : Early(switchedOn[i]),
         seeding["pass"] = "waits" => \A i \in DOMAIN switchedOn : Early(switchedOn[i])
  PROVE  OneSeeds'
<1>0. seeding \in [Seeders -> {"idle", "waits", "holds"}] /\ asking \in [Seeders -> Boxes \cup {"none"}]
      /\ switchedOn \in Seq(Boxes) /\ {"poller", "pass"} = Seeders
  BY DEF BookTypeOK, SeedTyped, RoundTyped, Seeders
<1>1. CASE StillMaySeed /\ FirstUnasked # 0
  <2> DEFINE F == FirstUnasked
  <2>1. /\ seeding' = [seeding EXCEPT ![t] = "holds"] /\ asking' = [asking EXCEPT ![t] = switchedOn[F]]
        /\ asked' = asked \cup {switchedOn[F]} /\ poller' = poller /\ channels = {}
    BY <1>1 DEF Enters, StillMaySeed
  <2>2. F \in DOMAIN switchedOn /\ \A j \in 1 .. F - 1 : switchedOn[j] \in book => switchedOn[j] \in asked
    BY <1>0, <1>1, FirstUnaskedIs
  <2> HIDE DEF F
  <2>3. \A j \in 1 .. F - 1 : switchedOn[j] \in asked
    <3> TAKE j \in 1 .. F - 1
    <3>1. j \in DOMAIN switchedOn BY <1>0, <2>2, LenProperties
    <3> QED BY <2>2, <3>1 DEF OfTheBook
  <2>4. asking'[t] = switchedOn[F] /\ \A u \in Seeders : seeding'[u] = "holds" => u = t BY <1>0, <2>1
  <2>5. Early(switchedOn[F]) /\ (RoundIsOut' <=> RoundIsOut) BY <2>1, <2>2 DEF Early, RoundIsOut
  <2>6. \E i \in DOMAIN switchedOn' : switchedOn'[i] = asking'[t] /\ \A j \in 1 .. i - 1 : switchedOn'[j] \in asked'
    <3>1. F \in DOMAIN switchedOn' /\ switchedOn'[F] = asking'[t] /\ \A j \in 1 .. F - 1 : switchedOn'[j] \in asked'
      BY <2>1, <2>2, <2>3, <2>4
    <3> QED BY <3>1
  <2>7. channels' = {} /\ asking'[t] \in asked' /\ (RoundIsOut' => rank'[asking'[t]][1] < round'.nr)
    BY <2>1, <2>4, <2>5 DEF Early
  <2>8. seeding'["pass"] = "waits" => seeding["pass"] = "waits" BY <1>0, <2>1
  <2>9. Holds(t)' BY <2>6, <2>7 DEF Holds, Early
  <2> QED BY <2>4, <2>5, <2>8, <2>9 DEF OneSeeds, Early
<1>2. CASE ~(StillMaySeed /\ FirstUnasked # 0)
  <2>1. seeding' = [seeding EXCEPT ![t] = "idle"] /\ (poller' = poller \/ poller' = "ask")
    BY <1>2 DEF Enters, SeedingIsOver
  <2>2. /\ \A u \in Seeders : seeding'[u] # "holds"
        /\ seeding'["pass"] = "waits" => seeding["pass"] = "waits"
    BY <1>0, <2>1
  <2>3. RoundIsOut' => RoundIsOut BY <2>1 DEF RoundIsOut
  <2> QED BY <2>2, <2>3 DEF OneSeeds, Early
<1> QED BY <1>1, <1>2

LEMMA SeedStep ==
  ASSUME TurnsAreKept, BookTypeOK, OfTheBook, PlaceInv, PollerSeeds, OneSeeds, BookNext
  PROVE  OneSeeds'
<1> USE DEF Seeders
<1>0. seeding \in [Seeders -> {"idle", "waits", "holds"}] /\ (RoundIsOut => seeding["poller"] = "idle")
  BY DEF BookTypeOK, SeedTyped, PollerSeeds, RoundIsOut
\* While a round is out, and while the lock's next holder has its turn coming, nobody waits for it.
<1>1. TurnsCome /\ RoundIsOut => seeding["pass"] # "waits"
  BY <1>0 DEF TurnsCome, HasItsTurn
<1>2. CASE ReadBegins \/ RegistryAnswers \/ ReadFails \/ ReadIsTaken
  BY <1>2, SameSeeds DEF ReadBegins, RegistryAnswers, ReadFails, ReadIsTaken, RoundIsOut, roundVars, seedVars
<1>3. CASE PreferencesAreTaken \/ PreferencesChange \/ Dials \/ Steps
  BY <1>3, SameSeeds DEF PreferencesAreTaken, PreferencesChange, Dials, Steps, Goes, RoundIsOut, bookVars, roundVars, seedVars
<1>4. ASSUME NEW rotates \in BOOLEAN, Thumbed(rotates) PROVE OneSeeds'
  <2>1. \A t \in Seeders : seeding[t] = "idle" /\ seeding' = seeding BY <1>4 DEF Thumbed, Quiet
  <2> QED BY <2>1 DEF OneSeeds
<1>5. ASSUME NEW b \in Boxes, BoxAnswers(b) \/ Connect(b) \/ Drop(b) \/ \E s \in Playing : BoxPlays(b, s) PROVE OneSeeds'
  BY <1>5, SameSeeds DEF BoxAnswers, Connect, Drop, BoxPlays, RoundIsOut, bookVars, roundVars, seedVars
<1>6. CASE RoundOpens
  <2>1. UNCHANGED <<seeding, asking, asked, channels, switchedOn, rank>> BY <1>6 DEF RoundOpens, seedVars
  <2>2. RoundIsOut' => round'.nr = round.nr + 1
    BY <1>6 DEF RoundOpens, RoundIsOut
  <2>3. \A i \in DOMAIN switchedOn : Early(switchedOn[i])'
    <3> TAKE i \in DOMAIN switchedOn
    <3>1. rank[switchedOn[i]][1] \in Nat /\ rank[switchedOn[i]][1] <= round.nr /\ round.nr \in Nat
      BY RankIs, LenProperties DEF PlaceInv, OnceEach, BookTypeOK, RoundTyped
    <3>2. rank'[switchedOn[i]] = rank[switchedOn[i]] BY <2>1
    <3>3. rank[switchedOn[i]][1] < round.nr + 1 BY <3>1
    <3>4. (switchedOn[i])' = switchedOn[i] BY <2>1
    <3> QED BY <2>1, <2>2, <3>2, <3>3, <3>4 DEF Early
  <2>4. ASSUME NEW t \in Seeders, seeding[t] = "holds" PROVE Holds(t)'
    <3>1. Holds(t) BY <2>4 DEF OneSeeds
    <3>2. Early(asking[t])' BY <2>1, <2>3, <3>1 DEF Holds, Early
    <3> QED BY <2>1, <3>1, <3>2 DEF Holds
  <2> QED BY <2>1, <2>3, <2>4 DEF OneSeeds
<1>20. CASE QuestionsGoOut BY <1>20, SameSeeds DEF QuestionsGoOut, RoundIsOut, seedVars
<1>7. CASE RoundEnds
  <2>1. UNCHANGED <<seeding, asking, asked, channels, switchedOn>> /\ ~RoundIsOut'
    BY <1>7 DEF RoundEnds, RoundIsOut, seedVars
  <2> QED BY <2>1 DEF OneSeeds, Holds, Early
<1>8. ASSUME NEW b \in Boxes, AnswerIsTaken(b) PROVE OneSeeds'
  <2>1. UNCHANGED <<poller, seeding, asking, asked, channels>> BY <1>8 DEF AnswerIsTaken, bookVars, seedVars
  <2>2. CASE UNCHANGED <<switchedOn, rank, round>> BY <2>1, <2>2, SameSeeds DEF RoundIsOut
  <2>3. CASE question[b] # "silence" /\ ~Stale(b)
    <3>1. /\ RoundIsOut /\ b \in round.asked
          /\ NotedSwitchedOn(b, question[b], SlotFor(b), <<round.nr, 0, Place(b)>>)
          /\ round' = [round EXCEPT !.placed = IF switchedOn' # switchedOn THEN @ \cup {b} ELSE @]
      BY <1>8, <2>3, SlotStays
    <3>2. round'.nr = round.nr BY <3>1 DEF BookTypeOK, RoundTyped
    <3>3. CASE b \in ToSet(switchedOn) \/ question[b] = "standby"
      <4>1. UNCHANGED <<switchedOn, rank>> BY <3>1, <3>3 DEF NotedSwitchedOn
      <4>2. round' = round BY <3>1, <4>1 DEF BookTypeOK, RoundTyped
      <4> QED BY <2>2, <4>1, <4>2
    <3>4. CASE b \notin ToSet(switchedOn) /\ question[b] # "standby"
      <4>1. SlotFor(b) \in 1 .. Len(switchedOn) + 1 /\ round.opensAt < SlotFor(b)
        BY <3>1, <3>4, SlotIs, LenProperties DEF BookTypeOK, RoundTyped
      <4>2. PutsAt(b, SlotFor(b), <<round.nr, 0, Place(b)>>)
        <5>1. <<round.nr, 0, Place(b)>> \in Nat \X {0, 1} \X Nat BY PlaceIs DEF BookTypeOK, RoundTyped
        <5> QED BY <3>1, <3>4, <4>1, <5>1 DEF NotedSwitchedOn, PutsAt
      <4>3. ASSUME NEW t \in Seeders, seeding[t] = "holds" PROVE Holds(t)'
        <5>1. Holds(t) BY <4>3 DEF OneSeeds
        <5>2. \A i \in DOMAIN switchedOn : switchedOn[i] = asking[t] => i < SlotFor(b)
          <6> SUFFICES ASSUME NEW i \in DOMAIN switchedOn, switchedOn[i] = asking[t] PROVE i < SlotFor(b)
            OBVIOUS
          <6>1. rank[switchedOn[i]][1] < round.nr BY <3>1, <5>1 DEF Holds, Early
          <6>2. i <= round.opensAt
            <7>1. /\ \A j \in round.opensAt + 1 .. round.opensAt + Cardinality(round.placed) :
                       rank[switchedOn[j]] = <<round.nr, 0, Place(switchedOn[j])>>
                  /\ \A j \in round.opensAt + Cardinality(round.placed) + 1 .. Len(switchedOn) :
                       rank[switchedOn[j]][1] = round.nr
              BY <3>1 DEF PlaceInv, InThreeParts
            <7>2. Cardinality(round.placed) \in Nat /\ round.opensAt \in Nat /\ round.nr \in Nat
                  /\ i \in 1 .. Len(switchedOn) /\ Len(switchedOn) \in Nat
              BY <3>1, <3>4, SlotIs, LenProperties DEF BookTypeOK, RoundTyped
            <7>3. CASE i \in round.opensAt + 1 .. round.opensAt + Cardinality(round.placed)
              <8>1. rank[switchedOn[i]] = <<round.nr, 0, Place(switchedOn[i])>> BY <7>1, <7>3
              <8>2. rank[switchedOn[i]][1] = round.nr BY <8>1
              <8> QED BY <6>1, <7>2, <8>2
            <7>4. CASE i \in round.opensAt + Cardinality(round.placed) + 1 .. Len(switchedOn)
              BY <6>1, <7>1, <7>2, <7>4
            <7> QED BY <7>2, <7>3, <7>4
          <6>3. i \in Nat /\ round.opensAt \in Nat /\ SlotFor(b) \in Nat
            BY <4>1, LenProperties DEF BookTypeOK, RoundTyped
          <6> QED BY <4>1, <6>2, <6>3
        <5>3. b \in Boxes OBVIOUS
        <5> QED BY <2>1, <3>2, <4>2, <5>1, <5>2, HoldsOn
      <4>4. seeding["pass"] # "waits" BY <1>8, <1>1, <3>1 DEF AnswerIsTaken
      <4> QED BY <2>1, <4>3, <4>4 DEF OneSeeds
    <3> QED BY <3>3, <3>4
  <2> QED BY <1>8, <2>2, <2>3 DEF AnswerIsTaken
<1>9. CASE Read
  <2> DEFINE e == Head(events)
             a == Len(switchedOn) + 1
             key == <<round.nr, 1, Len(switchedOn)>>
  <2>1. e.box \in Boxes
    <3>1. e \in [box : Boxes, source : Playing] BY <1>9, HeadTailProperties DEF Read, BookTypeOK, BoxesTyped
    <3> QED BY <3>1
  <2>2. NotedSwitchedOn(e.box, e.source, a, key) BY <1>9 DEF Read
  <2>3. UNCHANGED <<poller, round, seeding, asking, asked, channels>> BY <1>9 DEF Read, bookVars, seedVars
  <2> HIDE DEF e
  <2>4. CASE UNCHANGED <<switchedOn, rank>> BY <2>3, <2>4, SameSeeds DEF RoundIsOut
  <2>5. CASE ~UNCHANGED <<switchedOn, rank>>
    <3>1. Len(switchedOn) \in Nat /\ DOMAIN switchedOn = 1 .. Len(switchedOn)
      BY LenProperties DEF BookTypeOK, RoundTyped
    <3>2. key \in Nat \X {0, 1} \X Nat BY <3>1 DEF BookTypeOK, RoundTyped
    <3>3. a \in 1 .. Len(switchedOn) + 1 /\ \A i \in DOMAIN switchedOn : i < a BY <3>1
    <3> HIDE DEF a, key
    <3>4. PutsAt(e.box, a, key) BY <2>2, <2>5, <3>2, <3>3 DEF NotedSwitchedOn, PutsAt
    <3>5. ASSUME NEW t \in Seeders, seeding[t] = "holds" PROVE Holds(t)'
      <4>1. Holds(t) BY <3>5 DEF OneSeeds
      <4>2. UNCHANGED <<asking, asked, channels, poller>> /\ round'.nr = round.nr BY <2>3
      <4> QED BY <2>1, <3>3, <3>4, <4>1, <4>2, HoldsOn
    <3>6. seeding["pass"] = "waits" => ~RoundIsOut BY <1>9, <1>1 DEF Read
    <3>7. seeding'["pass"] = "waits" => ~RoundIsOut' BY <2>3, <3>6 DEF RoundIsOut
    <3> QED BY <2>3, <3>5, <3>7 DEF OneSeeds, Early
  <2> QED BY <2>4, <2>5
<1>10. ASSUME NEW t \in Seeders, SeedIsCalled(t) PROVE OneSeeds'
  <2>1. UNCHANGED <<switchedOn, rank, round, channels>> BY <1>10 DEF SeedIsCalled, roundVars
  <2>2. CASE ~MaySeed
    <3>1. UNCHANGED <<seeding, asking, asked>> /\ ~RoundIsOut'
      BY <1>10, <2>2 DEF SeedIsCalled, SeedingIsOver, RoundIsOut
    <3> QED BY <2>1, <3>1, SameSeeds
  <2>3. CASE MaySeed /\ \A u \in Seeders : seeding[u] = "idle"
    <3>1. Enters(t) /\ ~RoundIsOut BY <1>10, <2>3 DEF SeedIsCalled, MaySeed
    <3>2. \A u \in Seeders : seeding[u] # "holds" BY <2>3
    <3>3. seeding["pass"] # "waits" BY <2>3
    <3> QED BY <2>1, <3>1, <3>2, <3>3, EntersHolds
  <2>4. CASE MaySeed /\ ~\A u \in Seeders : seeding[u] = "idle"
    <3>1. ~RoundIsOut BY <2>4 DEF MaySeed
    <3>2. seeding' = [seeding EXCEPT ![t] = "waits"] /\ UNCHANGED <<poller, asking, asked>>
      BY <1>10, <2>4 DEF SeedIsCalled
    <3>3. \A u \in Seeders : seeding'[u] = "holds" => seeding[u] = "holds" BY <1>0, <3>2
    <3>4. ~RoundIsOut' BY <3>1, <3>2 DEF RoundIsOut
    <3> QED BY <2>1, <3>2, <3>3, <3>4 DEF OneSeeds, Holds, Early
  <2> QED BY <2>2, <2>3, <2>4
<1>11. ASSUME NEW t \in Seeders, SeedEnters(t) PROVE OneSeeds'
  <2>1. UNCHANGED <<switchedOn, rank, round, channels>> BY <1>11 DEF SeedEnters, roundVars
  <2>2. Enters(t) /\ seeding[t] = "waits" /\ \A u \in Seeders : seeding[u] # "holds"
    BY <1>11 DEF SeedEnters, HasItsTurn
  <2>3. RoundIsOut => t = "pass" BY <1>0, <2>2
  <2>4. /\ RoundIsOut => \A i \in DOMAIN switchedOn : Early(switchedOn[i])
        /\ seeding["pass"] = "waits" => \A i \in DOMAIN switchedOn : Early(switchedOn[i])
    BY <2>2, <2>3 DEF OneSeeds
  <2> QED BY <2>1, <2>2, <2>3, <2>4, EntersHolds
<1>12. ASSUME NEW t \in Seeders, SeedEnds(t) PROVE OneSeeds'
  <2>1. seeding[t] = "holds" /\ seeding' = [seeding EXCEPT ![t] = "idle"] BY <1>12 DEF SeedEnds
  <2>2. \A u \in Seeders : seeding'[u] # "holds" BY <1>0, <2>1 DEF OneSeeds
  <2>3. UNCHANGED <<switchedOn, rank, round>> BY <1>12 DEF SeedEnds, roundVars
  <2>4. RoundIsOut' => RoundIsOut BY <1>12 DEF SeedEnds, SeedingIsOver, RoundIsOut
  <2>5. seeding'["pass"] = "waits" => seeding["pass"] = "waits" BY <1>0, <2>1
  <2> QED BY <2>2, <2>3, <2>4, <2>5 DEF OneSeeds, Early
<1> QED BY <1>20, <1>2, <1>3, <1>4, <1>5, <1>6, <1>7, <1>8, <1>9, <1>10, <1>11, <1>12 DEF BookNext

LEMMA SeedsFromTheFirst ==
  ASSUME BookTypeOK, PlaceInv, OneSeeds, NEW t \in Seeders, seeding[t] = "holds"
  PROVE  /\ channels = {}
         /\ RoundIsOut => Before(rank[asking[t]], <<round.nr, 0, 0>>)
         /\ \A i \in DOMAIN switchedOn : switchedOn[i] = asking[t] =>
              \A j \in 1 .. i - 1 : switchedOn[j] \in asked
<1>1. Holds(t) BY DEF OneSeeds
<1>2. RoundIsOut => Before(rank[asking[t]], <<round.nr, 0, 0>>) BY <1>1 DEF Holds, Early, Before
<1> QED BY <1>1, <1>2 DEF Holds, PlaceInv, OnceEach

-----------------------------------------------------------------------------
(* What is known of a box, and what it said *)

LEMMA EventsAre ==
  ASSUME BookTypeOK
  PROVE  /\ Len(events) \in Nat /\ DOMAIN events = 1 .. Len(events)
         /\ \A i \in DOMAIN events : i \in Nat /\ events[i].box \in Boxes /\ events[i].source \in Playing
         /\ \A b \in Boxes : entry[b] \in Heards \cup {Nothing} /\ said[b] \in Heards \cup {Nothing}
         /\ now = 0
<1>1. events \in Seq([box : Boxes, source : Playing]) BY DEF BookTypeOK, BoxesTyped
<1>2. Len(events) \in Nat /\ DOMAIN events = 1 .. Len(events) BY <1>1, LenProperties
<1>3. \A i \in DOMAIN events : events[i] \in [box : Boxes, source : Playing] BY <1>1, <1>2, ElementOfSeq
<1> QED BY <1>2, <1>3 DEF BookTypeOK, EntriesTyped

LEMMA HasLast ==
  ASSUME BookTypeOK, NEW b \in Boxes, Unread(b) # {}
  PROVE  \E i \in Unread(b) : LastUnread(b, i)
<1> DEFINE N == Len(events)
           T == {n \in 0 .. N : \E i \in Unread(b) : i + n = N}
<1>1. N \in Nat /\ \A i \in Unread(b) : i \in 1 .. N BY EventsAre DEF Unread
<1>2. T \in SUBSET Nat OBVIOUS
<1>3. T # {}
  <2>1. PICK i \in Unread(b) : TRUE OBVIOUS
  <2>2. N - i \in T BY <1>1
  <2> QED BY <2>2
<1> HIDE DEF N
<1>4. PICK n \in T : \A m \in T : n <= m
  <2> HIDE DEF T
  <2> QED BY <1>2, <1>3, Least
<1>5. PICK i \in Unread(b) : i + n = N BY <1>4
<1>6. ASSUME NEW j \in Unread(b) PROVE j <= i
  <2>1. N - j \in T BY <1>1
  <2>2. n <= N - j BY <1>4, <2>1
  <2> QED BY <1>1, <1>5, <2>2
<1> QED BY <1>5, <1>6 DEF LastUnread

LEMMA SameTold ==
  ASSUME NEW b \in Boxes, Told(b), events' = events, said'[b] = said[b],
         WithItsAnswer(b)' = WithItsAnswer(b)
  PROVE  Told(b)'
BY DEF Told, ComesTo, WillWake, SourceOf, Awake, Unread, LastUnread, OnlyRadioAfter

LEMMA SameKnown ==
  ASSUME KnownInv, UNCHANGED <<events, said, unheard, question, spoke, last, entry, now>>
  PROVE  KnownInv'
<1>1. \A b \in Boxes : WithItsAnswer(b)' = WithItsAnswer(b)
  BY DEF WithItsAnswer, Stale, Heard, Fresh, WakeAfter
<1>2. \A b \in Boxes \ unheard : Told(b)' BY <1>1, SameTold DEF KnownInv
<1>3. StaleIsKnown' BY DEF KnownInv, StaleIsKnown, SourceOf
<1> QED BY <1>2, <1>3 DEF KnownInv

\* With nothing of a box unread, an entry is as awake as what it said.
LEMMA AllHeardNow ==
  ASSUME NEW b \in Boxes, Told(b), Unread(b) = {}
  PROVE  /\ SourceOf(WithItsAnswer(b)) = SourceOf(said[b])
         /\ Awake(said[b]) => Awake(WithItsAnswer(b))
BY DEF Told, ComesTo, WillWake

LEMMA NothingOnItsWay ==
  ASSUME NEW b \in Boxes, Unread(b)' = {}, SourceOf(WithItsAnswer(b)') = SourceOf(said'[b]),
         Awake(said'[b]) => Awake(WithItsAnswer(b)')
  PROVE  Told(b)'
<1>1. \A j \in Unread(b)' : FALSE OBVIOUS
<1>2. SourceOf(WithItsAnswer(b))' = SourceOf(WithItsAnswer(b)') /\ SourceOf(said[b])' = SourceOf(said'[b])
  BY DEF SourceOf
<1>3. Awake(WithItsAnswer(b))' = Awake(WithItsAnswer(b)') /\ Awake(said[b])' = Awake(said'[b])
  BY DEF Awake
<1>4. ComesTo(WithItsAnswer(b), b, SourceOf(said[b]))'
  BY <1>1, <1>2 DEF ComesTo
<1>5. OnlyRadioAfter(b, 0)' BY <1>1 DEF OnlyRadioAfter
<1> QED BY <1>3, <1>4, <1>5 DEF Told, WillWake

LEMMA SameStale ==
  ASSUME BookTypeOK, StaleIsKnown, UNCHANGED <<spoke, last>>,
         \A c \in Boxes : question'[c] # "none" => question[c] # "none" /\ entry'[c] = entry[c]
  PROVE  StaleIsKnown'
<1> SUFFICES ASSUME NEW c \in spoke, question'[c] # "none" PROVE SourceOf(entry[c])' = last[c]
  BY DEF StaleIsKnown
<1>1. question[c] # "none" /\ entry'[c] = entry[c] BY DEF BookTypeOK, RoundTyped
<1>2. SourceOf(entry[c]) = last[c] BY <1>1 DEF StaleIsKnown
<1>3. SourceOf(entry[c])' = SourceOf(entry[c]) BY <1>1 DEF SourceOf
<1> QED BY <1>2, <1>3

\* An answer that says what its box said last, in a frame still unread, tells nothing new.
LEMMA AnswersAsUnread ==
  ASSUME BookTypeOK, NEW b \in Boxes, Told(b), BoxAnswers(b), NEW s \in Playing, plays[b] = s,
         question' = [question EXCEPT ![b] = s], said' = [said EXCEPT ![b] = Heard(@, s)],
         Unread(b) # {}, ~NamedAnother(b, s)
  PROVE  Told(b)'
<1> DEFINE W == WithItsAnswer(b)
<1>0. /\ question[b] = "out" /\ UNCHANGED <<events, spoke, last, entry, now>>
      /\ question'[b] = s /\ said'[b] = Heard(said[b], s)
      /\ entry[b] \in Heards \cup {Nothing} /\ said[b] \in Heards \cup {Nothing} /\ now = 0
  BY DEF BoxAnswers, memberVars, BookTypeOK, RoundTyped, EntriesTyped
<1>1. W = entry[b] BY <1>0 DEF WithItsAnswer, Playing
<1>2. PICK i \in Unread(b) : LastUnread(b, i) BY HasLast
<1>3. events[i].source = s /\ SourceOf(said[b]) = s
  <2>1. i \in DOMAIN events /\ IsItsLastUnread(b, i) BY <1>2 DEF IsItsLastUnread, LastUnread, Unread
  <2>2. events[i].source = s BY <2>1 DEF NamedAnother
  <2> QED BY <1>2, <2>2 DEF Told, ComesTo
<1>4. \A j \in Unread(b) : LastUnread(b, j) => events[j].source = s BY <1>3 DEF Told, ComesTo
<1>5. SourceOf(said'[b]) = s /\ (Awake(said'[b]) => s = "radio" /\ Awake(said[b]))
  <2>1. /\ SourceOf(Heard(said[b], s)) = s
        /\ Awake(Heard(said[b], s)) <=> s = "radio" /\ (SourceOf(said[b]) = "standby" \/ Awake(said[b]))
    BY <1>0, HeardIs
  <2> QED BY <1>0, <1>3, <2>1
<1>6. s = "radio" /\ (Awake(entry[b]) \/ SourceOf(entry[b]) = "standby")
        => Awake(W') \/ W' = entry[b]
  <2> HAVE s = "radio" /\ (Awake(entry[b]) \/ SourceOf(entry[b]) = "standby")
  <2>1. CASE Stale(b)
    <3>1. W' = entry[b] BY <1>0, <2>1 DEF WithItsAnswer, Stale, Playing
    <3> QED BY <3>1
  <2>2. CASE ~Stale(b)
    <3>1. W' = Heard(entry[b], s) BY <1>0, <2>2 DEF WithItsAnswer, Stale, Playing, Heard, Fresh, WakeAfter
    <3>2. Awake(Heard(entry[b], s)) BY <1>0, HeardIs
    <3> QED BY <3>1, <3>2
  <2> QED BY <2>1, <2>2
<1>7. /\ SourceOf(W)' = SourceOf(W') /\ (Awake(W)' <=> Awake(W'))
      /\ SourceOf(said[b])' = SourceOf(said'[b]) /\ (Awake(said[b])' <=> Awake(said'[b]))
      /\ (W' = entry[b] => SourceOf(W') = SourceOf(W) /\ (Awake(W') <=> Awake(W)))
  BY <1>1 DEF SourceOf, Awake
<1>8. /\ Unread(b)' = Unread(b) /\ \A j : LastUnread(b, j)' <=> LastUnread(b, j)
      /\ \A j : OnlyRadioAfter(b, j)' <=> OnlyRadioAfter(b, j)
  BY <1>0 DEF Unread, LastUnread, OnlyRadioAfter
<1>9. ComesTo(W, b, SourceOf(said[b]))' BY <1>0, <1>4, <1>5, <1>7, <1>8 DEF ComesTo
<1>10. ASSUME Awake(said'[b]) PROVE WillWake(W, b)'
  <2>1. s = "radio" /\ WillWake(W, b) BY <1>5, <1>10 DEF Told
  <2>2. CASE OnlyRadioAfter(b, 0) /\ (Awake(W) \/ (SourceOf(W) = "standby" /\ Unread(b) # {}))
    <3>1. Awake(W') \/ W' = entry[b] BY <1>1, <1>6, <2>1, <2>2
    <3> HIDE DEF W
    <3> QED BY <1>7, <1>8, <2>2, <3>1 DEF WillWake
  <2>3. CASE \E j \in Unread(b) : events[j].source = "standby" /\ OnlyRadioAfter(b, j) /\ ~LastUnread(b, j)
    <3> HIDE DEF W
    <3> QED BY <1>0, <1>8, <2>3 DEF WillWake
  <2> QED BY <2>1, <2>2, <2>3 DEF WillWake
<1> QED BY <1>7, <1>9, <1>10 DEF Told

LEMMA AnswersKnown ==
  ASSUME BookTypeOK, KnownInv, NEW b \in Boxes, BoxAnswers(b)
  PROVE  KnownInv'
<1>0. /\ question[b] = "out" /\ UNCHANGED <<events, spoke, last, entry, now>>
      /\ question \in [Boxes -> {"none", "out"} \cup Answers] /\ said \in [Boxes -> Heards \cup {Nothing}]
      /\ plays[b] \in Playing
  BY DEF BoxAnswers, memberVars, BookTypeOK, RoundTyped, EntriesTyped, BoxesTyped
<1>1. /\ \A c \in Boxes : c # b => question'[c] = question[c] /\ said'[c] = said[c]
      /\ unheard \subseteq unheard'
  BY <1>0 DEF BoxAnswers
<1>3. StaleIsKnown' BY <1>0, <1>1, SameStale DEF KnownInv
<1>4. ASSUME NEW c \in Boxes \ unheard', c # b PROVE Told(c)'
  <2>1. WithItsAnswer(c)' = WithItsAnswer(c)
    BY <1>0, <1>1, <1>4 DEF WithItsAnswer, Stale, Heard, Fresh, WakeAfter
  <2> QED BY <1>0, <1>1, <1>4, <2>1, SameTold DEF KnownInv
<1>5. WithItsAnswer(b) = entry[b] BY <1>0 DEF WithItsAnswer, Playing
<1>6. ASSUME b \notin unheard' PROVE Told(b)'
  <2>0. Told(b) BY <1>1, <1>6 DEF KnownInv
  <2>1. CASE question' = [question EXCEPT ![b] = "silence"] /\ said' = said
    <3>1. WithItsAnswer(b)' = entry[b] BY <1>0, <2>1 DEF WithItsAnswer, Playing
    <3> QED BY <1>0, <1>5, <2>0, <2>1, <3>1, SameTold
  <2>2. CASE /\ question' = [question EXCEPT ![b] = plays[b]] /\ said' = [said EXCEPT ![b] = Heard(@, plays[b])]
             /\ ~NamedAnother(b, plays[b])
    <3> DEFINE s == plays[b]
    <3>1. question'[b] = s /\ said'[b] = Heard(said[b], s) /\ s \in Playing BY <1>0, <2>2
    <3>2. CASE Unread(b) # {} BY <1>0, <2>0, <2>2, <3>2, AnswersAsUnread
    <3>3. CASE Unread(b) = {}
      <4>1. /\ entry[b] \in Heards \cup {Nothing} /\ said[b] \in Heards \cup {Nothing} /\ now = 0
            /\ SourceOf(entry[b]) = SourceOf(said[b]) /\ (Awake(said[b]) => Awake(entry[b]))
        BY <1>0, <1>5, <2>0, <3>3, EventsAre, AllHeardNow
      <4>2. /\ SourceOf(Heard(entry[b], s)) = s /\ SourceOf(Heard(said[b], s)) = s
            /\ Awake(Heard(entry[b], s)) <=> s = "radio" /\ (SourceOf(entry[b]) = "standby" \/ Awake(entry[b]))
            /\ Awake(Heard(said[b], s)) <=> s = "radio" /\ (SourceOf(said[b]) = "standby" \/ Awake(said[b]))
        BY <3>1, <4>1, HeardIs
      <4>3. Unread(b)' = {} BY <1>0, <3>3 DEF Unread
      <4>4. CASE ~Stale(b)
        <5>1. WithItsAnswer(b)' = Heard(entry[b], s)
          BY <1>0, <3>1, <4>4 DEF WithItsAnswer, Stale, Heard, Fresh, WakeAfter
        <5> HIDE DEF s
        <5>3. SourceOf(WithItsAnswer(b)') = SourceOf(said'[b]) BY <3>1, <4>2, <5>1
        <5>4. Awake(said'[b]) => Awake(WithItsAnswer(b)') BY <3>1, <4>1, <4>2, <5>1
        <5> QED BY <4>3, <5>3, <5>4, NothingOnItsWay
      <4>5. CASE Stale(b)
        <5>0. NothingUnread(b) BY <3>3 DEF NothingUnread, Unread
        <5>1. s = last[b] BY <2>2, <4>5, <5>0 DEF NamedAnother, Stale
        <5>2. SourceOf(entry[b]) = s BY <1>0, <4>5, <5>1 DEF KnownInv, StaleIsKnown, Stale
        <5>3. WithItsAnswer(b)' = entry[b]
          BY <1>0, <3>1, <4>5, <5>1 DEF WithItsAnswer, Stale, Playing
        <5> HIDE DEF s
        <5>4. SourceOf(WithItsAnswer(b)') = SourceOf(said'[b]) BY <3>1, <4>2, <5>2, <5>3
        <5>5. Awake(said'[b]) => Awake(WithItsAnswer(b)') BY <3>1, <4>1, <4>2, <5>2, <5>3
        <5> QED BY <4>3, <5>4, <5>5, NothingOnItsWay
      <4> QED BY <4>4, <4>5
    <3> QED BY <3>2, <3>3
  <2> QED BY <1>6, <2>1, <2>2 DEF BoxAnswers
<1> QED BY <1>3, <1>4, <1>6 DEF KnownInv

LEMMA TakenKnown ==
  ASSUME BookTypeOK, KnownInv, NEW b \in Boxes, AnswerIsTaken(b)
  PROVE  KnownInv'
<1>0. /\ question[b] \in Answers /\ question' = [question EXCEPT ![b] = "none"]
      /\ UNCHANGED <<events, said, unheard, spoke, last, now>>
      /\ question \in [Boxes -> {"none", "out"} \cup Answers] /\ entry \in [Boxes -> Heards \cup {Nothing}]
  BY DEF AnswerIsTaken, boxVars, BookTypeOK, RoundTyped, EntriesTyped
<1>1. entry'[b] = WithItsAnswer(b) /\ \A c \in Boxes : c # b => entry'[c] = entry[c]
  <2>1. CASE question[b] = "silence" BY <1>0, <2>1 DEF AnswerIsTaken, WithItsAnswer, Playing
  <2>2. CASE question[b] # "silence" /\ Stale(b)
    <3>1. question[b] \in Playing BY <1>0, <2>2 DEF Answers
    <3> QED BY <1>0, <2>2, <3>1 DEF AnswerIsTaken, WithItsAnswer, SwitchedOnAfterItAnswered
  <2>3. CASE question[b] # "silence" /\ ~Stale(b)
    <3>1. question[b] \in Playing BY <1>0, <2>3 DEF Answers
    <3> QED BY <1>0, <2>3, <3>1 DEF AnswerIsTaken, WithItsAnswer
  <2> QED BY <2>1, <2>2, <2>3
<1>2. question'[b] = "none" /\ \A c \in Boxes : c # b => question'[c] = question[c] BY <1>0
<1>4. StaleIsKnown' BY <1>0, <1>1, <1>2, SameStale DEF KnownInv
<1>5. ASSUME NEW c \in Boxes \ unheard PROVE Told(c)'
  <2>1. CASE c = b
    <3>1. WithItsAnswer(c)' = WithItsAnswer(c) BY <1>1, <1>2, <2>1 DEF WithItsAnswer, Playing
    <3> QED BY <1>0, <3>1, SameTold DEF KnownInv
  <2>2. CASE c # b
    <3>1. WithItsAnswer(c)' = WithItsAnswer(c)
      BY <1>0, <1>1, <1>2, <2>2 DEF WithItsAnswer, Stale, Heard, Fresh, WakeAfter
    <3> QED BY <1>0, <3>1, SameTold DEF KnownInv
  <2> QED BY <2>1, <2>2
<1> QED BY <1>0, <1>4, <1>5 DEF KnownInv

\* A box says something while its channel is open.
LEMMA SaysKnown ==
  ASSUME BookTypeOK, KnownInv, NEW b \in Boxes, NEW s \in Playing, BoxPlays(b, s), channel[b] = "open"
  PROVE  KnownInv'
<1> DEFINE n == Len(events) + 1
<1>0. /\ events' = Append(events, [box |-> b, source |-> s])
      /\ said' = [said EXCEPT ![b] = Heard(@, s)]
      /\ unheard' = (IF s = "radio" THEN unheard ELSE unheard \ {b})
      /\ UNCHANGED <<question, spoke, last, entry, now>>
  BY DEF BoxPlays, memberVars, roundVars
<1>1. /\ Len(events) \in Nat /\ DOMAIN events = 1 .. Len(events) /\ DOMAIN events' = 1 .. n
      /\ \A i \in DOMAIN events : events'[i] = events[i] /\ i \in Nat /\ i < n
      /\ events'[n].box = b /\ events'[n].source = s
  <2>1. events \in Seq([box : Boxes, source : Playing]) BY DEF BookTypeOK, BoxesTyped
  <2>2. [box |-> b, source |-> s] \in [box : Boxes, source : Playing] OBVIOUS
  <2>3. /\ events' \in Seq([box : Boxes, source : Playing]) /\ Len(events') = n
        /\ \A i \in 1 .. Len(events) : events'[i] = events[i] /\ events'[n] = [box |-> b, source |-> s]
    BY <1>0, <2>1, <2>2, AppendProperties
  <2>4. events'[n] = [box |-> b, source |-> s] BY <1>0, <2>1, <2>2, AppendProperties
  <2>5. DOMAIN events' = 1 .. n /\ DOMAIN events = 1 .. Len(events) /\ Len(events) \in Nat
    BY <2>1, <2>3, LenProperties
  <2> QED BY <2>3, <2>4, <2>5
<1> HIDE DEF n
<1>2. n \in Nat /\ n \in DOMAIN events' /\ \A i \in DOMAIN events' : i \in DOMAIN events \/ i = n
  BY <1>1 DEF n
<1>3. /\ \A c \in Boxes : c # b => said'[c] = said[c]
      /\ said'[b] = Heard(said[b], s)
  BY <1>0 DEF BookTypeOK, BoxesTyped, EntriesTyped
<1>4. n \in Unread(b)' /\ \A c \in Boxes : c # b => Unread(c)' = Unread(c)
  BY <1>1, <1>2 DEF Unread
<1>5. Unread(b) \subseteq Unread(b)' /\ \A i \in Unread(b)' : i = n \/ (i \in Unread(b) /\ i < n)
  BY <1>1, <1>2 DEF Unread
<1>6. \A i \in Nat : LastUnread(b, i)' => i = n
  BY <1>1, <1>2, <1>4, <1>5 DEF LastUnread
<1>8. StaleIsKnown' BY <1>0, SameStale DEF KnownInv
<1>9. \A c \in Boxes : WithItsAnswer(c)' = WithItsAnswer(c)
  BY <1>0 DEF WithItsAnswer, Stale, Heard, Fresh, WakeAfter
<1>10. ASSUME NEW c \in Boxes \ unheard', c # b PROVE Told(c)'
  <2>1. Told(c) /\ WithItsAnswer(c)' = WithItsAnswer(c) /\ said'[c] = said[c] /\ Unread(c)' = Unread(c)
    BY <1>0, <1>3, <1>4, <1>9, <1>10 DEF KnownInv
  <2>2. \A i \in Unread(c) : events'[i] = events[i] /\ (LastUnread(c, i)' <=> LastUnread(c, i))
    BY <1>1, <2>1 DEF Unread, LastUnread
  <2>3. \A i : OnlyRadioAfter(c, i)' <=> OnlyRadioAfter(c, i) BY <2>1, <2>2 DEF OnlyRadioAfter
  <2> QED BY <2>1, <2>2, <2>3 DEF Told, ComesTo, WillWake, SourceOf, Awake
<1>11. ASSUME b \notin unheard' PROVE Told(b)'
  <2> DEFINE W == WithItsAnswer(b)
  <2>1. /\ SourceOf(said'[b]) = s
        /\ Awake(said'[b]) <=> s = "radio" /\ (SourceOf(said[b]) = "standby" \/ Awake(said[b]))
    <3>1. said[b] \in Heards \cup {Nothing} /\ now = 0 BY EventsAre
    <3>2. /\ SourceOf(Heard(said[b], s)) = s
          /\ Awake(Heard(said[b], s)) <=> s = "radio" /\ (SourceOf(said[b]) = "standby" \/ Awake(said[b]))
      BY <3>1, HeardIs
    <3> QED BY <1>3, <3>2
  <2>2. SourceOf(said[b])' = SourceOf(said'[b]) /\ (Awake(said[b])' <=> Awake(said'[b]))
        /\ SourceOf(W)' = SourceOf(W) /\ (Awake(W)' <=> Awake(W))
    BY <1>9 DEF SourceOf, Awake
  <2>3. ComesTo(W, b, SourceOf(said[b]))'
    BY <1>1, <1>4, <1>5, <1>6, <2>1, <2>2 DEF ComesTo, Unread
  <2>4. ASSUME Awake(said[b])' PROVE WillWake(W, b)'
    <3>1. s = "radio" /\ Told(b) BY <1>0, <1>11, <2>1, <2>2, <2>4 DEF KnownInv
    <3>2. \A i \in Unread(b) : /\ events'[i] = events[i] /\ i \in Unread(b)' /\ i \in Nat /\ i < n
                               /\ ~LastUnread(b, i)'
      BY <1>1, <1>5, <1>6 DEF Unread
    <3>3. \A i : OnlyRadioAfter(b, i) => OnlyRadioAfter(b, i)'
      BY <1>1, <1>5, <3>1, <3>2 DEF OnlyRadioAfter
    <3>4. CASE Awake(said[b])
      <4>1. WillWake(W, b) BY <3>1, <3>4 DEF Told
      <4> QED BY <1>4, <2>2, <3>2, <3>3, <4>1 DEF WillWake
    <3>5. CASE SourceOf(said[b]) = "standby" /\ Unread(b) = {}
      <4>1. SourceOf(W) = "standby" BY <3>1, <3>5, AllHeardNow
      <4>2. OnlyRadioAfter(b, 0)' BY <1>1, <1>5, <3>1, <3>5 DEF OnlyRadioAfter
      <4> QED BY <1>4, <2>2, <4>1, <4>2 DEF WillWake
    <3>6. CASE SourceOf(said[b]) = "standby" /\ Unread(b) # {}
      <4>1. PICK i \in Unread(b) : LastUnread(b, i) BY <3>6, HasLast
      <4>2. events[i].source = "standby" BY <3>1, <3>6, <4>1 DEF Told, ComesTo
      <4>3. OnlyRadioAfter(b, i)
        <5>1. \A j \in Unread(b) : j <= i /\ j \in Nat /\ i \in Nat BY <3>2, <4>1 DEF LastUnread
        <5> QED BY <5>1 DEF OnlyRadioAfter
      <4> QED BY <3>2, <3>3, <4>1, <4>2, <4>3 DEF WillWake
    <3> QED BY <2>1, <2>2, <2>4, <3>4, <3>5, <3>6
  <2> QED BY <2>3, <2>4 DEF Told
<1> QED BY <1>8, <1>10, <1>11 DEF KnownInv

-----------------------------------------------------------------------------
(* The oldest frame is read *)

LEMMA TailIs ==
  ASSUME BookTypeOK, events # <<>>, events' = Tail(events)
  PROVE  /\ 1 \in DOMAIN events /\ Head(events) = events[1]
         /\ \A i \in DOMAIN events' : i \in Nat /\ i >= 1 /\ i + 1 \in DOMAIN events /\ events'[i] = events[i + 1]
         /\ \A i \in DOMAIN events : i \in Nat /\ i >= 1 /\ (i = 1 \/ (i - 1 \in DOMAIN events' /\ events'[i - 1] = events[i]))
<1>1. events \in Seq([box : Boxes, source : Playing]) BY DEF BookTypeOK, BoxesTyped
<1>2. /\ Len(events) \in Nat /\ Len(events) > 0 /\ DOMAIN events = 1 .. Len(events)
      /\ events' \in Seq([box : Boxes, source : Playing]) /\ Len(events') = Len(events) - 1
      /\ \A i \in 1 .. Len(events) - 1 : events'[i] = events[i + 1]
      /\ Head(events) = events[1]
  BY <1>1, HeadTailProperties, LenProperties, EmptySeq
<1>3. DOMAIN events' = 1 .. Len(events) - 1 BY <1>2, LenProperties
<1>4. \A i \in DOMAIN events : i = 1 \/ (i - 1 \in DOMAIN events' /\ events'[i - 1] = events[i])
  <2> TAKE i \in DOMAIN events
  <2>1. CASE i # 1
    <3>1. i - 1 \in 1 .. Len(events) - 1 /\ (i - 1) + 1 = i BY <1>2, <2>1
    <3> QED BY <1>2, <1>3, <3>1
  <2> QED BY <2>1
<1> QED BY <1>2, <1>3, <1>4

\* What is unread of a box moves up by one.
LEMMA MovesUp ==
  ASSUME BookTypeOK, events # <<>>, events' = Tail(events), NEW b \in Boxes
  PROVE  /\ \A i \in Unread(b)' : i \in Nat /\ i >= 1 /\ i + 1 \in Unread(b) /\ events'[i] = events[i + 1]
         /\ \A i \in Unread(b) : i \in Nat /\ i >= 1 /\
              ((i = 1 /\ events[1].box = b) \/ (i - 1 \in Unread(b)' /\ events'[i - 1] = events[i]))
         /\ \A i \in Unread(b)' : LastUnread(b, i)' => LastUnread(b, i + 1)
         /\ \A i \in Unread(b) : i # 1 /\ ~LastUnread(b, i) => ~LastUnread(b, i - 1)'
         /\ \A i \in Unread(b) : i # 1 /\ OnlyRadioAfter(b, i) => OnlyRadioAfter(b, i - 1)'
         /\ OnlyRadioAfter(b, 1) => OnlyRadioAfter(b, 0)'
<1>1. \A i \in Unread(b)' : i \in Nat /\ i >= 1 /\ i + 1 \in Unread(b) /\ events'[i] = events[i + 1]
  BY TailIs DEF Unread
<1>2. \A i \in Unread(b) : i \in Nat /\ i >= 1 /\
        ((i = 1 /\ events[1].box = b) \/ (i - 1 \in Unread(b)' /\ events'[i - 1] = events[i]))
  BY TailIs DEF Unread
<1>3. ASSUME NEW i \in Unread(b)', LastUnread(b, i)' PROVE LastUnread(b, i + 1)
  <2>1. ASSUME NEW j \in Unread(b) PROVE j <= i + 1
    <3>1. CASE j = 1 BY <1>1, <3>1
    <3>2. CASE j # 1
      <4>1. j - 1 \in Unread(b)' BY <1>2, <3>2
      <4>2. j - 1 <= i BY <1>3, <4>1 DEF LastUnread
      <4> QED BY <1>1, <1>2, <4>2
    <3> QED BY <3>1, <3>2
  <2> QED BY <1>1, <2>1 DEF LastUnread
<1>4. ASSUME NEW i \in Unread(b), i # 1, LastUnread(b, i - 1)' PROVE LastUnread(b, i)
  <2>1. i - 1 \in Unread(b)' /\ (i - 1) + 1 = i BY <1>2, <1>4
  <2>2. LastUnread(b, (i - 1) + 1) BY <1>3, <1>4, <2>1
  <2> QED BY <2>1, <2>2
<1>5. ASSUME NEW k \in Nat, OnlyRadioAfter(b, k + 1) PROVE OnlyRadioAfter(b, k)'
  <2> SUFFICES ASSUME NEW j \in Unread(b)', j > k PROVE events'[j].source = "radio"
    BY DEF OnlyRadioAfter
  <2>1. j \in Nat /\ j + 1 \in Unread(b) /\ events'[j] = events[j + 1] BY <1>1
  <2>2. j + 1 > k + 1 BY <2>1
  <2> QED BY <1>5, <2>1, <2>2 DEF OnlyRadioAfter
<1>6. ASSUME NEW i \in Unread(b), i # 1, OnlyRadioAfter(b, i) PROVE OnlyRadioAfter(b, i - 1)'
  <2>1. i - 1 \in Nat /\ (i - 1) + 1 = i BY <1>2, <1>6
  <2>2. OnlyRadioAfter(b, (i - 1) + 1) BY <1>6, <2>1
  <2> QED BY <1>5, <2>1, <2>2
<1>7. OnlyRadioAfter(b, 1) => OnlyRadioAfter(b, 0)'
  <2>1. 0 \in Nat /\ 0 + 1 = 1 OBVIOUS
  <2> QED BY <1>5, <2>1
<1> QED BY <1>1, <1>2, <1>3, <1>4, <1>6, <1>7

\* Nothing changes for a box the frame is not about.
LEMMA OthersAsTold ==
  ASSUME BookTypeOK, events # <<>>, events' = Tail(events), NEW b \in Boxes, events[1].box # b,
         Told(b), said'[b] = said[b], WithItsAnswer(b)' = WithItsAnswer(b)
  PROVE  Told(b)'
<1> DEFINE W == WithItsAnswer(b)
<1>1. SourceOf(W)' = SourceOf(W) /\ (Awake(W)' <=> Awake(W))
      /\ SourceOf(said[b])' = SourceOf(said[b]) /\ (Awake(said[b])' <=> Awake(said[b]))
  BY DEF SourceOf, Awake
<1>2. \A i \in Unread(b) : i # 1 BY MovesUp DEF Unread
<1>3. Unread(b)' = {} <=> Unread(b) = {} BY <1>2, MovesUp
<1>4. ComesTo(W, b, SourceOf(said[b]))'
  <2>1. \A i \in Unread(b)' : LastUnread(b, i)' => events'[i].source = SourceOf(said[b])
    <3> TAKE i \in Unread(b)'
    <3>1. i + 1 \in Unread(b) /\ events'[i] = events[i + 1] /\ (LastUnread(b, i)' => LastUnread(b, i + 1))
      BY MovesUp
    <3> QED BY <3>1 DEF Told, ComesTo
  <2>2. Unread(b)' = {} => SourceOf(W) = SourceOf(said[b]) BY <1>3 DEF Told, ComesTo
  <2> QED BY <1>1, <2>1, <2>2 DEF ComesTo
<1>5. ASSUME Awake(said[b]) PROVE WillWake(W, b)'
  <2>1. WillWake(W, b) BY <1>5 DEF Told
  <2>2. CASE OnlyRadioAfter(b, 0) /\ (Awake(W) \/ (SourceOf(W) = "standby" /\ Unread(b) # {}))
    <3>1. OnlyRadioAfter(b, 1) BY <2>2, MovesUp DEF OnlyRadioAfter
    <3>2. OnlyRadioAfter(b, 0)' BY <3>1, MovesUp
    <3> QED BY <1>1, <1>3, <2>2, <3>2 DEF WillWake
  <2>3. CASE \E i \in Unread(b) : events[i].source = "standby" /\ OnlyRadioAfter(b, i) /\ ~LastUnread(b, i)
    <3>1. PICK i \in Unread(b) : events[i].source = "standby" /\ OnlyRadioAfter(b, i) /\ ~LastUnread(b, i) BY <2>3
    <3>2. /\ i - 1 \in Unread(b)' /\ events'[i - 1] = events[i]
          /\ OnlyRadioAfter(b, i - 1)' /\ ~LastUnread(b, i - 1)'
      BY <1>2, <3>1, MovesUp
    <3> HIDE DEF W
    <3> QED BY <3>1, <3>2 DEF WillWake
  <2> QED BY <2>1, <2>2, <2>3 DEF WillWake
<1> QED BY <1>1, <1>4, <1>5 DEF Told

\* An answer taken after a frame read meanwhile: it is as if the frame had come after it.
LEMMA TakenAfterFrame ==
  ASSUME BookTypeOK, NEW b \in Boxes, NEW s \in Playing, question' = question,
         entry'[b] = Heard(entry[b], s), last'[b] = s, b \in spoke', now' = now
  PROVE  /\ SourceOf(WithItsAnswer(b)') = s
         /\ s = "radio" /\ (Awake(WithItsAnswer(b)) \/ SourceOf(WithItsAnswer(b)) = "standby")
              => Awake(WithItsAnswer(b)')
<1> DEFINE q == question[b]
           e == entry[b]
           g == Heard(e, s)
           W == WithItsAnswer(b)
           V == WithItsAnswer(b)'
<1>0. now = 0 /\ e \in Heards \cup {Nothing} BY EventsAre
<1>1. g \in Heards /\ SourceOf(g) = s /\ (Awake(g) <=> s = "radio" /\ (SourceOf(e) = "standby" \/ Awake(e)))
  BY <1>0, HeardIs
<1>2. \A h, x : Heard(h, x)' = Heard(h, x) BY DEF Heard, Fresh, WakeAfter
<1>3. V = IF q \notin Playing THEN g
          ELSE IF q = "standby" /\ s \in {"radio", "other"} THEN Heard(Heard(g, q), s) ELSE g
  BY <1>2 DEF WithItsAnswer, Stale, Heard, Fresh, WakeAfter
<1>4. W = IF q \notin Playing THEN e
          ELSE IF ~Stale(b) THEN Heard(e, q)
          ELSE IF q = "standby" /\ last[b] \in {"radio", "other"} THEN Heard(Heard(e, q), last[b]) ELSE e
  BY DEF WithItsAnswer
<1> HIDE DEF e, V, W
<1>5. CASE q \notin Playing
  <2> HIDE DEF g, q
  <2> QED BY <1>1, <1>3, <1>4, <1>5 DEF V, W
<1>6. CASE q \in Playing /\ q = "standby"
  <2>1. Heard(g, q) \in Heards /\ SourceOf(Heard(g, q)) = q BY <1>0, <1>1, <1>6, HeardIs
  <2>2. /\ SourceOf(Heard(Heard(g, q), s)) = s
        /\ Awake(Heard(Heard(g, q), s)) <=> s = "radio" /\ (SourceOf(Heard(g, q)) = "standby" \/ Awake(Heard(g, q)))
    BY <1>0, <2>1, HeardIs
  <2> HIDE DEF g, q
  <2> QED BY <1>1, <1>3, <1>6, <2>1, <2>2 DEF V, W
<1>7. CASE q \in Playing /\ q # "standby"
  <2>1. V = g BY <1>3, <1>7
  <2>2. CASE Stale(b)
    <3>1. W = e BY <1>4, <1>7, <2>2
    <3> HIDE DEF g, q
    <3> QED BY <1>1, <2>1, <3>1 DEF V, W
  <2>3. CASE ~Stale(b)
    <3>1. W = Heard(e, q) BY <1>4, <1>7, <2>3
    <3>2. SourceOf(W) = q /\ (Awake(W) <=> q = "radio" /\ (SourceOf(e) = "standby" \/ Awake(e)))
      BY <1>0, <1>7, <3>1, HeardIs
    <3> HIDE DEF g, q
    <3> QED BY <1>1, <1>7, <2>1, <3>2 DEF V, W
  <2> QED BY <2>2, <2>3
<1> QED BY <1>5, <1>6, <1>7

LEMMA ReadKnown ==
  ASSUME BookTypeOK, KnownInv, Read
  PROVE  KnownInv'
<1>0. /\ events # <<>> /\ events' = Tail(events) /\ spoke' = spoke \cup {Head(events).box}
      /\ last' = [last EXCEPT ![Head(events).box] = Head(events).source]
      /\ entry' = [entry EXCEPT ![Head(events).box] = Heard(@, Head(events).source)]
      /\ UNCHANGED <<said, unheard, question, now>>
  BY DEF Read
<1>3. PICK b \in Boxes, s \in Playing : events[1].box = b /\ events[1].source = s
  BY <1>0, TailIs, EventsAre
<1>1. 1 \in Unread(b) /\ Head(events) = events[1]
  BY <1>0, <1>3, TailIs DEF Unread
<1>2. /\ spoke' = spoke \cup {b} /\ last'[b] = s /\ entry'[b] = Heard(entry[b], s) /\ b \in spoke'
      /\ \A c \in Boxes : c # b => last'[c] = last[c] /\ entry'[c] = entry[c] /\ (c \in spoke' <=> c \in spoke)
  BY <1>0, <1>1, <1>3 DEF BookTypeOK, RoundTyped, EntriesTyped
<1>5. Unread(b)' = {} => LastUnread(b, 1) /\ Unread(b) = {1}
  <2> HAVE Unread(b)' = {}
  <2>1. \A i \in Unread(b) : i = 1 BY <1>0, <1>1, MovesUp
  <2> QED BY <1>1, <2>1 DEF LastUnread
<1>6. /\ SourceOf(WithItsAnswer(b)') = s
      /\ s = "radio" /\ (Awake(WithItsAnswer(b)) \/ SourceOf(WithItsAnswer(b)) = "standby")
           => Awake(WithItsAnswer(b)')
  BY <1>0, <1>1, <1>2, TakenAfterFrame
<1>7. StaleIsKnown'
  <2> SUFFICES ASSUME NEW c \in spoke', question[c] # "none" PROVE SourceOf(entry[c])' = last'[c]
    BY <1>0 DEF StaleIsKnown
  <2>1. SourceOf(entry[c])' = SourceOf(entry'[c]) BY DEF SourceOf
  <2>2. CASE c = b
    <3>1. SourceOf(Heard(entry[b], s)) = s BY EventsAre, HeardIs
    <3> QED BY <1>2, <2>1, <2>2, <3>1
  <2>3. CASE c # b
    <3>1. c \in spoke /\ c \in Boxes BY <1>2, <2>3 DEF BookTypeOK, RoundTyped
    <3>2. SourceOf(entry[c]) = last[c] BY <3>1 DEF KnownInv, StaleIsKnown
    <3> QED BY <1>2, <2>1, <2>3, <3>1, <3>2
  <2> QED BY <2>2, <2>3
<1>8. ASSUME NEW c \in Boxes \ unheard, c # b PROVE Told(c)'
  <2>1. WithItsAnswer(c)' = WithItsAnswer(c)
    BY <1>0, <1>2, <1>8 DEF WithItsAnswer, Stale, Heard, Fresh, WakeAfter
  <2>2. events[1].box # c BY <1>3, <1>8
  <2> QED BY <1>0, <2>1, <2>2, OthersAsTold DEF KnownInv
<1>9. ASSUME b \notin unheard PROVE Told(b)'
  <2> DEFINE W == WithItsAnswer(b)
             V == WithItsAnswer(b)'
  <2>0. Told(b) BY <1>9 DEF KnownInv
  <2>1. SourceOf(W)' = SourceOf(V) /\ (Awake(W)' <=> Awake(V))
        /\ SourceOf(said[b])' = SourceOf(said[b]) /\ (Awake(said[b])' <=> Awake(said[b]))
    BY <1>0 DEF SourceOf, Awake
  <2>2. ComesTo(W, b, SourceOf(said[b]))'
    <3>1. \A i \in Unread(b)' : LastUnread(b, i)' => events'[i].source = SourceOf(said[b])
      <4> TAKE i \in Unread(b)'
      <4>1. i + 1 \in Unread(b) /\ events'[i] = events[i + 1] /\ (LastUnread(b, i)' => LastUnread(b, i + 1))
        BY <1>0, <1>1, MovesUp
      <4> QED BY <1>1, <2>0, <4>1 DEF Told, ComesTo
    <3>2. Unread(b)' = {} => SourceOf(V) = SourceOf(said[b])
      <4> HAVE Unread(b)' = {}
      <4>1. s = SourceOf(said[b]) BY <1>1, <1>3, <1>5, <2>0 DEF Told, ComesTo
      <4> QED BY <1>6, <4>1
    <3> HIDE DEF W, V
    <3> QED BY <2>1, <3>1, <3>2 DEF ComesTo
  <2>3. ASSUME Awake(said[b]) PROVE WillWake(W, b)'
    <3>1. WillWake(W, b) BY <1>1, <2>0, <2>3 DEF Told
    <3>2. CASE OnlyRadioAfter(b, 0) /\ (Awake(W) \/ (SourceOf(W) = "standby" /\ Unread(b) # {}))
      <4>1. s = "radio" /\ OnlyRadioAfter(b, 1) BY <1>1, <1>3, <3>2, MovesUp, <1>0 DEF OnlyRadioAfter
      <4>2. OnlyRadioAfter(b, 0)' BY <1>0, <1>1, <4>1, MovesUp
      <4>3. Awake(V) BY <1>6, <3>2, <4>1
      <4> QED BY <2>1, <4>2, <4>3 DEF WillWake
    <3>3. CASE \E i \in Unread(b) : events[i].source = "standby" /\ OnlyRadioAfter(b, i) /\ ~LastUnread(b, i)
      <4>1. PICK i \in Unread(b) : events[i].source = "standby" /\ OnlyRadioAfter(b, i) /\ ~LastUnread(b, i) BY <3>3
      <4>2. CASE i # 1
        <5>1. /\ i - 1 \in Unread(b)' /\ events'[i - 1] = events[i]
              /\ OnlyRadioAfter(b, i - 1)' /\ ~LastUnread(b, i - 1)'
          BY <1>0, <1>1, <4>1, <4>2, MovesUp
        <5> HIDE DEF W, V
        <5> QED BY <4>1, <5>1 DEF WillWake
      <4>3. CASE i = 1
        <5>1. s = "standby" /\ Unread(b)' # {} BY <1>3, <1>5, <4>1, <4>3
        <5>2. SourceOf(V) = "standby" BY <1>6, <5>1
        <5>3. OnlyRadioAfter(b, 0)' BY <1>0, <1>1, <4>1, <4>3, MovesUp
        <5> HIDE DEF W, V
        <5> QED BY <2>1, <5>1, <5>2, <5>3 DEF WillWake
      <4> QED BY <4>2, <4>3
    <3> QED BY <3>1, <3>2, <3>3 DEF WillWake
  <2> QED BY <2>1, <2>2, <2>3 DEF Told
<1> QED BY <1>0, <1>7, <1>8, <1>9 DEF KnownInv

LEMMA KnownStep ==
  ASSUME BookTypeOK, OfTheBook, KnownInv, BookNext
  PROVE  KnownInv'
<1>1. CASE UNCHANGED <<events, said, unheard, question, spoke, last, entry, now>>
  BY <1>1, SameKnown
<1>2. CASE ReadBegins \/ RegistryAnswers \/ ReadFails \/ PreferencesAreTaken \/ PreferencesChange \/ Dials \/ Steps
  BY <1>1, <1>2 DEF ReadBegins, RegistryAnswers, ReadFails, PreferencesAreTaken, PreferencesChange, Dials, Steps, Goes,
    memberVars, roundVars, boxVars
<1>3. ASSUME NEW t \in Seeders, SeedIsCalled(t) \/ SeedEnters(t) \/ SeedEnds(t) PROVE KnownInv'
  BY <1>1, <1>3 DEF SeedIsCalled, SeedEnters, SeedEnds, memberVars, roundVars, boxVars
<1>4. ASSUME NEW rotates \in BOOLEAN, Thumbed(rotates) PROVE KnownInv'
  BY <1>1, <1>4 DEF Thumbed, memberVars, roundVars, boxVars
<1>5. CASE RoundEnds \/ RoundOpens BY <1>1, <1>5 DEF RoundEnds, RoundOpens, memberVars, boxVars
\* A channel opened, cut, or of a box that is new.
<1>6. CASE ReadIsTaken \/ \E b \in Boxes : Connect(b) \/ Drop(b)
  BY <1>1, <1>6 DEF ReadIsTaken, Remembered, Connect, Drop, memberVars, roundVars
<1>7. CASE QuestionsGoOut
  <2>0. poller = "opened" /\ UNCHANGED <<events, said, unheard, last, entry, now>>
    BY <1>7 DEF QuestionsGoOut, memberVars, boxVars
  <2>1. /\ question' = [b \in Boxes |-> IF b \in round.asked THEN "out" ELSE question[b]]
        /\ spoke' = spoke \ round.asked
    BY <1>7 DEF QuestionsGoOut
  <2>2. \A b \in Boxes : question[b] = "none" BY <2>0 DEF OfTheBook
  <2>3. \A b \in Boxes : question'[b] \notin Playing /\ (question'[b] # "none" => b \notin spoke')
    BY <2>1, <2>2 DEF Playing
  <2>4. ASSUME NEW b \in Boxes \ unheard PROVE Told(b)'
    <3>1. WithItsAnswer(b) = entry[b] BY <2>2 DEF WithItsAnswer, Playing
    <3>2. WithItsAnswer(b)' = entry[b] BY <2>0, <2>3 DEF WithItsAnswer, Playing
    <3> QED BY <2>0, <3>1, <3>2, SameTold DEF KnownInv
  <2>5. StaleIsKnown'
    <3>1. \A b \in spoke' : b \in Boxes BY <2>1 DEF BookTypeOK, RoundTyped
    <3> QED BY <2>3, <3>1 DEF StaleIsKnown
  <2> QED BY <2>0, <2>4, <2>5 DEF KnownInv
<1>8. ASSUME NEW b \in Boxes, BoxAnswers(b) \/ AnswerIsTaken(b) PROVE KnownInv' BY <1>8, AnswersKnown, TakenKnown
<1>9. ASSUME NEW b \in Boxes, NEW s \in Playing, BoxPlays(b, s) PROVE KnownInv'
  <2>1. CASE channel[b] = "open" BY <1>9, <2>1, SaysKnown
  <2>2. CASE channel[b] # "open" BY <1>1, <1>9, <2>2 DEF BoxPlays, memberVars, roundVars
  <2> QED BY <2>1, <2>2
<1>10. CASE Read BY <1>10, ReadKnown
<1> QED BY <1>2, <1>3, <1>4, <1>5, <1>6, <1>7, <1>8, <1>9, <1>10 DEF BookNext
-----------------------------------------------------------------------------
(* The theorems *)

LEMMA BookStart == Start => BookInv /\ OneSeeds /\ KnownInv
<1> SUFFICES ASSUME Start PROVE BookInv /\ OneSeeds /\ KnownInv OBVIOUS
<1>1. /\ events = <<>> /\ switchedOn = <<>> /\ round = NoRound /\ poller = "read"
      /\ question = [b \in Boxes |-> "none"] /\ spoke = {} /\ channel = [b \in Boxes |-> "none"]
      /\ seeding = [t \in Seeders |-> "idle"] /\ book = {}
      /\ entry = [b \in Boxes |-> Nothing] /\ said = [b \in Boxes |-> Nothing]
  BY DEF Start, Init, NoSpeakerKnownYet
<1>2. DOMAIN events = {} /\ DOMAIN switchedOn = {} BY <1>1
<1>3. BookTypeOK BY TypeStart
<1>4. OfTheBook BY <1>1, <1>2 DEF OfTheBook, NoRound
<1>5. PollerSeeds BY <1>1 DEF PollerSeeds, Seeders
<1>6. PlaceInv BY <1>1, <1>2 DEF PlaceInv, OnceEach, InThreeParts, ReplySpeedDecidesNothing, RoundIsOut
<1>7. OneSeeds BY <1>1, <1>2 DEF OneSeeds, Seeders
<1>8. KnownInv
  <2>1. ASSUME NEW b \in Boxes PROVE Told(b)
    <3>1. Unread(b) = {} BY <1>2 DEF Unread
    <3>2. WithItsAnswer(b) = Nothing /\ said[b] = Nothing BY <1>1 DEF WithItsAnswer, Playing
    <3> QED BY <3>1, <3>2 DEF Told, ComesTo, Awake
  <2>3. StaleIsKnown BY <1>1 DEF StaleIsKnown
  <2> QED BY <2>1, <2>3 DEF KnownInv
<1> QED BY <1>3, <1>4, <1>5, <1>6, <1>7, <1>8 DEF BookInv

LEMMA NothingHappens ==
  ASSUME UNCHANGED allVars
  PROVE  /\ BookInv => BookInv'
         /\ OneSeeds => OneSeeds'
         /\ KnownInv => KnownInv'
<1>1. /\ UNCHANGED <<now, dialled, entry, said, unheard, plays, channel, events, question, spoke, last, round, switchedOn, rank>>
      /\ UNCHANGED <<reply, book, poller, seeding, asking, asked, channels>>
  BY DEF allVars, memberVars, bookVars, roundVars, seedVars, boxVars
<1>2. BookTypeOK => BookTypeOK' BY <1>1 DEF BookTypeOK, EntriesTyped, BoxesTyped, RoundTyped, BookTyped, SeedTyped
<1>3. RoundIsOut' <=> RoundIsOut BY <1>1 DEF RoundIsOut
<1>4. OfTheBook => OfTheBook' BY <1>1, <1>3, SameBook
<1>5. PollerSeeds => PollerSeeds' BY <1>1 DEF PollerSeeds
<1>6. PlaceInv => PlaceInv' BY <1>1, <1>3, SamePlaces
<1>7. OneSeeds => OneSeeds' BY <1>1, <1>3, SameSeeds
<1>8. KnownInv => KnownInv' BY <1>1, SameKnown
<1> QED BY <1>2, <1>4, <1>5, <1>6, <1>7, <1>8 DEF BookInv

LEMMA BookInvStep == BookInv /\ [BookNext]_allVars => BookInv'
<1>1. BookInv /\ BookNext => BookInv' BY BookTypeStep, BookStep, PollerStep, PlaceStep DEF BookInv
<1> QED BY <1>1, NothingHappens

LEMMA BookInvHolds == BookSpec => []BookInv
  BY BookStart, BookInvStep, PTL DEF BookSpec

\* The types of the book, and with them what the book makes of a frame or an answer.
THEOREM BookTypeCorrect == BookSpec => []BookTypeOK
<1>1. BookInv => BookTypeOK BY DEF BookInv
<1> QED BY <1>1, BookInvHolds, PTL

\* The boxes switched on stand in the registry's order round by round, however fast each of them
\* replies, in whatever order the answers are taken, and whatever frames are read between them.
THEOREM RegistryOrderIsKept == BookSpec => []ReplySpeedDecidesNothing
<1>1. BookInv => ReplySpeedDecidesNothing BY DEF BookInv, PlaceInv
<1> QED BY <1>1, BookInvHolds, PTL

\* A box the book knows as on AUX or Bluetooth is left alone, asked or overheard.
THEOREM LeftAloneInTheBook == BookSpec => []OtherIsLeftAlone
<1>1. BookInv => OtherIsLeftAlone
  <2> SUFFICES ASSUME BookInv, NEW b \in Boxes, Known(b), entry[b].source = "other" PROVE ~Belongs(b)
    BY DEF OtherIsLeftAlone
  <2>1. entry[b] \in Heards BY DEF BookInv, BookTypeOK, EntriesTyped, Known
  <2>2. entry[b].woke_at = NotAwake /\ ~entry[b].remembered BY <2>1 DEF Heards
  <2> QED BY <2>2 DEF Belongs, StillWaking
<1> QED BY <1>1, BookInvHolds, PTL

\* The presets that become the house's channels are those of the first box switched on, seeded from
\* two tasks over one lock, as long as the reader reads nothing between the lock and its waiter.
THEOREM FirstBoxSeeds ==
  ASSUME TurnsAreKept
  PROVE  BookSpec => SeededFromTheFirst
<1> DEFINE Inv == BookInv /\ OneSeeds
           Seeds == \A t \in Seeders : (seeding[t] = "holds" /\ channels' # channels) =>
                      /\ channels = {}
                      /\ RoundIsOut => Before(rank[asking[t]], <<round.nr, 0, 0>>)
                      /\ \A i \in DOMAIN switchedOn : switchedOn[i] = asking[t] =>
                           \A j \in 1 .. i - 1 : switchedOn[j] \in asked
<1>1. Start => Inv BY BookStart
<1>2. Inv /\ [BookNext]_allVars => Inv'
  <2>1. Inv /\ BookNext => OneSeeds' BY SeedStep DEF BookInv
  <2> QED BY <2>1, BookInvStep, NothingHappens
<1>3. Inv /\ [BookNext]_allVars => [Seeds]_allVars BY SeedsFromTheFirst DEF BookInv
<1> QED BY <1>1, <1>2, <1>3, PTL DEF BookSpec, SeededFromTheFirst

\* No wake a box reported is lost between its answer and its frames, whichever overtakes the other
\* and whenever a channel is cut: but for a box switched over unheard, between a frame it named a
\* source in and an answer that is dropped for it.
THEOREM WakesAreKnown == BookSpec => []NoWakeIsLost
<1> DEFINE Inv == BookInv /\ KnownInv
<1>1. Start => Inv BY BookStart
<1>2. Inv /\ [BookNext]_allVars => Inv'
  <2>1. Inv /\ BookNext => KnownInv' BY KnownStep DEF BookInv
  <2> QED BY <2>1, BookInvStep, NothingHappens
<1>3. Inv => NoWakeIsLost
  <2> SUFFICES ASSUME Inv, NEW b \in Boxes \ unheard, question[b] = "none", NothingUnread(b), Awake(said[b])
               PROVE  Awake(entry[b])
    BY DEF NoWakeIsLost, WakeIsKnown
  <2>1. Unread(b) = {} BY DEF NothingUnread, Unread
  <2>2. WithItsAnswer(b) = entry[b] BY DEF WithItsAnswer, Playing
  <2> QED BY <2>1, <2>2, AllHeardNow DEF KnownInv
<1> QED BY <1>1, <1>2, <1>3, PTL DEF BookSpec
=============================================================================
