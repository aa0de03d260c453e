----------------------------- MODULE Placement -----------------------------
(***************************************************************************)
(* Where each slave sits in a stream: JoinPlanner of placement.py with the *)
(* two timelines of domain/timeline.py, the frame index of                 *)
(* domain/frames.py and the ring of source.py.  One stream, whose source   *)
(* runs; boxes that join it, report where they are and leave.              *)
(*                                                                         *)
(* Time is counted in ticks and a frame lasts Dur of them.  Bytes are      *)
(* numbers: of a frame the model keeps its length.  The boxes are          *)
(* external, as REPORT.md and the docstrings measured them: a box renders  *)
(* the first frame it can decode at the time its PLAY named and one frame  *)
(* every Dur after it, and its counters run ReadAhead frames ahead.        *)
(* The plan of one joiner runs under the switch lock, so there is one.     *)
(***************************************************************************)
EXTENDS Integers, Sequences, FiniteSetsExt

CONSTANTS
  Boxes,       \* the speakers
  Streams,     \* the streams tried: [upTo |-> the lengths of its frames, in turn and summed, head |-> bytes before frame 0, burst |-> frames sent at once, lag |-> frames it may fall behind, discard |-> frames a start throws away]
  Dur,         \* ticks a frame lasts
  Lead,        \* JOIN_LEAD_US and START_DELAY_US
  MaxAge,      \* REPORT_MAX_AGE_US
  RateWait,    \* RATE_WAIT_S
  Framed,      \* the boxes whose reports carry trackData
  Every,       \* a box reports this often while it plays
  Late,        \* and its report is at most this long on the way
  ReadAhead,   \* DECODER_READ_AHEAD_FRAMES
  Jitter,      \* bytes a box's counter sits past the boundary it means
  Preroll,     \* RESTART_PREROLL_BYTES
  Cap,         \* RingBuffer.max_bytes
  Chunk,       \* bytes the source appends at a time
  Window,      \* ZoneTimeline.window
  EarlyJoins,  \* TRUE: a joiner may be placed while a box is told to play and not heard
  MaxTime      \* bound: ticks

ASSUME PlacementAssumption ==
  /\ {Dur, Lead, MaxAge, RateWait, Every, Cap, Chunk, Window} \subseteq Nat \ {0}
  /\ {Late, ReadAhead, Jitter, Preroll, MaxTime} \subseteq Nat
  /\ EarlyJoins \in BOOLEAN /\ Framed \subseteq Boxes
  /\ RateWait < Lead /\ Every + Late <= MaxAge

VARIABLES
  now,      \* the master's clock
  stream,   \* the member of Streams this station is
  end,      \* RingBuffer.end_offset
  starts,   \* FrameIndex.starts, as the numbers of the frames found
  t0,       \* StreamSource.t0_us
  line,     \* StreamSource.timeline: [t0, byte, points]
  frames,   \* StreamSource.frame_timeline: [t0, frame0], or NoLine
  book,     \* JoinPlanner._books: [slot, baseFrame, discarded] of each box
  box,      \* per box: out, told as one of the cohort, by frames or by bytes, or quiet (its bytes ran out)
  wire,     \* the reports on their way
  plan      \* plan_join: where it stands, for whom

srcVars  == <<stream, end, starts>>
zoneVars == <<t0, line, frames>>
vars == <<now, srcVars, zoneVars, book, box, wire, plan>>

None     == -1000
NoLine   == [t0 |-> None, frame0 |-> None]
NoSlot   == [t0 |-> None, base |-> None]
NoBook   == [slot |-> NoSlot, baseFrame |-> None, discarded |-> None]
NoPlan   == [at |-> "idle", peer |-> None, until |-> 0, frame |-> None, t0 |-> None]

Larger(a, b)  == IF a > b THEN a ELSE b
Smaller(a, b) == IF a < b THEN a ELSE b
Ceiling(a, b) == -((-a) \div b)
-----------------------------------------------------------------------------
(* The bytes of the stream, and the ring that holds the last of them. *)

MaxFrame == (MaxTime \div Dur) + Lead + 8

\* The byte frame k starts at: frame lengths repeat, summed in stream.upTo.
At(k) ==
  LET n == Len(stream.upTo) IN
  stream.head + (k \div n) * stream.upTo[n] + IF k % n = 0 THEN 0 ELSE stream.upTo[k % n]

RingStart == Larger(0, end - Cap)
LiveEdge  == At((now \div Dur) + stream.burst)

\* The first frame starting at or after a byte, whether the ring holds it or not.
FrameFrom(byte) == CHOOSE k \in 0 .. MaxFrame : At(k) >= byte /\ \A j \in 0 .. k - 1 : At(j) < byte

\* find_frame: a frame is believed once the header that follows it is there.
Confirmed(k) == At(k) >= RingStart /\ At(k + 1) < end

\* FrameIndex.extend: on from the last frame found, or from what the ring still holds.
Extended ==
  LET from  == IF starts = <<>> THEN 0 ELSE starts[Len(starts)] + 1
      found == {k \in from .. MaxFrame - 1 : Confirmed(k)}
      least == CHOOSE k \in found : \A j \in found : k <= j
  IN  IF found = {} THEN starts ELSE starts \o [i \in 1 .. Cardinality(found) |-> least + i - 1]

\* Frame numbers are the index's own: its first is 0.
IndexAtOrAfter(index, byte) ==
  IF \E i \in 1 .. Len(index) : At(index[i]) >= byte
    THEN (CHOOSE i \in 1 .. Len(index) : At(index[i]) >= byte /\ \A j \in 1 .. i - 1 : At(index[j]) < byte) - 1
    ELSE None

IndexNearest(index, byte) ==
  LET k == IndexAtOrAfter(index, byte) IN
  IF k # None /\ k > 0 /\ byte - At(index[k]) < At(index[k + 1]) - byte THEN k - 1 ELSE k

Indexed(index, k) == k \in 0 .. Len(index) - 1
ByteOf(index, k)  == At(index[k + 1])
-----------------------------------------------------------------------------
(* ZoneTimeline *)

Points   == line.points
Last     == Points[Len(Points)]

Added(p) ==
  IF Points # <<>> /\ p.byte < Last.byte THEN Points
    ELSE LET all == Append(Points, p) IN SubSeq(all, Larger(1, Len(all) - Window + 1), Len(all))

IsPlaying == Points # <<>> /\ now - Last.t <= MaxAge

\* rate() is Bytes over Ticks; None is HasRate = FALSE.
HasRate == Len(Points) >= 2 /\ Last.t > Points[1].t
Bytes   == Last.byte - Points[1].byte
Ticks   == Last.t - Points[1].t

\* read_ahead_bytes: what a frame costs each box that reported frames twice, averaged; 0 when none did.
FramedOf(b)   == {i \in 1 .. Len(Points) : Points[i].peer = b /\ Points[i].count # None}
BytesOf(b)    == Points[Max(FramedOf(b))].byte - Points[Min(FramedOf(b))].byte
FramesOf(b)   == Points[Max(FramedOf(b))].count - Points[Min(FramedOf(b))].count
ReadAheadBytes ==
  LET told   == {b \in Boxes : FramedOf(b) # {} /\ FramesOf(b) > 0}
      common == MapThenFoldSet(LAMBDA x, y : x * y, 1, FramesOf, LAMBDA S : CHOOSE b \in S : TRUE, told)
      sum    == MapThenSumSet(LAMBDA b : BytesOf(b) * (common \div FramesOf(b)), told)
  IN  IF told = {} THEN 0 ELSE (ReadAhead * sum) \div (common * Cardinality(told))

\* Mutant of ByteAt: where the zone was when it last reported.
ByteAtLast(t) == Last.byte - ReadAheadBytes

ByteAt(t) == Last.byte + (Bytes * (t - Last.t)) \div Ticks - ReadAheadBytes
-----------------------------------------------------------------------------
(* FrameTimeline, and frame_position: anchored on the stream's start once  *)
(* the ring has shown what a frame is.                                     *)

FramePosition(index) ==
  LET first == IndexAtOrAfter(index, line.byte) IN
  IF frames = NoLine /\ index # <<>> /\ first # None THEN [t0 |-> t0, frame0 |-> first] ELSE frames

\* frame_at, rounded up, and time_of_frame.
FrameAt(ft, t)     == ft.frame0 + Ceiling(t - ft.t0, Dur)
TimeOfFrame(ft, k) == ft.t0 + (k - ft.frame0) * Dur
-----------------------------------------------------------------------------
(* What a box does with its slot (external). *)

Told       == {"cohort", "frames", "bytes"}
Playing(b) == box[b] \in Told /\ book[b].slot.t0 <= now

\* Whole frames a box throws away when its first byte is this frame's.
Discarded(k) == stream.discard[(k % Len(stream.discard)) + 1]

\* The first frame it decodes, and the frames it has taken from its bytes.
FirstDecoded(b) == LET k == FrameFrom(book[b].slot.base) IN k + Discarded(k)
Rendered(b, t)  == (t - book[b].slot.t0) \div Dur
Consumed(b, t)  == FirstDecoded(b) + Rendered(b, t) + ReadAhead

\* Whom time reaches with a report due; and who has no byte left to play.
Due(t)      == {b \in Boxes : box[b] \in Told /\ book[b].slot.t0 <= t /\ (t - book[b].slot.t0) % Every = 0}
Starving(t) == {b \in Due(t) : At(Consumed(b, t)) > end}

Report(b, t) ==
  [peer |-> b, at |-> t, ms |-> t - book[b].slot.t0,
   byte |-> At(Consumed(b, t)) + Jitter - book[b].slot.base,
   count |-> IF b \in Framed THEN Consumed(b, t) - FirstDecoded(b) ELSE None]
-----------------------------------------------------------------------------
Init ==
  /\ now = 0
  /\ stream \in Streams
  /\ end = Chunk
  /\ starts = <<>>
  /\ t0 = Lead
  /\ line = [t0 |-> Lead, byte |-> 0, points |-> <<>>]
  /\ frames = NoLine
  /\ book = [b \in Boxes |-> NoBook]
  /\ box = [b \in Boxes |-> "out"]
  /\ wire = {}
  /\ plan = NoPlan

\* RingBuffer.append: the station sends no faster than it plays, after its burst.
RingAppend ==
  /\ end + Chunk <= LiveEdge
  /\ end' = end + Chunk
  /\ UNCHANGED <<now, stream, starts, zoneVars, book, box, wire, plan>>

\* A loop of plan_join that would end when it is next asked.
RateIsSettled == plan.at = "rate" /\ ~(IsPlaying /\ ~HasRate /\ now < plan.until)
FrameIsThere  == plan.at = "frame" /\ Indexed(Extended, plan.frame)
FrameIsLate == plan.at = "frame" /\ ~Indexed(Extended, plan.frame) /\ now >= plan.until

\* The loops poll ten times a second and a report is Late at most, so time
\* waits for both.
Tick ==
  /\ now < MaxTime
  /\ ~RateIsSettled /\ ~FrameIsThere /\ ~FrameIsLate
  /\ \A r \in wire : now - r.at < Late
  /\ end + Chunk > At(Larger(0, ((now + 1) \div Dur) + stream.burst - stream.lag))
  /\ now' = now + 1
  /\ box' = [b \in Boxes |-> IF b \in Starving(now + 1) THEN "quiet" ELSE box[b]]
  /\ wire' = wire \cup {Report(b, now + 1) : b \in Due(now + 1) \ Starving(now + 1)}
  /\ UNCHANGED <<srcVars, zoneVars, book, plan>>

Over == now = MaxTime /\ UNCHANGED vars
-----------------------------------------------------------------------------
(* on_slave_state and _frame_report *)

\* The frame a box counts from, if the index knows it.
BaseFrame(b, index) == IF book[b].baseFrame # None THEN book[b].baseFrame ELSE IndexAtOrAfter(index, book[b].slot.base)

\* Mutant of FirstFrame: the bytes a box threw away are not looked at.
FirstFrameAsHanded(ft, b, base, discarded) == ft

\* The first box defines what the zone renders at t0.
FirstFrame(ft, b, base, discarded) ==
  IF book[b].slot = [t0 |-> t0, base |-> line.byte] /\ discarded # book[b].discarded
    THEN [ft EXCEPT !.frame0 = base + discarded] ELSE ft

FrameReport(r, index, base, ft, near) ==
  LET known     == base # None /\ ft # NoLine /\ near # None
      discarded == IF known THEN near - base - r.count ELSE book[r.peer].discarded
  IN  /\ starts' = index
      /\ book' = [book EXCEPT ![r.peer].baseFrame = base, ![r.peer].discarded = discarded]
      /\ frames' = IF known THEN FirstFrame(ft, r.peer, base, discarded) ELSE ft

Heard(r) ==
  LET b == r.peer
      s == book[b].slot
  IN  /\ wire' = wire \ {r}
      /\ line' = [line EXCEPT !.points =
                    Added([t |-> s.t0 + r.ms, byte |-> s.base + r.byte, count |-> r.count, peer |-> b])]
      /\ IF r.count = None THEN UNCHANGED <<starts, book, frames>>
          ELSE FrameReport(r, Extended, BaseFrame(b, Extended), FramePosition(Extended),
                           IndexNearest(Extended, s.base + r.byte))
      /\ UNCHANGED <<now, stream, end, t0, box, plan>>
-----------------------------------------------------------------------------
(* plan_join *)

Tell(b, how, slot, frame) ==
  /\ book' = [book EXCEPT ![b] = [slot |-> slot, baseFrame |-> IF frame # None THEN frame ELSE @.baseFrame,
                                  discarded |-> @.discarded]]
  /\ box' = [box EXCEPT ![b] = how]
  /\ plan' = NoPlan

\* Nobody is known to play, but somebody does or is about to.
Unheard == ~IsPlaying /\ \E b \in Boxes : box[b] \in Told

\* The stream has not started: the box joins the cohort that starts with it.
JoinCohort(b) ==
  /\ plan = NoPlan /\ box[b] = "out"
  /\ line.t0 > now
  /\ Tell(b, "cohort", [t0 |-> line.t0, base |-> line.byte], None)
  /\ UNCHANGED <<now, srcVars, zoneVars, wire>>

StartPlan(b) ==
  /\ plan = NoPlan /\ box[b] = "out"
  /\ line.t0 <= now
  /\ plan' = [NoPlan EXCEPT !.at = "rate", !.peer = b, !.until = now + RateWait]
  /\ UNCHANGED <<now, srcVars, zoneVars, book, box, wire>>

\* The byte the zone will reach, moved on to a frame start and the time with it.
PlanInBytes(b, t) ==
  LET base == Larger(ByteAt(t), RingStart)
      k    == FrameFrom(base)
      slot == IF Confirmed(k) THEN [t0 |-> t + ((At(k) - base) * Ticks) \div Bytes, base |-> At(k)]
                              ELSE [t0 |-> t, base |-> base]
  IN  Tell(b, "bytes", slot, None) /\ UNCHANGED <<t0, line>>

\* Nobody plays it: the zone starts anew, a little behind the live edge.
Restart(b, t) ==
  LET base == Larger(RingStart, end - Preroll) IN
  /\ Tell(b, "cohort", [t0 |-> t, base |-> base], None)
  /\ t0' = t
  /\ line' = [t0 |-> t, byte |-> base, points |-> <<>>]

WithoutFrames(b, ft) ==
  IF IsPlaying /\ HasRate THEN PlanInBytes(b, now + Lead) /\ frames' = ft
                          ELSE Restart(b, now + Lead) /\ frames' = NoLine

\* The wait for a rate is over: in frames, if the zone is known in frames.
PlanInFrames ==
  /\ RateIsSettled
  /\ EarlyJoins \/ ~Unheard
  /\ LET index == IF frames = NoLine /\ starts # <<>> THEN Extended ELSE starts
         ft    == FramePosition(index)
         k     == FrameAt(ft, now + Lead)
     IN  /\ starts' = index
         /\ IF ft # NoLine /\ IsPlaying
              THEN /\ plan' = [plan EXCEPT !.at = "frame", !.frame = k, !.t0 = TimeOfFrame(ft, k),
                                           !.until = now + RateWait]
                   /\ frames' = ft
                   /\ UNCHANGED <<book, box, t0, line>>
              ELSE WithoutFrames(plan.peer, ft)
  /\ UNCHANGED <<now, stream, end, wire>>

FrameFound ==
  /\ FrameIsThere
  /\ starts' = Extended
  /\ Tell(plan.peer, "frames", [t0 |-> plan.t0, base |-> ByteOf(Extended, plan.frame)], plan.frame)
  /\ UNCHANGED <<now, stream, end, zoneVars, wire>>

FrameNotFound ==
  /\ FrameIsLate
  /\ EarlyJoins \/ ~Unheard
  /\ starts' = Extended
  /\ WithoutFrames(plan.peer, frames)
  /\ UNCHANGED <<now, stream, end, wire>>

\* transport_closed: drop_peer.
DropPeer(b) ==
  /\ box[b] # "out"
  /\ book' = [book EXCEPT ![b] = NoBook]
  /\ box' = [box EXCEPT ![b] = "out"]
  /\ wire' = {r \in wire : r.peer # b}
  /\ UNCHANGED <<now, srcVars, zoneVars, plan>>

Next ==
  \/ RingAppend \/ Tick \/ Over
  \/ \E r \in wire : Heard(r)
  \/ \E b \in Boxes : JoinCohort(b) \/ StartPlan(b) \/ DropPeer(b)
  \/ PlanInFrames \/ FrameFound \/ FrameNotFound

Spec == Init /\ [][Next]_vars
-----------------------------------------------------------------------------
TypeOK ==
  /\ now \in 0 .. MaxTime /\ stream \in Streams /\ end \in Nat
  /\ \A i \in 1 .. Len(starts) : starts[i] \in 0 .. MaxFrame
  /\ box \in [Boxes -> Told \cup {"out", "quiet"}]
  /\ plan.at \in {"idle", "rate", "frame"}

\* In ticks: when a box would have rendered frame 0.  What a joiner throws
\* away itself is its own affair (the master can only log it).
Phase(b) == book[b].slot.t0 - Dur * (FirstDecoded(b) - IF box[b] = "cohort" THEN 0 ELSE Discarded(FrameFrom(book[b].slot.base)))

\* All boxes that play render the same frame at the same time.
InSync ==
  \A a, b \in {c \in Boxes : Playing(c) /\ box[c] # "bytes"} : Phase(a) = Phase(b)

\* A box placed by bytes is at most a frame away, on a stream of one frame size.
BytesAreClose ==
  Len(stream.upTo) = 1 =>
    \A a, b \in {c \in Boxes : Playing(c)} : Phase(a) - Phase(b) \in -Dur .. Dur

\* A box is told to play at a time still ahead of it.
PlayIsAhead == [][\A b \in Boxes : book'[b].slot \notin {NoSlot, book[b].slot} => book'[b].slot.t0 > now]_vars

\* A zone somebody plays is not restarted.
NeverRestarted == [][line'.t0 # line.t0 => \A b \in Boxes : ~Playing(b)]_vars
=============================================================================
