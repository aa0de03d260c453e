----------------------------- MODULE StreamFeed -----------------------------
(***************************************************************************)
(* How the bytes of one station come in and go out: StreamSource of        *)
(* source.py (the fetch task, its reconnects, its stop), OrionBase of      *)
(* orion.py (which completes the location of each fetch), RingBuffer, and  *)
(* the data connections of connections.py that serve the boxes from it.    *)
(* Placement says where in the stream a box begins; here it is any byte.   *)
(*                                                                         *)
(* A step is what runs between two suspension points of one task.  A byte  *)
(* is the number at which it came in from the station, deadlines may pass  *)
(* whenever their task waits, and the station, the registry and the boxes  *)
(* are external.                                                           *)
(***************************************************************************)
EXTENDS Integers, Sequences, FiniteSets

CONSTANTS
  Slaves,      \* data connections
  Requests,    \* what a box may ask for: <<byte_count, min_byte_count>>
  Default,     \* DEFAULT_CHUNK_BYTES
  MaxChunk,    \* MAX_CHUNK_BYTES
  Cap,         \* RingBuffer.max_bytes
  Adapters,    \* where the Orion adapter may be: Fallback or elsewhere
  Fallback,    \* OrionBase.fallback
  MaxBytes,    \* bound: bytes the station sends
  MaxMoves     \* bound: how often the adapter moves

ASSUME StreamFeedAssumption ==
  /\ {Default, MaxChunk, Cap} \subseteq Nat \ {0} /\ {MaxBytes, MaxMoves} \subseteq Nat
  /\ MaxChunk <= Cap /\ Default <= MaxChunk
  /\ Fallback \in Adapters /\ Requests \subseteq Int \X Int

VARIABLES
  data, start, ended,   \* RingBuffer: _data, start_offset, ended
  total,        \* StreamSource.bytes_total
  fetch,        \* the fetch task: [at, expired, cancelled, base]
  stop,         \* StreamSource.stop: none, waiting or done
  orion,        \* OrionBase: [found, backingOff, holder] (holder of _lookup)
  reading,      \* its background read: none, asking or reading
  conn,         \* per slave: its data connection
  adapter,      \* where the registry names the adapter (external)
  moves

ringVars == <<data, start, ended, total>>
sourceVars  == <<fetch, stop>>
baseVars == <<orion, reading>>
feedVars == <<ringVars, sourceVars, baseVars, conn, adapter, moves>>

Nowhere == "nowhere"
NoReader  == "nobody"

\* Where a deadline of the fetch task may pass; a lookup's is far longer than
\* the two registry reads it may have to wait for.
Timed == {"resolving", "connecting", "pumping"}

Larger(a, b)  == IF a > b THEN a ELSE b
Smaller(a, b) == IF a < b THEN a ELSE b

EndOffset == start + Len(data)

Idle == [at |-> "idle", placed |-> FALSE, base |-> 0, offset |-> 0, serve |-> 0, need |-> 0, given |-> <<>>]
Shut == [Idle EXCEPT !.at = "closed"]

FeedInit ==
  /\ data = <<>> /\ start = 0 /\ ended = FALSE /\ total = 0
  /\ fetch = [at |-> "asking", expired |-> FALSE, cancelled |-> FALSE, base |-> Nowhere]
  /\ stop = "none"
  /\ orion = [found |-> Nowhere, backingOff |-> FALSE, holder |-> NoReader]
  /\ reading = "none"
  /\ conn = [s \in Slaves |-> Idle]
  /\ adapter \in Adapters
  /\ moves = 0
-----------------------------------------------------------------------------
(* OrionBase: one lookup at a time, of the fetch or of the background read. *)

Known == orion.found # Nowhere \/ orion.backingOff

\* _base() without a read: the base named before, or the fallback while the registry is left alone.
Remembered == IF orion.found # Nowhere THEN orion.found ELSE Fallback

\* A fetch that has its location goes on to resolve it.
Completed(b) == fetch' = [fetch EXCEPT !.at = "resolving", !.base = b]

FetchIsTold ==
  /\ fetch.at = "asking" /\ ~fetch.cancelled
  /\ orion.holder = NoReader /\ Known
  /\ Completed(Remembered)
  /\ UNCHANGED <<ringVars, stop, baseVars, conn, adapter, moves>>

FetchReads ==
  /\ fetch.at = "asking" /\ ~fetch.cancelled
  /\ orion.holder = NoReader /\ ~Known
  /\ orion' = [orion EXCEPT !.holder = "fetch"]
  /\ UNCHANGED <<ringVars, sourceVars, reading, conn, adapter, moves>>

\* The registry answers with the base it names, or cannot be read.
Named      == [found |-> adapter, backingOff |-> orion.backingOff, holder |-> NoReader]
Unreadable == [found |-> Nowhere, backingOff |-> TRUE, holder |-> NoReader]

FetchIsAnswered ==
  /\ orion.holder = "fetch" /\ ~fetch.cancelled
  /\ \/ orion' = Named /\ Completed(adapter)
     \/ orion' = Unreadable /\ Completed(Fallback)
  /\ UNCHANGED <<ringVars, stop, reading, conn, adapter, moves>>

\* for_a_speaker and warm: no base is known and none is being read.
ReadInTheBackground ==
  /\ ~Known /\ reading = "none" /\ stop = "none"
  /\ reading' = "asking"
  /\ UNCHANGED <<ringVars, sourceVars, orion, conn, adapter, moves>>

BackgroundStep ==
  /\ \/ /\ reading = "asking" /\ orion.holder = NoReader
        /\ IF Known THEN reading' = "none" /\ UNCHANGED orion
                    ELSE reading' = "reading" /\ orion' = [orion EXCEPT !.holder = "reading"]
     \/ /\ reading = "reading"
        /\ reading' = "none"
        /\ orion' \in {Named, Unreadable}
  /\ UNCHANGED <<ringVars, sourceVars, conn, adapter, moves>>

\* OrionBase.close ends the read wherever it waits.
CloseOrion ==
  /\ reading # "none"
  /\ reading' = "none"
  /\ orion' = [orion EXCEPT !.holder = IF @ = "reading" THEN NoReader ELSE @]
  /\ UNCHANGED <<ringVars, sourceVars, conn, adapter, moves>>

RetryAfter ==
  /\ orion.backingOff
  /\ orion' = [orion EXCEPT !.backingOff = FALSE]
  /\ UNCHANGED <<ringVars, sourceVars, reading, conn, adapter, moves>>

\* forget: a fetch failed that was completed against the base the registry named.
BaseForgotten == IF orion.found # Nowhere /\ fetch.base = orion.found THEN [orion EXCEPT !.found = Nowhere] ELSE orion

AdapterMoves ==
  /\ moves < MaxMoves
  /\ adapter' \in Adapters \ {adapter}
  /\ moves' = moves + 1
  /\ UNCHANGED <<ringVars, sourceVars, baseVars, conn>>
-----------------------------------------------------------------------------
(* StreamSource: the fetch task and its stop.                              *)

\* After a fetch that ended early the loop waits, longer each time, else it goes on.
Again(early) ==
  fetch' = [at |-> IF early THEN "backoff" ELSE "asking", expired |-> FALSE,
            cancelled |-> fetch.cancelled, base |-> Nowhere]

\* A station answers only where its adapter is.
Resolved ==
  /\ fetch.at = "resolving" /\ ~fetch.expired /\ ~fetch.cancelled
  /\ fetch.base = adapter
  /\ fetch' = [fetch EXCEPT !.at = "connecting"]
  /\ UNCHANGED <<ringVars, stop, baseVars, conn, adapter, moves>>

Connected ==
  /\ fetch.at = "connecting" /\ ~fetch.expired /\ ~fetch.cancelled
  /\ fetch' = [fetch EXCEPT !.at = "pumping"]
  /\ UNCHANGED <<ringVars, stop, baseVars, conn, adapter, moves>>

\* Before a byte came back: an HTTP error, or a status that is one.
FetchFails ==
  /\ fetch.at \in {"resolving", "connecting"} /\ ~fetch.expired /\ ~fetch.cancelled
  /\ orion' = BaseForgotten
  /\ \E early \in BOOLEAN : Again(early)
  /\ UNCHANGED <<ringVars, stop, reading, conn, adapter, moves>>

\* Mutant of RingAppend: the oldest bytes go, and those left keep no account of it.
RingAppendFromNought(chunk) ==
  LET all == data \o chunk IN data' = SubSeq(all, Larger(0, Len(all) - Cap) + 1, Len(all)) /\ start' = start

\* RingBuffer.append: the oldest bytes are dropped past max_bytes.
RingAppend(chunk) ==
  LET all      == data \o chunk
      overflow == Larger(0, Len(all) - Cap)
  IN data' = SubSeq(all, overflow + 1, Len(all)) /\ start' = start + overflow

\* The next n bytes of the station, also after a redial.
Chunk(n) == [i \in 1 .. n |-> total + i - 1]

\* _pump, or the stream ends or breaks.
Pump ==
  /\ fetch.at = "pumping" /\ ~fetch.expired /\ ~fetch.cancelled
  /\ \E n \in 1 .. 2 :
       /\ total + n <= MaxBytes
       /\ total' = total + n
       /\ RingAppend(Chunk(n))
  /\ UNCHANGED <<ended, sourceVars, baseVars, conn, adapter, moves>>

StreamBreaks ==
  /\ fetch.at = "pumping" /\ ~fetch.expired /\ ~fetch.cancelled
  /\ \E early \in BOOLEAN : Again(early)
  /\ UNCHANGED <<ringVars, stop, baseVars, conn, adapter, moves>>

BackoffOver ==
  /\ fetch.at = "backoff" /\ ~fetch.cancelled
  /\ fetch' = [fetch EXCEPT !.at = "asking"]
  /\ UNCHANGED <<ringVars, stop, baseVars, conn, adapter, moves>>

DeadlinePasses ==
  /\ fetch.at \in Timed /\ ~fetch.expired
  /\ fetch' = [fetch EXCEPT !.expired = TRUE]
  /\ UNCHANGED <<ringVars, stop, baseVars, conn, adapter, moves>>

LockGivenBack == IF orion.holder = "fetch" THEN NoReader ELSE orion.holder

\* Mutant of Wakes: the deadline takes the stop for its own timeout.
WakesToItsDeadline(early) ==
  IF fetch.expired
    THEN /\ orion' = [orion EXCEPT !.holder = LockGivenBack]
         /\ fetch' = [at |-> "backoff", expired |-> FALSE, cancelled |-> FALSE, base |-> Nowhere]
    ELSE /\ orion' = [orion EXCEPT !.holder = LockGivenBack]
         /\ fetch' = [fetch EXCEPT !.at = "gone"]

\* asyncio.timeout counts a stop that lands with its deadline, and lets it through.
Wakes(early) ==
  IF fetch.cancelled
    THEN /\ orion' = [orion EXCEPT !.holder = LockGivenBack]
         /\ fetch' = [fetch EXCEPT !.at = "gone"]
    ELSE /\ orion' = [IF fetch.at \in {"resolving", "connecting"} THEN BaseForgotten ELSE orion
                        EXCEPT !.holder = LockGivenBack]
         /\ Again(early)

WakeUp ==
  /\ fetch.at # "gone" /\ (fetch.expired \/ fetch.cancelled)
  /\ \E early \in BOOLEAN : Wakes(early)
  /\ UNCHANGED <<ringVars, stop, reading, conn, adapter, moves>>

RingEnd == ended' = TRUE

\* stop(): the ring ends first, then the task is cancelled and waited for.
StopSource ==
  /\ stop = "none"
  /\ stop' = "waiting"
  /\ RingEnd
  /\ fetch' = [fetch EXCEPT !.cancelled = TRUE]
  /\ UNCHANGED <<data, start, total, baseVars, conn, adapter, moves>>

StopReturns ==
  /\ stop = "waiting" /\ fetch.at = "gone"
  /\ stop' = "done"
  /\ UNCHANGED <<ringVars, fetch, baseVars, conn, adapter, moves>>
-----------------------------------------------------------------------------
(* DataConnection                                                          *)

WaitFor(asked, least, serve) == Smaller(Larger(least, 1), serve)

Serve(asked, least) ==
  Smaller(Larger(Larger(IF asked > 0 THEN asked ELSE Default, least), 1), MaxChunk)

\* A request; the first of a connection is placed, or finds no plan and starts
\* at the ring's start. A stream no longer in sources is not answered.
Request(s) ==
  /\ conn[s].at = "idle" /\ stop = "none"
  /\ \E r \in Requests, base \in {start, EndOffset, EndOffset + 1} :
       LET first == ~conn[s].placed
           serve == Serve(r[1], r[2])
       IN  /\ first \/ base = start
           /\ conn' = [conn EXCEPT ![s] =
                 [at |-> "waiting", placed |-> TRUE,
                  base |-> IF first THEN base ELSE @.base, offset |-> IF first THEN base ELSE @.offset,
                  serve |-> serve, need |-> WaitFor(r[1], r[2], serve), given |-> @.given]]
  /\ UNCHANGED <<ringVars, sourceVars, baseVars, adapter, moves>>

Held(s)   == Larger(0, EndOffset - conn[s].offset)
Enough(s) == EndOffset >= conn[s].offset + conn[s].need
Gone(s)   == conn[s].offset < start

\* RingBuffer.read, of what was not dropped.
ReadRing(offset, count) ==
  LET rel == offset - start IN SubSeq(data, rel + 1, Smaller(rel + count, Len(data)))

\* The reply, and the cursor; RingOverrunError ends the connection.
Answer(s) ==
  LET c     == conn[s]
      chunk == ReadRing(c.offset, c.serve)
  IN conn' = [conn EXCEPT ![s] =
       IF Gone(s) THEN Shut
       ELSE IF chunk = <<>> THEN c
       ELSE [c EXCEPT !.at = "idle", !.offset = c.offset + Len(chunk), !.given = c.given \o chunk]]

\* Mutant of NothingToCome: an ended ring owes nothing.
NothingToComeAtAll(s) == ended

\* wait_for raises StreamEndedError.
NothingToCome(s) == ended /\ EndOffset <= conn[s].offset

Served(s) ==
  /\ conn[s].at = "waiting"
  /\ Enough(s) \/ (ended /\ ~NothingToCome(s))
  /\ Answer(s)
  /\ UNCHANGED <<ringVars, sourceVars, baseVars, adapter, moves>>

Unanswered(s) ==
  /\ conn[s].at = "waiting" /\ ~Enough(s) /\ NothingToCome(s)
  /\ conn' = [conn EXCEPT ![s].at = "idle"]
  /\ UNCHANGED <<ringVars, sourceVars, baseVars, adapter, moves>>

\* DATA_WAIT_S: what there is goes out, and with nothing it waits again.
TimesOut(s) ==
  /\ conn[s].at = "waiting" /\ ~Enough(s) /\ ~ended
  /\ Answer(s)
  /\ UNCHANGED <<ringVars, sourceVars, baseVars, adapter, moves>>

ConnectionLost(s) ==
  /\ conn[s].at # "closed"
  /\ conn' = [conn EXCEPT ![s] = Shut]
  /\ UNCHANGED <<ringVars, sourceVars, baseVars, adapter, moves>>

Reconnect(s) ==
  /\ conn[s].at = "closed" /\ stop = "none"
  /\ conn' = [conn EXCEPT ![s] = Idle]
  /\ UNCHANGED <<ringVars, sourceVars, baseVars, adapter, moves>>
-----------------------------------------------------------------------------
FeedNext ==
  \/ FetchIsTold \/ FetchReads \/ FetchIsAnswered
  \/ ReadInTheBackground \/ BackgroundStep \/ CloseOrion \/ RetryAfter \/ AdapterMoves
  \/ Resolved \/ Connected \/ FetchFails \/ Pump \/ StreamBreaks \/ BackoffOver
  \/ DeadlinePasses \/ WakeUp \/ StopSource \/ StopReturns
  \/ \E s \in Slaves : \/ Request(s) \/ Served(s) \/ Unanswered(s) \/ TimesOut(s)
                       \/ ConnectionLost(s) \/ Reconnect(s)

\* A read of the registry, whoever waits for it, that finds a base.
RegistryAnswers == (FetchIsAnswered \/ (reading = "reading" /\ BackgroundStep)) /\ orion'.found = adapter

\* The event loop runs what is ready, a time that was set comes, and a station
\* or a registry asked for ever answers some time.
FeedFairness ==
  /\ SF_feedVars(FetchIsTold) /\ SF_feedVars(FetchReads) /\ SF_feedVars(RegistryAnswers)
  /\ WF_feedVars(BackgroundStep) /\ WF_feedVars(RetryAfter)
  /\ SF_feedVars(Resolved) /\ SF_feedVars(Connected) /\ WF_feedVars(FetchFails)
  /\ WF_feedVars(BackoffOver) /\ WF_feedVars(WakeUp) /\ WF_feedVars(StopReturns)
  /\ \A s \in Slaves : WF_feedVars(Served(s)) /\ WF_feedVars(Unanswered(s))

FeedSpec     == FeedInit /\ [][FeedNext]_feedVars
FairFeed == FeedSpec /\ FeedFairness
-----------------------------------------------------------------------------
FeedTypeOK ==
  /\ data \in Seq(Nat) /\ Len(data) <= Cap /\ start \in Nat /\ ended \in BOOLEAN /\ total \in 0 .. MaxBytes
  /\ fetch.at \in Timed \cup {"asking", "backoff", "gone"}
  /\ stop \in {"none", "waiting", "done"}
  /\ orion.found \in Adapters \cup {Nowhere} /\ orion.holder \in {NoReader, "fetch", "reading"}
  /\ \A s \in Slaves : conn[s].at \in {"idle", "waiting", "closed"}

\* The bytes a box was given on a connection are those the station sent from the one it was
\* placed at on, each once and none passed over, whatever the ring dropped meanwhile, however
\* often the station was dialled again and whichever wait ended early (_serve, RingBuffer).
WithoutAGap ==
  \A s \in Slaves : \A i \in 1 .. Len(conn[s].given) : conn[s].given[i] = conn[s].base + i - 1

\* A request does not sit out its deadline with the bytes it would get there.
NoNeedlessWait ==
  [][\A s \in Slaves : TimesOut(s) => Held(s) < conn[s].serve]_feedVars

\* A request is left unanswered only when the ring holds nothing for it.
OwedIsServed ==
  [][\A s \in Slaves : (conn[s].at = "waiting" /\ conn'[s].at = "idle" /\ conn'[s].given = conn[s].given)
                         => Held(s) = 0]_feedVars

\* stop() returns.
StopEnds == (stop = "waiting") ~> (stop = "done")

\* No data loop outlives its stream.
DataLoopsEnd == \A s \in Slaves : (stop # "none") ~> (conn[s].at # "waiting")

\* An adapter that moved is found again.
StationIsFound == <>(fetch.at = "pumping" \/ stop # "none")
=============================================================================
