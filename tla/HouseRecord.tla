---------------------------- MODULE HouseRecord ----------------------------
(***************************************************************************)
(* What the house store promises the zone service about its saves, stated  *)
(* without a thread, a queue or a close: every save writes the whole state *)
(* down, the record never falls back behind a save it already holds, and a *)
(* save answered well is in it.  StoreWorker implements this.              *)
(*                                                                         *)
(* A save is named by its number, across every run of the service.         *)
(***************************************************************************)
EXTENDS Naturals

CONSTANT MaxSaves          \* bound: how many saves a behaviour asks for

VARIABLES
  asked,      \* how many saves have been asked for
  durable,    \* the save the house's database holds, 0 before any
  result      \* per save: not asked for, queued, ok, failed, or lost with its process

recordVars == <<asked, durable, result>>

Saves == 1 .. MaxSaves

RecordTypeOK ==
  /\ asked \in 0 .. MaxSaves
  /\ durable \in 0 .. MaxSaves
  /\ result \in [Saves -> {"none", "queued", "ok", "failed", "lost"}]

RecordInit ==
  /\ asked = 0
  /\ durable = 0
  /\ result = [n \in Saves |-> "none"]

\* A save is asked for; an open store queues it, a closed one refuses it.
AskedFor(n, how) ==
  /\ n = asked + 1
  /\ asked' = n
  /\ result' = [result EXCEPT ![n] = how]
  /\ UNCHANGED durable

Written(n) ==
  /\ result[n] = "queued" /\ durable < n
  /\ durable' = n
  /\ result' = [result EXCEPT ![n] = "ok"]
  /\ UNCHANGED asked

\* A save that raised may have been committed all the same.
NotWritten(n) ==
  /\ result[n] = "queued"
  /\ durable' = durable \/ (durable < n /\ durable' = n)
  /\ result' = [result EXCEPT ![n] = "failed"]
  /\ UNCHANGED asked

\* The process ends: what was queued is lost, all but a commit under way.
ProcessGone ==
  /\ durable' = durable \/ \E n \in Saves : result[n] = "queued" /\ durable < n /\ durable' = n
  /\ result' = [n \in Saves |-> IF result[n] = "queued" THEN "lost" ELSE result[n]]
  /\ UNCHANGED asked

RecordNext ==
  \/ \E n \in Saves : AskedFor(n, "queued") \/ AskedFor(n, "failed") \/ Written(n) \/ NotWritten(n)
  \/ ProcessGone

RecordSpec == RecordInit /\ [][RecordNext]_recordVars
=============================================================================
