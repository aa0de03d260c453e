---- MODULE MCAlarms ----
EXTENDS Alarms, TLC
(* A day has five instants.  The clock goes forward by one at instant 7, so that wall time 7 *)
(* does not exist, and back at instant 12, so that wall time 12 comes twice.                 *)
MCOffset == [t \in 0 .. 24 |-> IF t \in 7 .. 11 THEN 1 ELSE 0]
Shape(times, snooze, limit, sequence) ==
  [times |-> times, ramp |-> 2, snooze |-> snooze, limit |-> limit, sequence |-> sequence, start |-> 0, max |-> 3]
Usual == Shape([w \in 0 .. 1 |-> 2], 1, 4, "right")
MCShapes == {
  Usual,
  Shape([w \in 0 .. 1 |-> IF w = 1 THEN 4 ELSE -1], 1, 4, "none"),
  Shape([w \in 0 .. 1 |-> 2], 1, 5, "none") }
MCPauseDays == {NoPause, 1}
MCBefore == [n \in Names |-> IF n = "a1" THEN Usual @@ [enabled |-> TRUE, setAt |-> 1] ELSE NoAlarm]
====
