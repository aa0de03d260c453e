---------------------------- MODULE MCZoneMaster ----------------------------
(* ZoneMaster on a box that opens a second channel, and on two boxes. *)
EXTENDS ZoneMaster, TLC

CONSTANTS b1, b2, c1, c2, c3

OneBox   == c1 :> b1 @@ c2 :> b1
TwoBoxes == OneBox @@ c3 :> b2
=============================================================================
