--------------------------- MODULE MCVolumeGuard ---------------------------
(* VolumeGuard, with one step in its climb. *)
EXTENDS VolumeGuard

OneDown == {0, -1}
Up   == {1}
=============================================================================
