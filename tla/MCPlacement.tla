---- MODULE MCPlacement ----
EXTENDS Placement, TLC
MCStreams == {[upTo |-> <<4>>, head |-> 2, burst |-> 2, lag |-> 5, discard |-> <<0>>],
              [upTo |-> <<3, 8>>, head |-> 0, burst |-> 5, lag |-> 1, discard |-> <<1, 0, 1>>]}
MCSymmetry == Permutations(Boxes)
====
