---- MODULE MCHouseDatabase ----
EXTENDS HouseDatabase, TLC
\* an older release beside the one being installed
MCRuns ==
  [kind : {"serve", "switch", "set"}, release : {2}] \cup [kind : {"serve", "seed", "prefs", "import", "export"}, release : {3}]
Symmetry == Permutations(Procs)
====
