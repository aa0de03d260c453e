---------------------------- MODULE HouseSwitch ----------------------------
(***************************************************************************)
(* What the switch of the house promises to whoever sets it, stated        *)
(* without processes, connections or transactions: a set happens at one    *)
(* moment, its answer says whether that moment changed what the service    *)
(* reads, a conditional set writes only over the stamp it names, and a     *)
(* seed only where nobody ever set anything.  HouseDatabase implements     *)
(* this; Deploy is built on it.                                            *)
(***************************************************************************)
EXTENDS Naturals

CONSTANT Who               \* those who set the switch

VARIABLES
  row,        \* the switch row: NoRow or [on, at], at being its changed_at
  writes,     \* how often it was written: the stamp of the newest write
  answer      \* per setter: what its set answered, or NoAnswer

switchVars == <<row, writes, answer>>

NoRow    == [on |-> TRUE, at |-> 0]
NoAnswer == [written |-> FALSE, changed |-> FALSE, at |-> 0]

\* A switch nobody ever set reads as on: NoRow says so.
Reads == row.on

Answer(w, written, changed, at) ==
  answer' = [answer EXCEPT ![w] = [written |-> written, changed |-> changed, at |-> at]]

Write(on) ==
  /\ writes' = writes + 1
  /\ row' = [on |-> on, at |-> writes + 1]

Set(w, on) ==
  /\ Write(on)
  /\ Answer(w, TRUE, Reads # on, writes + 1)

SetIfUnchanged(w, on, stamp) ==
  IF row.at = stamp
  THEN Set(w, on)
  ELSE /\ Answer(w, FALSE, FALSE, row.at)
       /\ UNCHANGED <<row, writes>>

\* A database made by an installer begins with the word it owes it.
Seed(on) ==
  /\ row = NoRow
  /\ Write(on)
  /\ UNCHANGED answer

Forget(gone) ==
  /\ answer' = [w \in Who |-> IF w \in gone THEN NoAnswer ELSE answer[w]]
  /\ UNCHANGED <<row, writes>>

SwitchInit ==
  /\ writes \in {0, 1}
  /\ row \in IF writes = 0 THEN {NoRow} ELSE [on : BOOLEAN, at : {1}]
  /\ answer = [w \in Who |-> NoAnswer]

SwitchNext ==
  \/ \E on \in BOOLEAN :
       \/ Seed(on)
       \/ \E w \in Who : Set(w, on) \/ \E stamp \in 1 .. writes : SetIfUnchanged(w, on, stamp)
  \/ \E gone \in SUBSET Who : Forget(gone)

SwitchSpec == SwitchInit /\ [][SwitchNext]_switchVars
=============================================================================
