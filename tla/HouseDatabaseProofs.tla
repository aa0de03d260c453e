------------------------ MODULE HouseDatabaseProofs ------------------------
(***************************************************************************)
(* Proofs about HouseDatabase for every number of processes of whichever   *)
(* releases, every mix of verbs and every list of channels.  What keeps    *)
(* the house is who may be where with which lock; the rest follows from    *)
(* that.                                                                   *)
(***************************************************************************)
EXTENDS HouseDatabase, TLAPS

Kinds == {"serve", "switch", "set", "seed", "prefs", "import", "export"}

JobType ==
  [kind : Kinds \cup {"none"}, release : 0 .. 3, on : BOOLEAN, stamp : Nat, existed : BOOLEAN,
   written : BOOLEAN, before : BOOLEAN, text : Texts \cup {Empty, Missing},
   answer : [written : BOOLEAN, changed : BOOLEAN, at : Nat]]

\* Everything TypeOK says, what a process remembers and that every write has a stamp of its own.
FullTypeOK ==
  /\ at \in [Procs -> Places] /\ m \in [Procs -> JobType]
  /\ {writer, txn} \subseteq Procs \cup {Nobody} /\ dropped \subseteq Procs
  /\ house \in Schemas
  /\ {writes} \subseteq Nat /\ row \in [on : BOOLEAN, at : {writes}]
  /\ writes = 0 => row = Switch!NoRow
  /\ list \in Texts \cup {Empty}

\* A file that holds a whole document, or none.
Whole == Texts \cup {Empty, Missing, Spoilt}
-----------------------------------------------------------------------------
(* What the place of a process says of it *)

Exporting == {"export", "exporting", "opened", "flushed", "synced", "replaced"}

\* Where a process has the database open, at a schema its release knows.
OpenPlaces ==
  {"serving", "report", "hold", "read", "write", "late", "late write", "prefs", "import"} \cup Exporting

JobOf(p) ==
  /\ at[p] = "idle" => m[p] = Idle
  /\ at[p] # "idle" => m[p].kind \in Kinds /\ m[p].release \in 2 .. 3
  /\ at[p] = "probe" => m[p].kind \in {"seed", "set"}
  /\ at[p] = "lock" => Exclusive(p)
  /\ at[p] = "lock late" => ~Exclusive(p)
  /\ at[p] = "serving" => m[p].kind = "serve"
  /\ at[p] = "import" => m[p].kind = "import"
  /\ at[p] \in {"late", "late write"} => m[p].kind = "seed"
  /\ at[p] \in Exporting => m[p].kind = "export"
  /\ {m[p].stamp} \subseteq 0 .. writes

Jobs == \A p \in Procs : JobOf(p)

\* One installer runs at a time, and one export to the path.
OneOfAKind ==
  \A p, q \in Procs : m[p].kind = m[q].kind /\ m[p].kind \in {"seed", "export"} => p = q
-----------------------------------------------------------------------------
(* Who holds the writer lock *)

\* Where whoever runs for the whole house holds the lock.
Held(p) == Exclusive(p) /\ p \notin dropped /\ at[p] \in {"current", "serving", "import"}

Migrates(p) == at[p] \in {"upgrade", "upgraded"}

WriterIsWhoNeedsIt ==
  /\ \A p \in Procs : Held(p) \/ Migrates(p) => writer = p
  /\ \A p \in dropped : at[p] = "serving"
  /\ writer # Nobody => at[writer] # "idle" /\ (Exclusive(writer) \/ Migrates(writer))

\* What a migration leaves stays while its process, or the house's, holds the lock.
HeldSchemaStays ==
  \A p \in Procs :
    /\ at[p] = "upgraded" => house.rev = Head(p)
    /\ at[p] \in {"serving", "import"} /\ p \notin dropped => house.rev = Head(p)

\* What a database without a schema is, and one with it.
SchemaAndRows ==
  /\ \A p \in Procs : at[p] \in OpenPlaces => house.rev \in {2, 3}
  /\ house.rev = 0 => writes = 0 /\ calibrated = None
  /\ seeded => writes # 0
  /\ CalibrationIsKept
-----------------------------------------------------------------------------
(* Who writes the switch *)

Setting == {"read", "write"}

TxnIsWhoWrites ==
  /\ txn # Nobody => at[txn] \in Setting \cup {"late write"}
  /\ \A p \in Procs : at[p] \in Setting => txn = p
  /\ \A p \in Procs : at[p] = "write" => m[p].before = row.on

\* What the seed that came late reads is still so when it writes.
SafeSeeds == Sqlite \/ ~LateSeeds

LateSeedIsRight ==
  SafeSeeds =>
    \A p \in Procs : at[p] = "late write" =>
      /\ writes = 0
      /\ Sqlite => txn = p
      /\ ~Sqlite => \A q \in Procs : at[q] \notin Setting
-----------------------------------------------------------------------------
(* What is in the exported file *)

ExportIsWhole ==
  /\ file \in [now : Whole, back : SUBSET Whole]
  /\ \A p \in Procs :
       /\ at[p] = "flushed" => temp.now = m[p].text
       /\ at[p] = "synced" => temp = Durable(m[p].text)

IInv ==
  /\ FullTypeOK /\ Jobs /\ OneOfAKind
  /\ WriterIsWhoNeedsIt /\ HeldSchemaStays /\ SchemaAndRows
  /\ TxnIsWhoWrites /\ LateSeedIsRight /\ ExportIsWhole
-----------------------------------------------------------------------------
(* The steps, one by one *)

Begins(p) ==
  \E kind \in Kinds : \E release \in 2 .. 3 : \E on \in BOOLEAN : \E stamp \in 0 .. writes :
    Start(p, kind, release, on, stamp)

\* A refusal, a failure and every end of a run.
Ends(p) == End(p) /\ UNCHANGED <<backend, house, row, list, writes, seeded, calibrated, fileVars>>

Probes(p) ==
  /\ at[p] = "probe"
  /\ m' = [m EXCEPT ![p].existed = SchemaThere]
  /\ Goto(p, "current")
  /\ UNCHANGED <<backend, houseVars, lockVars, fileVars>>

Locks(p) ==
  /\ \/ at[p] = "lock" /\ Goto(p, "current")
     \/ at[p] = "lock late" /\ Goto(p, "upgrade")
  /\ Acquire(p)
  /\ UNCHANGED <<backend, houseVars, txn, dropped, m, fileVars>>

Finds(p) ==
  /\ at[p] = "current" /\ house.rev <= Head(p)
  /\ Goto(p, IF house.rev = Head(p) THEN Opened(p) ELSE IF Exclusive(p) THEN "upgrade" ELSE "lock late")
  /\ UNCHANGED <<backend, house, row, list, writes, seeded, calibrated, lockVars, m, fileVars>>

Imports(p) ==
  /\ at[p] = "import" /\ file.now \notin {Half, Spoilt}
  /\ list' = IF file.now = Missing THEN Empty ELSE file.now
  /\ Goto(p, "report")
  /\ UNCHANGED <<backend, house, row, writes, seeded, calibrated, lockVars, m, fileVars>>

\* What a process may do next.
Step(p) ==
  \/ Begins(p) \/ Ends(p) \/ Probes(p) \/ Locks(p) \/ Finds(p) \/ Upgrade(p) \/ AfterUpgrade(p)
  \/ Hold(p) \/ ReadBefore(p) \/ WriteSwitch(p) \/ LateRead(p) \/ LateWrite(p)
  \/ SetPreference(p) \/ Imports(p) \/ ReadList(p) \/ WriteAtomic(p) \/ SessionDrops(p)

\* Nothing else happens: whatever a verb does is one of these steps.
LEMMA StepCases ==
  ASSUME FullTypeOK, Next
  PROVE  PowerFails \/ \E p \in Procs : Step(p)
<1>1. SUFFICES ASSUME NEW p \in Procs, Opens(p) \/ Works(p) \/ Fails(p) \/ SessionDrops(p)
               PROVE  Step(p)
  BY DEF Next
<1>2. ASSUME Refuse(p) PROVE Ends(p)
  BY <1>2 DEF Refuse, Ends, houseVars
<1>3. CASE Opens(p)
  <2>1. CASE \E r \in Runs : \E stamp \in IF r.kind = "set" THEN 0 .. writes ELSE {0} :
                \E on \in Words(r.kind, stamp) : Start(p, r.kind, r.release, on, stamp)
    <3>1. PICK r \in Runs : \E stamp \in IF r.kind = "set" THEN 0 .. writes ELSE {0} :
                \E on \in Words(r.kind, stamp) : Start(p, r.kind, r.release, on, stamp)
      BY <2>1
    <3>2. PICK stamp \in IF r.kind = "set" THEN 0 .. writes ELSE {0} :
                \E on \in Words(r.kind, stamp) : Start(p, r.kind, r.release, on, stamp)
      BY <3>1
    <3>3. PICK on \in Words(r.kind, stamp) : Start(p, r.kind, r.release, on, stamp)
      BY <3>2
    <3>4. r.kind \in Kinds /\ r.release \in 2 .. 3
      BY HouseDatabaseAssumption DEF Kinds
    <3>5. stamp \in 0 .. writes
      BY DEF FullTypeOK
    <3>6. on \in BOOLEAN
      BY DEF Words
    <3> QED BY <3>3, <3>4, <3>5, <3>6 DEF Step, Begins
  <2>2. CASE Probe(p)
    BY <2>2, <1>2 DEF Probe, Step, Probes
  <2>3. CASE LockFirst(p)
    BY <2>3, <1>2 DEF LockFirst, Step, Locks
  <2>4. CASE Current(p)
    <3>1. CASE house.rev > Head(p)
      BY <3>1, <2>4 DEF Current, Step, Ends
    <3>2. CASE ~(house.rev > Head(p))
      <4>1. Finds(p) \/ ~(house.rev <= Head(p))
        BY <3>2, <2>4 DEF Current, Finds
      <4>2. house.rev \in Int /\ Head(p) \in Int
        BY DEF FullTypeOK, Schemas, Head, JobType
      <4> QED BY <4>1, <4>2, <3>2 DEF Step
    <3> QED BY <3>1, <3>2
  <2>5. CASE LockToMigrate(p)
    BY <2>5, <1>2 DEF LockToMigrate, Step, Locks
  <2>6. CASE Upgrade(p) \/ AfterUpgrade(p)
    BY <2>6 DEF Step
  <2>7. CASE CannotUpgrade(p)
    BY <2>7, <1>2 DEF CannotUpgrade, Step
  <2> QED BY <1>3, <2>1, <2>2, <2>3, <2>4, <2>5, <2>6, <2>7 DEF Opens
<1>4. CASE Works(p)
  <2>1. CASE Report(p) \/ StopServing(p)
    BY <2>1, <1>2 DEF Report, StopServing, Step
  <2>2. CASE ImportChannels(p)
    BY <2>2 DEF ImportChannels, Imports, Ends, Step
  <2> QED BY <1>4, <2>1, <2>2 DEF Works, Step
<1>5. CASE Fails(p)
  BY <1>5, <1>2 DEF Fails, Step
<1>6. CASE SessionDrops(p)
  BY <1>6 DEF Step
<1> QED BY <1>1, <1>3, <1>4, <1>5, <1>6
-----------------------------------------------------------------------------
(* Every step keeps what the state is *)

LEMMA StepKeepsType ==
  ASSUME FullTypeOK, Jobs, ExportIsWhole, NEW p \in Procs, Step(p)
  PROVE  FullTypeOK'
<1>0. /\ at \in [Procs -> Places] /\ m \in [Procs -> JobType]
      /\ writer \in Procs \cup {Nobody} /\ txn \in Procs \cup {Nobody} /\ dropped \subseteq Procs
      /\ house \in Schemas /\ writes \in Nat /\ row \in [on : BOOLEAN, at : {writes}]
      /\ writes = 0 => row = Switch!NoRow
      /\ list \in Texts \cup {Empty}
  BY DEF FullTypeOK
<1>1. {writes'} \subseteq Nat /\ row' \in [on : BOOLEAN, at : {writes'}]
      /\ (writes' = 0 => row' = Switch!NoRow)
  <2>1. CASE UNCHANGED <<row, writes>>
    BY <2>1, <1>0
  <2>2. CASE row' = [on |-> m[p].on, at |-> writes + 1] /\ writes' = writes + 1
    <3>1. m[p].on \in BOOLEAN
      BY <1>0 DEF JobType
    <3>2. writes + 1 \in Nat /\ writes + 1 # 0
      BY <1>0
    <3> QED BY <2>2, <3>1, <3>2
  <2>3. UNCHANGED <<row, writes>> \/ (row' = [on |-> m[p].on, at |-> writes + 1] /\ writes' = writes + 1)
    BY DEF Step, Begins, Start, Ends, Probes, Locks, Finds, Upgrade, AfterUpgrade, Hold, ReadBefore,
      WriteSwitch, Stamped, LateRead, LateWrite, SetPreference, Imports, ReadList, WriteAtomic,
      FileStep, SessionDrops, houseVars
  <2> QED BY <2>1, <2>2, <2>3
<1>2. {writer', txn'} \subseteq Procs \cup {Nobody} /\ dropped' \subseteq Procs
  <2>1. writer' \in {writer, Nobody, p}
    BY DEF Step, Begins, Start, Ends, End, Released, Probes, Locks, Acquire, Finds, Upgrade,
      AfterUpgrade, Hold, ReadBefore, WriteSwitch, LateRead, LateWrite, SetPreference, Imports,
      ReadList, WriteAtomic, FileStep, SessionDrops, houseVars, lockVars
  <2>2. txn' \in {txn, Nobody, p}
    BY DEF Step, Begins, Start, Ends, End, Released, Probes, Locks, Acquire, Finds, Upgrade,
      AfterUpgrade, Hold, ReadBefore, WriteSwitch, LateRead, LateWrite, SetPreference, Imports,
      ReadList, WriteAtomic, FileStep, SessionDrops, houseVars, lockVars
  <2>3. dropped' \in {dropped, dropped \ {p}, {p}}
    BY DEF Step, Begins, Start, Ends, End, Released, Probes, Locks, Acquire, Finds, Upgrade,
      AfterUpgrade, Hold, ReadBefore, WriteSwitch, LateRead, LateWrite, SetPreference, Imports,
      ReadList, WriteAtomic, FileStep, SessionDrops, houseVars, lockVars
  <2> QED BY <1>0, <2>1, <2>2, <2>3
<1>3. list' \in Texts \cup {Empty}
  <2>1. CASE list' = list
    BY <2>1, <1>0
  <2>2. CASE Imports(p)
    BY <2>2 DEF Imports, ExportIsWhole, Whole
  <2>3. list' = list \/ Imports(p)
    BY DEF Step, Begins, Start, Ends, Probes, Locks, Finds, Upgrade, AfterUpgrade, Hold, ReadBefore,
      WriteSwitch, LateRead, LateWrite, SetPreference, ReadList, WriteAtomic,
      FileStep, SessionDrops, houseVars
  <2> QED BY <2>1, <2>2, <2>3
<1>4. house' \in Schemas
  <2>1. CASE house' = house
    BY <2>1, <1>0
  <2>2. CASE house' = Migrate(house, Head(p))
    BY <2>2, <1>0 DEF Migrate, Baseline, Preferences, Alarms, Schemas
  <2>3. CASE SetPreference(p)
    BY <2>3, <1>0 DEF SetPreference, Schemas
  <2>4. house' = house \/ house' = Migrate(house, Head(p)) \/ SetPreference(p)
    BY DEF Step, Begins, Start, Ends, Probes, Locks, Finds, Upgrade, AfterUpgrade, Hold, ReadBefore,
      WriteSwitch, LateRead, LateWrite, Imports, ReadList, WriteAtomic,
      FileStep, SessionDrops, houseVars
  <2> QED BY <2>1, <2>2, <2>3, <2>4
<1>5. at' \in [Procs -> Places]
  <2>1. CASE at' = at
    BY <2>1, <1>0
  <2>2. ASSUME NEW w \in Places, Goto(p, w) PROVE at' \in [Procs -> Places]
    BY <2>2, <1>0 DEF Goto
  <2>3. CASE Finds(p) \/ AfterUpgrade(p)
    <3>1. CASE at[p] \in {"current", "upgraded"} /\ Opened(p) \in Places
      <4>1. \E w \in Places : Goto(p, w)
        BY <2>3, <3>1 DEF Finds, AfterUpgrade, Places
      <4> QED BY <4>1, <2>2
    <3>2. at[p] \in {"current", "upgraded"}
      BY <2>3 DEF Finds, AfterUpgrade
    <3>3. m[p].kind \in Kinds
      BY <3>2 DEF Jobs, JobOf
    <3>4. Opened(p) \in Places
      BY <3>3 DEF Opened, Kinds, Places
    <3> QED BY <3>1, <3>2, <3>4
  <2>4. at' = at \/ Finds(p) \/ AfterUpgrade(p) \/ \E w \in Places : Goto(p, w)
    BY DEF Step, Begins, Start, Ends, End, Probes, Locks, Upgrade, Hold, ReadBefore,
      WriteSwitch, LateRead, LateWrite, SetPreference, Imports, ReadList, WriteAtomic,
      FileStep, SessionDrops, Places
  <2> QED BY <2>1, <2>2, <2>3, <2>4
<1>6. m' \in [Procs -> JobType]
  <2>1. ASSUME NEW j \in JobType, m' = [m EXCEPT ![p] = j] PROVE m' \in [Procs -> JobType]
    BY <2>1, <1>0
  <2>2. CASE m' = m
    BY <2>2, <1>0
  <2>3. m[p] \in JobType
    BY <1>0
  <2>4. Idle \in JobType
    BY DEF Idle, JobType, Switch!NoAnswer
  <2>5. CASE Begins(p)
    <3>1. PICK kind \in Kinds, release \in 2 .. 3, on \in BOOLEAN, stamp \in 0 .. writes :
            Start(p, kind, release, on, stamp)
      BY <2>5 DEF Begins
    <3>2. release \in 0 .. 3 /\ stamp \in Nat
      BY <1>0
    <3>3. [Idle EXCEPT !.kind = kind, !.release = release, !.on = on, !.stamp = stamp] \in JobType
      BY <3>2 DEF Idle, JobType, Switch!NoAnswer
    <3> QED BY <3>1, <3>3, <2>1 DEF Start
  <2>6. CASE Ends(p)
    BY <2>6, <2>4, <2>1 DEF Ends, End
  <2>7. CASE Probes(p) \/ Upgrade(p) \/ ReadBefore(p) \/ LateWrite(p) \/ ReadList(p)
    <3>1. CASE Probes(p)
      <4>1. [m[p] EXCEPT !.existed = SchemaThere] \in JobType
        BY <2>3, Zenon DEF JobType, SchemaThere
      <4>2. m' = [m EXCEPT ![p] = [m[p] EXCEPT !.existed = SchemaThere]]
        BY <3>1 DEF Probes
      <4> QED BY <4>1, <4>2, <2>1
    <3>2. CASE Upgrade(p)
      <4>1. ASSUME NEW b \in BOOLEAN PROVE [m[p] EXCEPT !.written = b] \in JobType
        BY <2>3 DEF JobType
      <4>2. \E b \in BOOLEAN : m' = [m EXCEPT ![p] = [m[p] EXCEPT !.written = b]]
        BY <3>2, Zenon DEF Upgrade, Owes
      <4> QED BY <4>1, <4>2, <2>1
    <3>3. CASE ReadBefore(p)
      <4>1. [m[p] EXCEPT !.before = row.on] \in JobType
        BY <2>3, <1>0 DEF JobType
      <4>2. m' = [m EXCEPT ![p] = [m[p] EXCEPT !.before = row.on]]
        BY <3>3 DEF ReadBefore, Switch!Reads
      <4> QED BY <4>1, <4>2, <2>1
    <3>4. CASE LateWrite(p)
      <4>1. [m[p] EXCEPT !.written = TRUE] \in JobType
        BY <2>3 DEF JobType
      <4>2. m' = [m EXCEPT ![p] = [m[p] EXCEPT !.written = TRUE]]
        BY <3>4 DEF LateWrite
      <4> QED BY <4>1, <4>2, <2>1
    <3>5. CASE ReadList(p)
      <4>1. [m[p] EXCEPT !.text = list] \in JobType
        BY <2>3, <1>0 DEF JobType
      <4>2. m' = [m EXCEPT ![p] = [m[p] EXCEPT !.text = list]]
        BY <3>5 DEF ReadList
      <4> QED BY <4>1, <4>2, <2>1
    <3> QED BY <2>7, <3>1, <3>2, <3>3, <3>4, <3>5
  <2>8. CASE WriteSwitch(p)
    <3>1. ASSUME NEW w \in BOOLEAN, NEW c \in BOOLEAN, NEW n \in Nat
          PROVE  [m[p] EXCEPT !.answer = [written |-> w, changed |-> c, at |-> n]] \in JobType
      BY <2>3 DEF JobType
    <3>2. \E w \in BOOLEAN, c \in BOOLEAN, n \in {writes, writes + 1} :
            m' = [m EXCEPT ![p] = [m[p] EXCEPT !.answer = [written |-> w, changed |-> c, at |-> n]]]
      <4>1. row.at = writes
        BY <1>0
      <4> QED BY <4>1, <2>8, Zenon DEF WriteSwitch
    <3>3. {writes, writes + 1} \subseteq Nat
      BY <1>0
    <3> QED BY <3>1, <3>2, <3>3, <2>1
  <2>9. m' = m \/ Begins(p) \/ Ends(p) \/ Probes(p) \/ Upgrade(p) \/ ReadBefore(p) \/ LateWrite(p)
        \/ ReadList(p) \/ WriteSwitch(p)
    BY DEF Step, Locks, Finds, AfterUpgrade, Hold, LateRead, SetPreference, Imports, WriteAtomic,
      FileStep, SessionDrops
  <2> QED BY <2>2, <2>5, <2>6, <2>7, <2>8, <2>9
<1> QED BY <1>1, <1>2, <1>3, <1>4, <1>5, <1>6 DEF FullTypeOK

\* A step is of one process: where the others are and what they remember stays, and stamps grow.
LEMMA StepIsItsOwn ==
  ASSUME FullTypeOK, NEW p \in Procs, Step(p)
  PROVE  /\ \A q \in Procs \ {p} : at'[q] = at[q] /\ m'[q] = m[q]
         /\ {writes'} \subseteq {writes, writes + 1}
<1>0. at \in [Procs -> Places] /\ m \in [Procs -> JobType]
  BY DEF FullTypeOK
<1>1. \A q \in Procs \ {p} : at'[q] = at[q]
  BY <1>0 DEF Step, Begins, Start, Ends, End, Probes, Locks, Finds, Upgrade, AfterUpgrade, Hold, ReadBefore,
      WriteSwitch, LateRead, LateWrite, SetPreference, Imports, ReadList, WriteAtomic,
      FileStep, SessionDrops, Goto
<1>2. \A q \in Procs \ {p} : m'[q] = m[q]
  BY <1>0 DEF Step, Begins, Start, Ends, End, Probes, Locks, Finds, Upgrade, AfterUpgrade, Hold, ReadBefore,
      WriteSwitch, LateRead, LateWrite, SetPreference, Imports, ReadList, WriteAtomic,
      FileStep, SessionDrops
<1>3. {writes'} \subseteq {writes, writes + 1}
  BY DEF Step, Begins, Start, Ends, Probes, Locks, Finds, Upgrade, AfterUpgrade, Hold, ReadBefore,
      WriteSwitch, Stamped, LateRead, LateWrite, SetPreference, Imports, ReadList, WriteAtomic,
      FileStep, SessionDrops, houseVars
<1> QED BY <1>1, <1>2, <1>3

\* What a process is run for it keeps to its end.
LEMMA JobIsKept ==
  ASSUME FullTypeOK, NEW p \in Procs, Step(p), ~Begins(p), ~Ends(p)
  PROVE  /\ m'[p].kind = m[p].kind /\ m'[p].release = m[p].release
         /\ m'[p].on = m[p].on /\ m'[p].stamp = m[p].stamp
<1>0. m \in [Procs -> JobType] /\ m[p] \in JobType
  BY DEF FullTypeOK
<1>1. CASE m' = m
  BY <1>1
<1>2. CASE Probes(p)
  BY <1>2, <1>0 DEF Probes, JobType
<1>3. CASE Upgrade(p)
  <2>1. PICK b : m' = [m EXCEPT ![p].written = b]
    BY <1>3, Zenon DEF Upgrade
  <2> QED BY <2>1, <1>0 DEF JobType
<1>4. CASE ReadBefore(p)
  BY <1>4, <1>0 DEF ReadBefore, JobType
<1>5. CASE LateWrite(p)
  BY <1>5, <1>0 DEF LateWrite, JobType
<1>6. CASE ReadList(p)
  BY <1>6, <1>0 DEF ReadList, JobType
<1>7. CASE WriteSwitch(p)
  <2>1. PICK r : m' = [m EXCEPT ![p].answer = r]
    BY <1>7, Zenon DEF WriteSwitch
  <2> QED BY <2>1, <1>0 DEF JobType
<1>8. m' = m \/ Probes(p) \/ Upgrade(p) \/ ReadBefore(p) \/ LateWrite(p) \/ ReadList(p) \/ WriteSwitch(p)
  BY DEF Step, Locks, Finds, AfterUpgrade, Hold, LateRead, SetPreference, Imports, WriteAtomic,
    FileStep, SessionDrops
<1> QED BY <1>1, <1>2, <1>3, <1>4, <1>5, <1>6, <1>7, <1>8

\* Where an open leads, for each verb.
LEMMA OpenedIs ==
  ASSUME Jobs, NEW p \in Procs, at[p] # "idle"
  PROVE  /\ Opened(p) \in {"serving", "hold", "report", "late", "prefs", "import", "export"}
         /\ Opened(p) = "serving" <=> m[p].kind = "serve"
         /\ Opened(p) = "import" <=> m[p].kind = "import"
         /\ Opened(p) = "late" => m[p].kind = "seed"
         /\ Opened(p) = "export" <=> m[p].kind = "export"
<1>1. m[p].kind \in Kinds
  BY DEF Jobs, JobOf
<1> QED BY <1>1 DEF Opened, Kinds

\* Where a step takes its process: what each verb does, in which order.
LEMMA Moves ==
  ASSUME FullTypeOK, Jobs, NEW p \in Procs, Step(p)
  PROVE  \/ Begins(p)
         \/ Ends(p) /\ at'[p] = "idle" /\ m'[p] = Idle
         \/ at'[p] \in {"current", "upgrade", "upgraded", "lock late"}
         \/ Finds(p) /\ at'[p] = Opened(p)
         \/ AfterUpgrade(p) /\ at'[p] = Opened(p)
         \/ at'[p] \in {"read", "write", "report"}
         \/ at'[p] = "late write" /\ at[p] = "late"
         \/ at'[p] \in Exporting /\ at[p] \in Exporting
         \/ SessionDrops(p) /\ at'[p] = at[p]
<1>0. at \in [Procs -> Places] /\ m \in [Procs -> JobType]
  BY DEF FullTypeOK
<1>1. CASE Ends(p)
  BY <1>0, <1>1 DEF Ends, End, Goto
<1>2. CASE Finds(p) \/ AfterUpgrade(p)
  BY <1>0, <1>2 DEF Finds, AfterUpgrade, Goto
<1>3. CASE Probes(p) \/ Locks(p) \/ Upgrade(p)
  BY <1>0, <1>3 DEF Probes, Locks, Upgrade, Goto
<1>4. CASE Hold(p) \/ ReadBefore(p) \/ WriteSwitch(p) \/ LateRead(p) \/ LateWrite(p) \/ SetPreference(p) \/ Imports(p)
  BY <1>0, <1>4 DEF Hold, ReadBefore, WriteSwitch, LateRead, LateWrite, SetPreference, Imports, Goto
<1>5. CASE ReadList(p) \/ WriteAtomic(p)
  BY <1>0, <1>5 DEF ReadList, WriteAtomic, FileStep, Exporting, Goto
<1>6. CASE SessionDrops(p)
  BY <1>6 DEF SessionDrops
<1> QED BY <1>1, <1>2, <1>3, <1>4, <1>5, <1>6 DEF Step

\* What a process that begins is and where.
LEMMA BeginsIs ==
  ASSUME FullTypeOK, NEW p \in Procs, Begins(p)
  PROVE  /\ at[p] = "idle" /\ at'[p] \in {"probe", "lock", "current"}
         /\ m'[p].kind \in Kinds /\ m'[p].release \in 2 .. 3 /\ {m'[p].stamp} \subseteq 0 .. writes
         /\ at'[p] = "probe" => m'[p].kind \in {"seed", "set"}
         /\ at'[p] = "lock" <=> m'[p].kind \in {"serve", "import"}
         /\ m'[p].kind \in {"seed", "export"} => \A q \in Procs : m[q].kind # m'[p].kind
         /\ UNCHANGED <<backend, there, house, row, list, writes, seeded, calibrated, writer, txn, dropped, file, temp>>
<1>0. at \in [Procs -> Places] /\ m \in [Procs -> JobType]
  BY DEF FullTypeOK
<1>1. PICK kind \in Kinds, release \in 2 .. 3, on \in BOOLEAN, stamp \in 0 .. writes :
        Start(p, kind, release, on, stamp)
  BY DEF Begins
<1>2. m'[p] = [Idle EXCEPT !.kind = kind, !.release = release, !.on = on, !.stamp = stamp]
  BY <1>0, <1>1 DEF Start
<1>3. m'[p].kind = kind /\ m'[p].release = release /\ m'[p].stamp = stamp
  BY <1>2 DEF Idle
<1>4. at'[p] = IF kind \in {"seed", "set"} THEN "probe" ELSE IF kind \in {"serve", "import"} THEN "lock" ELSE "current"
  BY <1>0, <1>1 DEF Start, Goto
<1>5. kind \in {"seed", "export"} => \A q \in Procs : m[q].kind # kind
  BY <1>1 DEF Start
<1> QED BY <1>1, <1>3, <1>4, <1>5 DEF Start, houseVars, lockVars, fileVars

LEMMA StepKeepsJobs ==
  ASSUME FullTypeOK, Jobs, NEW p \in Procs, Step(p)
  PROVE  Jobs'
<1>0. writes \in Nat /\ writes' \in {writes, writes + 1}
  BY StepIsItsOwn DEF FullTypeOK
<1>1. 0 .. writes \subseteq 0 .. writes'
  BY <1>0
<1>2. ASSUME NEW q \in Procs \ {p} PROVE JobOf(q)'
  <2>1. at'[q] = at[q] /\ m'[q] = m[q]
    BY StepIsItsOwn
  <2> QED BY <2>1, <1>1 DEF Jobs, JobOf, Exclusive, Idle, Switch!NoAnswer
<1>3. JobOf(p)'
  <2>0. at[p] = "idle" => m[p] = Idle
    BY DEF Jobs, JobOf
  <2>1. CASE Begins(p)
    BY <2>1, BeginsIs, <1>1 DEF JobOf, Exclusive, Exporting
  <2>2. CASE Ends(p)
    <3>1. {Idle.stamp} \subseteq 0 .. writes'
      BY <1>0 DEF Idle
    <3>2. at'[p] = "idle" /\ m'[p] = Idle
      BY <2>2 DEF Ends, End, Goto, FullTypeOK
    <3> QED BY <3>1, <3>2 DEF JobOf, Exporting, Idle, Switch!NoAnswer
  <2>3. CASE ~Begins(p) /\ ~Ends(p)
    <3>0. /\ m'[p].kind = m[p].kind /\ m'[p].release = m[p].release /\ m'[p].stamp = m[p].stamp
      BY <2>3, JobIsKept
    <3>1. at[p] # "idle" /\ at'[p] # "idle"
      <4>1. at[p] # "idle"
        BY <2>3 DEF Step, Probes, Locks, Finds, Upgrade, AfterUpgrade, Hold, ReadBefore, WriteSwitch,
          LateRead, LateWrite, SetPreference, Imports, ReadList, WriteAtomic, FileStep, SessionDrops
      <4>2. Opened(p) # "idle"
        BY <4>1, OpenedIs
      <4> QED BY <2>3, <4>1, <4>2, Moves DEF Exporting
    <3>2. at'[p] = "lock late" => ~Exclusive(p)
      <4>1. at'[p] = "lock late" => Finds(p) /\ ~Exclusive(p)
        <5>0. at \in [Procs -> Places]
          BY DEF FullTypeOK
        <5>1. Opened(p) # "lock late"
          BY <3>1, OpenedIs
        <5> QED BY <5>0, <5>1, <2>3 DEF Step, Probes, Locks, Finds, Upgrade, AfterUpgrade, Hold, ReadBefore, WriteSwitch,
          LateRead, LateWrite, SetPreference, Imports, ReadList, WriteAtomic, FileStep, SessionDrops, Goto
      <4> QED BY <4>1
    <3>3. at'[p] # "probe" /\ at'[p] # "lock"
      <4>1. Opened(p) # "probe" /\ Opened(p) # "lock"
        BY <3>1, OpenedIs
      <4> QED BY <2>3, <4>1, Moves DEF Exporting, SessionDrops
    <3>4. /\ at'[p] = "serving" => m[p].kind = "serve"
          /\ at'[p] = "import" => m[p].kind = "import"
          /\ at'[p] \in {"late", "late write"} => m[p].kind = "seed"
          /\ at'[p] \in Exporting => m[p].kind = "export"
      <4>1. /\ at[p] = "serving" => m[p].kind = "serve"
            /\ at[p] = "late" => m[p].kind = "seed"
            /\ at[p] \in Exporting => m[p].kind = "export"
        BY DEF Jobs, JobOf
      <4>2. CASE at'[p] = Opened(p)
        BY <4>2, <3>1, OpenedIs DEF Exporting
      <4>3. CASE at'[p] # Opened(p)
        BY <4>3, <2>3, <4>1, Moves DEF Exporting, SessionDrops
      <4> QED BY <4>2, <4>3
    <3>5. m[p].kind \in Kinds /\ m[p].release \in 2 .. 3 /\ {m[p].stamp} \subseteq 0 .. writes
      BY <3>1 DEF Jobs, JobOf
    <3> QED BY <3>0, <3>1, <3>2, <3>3, <3>4, <3>5, <1>1 DEF JobOf, Exclusive
  <2> QED BY <2>1, <2>2, <2>3
<1> QED BY <1>2, <1>3 DEF Jobs

LEMMA StepKeepsOneOfAKind ==
  ASSUME FullTypeOK, Jobs, OneOfAKind, NEW p \in Procs, Step(p)
  PROVE  OneOfAKind'
<1>0. \A q \in Procs \ {p} : m'[q] = m[q]
  BY StepIsItsOwn
<1>1. CASE Begins(p)
  <2>1. m'[p].kind \in {"seed", "export"} => \A q \in Procs : m[q].kind # m'[p].kind
    BY <1>1, BeginsIs
  <2> QED BY <1>0, <2>1 DEF OneOfAKind
<1>2. CASE Ends(p)
  <2>0. m \in [Procs -> JobType]
    BY DEF FullTypeOK
  <2>1. m'[p].kind = "none"
    BY <1>2, <2>0 DEF Ends, End, Idle
  <2> QED BY <1>0, <2>1 DEF OneOfAKind
<1>3. CASE ~Begins(p) /\ ~Ends(p)
  <2>1. m'[p].kind = m[p].kind
    BY <1>3, JobIsKept
  <2> QED BY <1>0, <2>1 DEF OneOfAKind
<1> QED BY <1>1, <1>2, <1>3
-----------------------------------------------------------------------------
(* Every step keeps who holds the writer lock, and the schema under it *)

\* With the database open nothing a process does touches the writer lock, but for its end.
Inside(p) ==
  Hold(p) \/ ReadBefore(p) \/ WriteSwitch(p) \/ LateRead(p) \/ LateWrite(p)
    \/ SetPreference(p) \/ Imports(p) \/ ReadList(p) \/ WriteAtomic(p)

LEMMA InsideIs ==
  ASSUME FullTypeOK, NEW p \in Procs, Inside(p)
  PROVE  /\ at[p] \in OpenPlaces \ {"serving"}
         /\ at'[p] \in OpenPlaces \ {"serving", "import", "hold", "late"}
         /\ UNCHANGED <<backend, writer, dropped, seeded>> /\ house'.rev = house.rev /\ house'.zone = house.zone
         /\ m'[p].kind = m[p].kind /\ m'[p].release = m[p].release
<1>0. at \in [Procs -> Places] /\ m \in [Procs -> JobType]
  BY DEF FullTypeOK
<1>5. ASSUME at[p] # "idle", at'[p] # "idle"
      PROVE  m'[p].kind = m[p].kind /\ m'[p].release = m[p].release
  <2>1. ~Begins(p)
    BY <1>5, BeginsIs
  <2>2. ~Ends(p)
    BY <1>0, <1>5 DEF Ends, End, Goto
  <2> QED BY <2>1, <2>2, JobIsKept DEF Inside, Step
<1> DEFINE Same == /\ at[p] \in OpenPlaces \ {"serving"}
                   /\ at'[p] \in OpenPlaces \ {"serving", "import", "hold", "late"}
                   /\ UNCHANGED <<backend, writer, dropped, seeded>>
                   /\ house'.rev = house.rev /\ house'.zone = house.zone
<1>1. CASE Hold(p) \/ ReadBefore(p) \/ WriteSwitch(p) \/ LateRead(p) \/ LateWrite(p)
  <2>1. Same
    BY <1>0, <1>1 DEF Hold, ReadBefore, WriteSwitch, LateRead, LateWrite, Goto, OpenPlaces, Exporting, houseVars, lockVars
  <2>2. at[p] # "idle" /\ at'[p] # "idle"
    BY <2>1 DEF OpenPlaces, Exporting
  <2> QED BY <2>1, <2>2, <1>5
<1>2. CASE SetPreference(p)
  <2>1. Same
    BY <1>0, <1>2 DEF SetPreference, Goto, OpenPlaces, Exporting, lockVars, FullTypeOK, Schemas
  <2>2. at[p] # "idle" /\ at'[p] # "idle"
    BY <2>1 DEF OpenPlaces, Exporting
  <2> QED BY <2>1, <2>2, <1>5
<1>3. CASE Imports(p) \/ ReadList(p) \/ WriteAtomic(p)
  <2>1. Same
    BY <1>0, <1>3 DEF Imports, ReadList, WriteAtomic, FileStep, Goto, OpenPlaces, Exporting, houseVars, lockVars
  <2>2. at[p] # "idle" /\ at'[p] # "idle"
    BY <2>1 DEF OpenPlaces, Exporting
  <2> QED BY <2>1, <2>2, <1>5
<1> QED BY <1>1, <1>2, <1>3 DEF Inside

LEMMA StepKeepsWriter ==
  ASSUME FullTypeOK, Jobs, WriterIsWhoNeedsIt, NEW p \in Procs, Step(p)
  PROVE  WriterIsWhoNeedsIt'
<1>0. /\ at \in [Procs -> Places] /\ m \in [Procs -> JobType]
      /\ writer \in Procs \cup {Nobody} /\ dropped \subseteq Procs /\ Nobody \notin Procs
      /\ \A q \in Procs \ {p} : at'[q] = at[q] /\ m'[q] = m[q]
  BY HouseDatabaseAssumption, StepIsItsOwn DEF FullTypeOK
<1>i. /\ \A q \in Procs : Held(q) \/ Migrates(q) => writer = q
      /\ \A q \in dropped : at[q] = "serving"
      /\ writer # Nobody => at[writer] # "idle" /\ (Exclusive(writer) \/ Migrates(writer))
  BY DEF WriterIsWhoNeedsIt
<1>1. CASE Begins(p)
  <2>1. /\ at[p] = "idle" /\ at'[p] \in {"probe", "lock", "current"} /\ UNCHANGED <<writer, dropped>>
        /\ at'[p] = "lock" <=> m'[p].kind \in {"serve", "import"}
    BY <1>1, BeginsIs
  <2>2. p # writer /\ p \notin dropped
    BY <1>0, <1>i, <2>1
  <2> QED BY <1>0, <1>i, <2>1, <2>2 DEF WriterIsWhoNeedsIt, Held, Migrates, Exclusive
<1>2. CASE Ends(p)
  <2>1. at'[p] = "idle" /\ writer' = (IF writer = p THEN Nobody ELSE writer) /\ dropped' = dropped \ {p}
    BY <1>0, <1>2 DEF Ends, End, Goto, Released
  <2> QED BY <1>0, <1>i, <2>1 DEF WriterIsWhoNeedsIt, Held, Migrates, Exclusive
<1>3. CASE ~Begins(p) /\ ~Ends(p)
  <2>0. /\ m'[p].kind = m[p].kind
    BY <1>3, JobIsKept
  <2>1. CASE Probes(p)
    <3>1. at[p] = "probe" /\ at'[p] = "current" /\ UNCHANGED <<writer, dropped>>
      BY <1>0, <2>1 DEF Probes, Goto, lockVars
    <3>2. ~Exclusive(p)
      BY <3>1 DEF Jobs, JobOf, Exclusive
    <3>3. p # writer /\ p \notin dropped
      BY <1>0, <1>i, <3>1, <3>2 DEF Migrates
    <3> QED BY <1>0, <1>i, <2>0, <3>1, <3>2, <3>3 DEF WriterIsWhoNeedsIt, Held, Migrates, Exclusive
  <2>2. CASE Locks(p)
    <3>1. /\ at[p] \in {"lock", "lock late"} /\ at'[p] = IF at[p] = "lock" THEN "current" ELSE "upgrade"
          /\ writer = Nobody /\ writer' = p /\ UNCHANGED dropped
      BY <1>0, <2>2 DEF Locks, Goto, Acquire
    <3>2. at[p] = "lock" => Exclusive(p)
      BY <3>1 DEF Jobs, JobOf
    <3>3. p \notin dropped
      BY <1>0, <1>i, <3>1
    <3> QED BY <1>0, <1>i, <2>0, <3>1, <3>2, <3>3 DEF WriterIsWhoNeedsIt, Held, Migrates, Exclusive
  <2>3. CASE Finds(p)
    <3>1. /\ at[p] = "current" /\ UNCHANGED <<writer, dropped>>
          /\ at'[p] = IF house.rev = Head(p) THEN Opened(p) ELSE IF Exclusive(p) THEN "upgrade" ELSE "lock late"
      BY <1>0, <2>3 DEF Finds, Goto, lockVars
    <3>2. /\ Opened(p) \in {"serving", "hold", "report", "late", "prefs", "import", "export"}
          /\ Opened(p) \in {"serving", "import"} <=> Exclusive(p)
      BY <3>1, OpenedIs DEF Exclusive
    <3>3. p \notin dropped
      BY <1>0, <1>i, <3>1
    <3>4. Exclusive(p) <=> writer = p
      BY <1>0, <1>i, <3>1, <3>3 DEF Held, Migrates
    <3> QED BY <1>0, <1>i, <2>0, <3>1, <3>2, <3>3, <3>4 DEF WriterIsWhoNeedsIt, Held, Migrates, Exclusive
  <2>4. CASE Upgrade(p)
    <3>1. at[p] = "upgrade" /\ at'[p] = "upgraded" /\ UNCHANGED <<writer, dropped>>
      BY <1>0, <2>4 DEF Upgrade, Goto, lockVars
    <3> QED BY <1>0, <1>i, <2>0, <3>1 DEF WriterIsWhoNeedsIt, Held, Migrates, Exclusive
  <2>5. CASE AfterUpgrade(p)
    <3>1. at[p] = "upgraded" /\ at'[p] = Opened(p)
      BY <1>0, <2>5 DEF AfterUpgrade, Goto
    <3>2. /\ Opened(p) \in {"serving", "hold", "report", "late", "prefs", "import", "export"}
          /\ Opened(p) \in {"serving", "import"} <=> Exclusive(p)
      BY <3>1, OpenedIs DEF Exclusive
    <3>3. p \notin dropped /\ writer = p
      BY <1>0, <1>i, <3>1 DEF Migrates
    <3>4. writer' = (IF Exclusive(p) THEN writer ELSE Nobody) /\ UNCHANGED dropped
      BY <3>3, <2>5 DEF AfterUpgrade, Released, lockVars
    <3> QED BY <1>0, <1>i, <2>0, <3>1, <3>2, <3>3, <3>4 DEF WriterIsWhoNeedsIt, Held, Migrates, Exclusive
  <2>6. CASE Inside(p)
    <3>1. /\ at[p] \in OpenPlaces \ {"serving"} /\ at'[p] \in OpenPlaces \ {"serving", "import"}
          /\ UNCHANGED <<writer, dropped>>
      BY <2>6, InsideIs
    <3>2. p \notin dropped /\ (writer = p => Exclusive(p))
      BY <1>0, <1>i, <3>1 DEF Migrates, OpenPlaces, Exporting
    <3> QED BY <1>0, <1>i, <2>0, <3>1, <3>2 DEF WriterIsWhoNeedsIt, Held, Migrates, Exclusive, OpenPlaces, Exporting
  <2>7. CASE SessionDrops(p)
    <3>1. /\ writer = p /\ at[p] = "serving" /\ dropped = {} /\ writer' = Nobody /\ dropped' = {p}
          /\ UNCHANGED <<at, m>>
      BY <2>7 DEF SessionDrops
    <3> QED BY <1>0, <1>i, <3>1 DEF WriterIsWhoNeedsIt, Held, Migrates, Exclusive
  <2> QED BY <1>3, <2>1, <2>2, <2>3, <2>4, <2>5, <2>6, <2>7 DEF Step, Inside
<1> QED BY <1>1, <1>2, <1>3

\* A migration ends at the newest revision its release knows, and never goes back.
LEMMA MigrateIs ==
  ASSUME NEW h \in Schemas, NEW head \in 2 .. 3, h.rev <= head
  PROVE  /\ Migrate(h, head) \in Schemas /\ Migrate(h, head).rev = head
         /\ h.rev = 0 => Migrate(h, head).prefs = None
         /\ h.rev = 1 => Migrate(h, head).prefs = h.zone
         /\ h.rev \in {2, 3} => Migrate(h, head).prefs = h.prefs
<1>0. h.rev \in {0, 1, 2, 3} /\ head \in {2, 3} /\ h = [rev |-> h.rev, zone |-> h.zone, prefs |-> h.prefs]
      /\ {h.zone, h.prefs} \subseteq {None, Window}
  BY DEF Schemas
<1> DEFINE one == IF h.rev = 0 THEN Baseline(h) ELSE h
           two == IF one.rev = 1 THEN Preferences(one) ELSE one
<1>1. /\ one \in Schemas /\ one.rev = (IF h.rev = 0 THEN 1 ELSE h.rev)
      /\ one.zone = (IF h.rev = 0 THEN None ELSE h.zone)
      /\ one.prefs = (IF h.rev = 0 THEN None ELSE h.prefs)
  BY <1>0 DEF Baseline, Schemas
<1>2. /\ two \in Schemas /\ two.rev = (IF one.rev = 1 THEN 2 ELSE one.rev)
      /\ two.prefs = (IF one.rev = 1 THEN one.zone ELSE one.prefs)
  BY <1>0, <1>1 DEF Preferences, Schemas
<1>3. Migrate(h, head) = IF two.rev = 2 /\ head = 3 THEN Alarms(two) ELSE two
  BY DEF Migrate
<1> HIDE DEF one, two
<1>4. /\ Migrate(h, head) \in Schemas /\ Migrate(h, head).prefs = two.prefs
      /\ Migrate(h, head).rev = (IF two.rev = 2 /\ head = 3 THEN 3 ELSE two.rev)
  BY <1>2, <1>3 DEF Alarms, Schemas
<1> QED BY <1>0, <1>1, <1>2, <1>4

\* What changes the schema: a migration by whoever holds the lock for it, and a preference.
LEMMA SchemaChanges ==
  ASSUME FullTypeOK, Jobs, NEW p \in Procs, Step(p)
  PROVE  \/ ~Upgrade(p) /\ UNCHANGED <<house, calibrated, seeded>>
         \/ /\ Upgrade(p) /\ UNCHANGED calibrated
            /\ house' = Migrate(house, Head(p)) /\ house.rev <= Head(p)
            /\ house'.rev = Head(p) /\ house \in Schemas /\ Head(p) \in 2 .. 3
         \/ /\ SetPreference(p) /\ UNCHANGED seeded
            /\ house'.rev = house.rev /\ house'.prefs = Window /\ calibrated' = Window
<1>0. house \in Schemas /\ at[p] # "idle" => Head(p) \in 2 .. 3
  BY DEF FullTypeOK, Jobs, JobOf, Head
<1>1. CASE Upgrade(p)
  <2>1. house.rev <= Head(p) /\ house' = Migrate(house, Head(p)) /\ UNCHANGED calibrated /\ at[p] = "upgrade"
    BY <1>1 DEF Upgrade
  <2>2. house'.rev = Head(p)
    BY <1>0, <2>1, MigrateIs DEF FullTypeOK
  <2> QED BY <1>0, <1>1, <2>1, <2>2 DEF FullTypeOK
<1>2. CASE SetPreference(p)
  BY <1>2 DEF SetPreference, FullTypeOK, Schemas
<1>3. CASE ~Upgrade(p) /\ ~SetPreference(p)
  BY <1>3 DEF Step, Begins, Start, Ends, Probes, Locks, Finds, AfterUpgrade, Hold, ReadBefore,
      WriteSwitch, LateRead, LateWrite, Imports, ReadList, WriteAtomic,
      FileStep, SessionDrops, houseVars
<1> QED BY <1>1, <1>2, <1>3

LEMMA StepKeepsSchema ==
  ASSUME FullTypeOK, Jobs, WriterIsWhoNeedsIt, HeldSchemaStays, NEW p \in Procs, Step(p)
  PROVE  HeldSchemaStays'
<1>0. /\ at \in [Procs -> Places] /\ dropped \subseteq Procs
      /\ \A q \in Procs \ {p} : at'[q] = at[q] /\ m'[q] = m[q]
  BY StepIsItsOwn DEF FullTypeOK
<1>1. \A q \in Procs : Held(q) \/ Migrates(q) => writer = q
  BY DEF WriterIsWhoNeedsIt
<1>2. \A q \in Procs \ {p} : q \in dropped => q \in dropped'
  BY DEF Step, Begins, Start, Ends, End, Released, Probes, Locks, Finds, Upgrade, AfterUpgrade, Hold, ReadBefore,
      WriteSwitch, LateRead, LateWrite, SetPreference, Imports, ReadList, WriteAtomic,
      FileStep, SessionDrops, houseVars, lockVars
<1>3. ASSUME NEW q \in Procs \ {p}
      PROVE  /\ at'[q] = "upgraded" => house'.rev = m'[q].release
             /\ at'[q] \in {"serving", "import"} /\ q \notin dropped' => house'.rev = m'[q].release
  <2>1. at'[q] = at[q] /\ m'[q] = m[q] /\ (q \in dropped => q \in dropped')
    BY <1>0, <1>2
  <2>2. /\ at[q] = "upgraded" => house.rev = m[q].release
        /\ at[q] \in {"serving", "import"} /\ q \notin dropped => house.rev = m[q].release
    BY DEF HeldSchemaStays, Head
  <2>3. CASE house'.rev = house.rev
    BY <2>1, <2>2, <2>3
  <2>4. CASE Upgrade(p)
    <3>1. writer = p
      BY <1>1, <2>4 DEF Upgrade, Migrates
    <3>2. ~Held(q) /\ ~Migrates(q)
      BY <1>1, <3>1
    <3>3. at[q] \in {"serving", "import"} => Exclusive(q)
      BY DEF Jobs, JobOf, Exclusive
    <3> QED BY <2>1, <3>2, <3>3 DEF Held, Migrates
  <2> QED BY <2>3, <2>4, SchemaChanges
<1>4. /\ at'[p] = "upgraded" => house'.rev = m'[p].release
      /\ at'[p] \in {"serving", "import"} /\ p \notin dropped' => house'.rev = m'[p].release
  <2>1. CASE Begins(p)
    BY <2>1, BeginsIs
  <2>2. CASE Ends(p)
    BY <1>0, <2>2 DEF Ends, End, Goto
  <2>3. CASE ~Begins(p) /\ ~Ends(p)
    <3>0. m'[p].release = m[p].release
      BY <2>3, JobIsKept
    <3>1. CASE Probes(p) \/ Locks(p)
      BY <1>0, <3>1 DEF Probes, Locks, Goto
    <3>2. CASE Finds(p)
      <4>1. /\ at[p] = "current" /\ house' = house
            /\ at'[p] = IF house.rev = Head(p) THEN Opened(p) ELSE IF Exclusive(p) THEN "upgrade" ELSE "lock late"
        BY <1>0, <3>2 DEF Finds, Goto
      <4>2. Opened(p) # "upgraded"
        BY <4>1, OpenedIs
      <4> QED BY <3>0, <4>1, <4>2 DEF Head
    <3>3. CASE Upgrade(p)
      <4>1. house'.rev = Head(p)
        BY <3>3, SchemaChanges DEF Upgrade, SetPreference
      <4>2. at'[p] = "upgraded"
        BY <1>0, <3>3 DEF Upgrade, Goto
      <4> QED BY <3>0, <4>1, <4>2 DEF Head
    <3>4. CASE AfterUpgrade(p)
      <4>1. at[p] = "upgraded" /\ at'[p] = Opened(p) /\ house' = house
        BY <1>0, <3>4 DEF AfterUpgrade, Goto, houseVars
      <4>2. house.rev = Head(p) /\ Opened(p) # "upgraded"
        BY <4>1, OpenedIs DEF HeldSchemaStays
      <4> QED BY <3>0, <4>1, <4>2 DEF Head
    <3>5. CASE Inside(p)
      BY <3>5, InsideIs DEF OpenPlaces, Exporting
    <3>6. CASE SessionDrops(p)
      BY <3>6 DEF SessionDrops
    <3> QED BY <2>3, <3>1, <3>2, <3>3, <3>4, <3>5, <3>6 DEF Step, Inside
  <2> QED BY <2>1, <2>2, <2>3
<1> QED BY <1>3, <1>4 DEF HeldSchemaStays, Head

\* A process that has the database open has it at a schema a release knows, and it stays one.
LEMMA StepKeepsRows ==
  ASSUME FullTypeOK, Jobs, WriterIsWhoNeedsIt, HeldSchemaStays, SchemaAndRows, NEW p \in Procs, Step(p)
  PROVE  SchemaAndRows'
<1>0. /\ at \in [Procs -> Places] /\ house \in Schemas /\ house.rev \in {0, 1, 2, 3} /\ writes \in Nat
      /\ \A q \in Procs \ {p} : at'[q] = at[q]
  BY StepIsItsOwn DEF FullTypeOK, Schemas
<1>1. \A q \in Procs : at[q] \in OpenPlaces => house.rev \in {2, 3}
  BY DEF SchemaAndRows
<1>2. house.rev \in {2, 3} => house'.rev \in {2, 3}
  <2>1. CASE Upgrade(p)
    <3>1. house'.rev = Head(p) /\ Head(p) \in 2 .. 3
      BY <2>1, SchemaChanges DEF SetPreference, Upgrade
    <3> QED BY <3>1
  <2>2. CASE ~Upgrade(p)
    BY <2>2, SchemaChanges
  <2> QED BY <2>1, <2>2
<1>3. at'[p] \in OpenPlaces => house'.rev \in {2, 3}
  <2>1. CASE at[p] \in OpenPlaces
    BY <2>1, <1>1, <1>2
  <2>2. CASE at[p] \notin OpenPlaces
    <3>1. CASE Begins(p)
      BY <3>1, BeginsIs DEF OpenPlaces, Exporting
    <3>2. CASE Ends(p)
      BY <1>0, <3>2 DEF Ends, End, Goto, OpenPlaces, Exporting
    <3>3. CASE Probes(p) \/ Locks(p) \/ Upgrade(p)
      BY <1>0, <3>3 DEF Probes, Locks, Upgrade, Goto, OpenPlaces, Exporting
    <3>4. CASE Finds(p)
      <4>1. at[p] = "current" /\ house' = house
        BY <3>4 DEF Finds
      <4>2. m[p].release \in 2 .. 3
        BY <4>1 DEF Jobs, JobOf
      <4>3. at'[p] \in OpenPlaces => house.rev = Head(p)
        BY <1>0, <3>4 DEF Finds, Goto, OpenPlaces, Exporting
      <4> QED BY <4>1, <4>2, <4>3 DEF Head
    <3>5. CASE AfterUpgrade(p)
      <4>1. at[p] = "upgraded" /\ house' = house
        BY <3>5 DEF AfterUpgrade, houseVars
      <4>2. m[p].release \in 2 .. 3
        BY <4>1 DEF Jobs, JobOf
      <4>3. house.rev = m[p].release
        BY <4>1 DEF HeldSchemaStays, Head
      <4> QED BY <4>1, <4>2, <4>3
    <3>6. CASE Inside(p)
      BY <3>6, <2>2, InsideIs
    <3>7. CASE SessionDrops(p)
      BY <3>7, <2>2 DEF SessionDrops
    <3> QED BY <3>1, <3>2, <3>3, <3>4, <3>5, <3>6, <3>7 DEF Step, Inside
  <2> QED BY <2>1, <2>2
<1>4. \A q \in Procs : at'[q] \in OpenPlaces => house'.rev \in {2, 3}
  BY <1>0, <1>1, <1>2, <1>3
<1>5. CASE Upgrade(p)
  <2>1. /\ house' = Migrate(house, Head(p)) /\ house.rev <= Head(p) /\ Head(p) \in 2 .. 3
        /\ house'.rev = Head(p) /\ UNCHANGED calibrated
    BY <1>5, SchemaChanges DEF Upgrade, SetPreference
  <2>2. house'.rev \in {2, 3}
    BY <2>1
  <2>3. /\ house.rev = 0 => house'.prefs = None
        /\ house.rev = 1 => house'.prefs = house.zone
        /\ house.rev \in {2, 3} => house'.prefs = house.prefs
    BY <1>0, <2>1, MigrateIs
  <2>4. calibrated' = house'.prefs
    <3>1. /\ house.rev = 0 => calibrated = None
          /\ house.rev > 0 => calibrated = IF house.rev = 1 THEN house.zone ELSE house.prefs
      BY DEF SchemaAndRows, CalibrationIsKept
    <3> QED BY <1>0, <2>1, <2>3, <3>1
  <2>5. seeded' => writes' # 0
    <3>1. seeded' = (seeded \/ (Owes(p) /\ house.rev = 0))
      BY <1>5 DEF Upgrade
    <3>2. Owes(p) /\ house.rev = 0 => writes' = writes + 1
      BY <1>5 DEF Upgrade
    <3>3. writes' # 0 \/ (writes' = writes /\ ~(Owes(p) /\ house.rev = 0))
      BY <1>0, <3>2, <1>5 DEF Upgrade
    <3>4. seeded => writes # 0
      BY DEF SchemaAndRows
    <3> QED BY <3>1, <3>3, <3>4
  <2> QED BY <1>4, <2>2, <2>4, <2>5 DEF SchemaAndRows, CalibrationIsKept
<1>6. CASE ~Upgrade(p)
  <2>1. writes' = writes \/ (writes' = writes + 1 /\ at[p] \in {"write", "late write"})
    BY <1>6 DEF Step, Begins, Start, Ends, Probes, Locks, Finds, AfterUpgrade, Hold, ReadBefore,
      WriteSwitch, Stamped, LateRead, LateWrite, SetPreference, Imports, ReadList, WriteAtomic,
      FileStep, SessionDrops, houseVars
  <2>2. at[p] \in {"write", "late write"} => house.rev \in {2, 3}
    BY <1>1 DEF OpenPlaces
  <2>3. UNCHANGED seeded /\ house'.rev = house.rev
    BY <1>6, SchemaChanges
  <2>4. /\ house'.rev = 0 => writes' = 0 /\ calibrated' = None
        /\ CalibrationIsKept'
    <3>1. CASE UNCHANGED <<house, calibrated>>
      <4>1. CalibrationIsKept'
        BY <3>1 DEF SchemaAndRows, CalibrationIsKept
      <4>2. house.rev = 0 => writes = 0 /\ calibrated = None
        BY DEF SchemaAndRows
      <4>3. ASSUME house.rev = 0 PROVE writes' = writes
        <5>1. at[p] \notin {"write", "late write"}
          <6>1. 0 \notin {2, 3}
            OBVIOUS
          <6> QED BY <4>3, <2>2, <6>1, Zenon
        <5> QED BY <2>1, <5>1
      <4> QED BY <3>1, <4>1, <4>2, <4>3
    <3>2. CASE SetPreference(p)
      <4>1. house.rev \in {2, 3}
        BY <1>1, <3>2 DEF SetPreference, OpenPlaces
      <4>2. house'.rev = house.rev /\ house'.prefs = Window /\ calibrated' = Window
        BY <3>2, SchemaChanges DEF SetPreference, Upgrade
      <4> QED BY <4>1, <4>2 DEF CalibrationIsKept
    <3> QED BY <1>6, <3>1, <3>2, SchemaChanges
  <2>5. seeded' => writes' # 0
    <3>1. writes + 1 # 0
      BY <1>0
    <3>2. writes # 0 => writes' # 0
      BY <2>1, <3>1
    <3>3. seeded => writes # 0
      BY DEF SchemaAndRows
    <3> QED BY <2>3, <3>2, <3>3
  <2> QED BY <1>4, <2>4, <2>5 DEF SchemaAndRows
<1> QED BY <1>5, <1>6
-----------------------------------------------------------------------------
(* Every step keeps who writes the switch *)

\* What a step does to the write lock.
LEMMA TxnMoves ==
  ASSUME FullTypeOK, TxnIsWhoWrites, NEW p \in Procs, Step(p)
  PROVE  \/ UNCHANGED txn /\ (txn = p => at'[p] \in Setting \cup {"late write"})
         \/ txn = Nobody /\ txn' = p
         \/ txn \in {Nobody, p} /\ txn' = Nobody
<1>0. at \in [Procs -> Places] /\ Nobody \notin Procs /\ txn \in Procs \cup {Nobody}
  BY HouseDatabaseAssumption DEF FullTypeOK
<1>1. txn = p => at[p] \in Setting \cup {"late write"}
  BY <1>0 DEF TxnIsWhoWrites
<1>2. CASE Ends(p)
  BY <1>0, <1>2, <1>1 DEF Ends, End, Released, Goto
<1>3. CASE at[p] \notin Setting \cup {"late write"} /\ UNCHANGED txn
  BY <1>1, <1>3
<1>4. CASE Hold(p) \/ LateRead(p)
  BY <1>0, <1>1, <1>4 DEF Hold, LateRead, Goto, Setting
<1>5. CASE ReadBefore(p)
  BY <1>0, <1>5 DEF ReadBefore, Goto, Setting, lockVars
<1>6. CASE WriteSwitch(p) \/ LateWrite(p)
  BY <1>0, <1>6 DEF WriteSwitch, LateWrite, TxnIsWhoWrites, Setting
<1>7. CASE AfterUpgrade(p)
  BY <1>0, <1>1, <1>7 DEF AfterUpgrade, Released, lockVars, Setting
<1>8. Ends(p) \/ Hold(p) \/ LateRead(p) \/ ReadBefore(p) \/ WriteSwitch(p) \/ LateWrite(p) \/ AfterUpgrade(p)
      \/ (at[p] \notin Setting \cup {"late write"} /\ UNCHANGED txn)
  BY DEF Step, Begins, Start, Probes, Locks, Finds, Upgrade, SetPreference, Imports, ReadList, WriteAtomic,
      FileStep, SessionDrops, houseVars, lockVars, Setting
<1> QED BY <1>2, <1>3, <1>4, <1>5, <1>6, <1>7, <1>8

\* The row changes by whoever holds the write lock, or in a migration that makes the schema.
LEMMA RowChanges ==
  ASSUME FullTypeOK, SchemaAndRows, NEW p \in Procs, Step(p), ~UNCHANGED <<row, writes>>
  PROVE  \/ WriteSwitch(p)
         \/ LateWrite(p)
         \/ Upgrade(p) /\ house.rev = 0 /\ writes = 0 /\ \A q \in Procs : at[q] \notin OpenPlaces
<1>1. WriteSwitch(p) \/ LateWrite(p) \/ (Upgrade(p) /\ house.rev = 0)
  BY DEF Step, Begins, Start, Ends, Probes, Locks, Finds, Upgrade, AfterUpgrade, Hold, ReadBefore,
      LateRead, SetPreference, Imports, ReadList, WriteAtomic,
      FileStep, SessionDrops, houseVars
<1>2. house.rev = 0 => writes = 0 /\ \A q \in Procs : at[q] \notin OpenPlaces
  BY DEF SchemaAndRows
<1> QED BY <1>1, <1>2

LEMMA StepKeepsTxn ==
  ASSUME FullTypeOK, Jobs, SchemaAndRows, TxnIsWhoWrites, NEW p \in Procs, Step(p)
  PROVE  TxnIsWhoWrites'
<1>0. /\ at \in [Procs -> Places] /\ m \in [Procs -> JobType] /\ Nobody \notin Procs /\ txn \in Procs \cup {Nobody}
      /\ \A q \in Procs \ {p} : at'[q] = at[q] /\ m'[q] = m[q]
  BY HouseDatabaseAssumption, StepIsItsOwn DEF FullTypeOK
<1>1. /\ txn # Nobody => at[txn] \in Setting \cup {"late write"}
      /\ \A q \in Procs : at[q] \in Setting => txn = q
      /\ \A q \in Procs : at[q] = "write" => m[q].before = row.on
  BY DEF TxnIsWhoWrites
<1>2. at'[p] \in Setting \/ (txn' = p /\ txn = Nobody) => Hold(p) \/ ReadBefore(p) \/ LateRead(p) \/ SessionDrops(p)
  <2>1. CASE Begins(p)
    BY <2>1, <1>0, BeginsIs DEF Setting
  <2>2. CASE Ends(p)
    BY <1>0, <2>2 DEF Ends, End, Goto, Released, Setting
  <2>3. CASE Probes(p) \/ Locks(p) \/ Upgrade(p)
    BY <1>0, <2>3 DEF Probes, Locks, Upgrade, Goto, Setting, lockVars
  <2>4. CASE Finds(p)
    <3>1. Opened(p) \notin Setting
      BY <2>4, OpenedIs DEF Finds, Setting
    <3> QED BY <1>0, <2>4, <3>1 DEF Finds, Goto, Setting, lockVars
  <2>5. CASE AfterUpgrade(p)
    <3>1. Opened(p) \notin Setting
      BY <2>5, OpenedIs DEF AfterUpgrade, Setting
    <3> QED BY <1>0, <2>5, <3>1 DEF AfterUpgrade, Goto, Released, Setting, lockVars
  <2>6. CASE WriteSwitch(p) \/ LateWrite(p)
    BY <1>0, <2>6 DEF WriteSwitch, LateWrite, Goto, Setting
  <2>7. CASE SetPreference(p) \/ Imports(p) \/ ReadList(p) \/ WriteAtomic(p)
    BY <1>0, <2>7 DEF SetPreference, Imports, ReadList, WriteAtomic, FileStep, Goto, Setting, lockVars
  <2> QED BY <2>1, <2>2, <2>3, <2>4, <2>5, <2>6, <2>7 DEF Step
<1>3. at'[p] \in Setting => txn' = p
  <2>1. CASE Hold(p)
    BY <2>1 DEF Hold
  <2>2. CASE ReadBefore(p)
    BY <2>2, <1>1 DEF ReadBefore, lockVars, Setting
  <2>3. CASE LateRead(p)
    BY <1>0, <2>3 DEF LateRead, Goto, Setting
  <2>4. CASE SessionDrops(p)
    BY <2>4 DEF SessionDrops, Setting
  <2> QED BY <1>2, <2>1, <2>2, <2>3, <2>4
<1>4. \A q \in Procs : at'[q] \in Setting => txn' = q
  BY <1>0, <1>1, <1>3, TxnMoves
<1>5. txn' # Nobody => at'[txn'] \in Setting \cup {"late write"}
  <2>1. CASE UNCHANGED txn /\ (txn = p => at'[p] \in Setting \cup {"late write"})
    BY <2>1, <1>0, <1>1
  <2>2. CASE txn = Nobody /\ txn' = p
    <3>1. Hold(p) \/ LateRead(p)
      BY <1>0, <1>2, <2>2 DEF ReadBefore, SessionDrops, houseVars, lockVars
    <3>2. CASE Hold(p)
      BY <1>0, <2>2, <3>2 DEF Hold, Goto, Setting
    <3>3. CASE LateRead(p)
      BY <1>0, <2>2, <3>3 DEF LateRead, Goto, Setting
    <3> QED BY <3>1, <3>2, <3>3
  <2> QED BY <2>1, <2>2, TxnMoves
<1>6. ASSUME NEW q \in Procs, at'[q] = "write" PROVE m'[q].before = row'.on
  <2>1. CASE ReadBefore(p) /\ q = p
    BY <1>0, <2>1 DEF ReadBefore, houseVars, Switch!Reads, JobType
  <2>2. CASE q # p
    <3>1. txn = q /\ at[q] = "write" /\ m'[q].before = row.on
      BY <1>0, <1>1, <1>6, <2>2 DEF Setting
    <3>2. UNCHANGED <<row, writes>>
      <4>1. ~WriteSwitch(p)
        BY <3>1, <1>1, <2>2 DEF WriteSwitch, Setting
      <4>2. ~LateWrite(p)
        BY <1>0, <3>1, <2>2 DEF LateWrite
      <4>3. at[q] \in OpenPlaces
        BY <3>1 DEF OpenPlaces
      <4> QED BY <4>1, <4>2, <4>3, RowChanges
    <3> QED BY <3>1, <3>2
  <2>3. CASE q = p /\ ~ReadBefore(p)
    <3>1. Hold(p) \/ LateRead(p) \/ SessionDrops(p)
      BY <1>2, <1>6, <2>3 DEF Setting
    <3>2. at'[p] # "write"
      BY <1>0, <3>1 DEF Hold, LateRead, SessionDrops, Goto
    <3> QED BY <1>6, <2>3, <3>2
  <2> QED BY <2>1, <2>2, <2>3
<1> QED BY <1>4, <1>5, <1>6 DEF TxnIsWhoWrites

\* Nobody sets the switch between the read and the write of a seed that came late.
LEMMA StepKeepsLateSeed ==
  ASSUME FullTypeOK, Jobs, OneOfAKind, SchemaAndRows, TxnIsWhoWrites, LateSeedIsRight, SafeSeeds,
         NEW p \in Procs, Step(p)
  PROVE  SafeSeeds' /\ LateSeedIsRight'
<1>0. /\ at \in [Procs -> Places] /\ Nobody \notin Procs /\ writes \in Nat /\ row.at = writes
      /\ \A q \in Procs \ {p} : at'[q] = at[q]
  BY HouseDatabaseAssumption, StepIsItsOwn DEF FullTypeOK
<1>1. backend' = backend
  BY DEF Step, Begins, Start, Ends, Probes, Locks, Finds, Upgrade, AfterUpgrade, Hold, ReadBefore, WriteSwitch,
    LateRead, LateWrite, SetPreference, Imports, ReadList, WriteAtomic, FileStep, SessionDrops
<1>2. SafeSeeds' /\ Sqlite' = Sqlite
  BY <1>1 DEF SafeSeeds, Sqlite
<1>3. \A q \in Procs : at[q] = "late write" =>
        writes = 0 /\ (Sqlite => txn = q) /\ (~Sqlite => \A r \in Procs : at[r] \notin Setting)
  BY DEF LateSeedIsRight
<1>4. ASSUME NEW q \in Procs, at'[q] = "late write"
      PROVE  writes' = 0 /\ (Sqlite => txn' = q) /\ (~Sqlite => \A r \in Procs : at'[r] \notin Setting)
  <2>1. CASE q = p
    <3>1. LateRead(p) \/ SessionDrops(p)
      <4>1. CASE Begins(p)
        BY <4>1, <1>4, <2>1, BeginsIs
      <4>2. CASE Finds(p) \/ AfterUpgrade(p)
        <5>1. at[p] # "idle"
          BY <4>2 DEF Finds, AfterUpgrade
        <5>2. Opened(p) # "late write"
          BY <5>1, OpenedIs
        <5> QED BY <1>0, <1>4, <2>1, <4>2, <5>2 DEF Finds, AfterUpgrade, Goto
      <4> QED BY <1>0, <1>4, <2>1, <4>1, <4>2 DEF Step, Ends, End, Probes, Locks, Upgrade, Hold, ReadBefore, WriteSwitch,
        LateWrite, SetPreference, Imports, ReadList, WriteAtomic, FileStep, Goto
    <3>2. LateRead(p) /\ at[p] = "late"
      BY <1>4, <2>1, <3>1 DEF SessionDrops, LateRead
    <3>3. row = Switch!NoRow /\ txn' = (IF Sqlite THEN p ELSE txn) /\ UNCHANGED writes
      BY <1>0, <1>4, <2>1, <3>2 DEF LateRead, Goto, houseVars
    <3>4. writes' = 0
      BY <1>0, <3>3 DEF Switch!NoRow
    <3>5. ~Sqlite => \A r \in Procs \ {p} : at[r] \notin Setting
      BY <3>2 DEF LateRead, SafeSeeds, Setting
    <3> QED BY <1>0, <1>4, <2>1, <3>3, <3>4, <3>5 DEF Setting
  <2>2. CASE q # p
    <3>1. at[q] = "late write" /\ at[q] \in OpenPlaces
      BY <1>0, <1>4, <2>2 DEF OpenPlaces
    <3>2. /\ writes = 0 /\ (Sqlite => txn = q)
          /\ ~Sqlite => \A r \in Procs : at[r] \notin Setting
      BY <1>3, <3>1
    <3>3. ~WriteSwitch(p)
      BY <3>1, <3>2, <2>2 DEF WriteSwitch, TxnIsWhoWrites, Setting
    <3>4. at[p] \notin {"late", "late write"}
      BY <2>2, <3>1 DEF Jobs, JobOf, OneOfAKind
    <3>5. writes' = writes
      <4>1. ~LateWrite(p)
        BY <3>4 DEF LateWrite
      <4> QED BY <3>1, <3>3, <4>1, RowChanges
    <3>6. Sqlite => txn' = q
      BY <1>0, <2>2, <3>2, TxnMoves
    <3>7. ~Sqlite => at'[p] \notin Setting
      <4>1. SUFFICES ASSUME ~Sqlite PROVE at'[p] \notin Setting
        OBVIOUS
      <4>2. at[p] \notin Setting
        BY <3>2, <4>1
      <4>3. ~Hold(p)
        BY <3>1, <4>1 DEF Hold, SafeSeeds, SeedIsLate
      <4>4. CASE Begins(p)
        BY <4>4, BeginsIs DEF Setting
      <4>5. CASE Finds(p) \/ AfterUpgrade(p)
        <5>1. at[p] # "idle"
          BY <4>5 DEF Finds, AfterUpgrade
        <5>2. Opened(p) \notin Setting
          BY <5>1, OpenedIs DEF Setting
        <5> QED BY <1>0, <4>5, <5>2 DEF Finds, AfterUpgrade, Goto, Setting
      <4> QED BY <1>0, <4>2, <4>3, <4>4, <4>5 DEF Step, Ends, End, Probes, Locks, Upgrade, ReadBefore, WriteSwitch,
        LateRead, LateWrite, SetPreference, Imports, ReadList, WriteAtomic, FileStep, SessionDrops, Goto, Setting
    <3> QED BY <1>0, <3>2, <3>5, <3>6, <3>7
  <2> QED BY <2>1, <2>2
<1> QED BY <1>2, <1>4 DEF LateSeedIsRight
-----------------------------------------------------------------------------
(* Every step keeps the exported file whole *)

LEMMA HalfIsNotWhole == Half \notin Whole
BY HalfAssumption DEF Whole, Half, Empty, Missing

LEMMA StepKeepsFile ==
  ASSUME FullTypeOK, Jobs, OneOfAKind, ExportIsWhole, NEW p \in Procs, Step(p)
  PROVE  ExportIsWhole'
<1>0. /\ at \in [Procs -> Places] /\ m \in [Procs -> JobType]
      /\ \A q \in Procs \ {p} : at'[q] = at[q] /\ m'[q] = m[q]
  BY StepIsItsOwn DEF FullTypeOK
<1>1. /\ file \in [now : Whole, back : SUBSET Whole]
      /\ \A q \in Procs : at[q] = "flushed" => temp.now = m[q].text
      /\ \A q \in Procs : at[q] = "synced" => temp = Durable(m[q].text)
  BY DEF ExportIsWhole
<1>2. m[p].text \in Whole
  BY <1>0 DEF JobType, Whole
<1>3. CASE WriteAtomic(p)
  <2>1. at[p] \in Exporting /\ UNCHANGED m
    BY <1>3 DEF WriteAtomic, FileStep, Exporting
  <2>2. ASSUME NEW q \in Procs \ {p} PROVE at'[q] \notin Exporting
    BY <1>0, <2>1 DEF Jobs, JobOf, OneOfAKind
  <2>3. \A q \in Procs \ {p} : at'[q] \notin {"flushed", "synced"}
    BY <2>2 DEF Exporting
  <2>4. file' \in [now : Whole, back : SUBSET Whole]
    <3>1. CASE file' = file
      BY <1>1, <3>1
    <3>2. CASE at[p] = "synced" /\ Replace
      <4>1. temp.now = m[p].text /\ temp.back = {m[p].text}
        BY <1>1, <3>2 DEF Durable
      <4> QED BY <1>1, <1>2, <3>2, <4>1 DEF Replace
    <3>3. CASE \E durable \in BOOLEAN : FsyncDirectory(durable)
      BY <1>1, <3>3 DEF FsyncDirectory, Durable
    <3> QED BY <1>3, <3>1, <3>2, <3>3 DEF WriteAtomic, FileStep, OpenTemp, WriteTemp, FsyncTemp
  <2>5. at'[p] = "flushed" => temp'.now = m'[p].text
    BY <1>0, <1>3, <2>1 DEF WriteAtomic, FileStep, Goto, WriteTemp
  <2>6. at'[p] = "synced" => temp' = Durable(m'[p].text)
    BY <1>0, <1>1, <1>3, <2>1 DEF WriteAtomic, FileStep, Goto, FsyncTemp
  <2> QED BY <2>3, <2>4, <2>5, <2>6 DEF ExportIsWhole, Durable
<1>4. CASE ~WriteAtomic(p)
  <2>1. UNCHANGED <<file, temp>>
    BY <1>4 DEF Step, Begins, Start, Ends, Probes, Locks, Finds, Upgrade, AfterUpgrade, Hold, ReadBefore, WriteSwitch,
      LateRead, LateWrite, SetPreference, Imports, ReadList, SessionDrops, fileVars
  <2>2. at'[p] \notin {"flushed", "synced"}
    <3>1. CASE Begins(p)
      BY <3>1, BeginsIs
    <3>2. CASE Finds(p) \/ AfterUpgrade(p)
      <4>1. at[p] # "idle"
        BY <3>2 DEF Finds, AfterUpgrade
      <4>2. Opened(p) \notin {"flushed", "synced"}
        BY <4>1, OpenedIs
      <4> QED BY <1>0, <3>2, <4>2 DEF Finds, AfterUpgrade, Goto
    <3> QED BY <1>0, <1>4, <3>1, <3>2 DEF Step, Ends, End, Probes, Locks, Upgrade, Hold, ReadBefore, WriteSwitch,
      LateRead, LateWrite, SetPreference, Imports, ReadList, SessionDrops, Goto
  <2>3. \A q \in Procs : at'[q] \in {"flushed", "synced"} => at[q] = at'[q] /\ m'[q] = m[q]
    BY <1>0, <2>2
  <2> QED BY <1>1, <2>1, <2>3 DEF ExportIsWhole, Durable
<1> QED BY <1>3, <1>4
-----------------------------------------------------------------------------
(* The invariant *)

\* When the power fails nobody is left anywhere.
LEMMA PowerFailsKeepsIt ==
  ASSUME IInv, PowerFails
  PROVE  IInv'
<1>0. /\ at' = [p \in Procs |-> "idle"] /\ m' = [p \in Procs |-> Idle]
      /\ writer' = Nobody /\ txn' = Nobody /\ dropped' = {}
      /\ UNCHANGED <<backend, there, house, row, list, writes, seeded, calibrated>>
  BY DEF PowerFails, houseVars
<1>1. \A p \in Procs : at'[p] = "idle" /\ m'[p] = Idle
  BY <1>0
<1>2. FullTypeOK'
  <2>1. Idle \in JobType
    BY DEF Idle, JobType, Switch!NoAnswer
  <2> QED BY <1>0, <2>1 DEF IInv, FullTypeOK, Places
<1>3. Jobs'
  <2>1. {Idle.stamp} \subseteq 0 .. writes'
    <3>1. {writes} \subseteq Nat /\ writes' = writes
      BY <1>0 DEF IInv, FullTypeOK
    <3>2. 0 \in 0 .. writes
      BY <3>1
    <3> QED BY <3>1, <3>2 DEF Idle
  <2> QED BY <1>1, <2>1 DEF Jobs, JobOf, Exporting, Idle, Switch!NoAnswer
<1>4. OneOfAKind'
  BY <1>1 DEF OneOfAKind, Idle
<1>5. WriterIsWhoNeedsIt' /\ HeldSchemaStays'
  BY <1>0, <1>1 DEF WriterIsWhoNeedsIt, HeldSchemaStays, Held, Migrates
<1>6. SchemaAndRows'
  BY <1>0, <1>1 DEF IInv, SchemaAndRows, CalibrationIsKept, OpenPlaces, Exporting
<1>7. TxnIsWhoWrites' /\ LateSeedIsRight'
  BY <1>0, <1>1 DEF TxnIsWhoWrites, LateSeedIsRight, Setting
<1>8. ExportIsWhole'
  <2>1. PICK f \in file.back : file' = Durable(f)
    BY DEF PowerFails, FilesAfterPowerCut
  <2>2. file' \in [now : Whole, back : SUBSET Whole]
    BY <2>1 DEF IInv, ExportIsWhole, Durable
  <2> QED BY <1>1, <2>2 DEF ExportIsWhole
<1> QED BY <1>2, <1>3, <1>4, <1>5, <1>6, <1>7, <1>8 DEF IInv

LEMMA InitHolds == Init => IInv
<1> SUFFICES ASSUME Init PROVE IInv
  OBVIOUS
<1>0. /\ at = [p \in Procs |-> "idle"] /\ m = [p \in Procs |-> Idle]
      /\ writer = Nobody /\ txn = Nobody /\ dropped = {} /\ seeded = FALSE
      /\ house \in [rev : 0 .. 3, zone : {None, Window}, prefs : {None}]
      /\ house.rev # 1 => house.zone = None
      /\ calibrated = house.zone
      /\ writes \in IF house.rev = 0 THEN {0} ELSE {0, 1}
      /\ row = IF writes = 0 THEN Switch!NoRow ELSE [on |-> TRUE, at |-> 1]
      /\ list \in IF house.rev = 0 THEN {Empty} ELSE Texts
      /\ file \in {Durable(t) : t \in {Missing, Spoilt}}
  BY DEF Init
<1>1. \A p \in Procs : at[p] = "idle" /\ m[p] = Idle
  BY <1>0
<1>w. {writes} \subseteq Nat /\ writes \in {0, 1}
  BY <1>0
<1>2. FullTypeOK
  <2>1. Idle \in JobType
    BY DEF Idle, JobType, Switch!NoAnswer
  <2>2. row \in [on : BOOLEAN, at : {writes}] /\ (writes = 0 => row = Switch!NoRow)
    BY <1>0, <1>w DEF Switch!NoRow
  <2>3. house \in Schemas
    BY <1>0 DEF Schemas
  <2> QED BY <1>0, <1>w, <2>1, <2>2, <2>3 DEF FullTypeOK, Places
<1>3. Jobs
  <2>1. {Idle.stamp} \subseteq 0 .. writes
    BY <1>w DEF Idle
  <2> QED BY <1>1, <2>1 DEF Jobs, JobOf, Exporting, Idle, Switch!NoAnswer
<1>4. OneOfAKind
  BY <1>1 DEF OneOfAKind, Idle
<1>5. WriterIsWhoNeedsIt /\ HeldSchemaStays
  BY <1>0, <1>1 DEF WriterIsWhoNeedsIt, HeldSchemaStays, Held, Migrates
<1>6. SchemaAndRows
  <2>1. house.prefs = None
    BY <1>0
  <2>2. house.rev = 0 => writes = 0 /\ calibrated = None
    BY <1>0
  <2>3. CalibrationIsKept
    BY <1>0, <2>1 DEF CalibrationIsKept
  <2> QED BY <1>0, <1>1, <2>2, <2>3 DEF SchemaAndRows, OpenPlaces, Exporting
<1>7. TxnIsWhoWrites /\ LateSeedIsRight
  BY <1>0, <1>1 DEF TxnIsWhoWrites, LateSeedIsRight, Setting
<1>8. ExportIsWhole
  BY <1>0, <1>1 DEF ExportIsWhole, Durable, Whole
<1> QED BY <1>2, <1>3, <1>4, <1>5, <1>6, <1>7, <1>8 DEF IInv

\* A step that changes nothing keeps it.
LEMMA StutterKeepsIt ==
  ASSUME IInv, UNCHANGED vars
  PROVE  IInv'
<1>1. UNCHANGED <<backend, there, house, row, list, writes, seeded, calibrated, writer, txn, dropped, at, m, file, temp>>
  BY DEF vars, houseVars, lockVars, fileVars
<1>2. FullTypeOK' /\ Jobs' /\ OneOfAKind'
  BY <1>1 DEF IInv, FullTypeOK, Jobs, JobOf, OneOfAKind, Exclusive
<1>3. WriterIsWhoNeedsIt' /\ HeldSchemaStays' /\ SchemaAndRows'
  BY <1>1 DEF IInv, WriterIsWhoNeedsIt, HeldSchemaStays, SchemaAndRows, Held, Migrates, Exclusive, Head, CalibrationIsKept
<1>4. TxnIsWhoWrites' /\ LateSeedIsRight' /\ ExportIsWhole'
  BY <1>1 DEF IInv, TxnIsWhoWrites, LateSeedIsRight, ExportIsWhole, SafeSeeds, Sqlite
<1> QED BY <1>2, <1>3, <1>4 DEF IInv

LEMMA NextKeepsIt == IInv /\ [Next]_vars => IInv'
<1> SUFFICES ASSUME IInv, [Next]_vars PROVE IInv'
  OBVIOUS
<1>1. CASE UNCHANGED vars
  BY <1>1, StutterKeepsIt
<1>2. CASE PowerFails
  BY <1>2, PowerFailsKeepsIt
<1>3. ASSUME NEW p \in Procs, Step(p) PROVE IInv'
  <2>1. FullTypeOK' /\ Jobs' /\ OneOfAKind'
    BY <1>3, StepKeepsType, StepKeepsJobs, StepKeepsOneOfAKind DEF IInv
  <2>2. WriterIsWhoNeedsIt' /\ HeldSchemaStays' /\ SchemaAndRows'
    BY <1>3, StepKeepsWriter, StepKeepsSchema, StepKeepsRows DEF IInv
  <2>3. TxnIsWhoWrites' /\ ExportIsWhole'
    BY <1>3, StepKeepsTxn, StepKeepsFile DEF IInv
  <2>4. LateSeedIsRight'
    <3>1. CASE SafeSeeds
      BY <1>3, <3>1, StepKeepsLateSeed DEF IInv
    <3>2. CASE ~SafeSeeds
      <4>1. backend' = backend
        BY <1>3 DEF Step, Begins, Start, Ends, Probes, Locks, Finds, Upgrade, AfterUpgrade, Hold, ReadBefore, WriteSwitch,
          LateRead, LateWrite, SetPreference, Imports, ReadList, WriteAtomic, FileStep, SessionDrops
      <4> QED BY <3>2, <4>1 DEF LateSeedIsRight, SafeSeeds, Sqlite
    <3> QED BY <3>1, <3>2
  <2> QED BY <2>1, <2>2, <2>3, <2>4 DEF IInv
<1> QED BY <1>1, <1>2, <1>3, StepCases DEF IInv

\* The processes, the locks, the schema, the rows and the file stay as the invariant says.
THEOREM InvariantHolds == Spec => []IInv
BY InitHolds, NextKeepsIt, PTL DEF Spec

\* Every variable has its type, with whichever processes of whichever releases (house_db.py).
THEOREM TypeCorrect == Spec => []TypeOK
<1>1. IInv => TypeOK
  <2>1. FullTypeOK => row \in [on : BOOLEAN, at : 0 .. writes]
    BY DEF FullTypeOK
  <2> QED BY <2>1 DEF IInv, FullTypeOK, TypeOK
<1> QED BY <1>1, InvariantHolds, PTL

\* No process of any release migrates the database under a service or an import that holds it:
\* the schema it opened is the schema it has to its end (HouseDatabase.open, _bring_up_to_date).
THEOREM NobodyMigratesUnderAService == Spec => []SchemaHoldsStill
<1>1. IInv => SchemaHoldsStill
  BY DEF IInv, Jobs, JobOf, WriterIsWhoNeedsIt, HeldSchemaStays, SchemaHoldsStill, Held, Exclusive
<1> QED BY <1>1, InvariantHolds, PTL

\* Nothing is held by a process that refused, failed or is done, and the lock of a migration is not
\* kept after it (_refuse, close, the finally of _bring_up_to_date).
THEOREM ARefusalHoldsNothing == Spec => []NothingIsLeftHeld
<1>1. IInv => NothingIsLeftHeld
  BY DEF IInv, WriterIsWhoNeedsIt, TxnIsWhoWrites, NothingIsLeftHeld, Migrates, Setting
<1> QED BY <1>1, InvariantHolds, PTL

\* A database the installer made is never there without the switch it was made with, wherever a
\* seed, a migration or the power is cut short (_upgrade, seed_switch).
THEOREM NeverWithoutItsSeed == Spec => []SeededWithItsSchema
<1>1. IInv => SeededWithItsSchema
  <2>1. row.at = writes /\ writes # 0 => row # Switch!NoRow
    BY DEF Switch!NoRow
  <2> QED BY <2>1 DEF IInv, FullTypeOK, SchemaAndRows, SeededWithItsSchema
<1> QED BY <1>1, InvariantHolds, PTL

\* The house keeps its calibrated dialling through every migration (revision 0002).
THEOREM NoMigrationLosesTheCalibration == Spec => []CalibrationIsKept
<1>1. IInv => CalibrationIsKept
  BY DEF IInv, SchemaAndRows
<1> QED BY <1>1, InvariantHolds, PTL

\* Whoever reads an exported list finds a whole document, whatever document it is and wherever the
\* power failed (write_atomic).
THEOREM NobodyReadsHalfAFile == Spec => []FileIsWhole
<1>1. IInv => FileIsWhole
  BY HalfIsNotWhole DEF IInv, ExportIsWhole, FileIsWhole
<1> QED BY <1>1, InvariantHolds, PTL
-----------------------------------------------------------------------------
(* The switch of the house *)

Answers == [p \in Procs |-> m[p].answer]

\* What a step is to whoever sets the switch.
LEMMA StepIsASwitchStep ==
  ASSUME IInv, SafeSeeds, NEW p \in Procs, Step(p)
  PROVE  [Switch!SwitchNext]_(Switch!switchVars)
<1>0. /\ m \in [Procs -> JobType] /\ \A q \in Procs \ {p} : m'[q] = m[q]
      /\ writes \in Nat /\ row.at = writes /\ (writes = 0 => row = Switch!NoRow)
  BY StepIsItsOwn DEF IInv, FullTypeOK
<1>1. ASSUME UNCHANGED <<row, writes>>, m'[p].answer = m[p].answer
      PROVE  [Switch!SwitchNext]_(Switch!switchVars)
  BY <1>0, <1>1 DEF Switch!switchVars
<1>2. ASSUME UNCHANGED <<row, writes>>, m'[p].answer = Switch!NoAnswer
      PROVE  [Switch!SwitchNext]_(Switch!switchVars)
  <2>1. Switch!Forget({p})
    BY <1>0, <1>2 DEF Switch!Forget
  <2> QED BY <2>1 DEF Switch!SwitchNext
<1>3. ASSUME row = Switch!NoRow, row' = [on |-> m[p].on, at |-> writes + 1], writes' = writes + 1,
             m'[p].answer = m[p].answer
      PROVE  [Switch!SwitchNext]_(Switch!switchVars)
  <2>1. m[p].on \in BOOLEAN
    BY <1>0 DEF JobType
  <2>2. Switch!Seed(m[p].on)
    BY <1>0, <1>3 DEF Switch!Seed, Switch!Write
  <2> QED BY <2>1, <2>2 DEF Switch!SwitchNext
<1>4. CASE Begins(p)
  <2>1. PICK kind \in Kinds, release \in 2 .. 3, on \in BOOLEAN, stamp \in 0 .. writes :
          Start(p, kind, release, on, stamp)
    BY <1>4 DEF Begins
  <2>2. m'[p] = [Idle EXCEPT !.kind = kind, !.release = release, !.on = on, !.stamp = stamp]
    BY <1>0, <2>1 DEF Start
  <2>3. m'[p].answer = Switch!NoAnswer
    BY <2>2 DEF Idle
  <2> QED BY <1>2, <2>1, <2>3 DEF Start, houseVars
<1>5. CASE Ends(p)
  <2>1. m'[p].answer = Switch!NoAnswer
    BY <1>0, <1>5 DEF Ends, End, Idle
  <2> QED BY <1>2, <1>5, <2>1 DEF Ends
<1>6. CASE WriteSwitch(p)
  <2>0. m[p] \in JobType /\ m[p].on \in BOOLEAN /\ m[p].stamp \in 0 .. writes
    BY <1>0 DEF IInv, Jobs, JobOf, JobType
  <2>1. m[p].before = row.on
    BY <1>6 DEF WriteSwitch, IInv, TxnIsWhoWrites
  <2>2. ASSUME NEW answer, m' = [m EXCEPT ![p].answer = answer]
        PROVE  [q \in Procs |-> m'[q].answer] = [[q \in Procs |-> m[q].answer] EXCEPT ![p] = answer]
    BY <1>0, <2>0, <2>2 DEF JobType
  <2>3. CASE m[p].kind = "set" /\ m[p].stamp # 0 /\ row.at # m[p].stamp
    <3>1. /\ m' = [m EXCEPT ![p].answer = [written |-> FALSE, changed |-> m[p].before # row.on, at |-> row.at]]
          /\ UNCHANGED <<row, writes>>
      BY <1>6, <2>3 DEF WriteSwitch
    <3>2. m' = [m EXCEPT ![p].answer = [written |-> FALSE, changed |-> FALSE, at |-> row.at]]
      BY <2>1, <3>1
    <3>3. m[p].stamp \in 1 .. writes
      BY <1>0, <2>0, <2>3
    <3>4. PICK on \in BOOLEAN, stamp \in 1 .. writes : on = m[p].on /\ stamp = m[p].stamp
      BY <2>0, <3>3
    <3>5. Switch!SetIfUnchanged(p, on, stamp)
      BY <2>2, <2>3, <3>1, <3>2, <3>4 DEF Switch!SetIfUnchanged, Switch!Answer
    <3> QED BY <3>5 DEF Switch!SwitchNext
  <2>4. CASE ~(m[p].kind = "set" /\ m[p].stamp # 0 /\ row.at # m[p].stamp)
    <3>1. /\ row' = [on |-> m[p].on, at |-> writes + 1] /\ writes' = writes + 1
          /\ m' = [m EXCEPT ![p].answer = [written |-> TRUE, changed |-> m[p].before # m[p].on, at |-> writes + 1]]
      BY <1>6, <2>4 DEF WriteSwitch, Stamped
    <3>2. Switch!Set(p, m[p].on)
      BY <2>1, <2>2, <3>1 DEF Switch!Set, Switch!Write, Switch!Answer, Switch!Reads
    <3> QED BY <2>0, <3>2 DEF Switch!SwitchNext
  <2> QED BY <2>3, <2>4
<1>7. CASE LateWrite(p)
  <2>1. row = Switch!NoRow
    BY <1>0, <1>7 DEF LateWrite, IInv, LateSeedIsRight
  <2>2. m'[p].answer = m[p].answer
    <3>1. m'[p] = [m[p] EXCEPT !.written = TRUE] /\ m[p] \in JobType
      BY <1>0, <1>7 DEF LateWrite
    <3>2. "answer" \in DOMAIN m[p]
      BY <3>1 DEF JobType
    <3> QED BY <3>1, <3>2
  <2> QED BY <1>3, <1>7, <2>1, <2>2 DEF LateWrite, Stamped
<1>8. CASE Upgrade(p)
  <2>1. PICK b : m' = [m EXCEPT ![p].written = b]
    BY <1>8, Zenon DEF Upgrade
  <2>2. m'[p].answer = m[p].answer
    BY <1>0, <2>1 DEF JobType
  <2>3. CASE Owes(p) /\ house.rev = 0
    <3>1. row = Switch!NoRow
      BY <1>0, <2>3 DEF IInv, SchemaAndRows
    <3>2. row' = [on |-> m[p].on, at |-> writes + 1] /\ writes' = writes + 1
      BY <1>8, <2>3 DEF Upgrade
    <3> QED BY <1>3, <2>2, <3>1, <3>2
  <2>4. CASE ~(Owes(p) /\ house.rev = 0)
    <3>1. UNCHANGED <<row, writes>>
      BY <1>8, <2>4 DEF Upgrade
    <3> QED BY <1>1, <2>2, <3>1
  <2> QED BY <2>3, <2>4
<1>9. CASE Probes(p) \/ ReadBefore(p) \/ ReadList(p)
  <2>1. m'[p].answer = m[p].answer
    BY <1>0, <1>9 DEF Probes, ReadBefore, ReadList, JobType
  <2> QED BY <1>1, <1>9, <2>1 DEF Probes, ReadBefore, ReadList, houseVars
<1>10. CASE Locks(p) \/ Finds(p) \/ AfterUpgrade(p) \/ Hold(p) \/ LateRead(p) \/ SetPreference(p) \/ Imports(p)
            \/ WriteAtomic(p) \/ SessionDrops(p)
  <2>1. UNCHANGED <<row, writes, m>>
    BY <1>10 DEF Locks, Finds, AfterUpgrade, Hold, LateRead, SetPreference, Imports, WriteAtomic, FileStep,
      SessionDrops, houseVars
  <2> QED BY <1>1, <2>1
<1> QED BY <1>4, <1>5, <1>6, <1>7, <1>8, <1>9, <1>10 DEF Step

\* Whatever sets, seeds, migrates, fails or loses its power on the house, each set of the switch is
\* one moment and its answer the truth about it.  On PostgreSQL that needs nobody to set the switch
\* while a seed that came late reads and writes (write_switch, hold_the_switch, seed_switch).
THEOREM TheSwitchIsARegister == Spec /\ SafeSeeds => ImplementsHouseSwitch
<1>1. Init => Switch!SwitchInit
  <2> SUFFICES ASSUME Init PROVE Switch!SwitchInit
    OBVIOUS
  <2>1. /\ m = [p \in Procs |-> Idle]
        /\ writes \in {0, 1} /\ row = IF writes = 0 THEN Switch!NoRow ELSE [on |-> TRUE, at |-> 1]
    BY DEF Init
  <2>2. [p \in Procs |-> m[p].answer] = [p \in Procs |-> Switch!NoAnswer]
    BY <2>1 DEF Idle
  <2>3. row \in IF writes = 0 THEN {Switch!NoRow} ELSE [on : BOOLEAN, at : {1}]
    BY <2>1
  <2> QED BY <2>1, <2>2, <2>3 DEF Switch!SwitchInit
<1>2. IInv /\ SafeSeeds /\ [Next]_vars => SafeSeeds' /\ [Switch!SwitchNext]_(Switch!switchVars)
  <2> SUFFICES ASSUME IInv, SafeSeeds, [Next]_vars
               PROVE  SafeSeeds' /\ [Switch!SwitchNext]_(Switch!switchVars)
    OBVIOUS
  <2>1. CASE UNCHANGED vars
    BY <2>1 DEF vars, houseVars, SafeSeeds, Sqlite, Switch!switchVars
  <2>2. CASE PowerFails
    <3>1. UNCHANGED <<backend, row, writes>> /\ m' = [p \in Procs |-> Idle]
      BY <2>2 DEF PowerFails, houseVars
    <3>2. Switch!Forget(Procs)
      BY <3>1 DEF Switch!Forget, Idle
    <3> QED BY <3>1, <3>2 DEF SafeSeeds, Sqlite, Switch!SwitchNext
  <2>3. ASSUME NEW p \in Procs, Step(p) PROVE SafeSeeds' /\ [Switch!SwitchNext]_(Switch!switchVars)
    BY <2>3, StepIsASwitchStep, StepKeepsLateSeed DEF IInv
  <2> QED BY <2>1, <2>2, <2>3, StepCases DEF IInv
<1> QED BY <1>1, <1>2, InvariantHolds, PTL DEF Spec, ImplementsHouseSwitch, Switch!SwitchSpec
=============================================================================
