--------------------------- MODULE HouseDatabase ---------------------------
(***************************************************************************)
(* The house database and the processes that open it: HouseDatabase and    *)
(* its two writer locks (house_db.py), the migrations, the rows of the     *)
(* switch (house_switch.py), of the preferences and of the channel list,   *)
(* the store's verbs that reach them, and seed-switch and set-switch of    *)
(* service_venv.py.  AtomicFile is the file channels export writes.        *)
(*                                                                         *)
(* A step is one statement, or one transaction where nothing it reads can  *)
(* change before it commits.  What a transaction wrote and did not commit  *)
(* nobody sees, so a process that fails or dies in one leaves no trace.    *)
(***************************************************************************)
EXTENDS Integers, AtomicFile

CONSTANTS
  Procs,       \* processes on the database
  Runs,        \* what a process may be run for: [kind, release]
  Window,      \* a calibrated dialling window
  LateSeeds,   \* whether anybody may set the switch while a seed that came late does
  MaxJobs      \* bound: how many processes are run

Nobody == "nobody"

ASSUME HouseDatabaseAssumption ==
  /\ Nobody \notin Procs
  /\ Runs \subseteq [kind : {"serve", "switch", "set", "seed", "prefs", "import", "export"},
                     release : 2 .. 3]       \* a release is named by the newest revision it knows
  /\ LateSeeds \in BOOLEAN
  /\ MaxJobs \in Nat

VARIABLES
  backend,     \* "sqlite" or "postgresql"
  there,       \* whether the database can be connected to without creating it
  house,       \* its committed schema and calibration: [rev, zone, prefs]
  row,         \* its switch row
  list,        \* its channel list
  writer,      \* who holds the writer lock
  txn,         \* who holds the write lock (SQLite) or the lock on the switch table
  at,          \* per process: where it is
  m,           \* per process: what it is run for and what it has read
  writes,      \* stamps given to the switch
  seeded,      \* history: the schema was made by a seed
  calibrated,  \* history: the last calibration anybody committed
  dropped,     \* processes whose lock session the server dropped
  jobs

houseVars == <<there, house, row, list, writes, seeded, calibrated>>
lockVars  == <<writer, txn, dropped>>
vars == <<backend, houseVars, lockVars, at, m, jobs, fileVars>>

None   == "none"
Empty  == "empty"      \* a channel list without a channel
Sqlite == backend = "sqlite"

Switch == INSTANCE HouseSwitch WITH Who <- Procs, answer <- [p \in Procs |-> m[p].answer]

Idle == [kind |-> "none", release |-> 0, on |-> FALSE, stamp |-> 0, existed |-> FALSE,
         written |-> FALSE, before |-> FALSE, text |-> Missing, answer |-> Switch!NoAnswer]

Exclusive(p) == m[p].kind \in {"serve", "import"}
Head(p)      == m[p].release

Init ==
  /\ backend \in {"sqlite", "postgresql"}
  \* the oldest schema may hold a calibration from before the preferences
  /\ house \in [rev : 0 .. 3, zone : {None, Window}, prefs : {None}]
  /\ house.rev # 1 => house.zone = None
  /\ calibrated = house.zone
  /\ there \in IF house.rev = 0 /\ Sqlite THEN BOOLEAN ELSE {TRUE}
  /\ writes \in IF house.rev = 0 THEN {0} ELSE {0, 1}
  /\ row = IF writes = 0 THEN Switch!NoRow ELSE [on |-> TRUE, at |-> 1]
  /\ list \in IF house.rev = 0 THEN {Empty} ELSE Texts
  /\ writer = Nobody /\ txn = Nobody /\ dropped = {}
  /\ at = [p \in Procs |-> "idle"] /\ m = [p \in Procs |-> Idle]
  /\ seeded = FALSE /\ jobs = 0
  /\ file \in {Durable(t) : t \in {Missing, Spoilt}}
  /\ temp = Durable(Missing)
-----------------------------------------------------------------------------
(* Where a process goes, and how it ends. *)

Goto(p, where) == at' = [at EXCEPT ![p] = where]

\* close(): the writer lock if this process holds it, and its transaction, with the connections.
Released(p) ==
  /\ writer' = IF writer = p THEN Nobody ELSE writer
  /\ txn' = IF txn = p THEN Nobody ELSE txn
  /\ dropped' = dropped \ {p}

End(p) ==
  /\ Goto(p, "idle")
  /\ m' = [m EXCEPT ![p] = Idle]
  /\ Released(p)

\* Also a refusal: it leaves nothing held and nothing written.
Refuse(p) == End(p) /\ UNCHANGED <<backend, houseVars, jobs, fileVars>>

\* set-switch turns the house off, and on over a stamp it was given.
Words(kind, stamp) == IF kind = "set" THEN {stamp # 0} ELSE IF kind \in {"switch", "seed"} THEN BOOLEAN ELSE {TRUE}

\* open() without create refuses a database that is not there before it connects.
Start(p, kind, release, on, stamp) ==
  /\ at[p] = "idle" /\ jobs < MaxJobs
  /\ there \/ kind \in {"serve", "seed", "set"}
  /\ jobs' = jobs + 1
  /\ m' = [m EXCEPT ![p] = [Idle EXCEPT !.kind = kind, !.release = release, !.on = on, !.stamp = stamp]]
  /\ Goto(p, IF kind \in {"seed", "set"} THEN "probe" ELSE IF kind \in {"serve", "import"} THEN "lock" ELSE "current")
  \* one installer runs at a time; two exports to one path would share its temporary file
  /\ kind \in {"seed", "export"} => \A q \in Procs : m[q].kind # kind
  /\ UNCHANGED <<backend, houseVars, lockVars, fileVars>>

\* HouseDatabase.probe: what is there, without creating it, locking it or bringing it up to date.
SchemaThere == there /\ house.rev # 0

\* house_schema_exists.
Probe(p) ==
  /\ at[p] = "probe"
  /\ IF m[p].kind = "set" /\ ~SchemaThere
     THEN Refuse(p)
     ELSE /\ m' = [m EXCEPT ![p].existed = SchemaThere]
          /\ Goto(p, "current")
          /\ UNCHANGED <<backend, houseVars, lockVars, jobs, fileVars>>
-----------------------------------------------------------------------------
(* HouseDatabase.open. *)

\* FileLock and AdvisoryLock: at once, or refused as busy.
Acquire(p) == writer = Nobody /\ writer' = p

LockFirst(p) ==
  /\ at[p] = "lock"
  /\ \/ /\ Acquire(p)
        /\ Goto(p, "current")
        /\ UNCHANGED <<backend, houseVars, txn, dropped, m, jobs, fileVars>>
     \/ writer # Nobody /\ Refuse(p)

Opened(p) ==
  CASE m[p].kind = "serve" -> "serving"
    [] m[p].kind \in {"switch", "set"} -> "hold"
    [] m[p].kind = "seed" -> IF m[p].existed \/ m[p].written THEN "report" ELSE "late"
    [] OTHER -> m[p].kind

\* _current: the revision as read before any lock this open takes for a migration.
Current(p) ==
  /\ at[p] = "current"
  /\ IF house.rev > Head(p)
     THEN End(p)
     ELSE /\ Goto(p, IF house.rev = Head(p) THEN Opened(p) ELSE IF Exclusive(p) THEN "upgrade" ELSE "lock late")
          /\ UNCHANGED <<lockVars, m>>
  /\ there' = TRUE
  /\ UNCHANGED <<backend, house, row, list, writes, seeded, calibrated, jobs, fileVars>>

\* Variant of LockToMigrate: whoever finds the schema behind brings it up to date.
LockToMigrateUnheld(p) ==
  /\ at[p] = "lock late"
  /\ Goto(p, "upgrade")
  /\ UNCHANGED <<backend, houseVars, lockVars, m, jobs, fileVars>>

LockToMigrate(p) ==
  /\ at[p] = "lock late"
  /\ \/ /\ Acquire(p)
        /\ Goto(p, "upgrade")
        /\ UNCHANGED <<backend, houseVars, txn, dropped, m, jobs, fileVars>>
     \/ writer # Nobody /\ Refuse(p)

\* Revisions 0001 to 0003, each from the one before it.
Baseline(h) == [rev |-> 1, zone |-> None, prefs |-> None]

Preferences(h) == [rev |-> 2, zone |-> None, prefs |-> h.zone]

Alarms(h) == [h EXCEPT !.rev = 3]

Schemas == [rev : 0 .. 3, zone : {None, Window}, prefs : {None, Window}]

Migrate(h, head) ==
  LET one == IF h.rev = 0 THEN Baseline(h) ELSE h
      two == IF one.rev = 1 THEN Preferences(one) ELSE one
  IN  IF two.rev = 2 /\ head = 3 THEN Alarms(two) ELSE two

\* What seed-switch writes into a database it makes: the word of an old switch file, or off.
Owes(p) == m[p].kind = "seed" /\ ~m[p].existed

\* Variant of Upgrade: the schema is committed first and seeded afterwards.
UpgradeThenSeed(p) ==
  /\ at[p] = "upgrade" /\ house.rev <= Head(p)
  /\ Sqlite => txn = Nobody
  /\ house' = Migrate(house, Head(p))
  /\ seeded' = (seeded \/ (Owes(p) /\ house.rev = 0))
  /\ Goto(p, "upgraded")
  /\ UNCHANGED <<backend, there, row, writes, list, calibrated, lockVars, m, jobs, fileVars>>

\* _upgrade: one transaction, with the seed in it where nothing was there before.
Upgrade(p) ==
  LET seeds == Owes(p) /\ house.rev = 0 IN
  /\ at[p] = "upgrade" /\ house.rev <= Head(p)
  /\ Sqlite => txn = Nobody
  /\ house' = Migrate(house, Head(p))
  /\ IF seeds
     THEN row' = [on |-> m[p].on, at |-> writes + 1] /\ writes' = writes + 1
     ELSE UNCHANGED <<row, writes>>
  /\ seeded' = (seeded \/ seeds)
  /\ m' = [m EXCEPT ![p].written = seeds]
  /\ Goto(p, "upgraded")
  /\ UNCHANGED <<backend, there, list, calibrated, lockVars, jobs, fileVars>>

\* A revision that appeared since _current and that this release has no script for.
CannotUpgrade(p) == at[p] = "upgrade" /\ house.rev > Head(p) /\ Refuse(p)

\* The lock taken for the migration alone is given back after it.
AfterUpgrade(p) ==
  /\ at[p] = "upgraded"
  /\ Goto(p, Opened(p))
  /\ IF Exclusive(p)
     THEN UNCHANGED lockVars
     ELSE Released(p)
  /\ UNCHANGED <<backend, houseVars, m, jobs, fileVars>>
-----------------------------------------------------------------------------
(* The switch: SqlHouseStore.set_switch, set-switch and the late half of seed-switch. *)

SeedIsLate == \E q \in Procs : at[q] \in {"late", "late write"}

\* Variant of Hold: PostgreSQL's writers read before they lock anything.
HoldSqlite(p) ==
  /\ at[p] = "hold"
  /\ LateSeeds \/ ~SeedIsLate
  /\ Sqlite => txn = Nobody
  /\ txn' = IF Sqlite THEN p ELSE txn
  /\ Goto(p, "read")
  /\ UNCHANGED <<backend, houseVars, writer, dropped, m, jobs, fileVars>>

\* BEGIN IMMEDIATE, or LOCK TABLE switch: one writer until it commits.
Hold(p) ==
  /\ at[p] = "hold"
  /\ LateSeeds \/ ~SeedIsLate
  /\ txn = Nobody /\ txn' = p
  /\ Goto(p, "read")
  /\ UNCHANGED <<backend, houseVars, writer, dropped, m, jobs, fileVars>>

ReadBefore(p) ==
  /\ at[p] = "read"
  /\ m' = [m EXCEPT ![p].before = Switch!Reads]
  /\ Goto(p, "write")
  /\ UNCHANGED <<backend, houseVars, lockVars, jobs, fileVars>>

Stamped(p) ==
  /\ row' = [on |-> m[p].on, at |-> writes + 1]
  /\ writes' = writes + 1

\* The upsert of write_switch, or write_switch_if_unchanged, and what the caller is told.
WriteSwitch(p) ==
  /\ at[p] = "write"
  /\ IF m[p].kind = "set" /\ m[p].stamp # 0 /\ row.at # m[p].stamp
     THEN /\ m' = [m EXCEPT ![p].answer = [written |-> FALSE, changed |-> m[p].before # row.on, at |-> row.at]]
          /\ UNCHANGED <<row, writes>>
     ELSE /\ Stamped(p)
          /\ m' = [m EXCEPT ![p].answer =
                     [written |-> TRUE, changed |-> m[p].before # m[p].on, at |-> writes + 1]]
  /\ txn' = Nobody
  /\ Goto(p, "report")
  /\ UNCHANGED <<backend, there, house, list, seeded, calibrated, writer, dropped, jobs, fileVars>>

\* A schema that was made between the probe and the open carries no seed: write it here, if
\* there is no row.  Only SQLite's transaction has begun at the read.
LateRead(p) ==
  /\ at[p] = "late"
  /\ LateSeeds \/ \A q \in Procs \ {p} : at[q] \notin {"read", "write"}
  /\ Sqlite => txn = Nobody
  /\ IF row # Switch!NoRow
     THEN Goto(p, "report") /\ UNCHANGED txn
     ELSE Goto(p, "late write") /\ txn' = IF Sqlite THEN p ELSE txn
  /\ UNCHANGED <<backend, houseVars, writer, dropped, m, jobs, fileVars>>

LateWrite(p) ==
  /\ at[p] = "late write"
  /\ txn \in {Nobody, p} /\ txn' = Nobody
  /\ Stamped(p)
  /\ m' = [m EXCEPT ![p].written = TRUE]
  /\ Goto(p, "report")
  /\ UNCHANGED <<backend, there, house, list, seeded, calibrated, writer, dropped, jobs, fileVars>>

\* The verb prints what it did and closes.
Report(p) == at[p] = "report" /\ Refuse(p)
-----------------------------------------------------------------------------
(* The other verbs. *)

\* The service's whole run: it ends when it is stopped.
StopServing(p) == at[p] = "serving" /\ Refuse(p)

SetPreference(p) ==
  /\ at[p] = "prefs"
  /\ Sqlite => txn = Nobody
  /\ house' = [house EXCEPT !.prefs = Window]
  /\ calibrated' = Window
  /\ Goto(p, "report")
  /\ UNCHANGED <<backend, there, row, list, writes, seeded, lockVars, m, jobs, fileVars>>

\* load_channels: a file that is not there is an empty list, one that cannot be used is refused.
ImportChannels(p) ==
  /\ at[p] = "import"
  /\ IF file.now \in {Half, Spoilt}
     THEN End(p) /\ UNCHANGED list
     ELSE /\ Sqlite => txn = Nobody
          /\ list' = IF file.now = Missing THEN Empty ELSE file.now
          /\ Goto(p, "report")
          /\ UNCHANGED <<lockVars, m>>
  /\ UNCHANGED <<backend, there, house, row, writes, seeded, calibrated, jobs, fileVars>>

FileStep(p, from, to, Does) ==
  /\ at[p] = from /\ Goto(p, to)
  /\ Does
  /\ UNCHANGED <<backend, houseVars, lockVars, m, jobs>>

ReadList(p) ==
  /\ at[p] = "export"
  /\ m' = [m EXCEPT ![p].text = list]
  /\ Goto(p, "exporting")
  /\ UNCHANGED <<backend, houseVars, lockVars, jobs, fileVars>>

WriteAtomic(p) ==
  \/ FileStep(p, "exporting", "opened", OpenTemp)
  \/ FileStep(p, "opened", "flushed", WriteTemp(m[p].text))
  \/ FileStep(p, "flushed", "synced", FsyncTemp)
  \/ FileStep(p, "synced", "replaced", Replace)
  \/ \E durable \in BOOLEAN : FileStep(p, "replaced", "report", FsyncDirectory(durable))
-----------------------------------------------------------------------------
(* What may go wrong. *)

\* A statement fails, a wait for another writer runs out, the disk is full: open() and the verbs
\* close what they hold.  Or the process is killed, and the kernel or the server drops it.
Fails(p) == at[p] # "idle" /\ Refuse(p)

\* PostgreSQL alone: the session that holds the advisory lock is dropped and the service is not
\* told.  (In a migration or an import the same restart fails the transaction: Fails.)
SessionDrops(p) ==
  /\ ~Sqlite /\ writer = p /\ at[p] = "serving" /\ dropped = {}
  /\ writer' = Nobody /\ dropped' = {p}
  /\ UNCHANGED <<backend, houseVars, txn, at, m, jobs, fileVars>>

PowerFails ==
  /\ writer' = Nobody /\ txn' = Nobody /\ dropped' = {}
  /\ at' = [p \in Procs |-> "idle"] /\ m' = [p \in Procs |-> Idle]
  /\ FilesAfterPowerCut
  /\ UNCHANGED <<backend, houseVars, jobs>>
-----------------------------------------------------------------------------
Opens(p) ==
  \/ \E r \in Runs : \E stamp \in IF r.kind = "set" THEN 0 .. writes ELSE {0} :
       \E on \in Words(r.kind, stamp) : Start(p, r.kind, r.release, on, stamp)
  \/ Probe(p) \/ LockFirst(p) \/ Current(p) \/ LockToMigrate(p)
  \/ Upgrade(p) \/ CannotUpgrade(p) \/ AfterUpgrade(p)

Works(p) ==
  \/ Hold(p) \/ ReadBefore(p) \/ WriteSwitch(p) \/ LateRead(p) \/ LateWrite(p) \/ Report(p)
  \/ StopServing(p) \/ SetPreference(p) \/ ImportChannels(p) \/ ReadList(p) \/ WriteAtomic(p)

Next ==
  \/ \E p \in Procs : Opens(p) \/ Works(p) \/ Fails(p) \/ SessionDrops(p)
  \/ PowerFails

Spec == Init /\ [][Next]_vars
-----------------------------------------------------------------------------
(* Properties. *)

Places ==
  {"idle", "probe", "lock", "current", "lock late", "upgrade", "upgraded", "serving", "report",
   "hold", "read", "write", "late", "late write", "prefs", "import",
   "export", "exporting", "opened", "flushed", "synced", "replaced"}

TypeOK ==
  /\ at \in [Procs -> Places]
  /\ {writer, txn} \subseteq Procs \cup {Nobody} /\ dropped \subseteq Procs
  /\ house \in Schemas
  /\ row \in [on : BOOLEAN, at : 0 .. writes]
  /\ list \in Texts \cup {Empty}

\* A run that holds the house - the service for its whole run, an import - holds it alone, and
\* the schema it opened is the schema it has to its end: no other process, of whichever release,
\* migrates the database under it.  A PostgreSQL session the server dropped is excepted, as the
\* code accepts it (HouseDatabase.open, _bring_up_to_date, FileLock, AdvisoryLock).
SchemaHoldsStill ==
  \A p \in Procs \ dropped :
    at[p] \in {"serving", "import"} => writer = p /\ house.rev = Head(p)

\* Nothing is held on a refusal, and a migration's lock is not kept after it: whoever the lock
\* belongs to is in a run that needs it (_refuse, close, the finally of _bring_up_to_date).
NothingIsLeftHeld ==
  /\ writer # Nobody => at[writer] # "idle" /\ (Exclusive(writer) \/ at[writer] \in {"upgrade", "upgraded"})
  /\ txn # Nobody => at[txn] \in {"read", "write", "late write"}

\* A database the installer made never exists without the switch it was made with, whatever cut
\* the seed short: a first start cannot read it as on (_upgrade, seed_switch).
SeededWithItsSchema == seeded => row # Switch!NoRow

\* The calibrated dialling of the house is where the schema keeps it, through every migration by
\* whichever process and whatever fails in it (revision 0002).
CalibrationIsKept ==
  house.rev > 0 => calibrated = IF house.rev = 1 THEN house.zone ELSE house.prefs

\* A reader of an exported channel list finds a whole document, also after the power failed
\* anywhere in the export (write_atomic).
FileIsWhole == Half \notin {file.now} \cup file.back

\* Every set of the switch is one moment, and its answer is the truth about that moment: two
\* sets, a conditional set, a seed and a migration in any order (hold_the_switch, write_switch).
ImplementsHouseSwitch == Switch!SwitchSpec

\* An import empties a list somebody built only if the file says so.  It does not hold: a path
\* where nothing is reads as an empty list (load_channels), and the import writes that.
ImportNeverEmpties == [][list \notin {Empty} /\ file.now # Empty => list' # Empty]_list
=============================================================================
