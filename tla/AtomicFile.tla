----------------------------- MODULE AtomicFile -----------------------------
(***************************************************************************)
(* A channel file as write_atomic of atomicfile.py leaves it: what a       *)
(* reader finds at the path now, and what it may find after the power      *)
(* failed.  A file is [now, back]: the contents at its path and those a    *)
(* power cut may bring back.                                               *)
(***************************************************************************)
CONSTANTS
  Texts,      \* whole documents
  Spoilt      \* a document a person edited and broke

VARIABLES
  file,       \* at the path
  temp        \* beside it, TEMP_SUFFIX

fileVars == <<file, temp>>

Missing == "missing"
Half    == "half"

ASSUME HalfAssumption == Half \notin Texts \cup {Spoilt}

Durable(text) == [now |-> text, back |-> {text}]

\* temp.open("w"): empty from now on, whatever was in it.
OpenTemp == temp' = [now |-> Half, back |-> temp.back \cup {Half}] /\ UNCHANGED file

WriteTemp(text) == temp' = [now |-> text, back |-> temp.back \cup {Half, text}] /\ UNCHANGED file

\* Variant of FsyncTemp: the bytes are left to the operating system.
FsyncTempLater == UNCHANGED fileVars

FsyncTemp == temp' = Durable(temp.now) /\ UNCHANGED file

\* temp.replace(path): either side of the rename may come back until the directory is on the disk.
Replace ==
  /\ file' = [now |-> temp.now, back |-> file.back \cup temp.back]
  /\ temp' = Durable(Missing)

\* Also what is left when the platform refuses: the rename has already happened.
FsyncDirectory(synced) ==
  /\ file' = IF synced THEN Durable(file.now) ELSE file
  /\ UNCHANGED temp

FilesAfterPowerCut ==
  \E f \in file.back, t \in temp.back : file' = Durable(f) /\ temp' = Durable(t)
=============================================================================
