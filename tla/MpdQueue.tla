------------------------------ MODULE MpdQueue ------------------------------
(***************************************************************************)
(* MPD as a channel needs it (adapters/mpd/client.py, domain/playorder.py, *)
(* domain/mpd.py, Place in domain/state.py): the one control connection,   *)
(* which MPD closes when it has been quiet for a minute, the one queue,    *)
(* the place in it, and the order a directory's files are played in.  MPD  *)
(* itself is external.                                                     *)
(*                                                                         *)
(* Entries count from one, 0 is none.  A file is its channel, the          *)
(* directory it lies in (0: the channel's own) and its name; numbers stand *)
(* for names in their natural order.  Seconds: whether MPD is further into *)
(* a file than the overlap a resume steps back by.                         *)
(***************************************************************************)
EXTENDS Integers, SequencesExt, FiniteSetsExt

CONSTANTS
  MpdNumbers,   \* the channels MPD plays
  Directories,  \* those that are a directory; the others are stored playlists
  Stops,        \* those that fall silent at their end; the others start again
  FirstFiles,   \* per channel: the files it has at first ...
  LaterFiles,   \* ... and once somebody has changed them
  Troubles,     \* the faults that happen, each once at most ...
  MaxTroubles   \* ... and how many of them

ASSUME MpdQueueAssumption ==
  /\ Directories \subseteq MpdNumbers /\ Stops \subseteq MpdNumbers
  /\ Troubles \subseteq {"lost", "restarted", "changed", "unsaved"} /\ MaxTroubles \in Nat

VARIABLES
  connection,   \* none, open, gone (closed by MPD), cut (by us, under an exchange),
                \* behind (an answer nobody read)
  queue,        \* MPD's queue, in order
  entry,        \* the entry it is in, 0 while stopped
  into,         \* whether it is into that file
  repeat,       \* MPD's repeat
  onDisk,       \* per channel: its files
  troubles      \* the faults that have happened

mpd       == <<queue, entry, into, repeat>>
queueVars == <<connection, mpd, onDisk, troubles>>

MpdQueueInit ==
  /\ connection = "none"
  /\ queue = <<>> /\ entry = 0 /\ into = FALSE /\ repeat = FALSE
  /\ onDisk = FirstFiles
  /\ troubles = {}

FilesEver(n) == FirstFiles[n] \cup LaterFiles[n]
-----------------------------------------------------------------------------
(* The order of a directory, and the steps inside a channel *)

\* On every level the files first, then the subdirectories, each in its order.
PlaysBefore(a, b) == a.parent < b.parent \/ (a.parent = b.parent /\ a.name < b.name)

PlayOrder(files) == SetToSortSeq(files, PlaysBefore)

\* Where each unbroken stretch of one directory begins.
RunStarts(files) == {i \in DOMAIN files : i = 1 \/ files[i].parent # files[i - 1].parent}

\* The entry so many steps away, round both ends.
EntryAfter(current, length, steps) ==
  LET start == CASE current # 0 -> current [] steps > 0 -> 0 [] OTHER -> length + 1
  IN  IF length = 0 THEN 0 ELSE ((start + steps - 1) % length) + 1

\* The first file of a directory so many directories away; a step back from
\* inside one is spent on reaching its own first file.
DirectoryJump(files, current, steps) ==
  LET starts == SetToSortSeq(RunStarts(files), <)
      run    == Cardinality({i \in RunStarts(files) : i <= current})
      spent  == IF steps < 0 /\ current \notin RunStarts(files) THEN 1 ELSE 0
  IN  CASE files = <<>> -> 0
      [] current \notin DOMAIN files /\ steps > 0 -> starts[((steps - 1) % Len(starts)) + 1]
      [] current \notin DOMAIN files /\ steps < 0 -> starts[(steps % Len(starts)) + 1]
      [] OTHER -> starts[((run + steps + spent - 1) % Len(starts)) + 1]
-----------------------------------------------------------------------------
(* Places *)

NoFile  == <<>>
NoPlace == <<>>

\* was, the file MPD was in when it was asked, is history only.
PlaceOf(track, deep, file, was) == [track |-> track, into |-> deep, file |-> file, was |-> was]

\* Mutant: a place is where its index is, whatever its name was.
FoundByIndex(place, files) ==
  IF place.track <= Len(files) THEN <<place.track, place.into>> ELSE <<>>

\* The place in the files as they are now: by name, else by index from the
\* start of the file now there; a place with no name by its index.
FoundIn(place, files) ==
  IF <<place.file>> \in {<<f>> : f \in Range(files)}
    THEN <<CHOOSE i \in DOMAIN files : <<files[i]>> = <<place.file>>, place.into>>
  ELSE IF place.track > Len(files) THEN <<>>
  ELSE <<place.track, place.into /\ place.file = NoFile>>

\* Where to start a channel: the entry, and whether into it.
FromTheBeginning == <<1, FALSE>>

WhereToComeBackTo(n, place, files) ==
  CASE place = NoPlace -> FromTheBeginning
  [] n \notin Directories -> <<place.track, place.into>>
  [] OTHER -> IF FoundIn(place, files) = <<>> THEN FromTheBeginning ELSE FoundIn(place, files)
-----------------------------------------------------------------------------
(* An exchange, and what MPD does on its own *)

Trouble(kind) ==
  /\ kind \in Troubles \ troubles /\ Cardinality(troubles) < MaxTroubles
  /\ troubles' = troubles \cup {kind}

\* An exchange that is answered: on the connection there is, or on a new one
\* when none is open or MPD has closed it.
Reached ==
  /\ connection # "cut"
  /\ connection' = IF connection = "behind" THEN "behind" ELSE "open"
  /\ UNCHANGED troubles

\* Whether the answer is the one to the question: after an answer nobody read,
\* it may be that one.
Legible == IF connection = "behind" THEN BOOLEAN ELSE {TRUE}

\* One that is not answered, or not in time: the connection is forgotten.
Fails ==
  /\ connection' = "none"
  /\ IF connection = "cut" THEN UNCHANGED troubles ELSE Trouble("lost")

Cleared == queue' = <<>> /\ entry' = 0 /\ into' = FALSE

\* What an unanswered exchange leaves behind: MPD was gone, and comes back empty.
MpdLost == Cleared /\ UNCHANGED repeat

PlaysOn ==
  /\ entry # 0
  /\ \/ ~into /\ into' = TRUE /\ UNCHANGED entry
     \/ /\ into' = FALSE
        /\ entry' = CASE entry < Len(queue) -> entry + 1
                    [] entry = Len(queue) /\ repeat -> 1
                    [] OTHER -> 0
  /\ UNCHANGED <<queue, repeat, connection, onDisk, troubles>>

IdleTooLong ==
  /\ connection = "open"
  /\ connection' = "gone"
  /\ UNCHANGED <<mpd, onDisk, troubles>>

Restarted ==
  /\ Trouble("restarted")
  /\ Cleared /\ UNCHANGED <<repeat, onDisk>>
  /\ connection' = IF connection = "none" THEN "none" ELSE "gone"

FilesChange ==
  /\ Trouble("changed")
  /\ onDisk' = LaterFiles
  /\ UNCHANGED <<mpd, connection>>
=============================================================================
