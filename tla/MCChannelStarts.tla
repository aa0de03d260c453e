-------------------------- MODULE MCChannelStarts --------------------------
(***************************************************************************)
(* ChannelStarts with a radio channel, a directory that stops at its end   *)
(* and a stored playlist that starts again.  The directory has a file of   *)
(* its own and one in a subdirectory; somebody puts one in front and takes *)
(* the last away, in which an earlier life may have left the directory.    *)
(***************************************************************************)
EXTENDS ChannelStarts

CONSTANTS radio, book, tape

In(n, parent, name) == [channel |-> n, parent |-> parent, name |-> name]

Before1(n) == IF n = book THEN {In(book, 0, 2), In(book, 1, 1)} ELSE {In(tape, 0, 1)}
After1(n)  == IF n = book THEN {In(book, 0, 1), In(book, 0, 2)} ELSE {In(tape, 0, 1)}

FirstFilesHere == [n \in {book, tape} |-> Before1(n)]
LaterFilesHere == [n \in {book, tape} |-> After1(n)]
LeftAtHere     == {PlaceOf(2, TRUE, In(book, 1, 1), In(book, 1, 1))}
GesturesHere   == {[steps |-> 1, held |-> FALSE, at |-> 0], [steps |-> -1, held |-> TRUE, at |-> 0]}
=============================================================================
