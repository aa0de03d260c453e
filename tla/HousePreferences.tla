--------------------------- MODULE HousePreferences ---------------------------
(***************************************************************************)
(* The five settings a person may change while the service runs: the rule  *)
(* for a stored value (domain/preferences.py), the rows of the database    *)
(* (adapters/files/house_preferences.py), the commands that write them     *)
(* (adapters/cli/service/prefs_cmd.py), and the service that reads them    *)
(* again at every poll (application/zone_service/preferences.py).          *)
(*                                                                         *)
(* A row is a name and a JSON text; a text is modelled by what it decodes  *)
(* to.  Seconds are counted in tenths.  Who set a value, and when, is only *)
(* shown and is left out.                                                  *)
(***************************************************************************)
EXTENDS Integers, SequencesExt

CONSTANTS
  Base,         \* per preference: what the configuration says
  FirstRows,    \* what the database may hold when the service starts
  Typed,        \* what a person may write, at the command line or by hand: [name, text]
  Measured      \* what a calibration may measure: [window, hold]

VARIABLES
  rows,         \* the stored rows
  answer,       \* the rows the watch has been given and not taken yet, or NoAnswer
  taken,        \* _preference_rows
  inUse,        \* _preferences
  dialNumbers,  \* _dial_numbers_wanted, or NoNumbers
  inForce,      \* what the dialler and the hold rule run on
  gesture,      \* somebody dials or holds a key
  calibration   \* "none", or "stored": written and not read back

prefVars == <<rows, answer, taken, inUse, dialNumbers, inForce, gesture, calibration>>

PreferenceNames == {"window", "hold", "rewind", "fade", "consoles"}
NoAnswer  == <<>>
NoNumbers == <<>>

IsAPreference(name) == name \in PreferenceNames

\* A syntax error, digits without end, nesting without end: broken all the same.
Decodes(text) == text.json # "broken"

Bounds(name) ==
  CASE name = "window" -> 5 .. 20
    [] name = "hold"   -> 10 .. 20
    [] name = "fade"   -> 0 .. 50
    [] OTHER           -> Nat

\* Whatever is no finite number (true, text, NaN) is refused, whatever the preference.
IsNumber(name, text) == text.json = "number" /\ text.n \in Bounds(name)

\* Twelve hex digits of either case, held in upper case; one that is not refuses the list.
AreDeviceIds(text) == text.json = "list" /\ \A i \in DOMAIN text.items : text.items[i].hex # "none"

NormalizedDeviceId(item) == item.hex

Accepted(name, text) == IF name = "consoles" THEN AreDeviceIds(text) ELSE IsNumber(name, text)

Checked(name, text) ==
  IF name = "consoles" THEN [i \in DOMAIN text.items |-> NormalizedDeviceId(text.items[i])] ELSE text.n

\* A row of no preference, of no JSON, or of a value the preference cannot hold costs that one value.
Stored(stored) ==
  {r \in stored : IsAPreference(r.name) /\ Decodes(r.text) /\ Accepted(r.name, r.text)}

Resolved(stored) ==
  [name \in PreferenceNames |->
     LET usable == {r \in Stored(stored) : r.name = name} IN
     IF usable = {} THEN Base[name] ELSE Checked(name, (CHOOSE r \in usable : TRUE).text)]

-----------------------------------------------------------------------------
(* The rows. *)

Written(name, value) ==
  IF name = "consoles" THEN [json |-> "list", items |-> [i \in DOMAIN value |-> [hex |-> value[i], upper |-> TRUE]]]
  ELSE [json |-> "number", n |-> value]

WithRow(stored, name, text) == {r \in stored : r.name # name} \cup {[name |-> name, text |-> text]}

WithoutRow(stored, name) == {r \in stored : r.name # name}

\* Checked before anything is opened: a refused set writes nothing.
CliSet(name, text) ==
  /\ IsAPreference(name) /\ Decodes(text) /\ Accepted(name, text)
  /\ rows' = WithRow(rows, name, Written(name, Checked(name, text)))
  /\ UNCHANGED <<answer, taken, inUse, dialNumbers, inForce, gesture, calibration>>

CliUnset(name) ==
  /\ \E r \in rows : r.name = name
  /\ rows' = WithoutRow(rows, name)
  /\ UNCHANGED <<answer, taken, inUse, dialNumbers, inForce, gesture, calibration>>

\* Written into the table by hand, past every check.
EditedByHand(name, text) ==
  /\ rows' = WithRow(rows, name, text)
  /\ UNCHANGED <<answer, taken, inUse, dialNumbers, inForce, gesture, calibration>>

-----------------------------------------------------------------------------
(* The service. *)

DialNumbersOf(preferences) == <<preferences.window, preferences.hold>>

DialNumbersAsked(before, after) ==
  IF DialNumbersOf(after) # DialNumbersOf(before) THEN DialNumbersOf(after) ELSE NoNumbers

ConsolesOf(preferences) == ToSet(preferences.consoles)

Take(stored) ==
  LET after == Resolved(stored)
      asked == DialNumbersAsked(inUse, after)
  IN /\ taken' = stored /\ inUse' = after
     /\ dialNumbers' = IF asked = NoNumbers THEN dialNumbers ELSE asked

\* The store answers in the order it is asked.  A poll that fails, or finds what was taken, does nothing.
WatchReads ==
  /\ answer = NoAnswer /\ rows # taken
  /\ answer' = <<rows>>
  /\ UNCHANGED <<rows, taken, inUse, dialNumbers, inForce, gesture, calibration>>

WatchTakes ==
  /\ answer # NoAnswer /\ answer' = NoAnswer
  /\ IF answer # <<taken>> THEN Take(answer[1]) ELSE UNCHANGED <<taken, inUse, dialNumbers>>
  /\ UNCHANGED <<rows, inForce, gesture, calibration>>

\* Both numbers in one write, or only the window; a refused write stores neither.
CalibrationIsStored(measured) ==
  /\ calibration = "none" /\ ~gesture
  /\ LET window == WithRow(rows, "window", Written("window", measured.window)) IN
     rows' = IF measured.hold = 0 THEN window ELSE WithRow(window, "hold", Written("hold", measured.hold))
  /\ calibration' = "stored"
  /\ UNCHANGED <<answer, taken, inUse, dialNumbers, inForce, gesture>>

\* Read back, or left to the watch.
CalibrationIsRead ==
  /\ calibration = "stored" /\ answer = NoAnswer
  /\ calibration' = "none"
  /\ Take(rows) \/ UNCHANGED <<taken, inUse, dialNumbers>>
  /\ UNCHANGED <<rows, answer, inForce, gesture>>

SettleTheDialNumbers ==
  /\ dialNumbers # NoNumbers /\ ~gesture /\ calibration = "none"
  /\ inForce' = dialNumbers /\ dialNumbers' = NoNumbers
  /\ UNCHANGED <<rows, answer, taken, inUse, gesture, calibration>>

\* Nobody dials while the dialling worker keeps a calibration: what is pressed waits.
Gesture ==
  /\ calibration = "none" /\ gesture' = ~gesture
  /\ UNCHANGED <<rows, answer, taken, inUse, dialNumbers, inForce, calibration>>

PrefInit ==
  /\ rows \in FirstRows /\ taken = rows /\ inUse = Resolved(rows)
  /\ answer = NoAnswer /\ dialNumbers = NoNumbers /\ inForce = DialNumbersOf(inUse)
  /\ gesture = FALSE /\ calibration = "none"
-----------------------------------------------------------------------------
\* The window and the hold in force are those of the preferences the service uses, or those are on
\* their way: a change taken back while somebody is still dialling leaves neither the change nor
\* half of it behind (what_a_take_asks, _settle_the_dial_numbers).
NumbersAreThePreferredOnes ==
  DialNumbersOf(inUse) = IF dialNumbers = NoNumbers THEN inForce ELSE dialNumbers
=============================================================================
