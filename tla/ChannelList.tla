----------------------------- MODULE ChannelList -----------------------------
(***************************************************************************)
(* The channels a house can dial (domain/channellist.py).  A number is a   *)
(* sequence of the digits 1 to 6, for there is no other key; numbers stand *)
(* in dialling order, which counts in that alphabet without a zero.        *)
(***************************************************************************)
EXTENDS Integers, SequencesExt

Digits == 1 .. 6

Dialable(number) == number # <<>> /\ \A i \in DOMAIN number : number[i] \in Digits

LadderIndex(number) == FoldLeft(LAMBDA index, digit : index * 6 + digit, 0, number)

NthNumber[n \in Nat] ==
  IF n = 0 THEN <<>>
  ELSE LET last == IF n % 6 = 0 THEN 6 ELSE n % 6 IN Append(NthNumber[(n - last) \div 6], last)

\* A list is a set of channels, no two of one number: [number, rotates, url].
NumbersOf(list) == {c.number : c \in list}

ByNumber(list, number) == CHOOSE c \in list : c.number = number

NumbersInOrder(numbers) == SetToSortSeq(numbers, LAMBDA a, b : LadderIndex(a) < LadderIndex(b))

RotationNumbers(list) == NumbersInOrder({c.number : c \in {d \in list : d.rotates}})

\* How many of the rotation stand before a number; a number nowhere stands before all.
HowManyComeBefore(list, number) ==
  IF number \notin NumbersOf(list) THEN 0
  ELSE Cardinality({c \in list : c.rotates /\ LadderIndex(c.number) < LadderIndex(number)})

StepFrom(rotation, list, current, steps) ==
  LET before == HowManyComeBefore(list, current)
      offset == IF current \in ToSet(rotation)
                THEN (CHOOSE i \in DOMAIN rotation : rotation[i] = current) - 1 + steps
                ELSE IF steps > 0 THEN before + steps - 1 ELSE before + steps
  IN rotation[(offset % Len(rotation)) + 1]

StepOf(list, current, steps) ==
  IF RotationNumbers(list) = <<>> THEN current ELSE StepFrom(RotationNumbers(list), list, current, steps)

WithChannel(list, channel) == {c \in list : c.number # channel.number} \cup {channel}

WithRotation(list, number, rotates) ==
  IF number \in NumbersOf(list) THEN WithChannel(list, [ByNumber(list, number) EXCEPT !.rotates = rotates]) ELSE list

\* What a box has on its keys, per key a url or nothing there; a bare path is no url.
Fetched == {"http", "orion"}
Refused(presets) == \E n \in DOMAIN presets : presets[n] \notin Fetched \cup {"none"}

\* A key with nothing on it leaves a hole.
SeedFromPresets(presets) ==
  {[number |-> <<n>>, rotates |-> TRUE, url |-> presets[n]] : n \in {k \in DOMAIN presets : presets[k] # "none"}}
=============================================================================
