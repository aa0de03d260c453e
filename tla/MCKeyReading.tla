---------------------------- MODULE MCKeyReading ----------------------------
(* KeyReading with the windows of the code in their order, a few ticks     *)
(* long, and the mixes of keys and of the service's own doing it is        *)
(* checked under.                                                          *)
EXTENDS KeyReading

Windows == <<2, 4>>
HoldsOf == <<3, 4>>

Mix(kinds, doing, times) == [acts |-> kinds, noises |-> doing, noise |-> times]
Three(kinds) == <<kinds, kinds, kinds>>

Presets  == Mix(Three(Awake), {"echo", "volume"}, 2)
Wakes    == Mix(Three({"outside"} \cup Asleep), {"station", "switch", "echo"}, 1)
Gestures == Mix(<<StepKeys, StepKeys, Awake, Awake>>, {"pass"}, 1)
HeldKeys == Mix(Three(StepKeys \cup ThumbKeys), {"pass", "switch"}, 1)
Leaving  == Mix(<<{"DOWN"}, {"DOWN"}, {"outside"}>>, {"select", "unheard"}, 1)
(* A slave's preset, with a station change or a volume write beside it.   *)
SlaveEcho   == {Mix(<<{"slave"}>>, {"echo"}, 1)}
SlaveVolume == {Mix(<<{"slave"}, {"slave"}>>, {"volume"}, 1)}
All      == {Presets, Wakes, Gestures, HeldKeys, Leaving}
=============================================================================
