---------------------------- MODULE MCSensorLink ----------------------------
(* Distances without an echo, below and above the two thresholds; the      *)
(* largest leaves zeros in the sensor server's buffer.                     *)
EXTENDS SensorLink
LeftOnly == {<<1, 0>>}
NoDevice == {{}, {<<"runner", "sr04">>}, {<<"relay", "left">>}}
EveryDevice == {{}}
=============================================================================
