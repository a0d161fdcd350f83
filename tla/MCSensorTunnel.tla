--------------------------- MODULE MCSensorTunnel ---------------------------
(* Values of two bytes each. *)
EXTENDS SensorTunnel
CONSTANTS relay, car, far, near
MCByte == {far, near} \X (1 .. 2)
=============================================================================
