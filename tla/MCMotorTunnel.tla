--------------------------- MODULE MCMotorTunnel ---------------------------
(* Two commands of two bytes each in a ring of BufSize bytes. *)
EXTENDS MotorTunnel
CONSTANTS relay, car, stop, go, garbage
MCByte == {stop, go} \X (1 .. 2)
=============================================================================
