------------------------------- MODULE Runner -------------------------------
(***************************************************************************)
(* The decision of the car program, car/runner/runner.c: from a distance   *)
(* in cm and the two infrared values to the ioctl on the motor device.     *)
(* mean_diff, which nothing reads, is left out; that computing it divides  *)
(* by zero after 65536 rounds is among the ends of the program in          *)
(* SensorLink.                                                             *)
(***************************************************************************)
EXTENDS Naturals

CONSTANTS AvoidDist,    \* AVOID_DIST
          BackDist      \* BACK_DIST

ASSUME DistancesAssumption == /\ BackDist \in Nat \ {0} /\ AvoidDist \in Nat
                              /\ BackDist < AvoidDist

Directions == {"LEFT", "RIGHT", "FORWARD", "BACKWARD"}

(* Mutant: the test of the distance alone is forgotten. *)
NearWithoutBack(dist, irLeft, irRight) ==
    IF irLeft # 0 /\ irRight # 0 THEN "BACKWARD"
    ELSE IF irLeft # 0 THEN "RIGHT"
    ELSE IF irRight # 0 THEN "LEFT"
    ELSE IF dist = 0 THEN "FORWARD"
    ELSE "LEFT"

(* dist < AVOID_DIST.  The FORWARD of !dist is never reached. *)
Near(dist, irLeft, irRight) ==
    IF (irLeft # 0 /\ irRight # 0) \/ dist < BackDist THEN "BACKWARD"
    ELSE IF irLeft # 0 THEN "RIGHT"
    ELSE IF irRight # 0 THEN "LEFT"
    ELSE IF dist = 0 THEN "FORWARD"
    ELSE "LEFT"

Far(irLeft, irRight) ==
    IF irLeft # 0 /\ irRight # 0 THEN "BACKWARD"
    ELSE IF irLeft # 0 THEN "LEFT"
    ELSE IF irRight # 0 THEN "RIGHT"
    ELSE "FORWARD"

Decide(dist, irLeft, irRight) ==
    IF dist < AvoidDist THEN Near(dist, irLeft, irRight) ELSE Far(irLeft, irRight)
=============================================================================
