------------------------------ MODULE MCDrivers ------------------------------
(* Times of 16 values, factor and scale such that a product does and does  *)
(* not fit, and a start from which every echo wraps.                       *)
EXTENDS Sr04
CONSTANTS r1, r2, r3
ThreeReaders == {r1, r2, r3}
=============================================================================
