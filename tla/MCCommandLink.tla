--------------------------- MODULE MCCommandLink ---------------------------
(* One move and STOP; a read of RealCarRunner holds a line and most of the *)
(* next, as its 100 bytes do of lines of 56.                               *)
EXTENDS CommandLink
CONSTANTS forward
=============================================================================
