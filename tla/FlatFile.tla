------------------------------ MODULE FlatFile ------------------------------
(***************************************************************************)
(* What the memory device of the pod's module promises, with no lists and  *)
(* no quanta: a file in memory.  What was written last in a cell is what   *)
(* is read there; a call may do less than it was asked for; a position     *)
(* below the end at which nothing was ever written may read as anything or *)
(* as the end of the file; opening for writing only empties the file.  The *)
(* memory is not without end: positions Span apart share a cell.           *)
(***************************************************************************)
EXTENDS Integers, Sequences

CONSTANTS Files, Zero, Span, Unwritten

VARIABLES content,  \* what stands in each cell, or Unwritten
          size,
          pos,      \* the position of each open file, -1 if it is closed
          last      \* the last call, and the bytes it has taken or returned

vars == <<content, size, pos, last>>

Cells == 0 .. Span - 1
Cell(p) == p % Span

Empty == [c \in Cells |-> Unwritten]

Nothing == [call |-> "other", bytes |-> <<>>]

Init == /\ content = Empty /\ size = 0
        /\ pos = [f \in Files |-> -1]
        /\ last = Nothing

MovesTo(f, p) == pos' = [pos EXCEPT ![f] = p]

Open(f) == /\ pos[f] = -1 /\ MovesTo(f, 0)
           /\ last' = Nothing
           /\ UNCHANGED <<content, size>>

OpenForWriting(f) == /\ pos[f] = -1 /\ MovesTo(f, 0)
                     /\ content' = Empty /\ size' = 0
                     /\ last' = Nothing

Close(f) == /\ pos[f] # -1 /\ MovesTo(f, -1)
            /\ last' = Nothing
            /\ UNCHANGED <<content, size>>

Seek(f) == /\ pos[f] # -1
           /\ pos'[f] >= 0 /\ MovesTo(f, pos'[f])
           /\ last' = Nothing
           /\ UNCHANGED <<content, size>>

(* bs stand where they were written; the rest is as before. *)
Put(p, bs) == [c \in Cells |-> IF Cell(c - p) + 1 \in DOMAIN bs THEN bs[Cell(c - p) + 1]
                               ELSE content[c]]

Write(f) ==
    /\ pos[f] # -1 /\ last'.call = "write"
    /\ content' = Put(pos[f], last'.bytes)
    /\ MovesTo(f, pos[f] + Len(last'.bytes))
    /\ size' = IF size < pos'[f] THEN pos'[f] ELSE size

(* A write that fails may have stored a part, and zeros behind it. *)
WriteFails(f) ==
    /\ pos[f] # -1
    /\ \/ last' = Nothing /\ UNCHANGED content
       \/ /\ last'.call = "write fails"
          /\ \E k \in 0 .. Len(last'.bytes) :
                content' = Put(pos[f], [i \in DOMAIN last'.bytes |->
                                            IF i <= k THEN last'.bytes[i] ELSE Zero])
    /\ UNCHANGED <<size, pos>>

Read(f) ==
    /\ pos[f] # -1 /\ last'.call = "read"
    /\ IF last'.bytes = <<>>
       THEN pos[f] >= size \/ content[Cell(pos[f])] = Unwritten
       ELSE /\ pos[f] + Len(last'.bytes) <= size
            /\ \A i \in DOMAIN last'.bytes :
                  content[Cell(pos[f] + i - 1)] \in {Unwritten, last'.bytes[i]}
    /\ MovesTo(f, pos[f] + Len(last'.bytes))
    /\ UNCHANGED <<content, size>>

ReadFails(f) ==
    /\ pos[f] # -1
    /\ last' = [call |-> "read fails", bytes |-> <<>>]
    /\ UNCHANGED <<content, size, pos>>

Next == \E f \in Files :
    \/ Open(f) \/ OpenForWriting(f) \/ Close(f) \/ Seek(f)
    \/ Write(f) \/ WriteFails(f) \/ Read(f) \/ ReadFails(f)

Spec == Init /\ [][Next]_vars
=============================================================================
