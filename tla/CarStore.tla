------------------------------ MODULE CarStore ------------------------------
(***************************************************************************)
(* The memory device of the pod's module, pod/driver/main.c: a list of     *)
(* quantum sets, each of them an array of quanta, all allocated when a     *)
(* write first needs them.  Everything but llseek happens under the        *)
(* device's semaphore, so that a call is one step; any kmalloc() and any   *)
(* copy may fail.                                                          *)
(***************************************************************************)
EXTENDS Integers, SequencesExt

CONSTANTS Files,        \* the open()s of the device
          Values,       \* the bytes written
          Quantum,      \* car_quantum
          Qset,         \* car_qset
          IntSize,      \* 2^32, the number of values of an int
          MaxCall,      \* bound on the bytes asked for in a call
          MaxPos        \* bound on the positions sought and written

Zero == 0               \* what copy_from_user() leaves behind a fault
Junk == -1              \* what kmalloc() has handed out

ASSUME StoreAssumption ==
    /\ Quantum \in Nat \ {0} /\ Qset \in Nat \ {0} /\ IntSize \in Nat \ {0}
    /\ MaxCall \in Nat \ {0} /\ MaxPos \in Nat
    /\ Values \subseteq Nat /\ Zero \in Values

VARIABLES data,     \* dev->data, as a sequence of arrays, NoArray for NULL
          size,     \* dev->size
          pos,      \* f_pos of each open file, -1 if it is closed
          mode,     \* its access mode
          last      \* the last call, and the bytes it has taken or returned

vars == <<data, size, pos, mode, last>>

NoArray == <<>>
NoQuantum == <<>>

ItemSize == Quantum * Qset

(* The quotient is a long and item an int, which may come out negative;    *)
(* "while (n--)" in car_follow() then counts through all the ints, so that *)
(* either way the walk has as many steps as this.                          *)
Item(p) == (p \div ItemSize) % IntSize
SPos(p) == (p % ItemSize) \div Quantum
QPos(p) == (p % ItemSize) % Quantum

Did(call, bytes) == last' = [call |-> call, bytes |-> bytes]

Bytes == Values \cup {Junk}
Quanta == {NoQuantum} \cup [1 .. Quantum -> Bytes]
TypeOK ==
    /\ data \in Seq({NoArray} \cup [1 .. Qset -> Quanta])
    /\ size \in 0 .. MaxPos + 1
    /\ pos \in [Files -> -1 .. MaxPos + 1]
    /\ mode \in [Files -> {"closed", "r", "w", "rw"}]
    /\ \A f \in Files : pos[f] = -1 <=> mode[f] = "closed"
    /\ last.call \in {"read", "read fails", "write", "write fails", "other"}
    /\ last.bytes \in Seq(Bytes) /\ Len(last.bytes) <= Quantum

Init ==
    /\ data = <<>> /\ size = 0
    /\ pos = [f \in Files |-> -1] /\ mode = [f \in Files |-> "closed"]
    /\ last = [call |-> "other", bytes |-> <<>>]

(* Mutant: dev->size = 0 is forgotten. *)
TrimKeepsSize == data' = <<>> /\ UNCHANGED size

(* car_trim() *)
Trim == data' = <<>> /\ size' = 0

(* car_open() and car_release().  Only O_WRONLY trims. *)
Open(f, m) ==
    /\ mode[f] = "closed"
    /\ mode' = [mode EXCEPT ![f] = m] /\ pos' = [pos EXCEPT ![f] = 0]
    /\ IF m = "w" THEN Trim ELSE UNCHANGED <<data, size>>
    /\ Did("other", <<>>)

Release(f) ==
    /\ mode[f] # "closed"
    /\ mode' = [mode EXCEPT ![f] = "closed"] /\ pos' = [pos EXCEPT ![f] = -1]
    /\ Did("other", <<>>)
    /\ UNCHANGED <<data, size>>

(* car_follow(): the list with n + 1 items, or with as many as there was   *)
(* memory for.                                                             *)
Extended(n) == IF n < Len(data) THEN data ELSE
               data \o [i \in 1 .. n + 1 - Len(data) |-> NoArray]
Stopped(n) == {SubSeq(Extended(n), 1, k) : k \in Len(data) .. n}

(* The quantum of position p, if no part of the way to it is NULL. *)
QuantumAt(ds, p) == IF Item(p) >= Len(ds) \/ ds[Item(p) + 1] = NoArray THEN NoQuantum
                    ELSE ds[Item(p) + 1][SPos(p) + 1]

Least(a, b) == IF a < b THEN a ELSE b

ReadReturns(f, bs) ==
    /\ Did("read", bs)
    /\ pos' = [pos EXCEPT ![f] = @ + Len(bs)]

(* car_read() of count bytes. *)
ReadsAtEnd(f) ==
    /\ mode[f] \in {"r", "rw"} /\ pos[f] >= size
    /\ ReadReturns(f, <<>>)
    /\ UNCHANGED <<data, size, mode>>

Reads(f, count) ==
    /\ mode[f] \in {"r", "rw"} /\ pos[f] < size
    /\ data' \in Stopped(Item(pos[f])) \cup {Extended(Item(pos[f]))}
    /\ LET quantum == QuantumAt(data', pos[f])
           left == Least(Least(count, size - pos[f]), Quantum - QPos(pos[f]))
       IN  IF quantum = NoQuantum
           THEN ReadReturns(f, <<>>)
           ELSE \/ ReadReturns(f, SubSeq(quantum, QPos(pos[f]) + 1, QPos(pos[f]) + left))
                \/ Did("read fails", <<>>) /\ UNCHANGED pos
    /\ UNCHANGED <<size, mode>>

(* car_write(): the array and the quantum that are missing are allocated   *)
(* on the way, the quantum with whatever the memory held.                  *)
WithArray(p) ==
    LET ds == Extended(Item(p)) IN
    IF ds[Item(p) + 1] # NoArray THEN ds
    ELSE [ds EXCEPT ![Item(p) + 1] = [i \in 1 .. Qset |-> NoQuantum]]

WithQuantum(p) ==
    LET ds == WithArray(p) IN
    IF ds[Item(p) + 1][SPos(p) + 1] # NoQuantum THEN ds
    ELSE [ds EXCEPT ![Item(p) + 1][SPos(p) + 1] = [i \in 1 .. Quantum |-> Junk]]

(* The quantum of p with bs from p on. *)
Copied(p, bs) ==
    [WithQuantum(p) EXCEPT ![Item(p) + 1][SPos(p) + 1] =
        [i \in 1 .. Quantum |-> IF i - QPos(p) \in DOMAIN bs THEN bs[i - QPos(p)]
                                ELSE @[i]]]

(* Mutant: also beyond the end of the quantum. *)
RoomOfAll(p, bs) == Len(bs)

Room(p, bs) == Least(Len(bs), Quantum - QPos(p))

(* Mutant: the size is updated behind the label. *)
WritesNoMemoryGrows(f) ==
    /\ mode[f] \in {"w", "rw"}
    /\ data' \in Stopped(Item(pos[f]))
    /\ size' = IF size < pos[f] THEN pos[f] ELSE size
    /\ Did("other", <<>>)
    /\ UNCHANGED <<pos, mode>>

WritesNoMemory(f) ==
    /\ mode[f] \in {"w", "rw"}
    /\ LET p == pos[f] IN
       data' \in Stopped(Item(p))
                 \cup (IF WithArray(p) = Extended(Item(p)) THEN {} ELSE {Extended(Item(p))})
                 \cup (IF WithQuantum(p) = WithArray(p) THEN {} ELSE {WithArray(p)})
    /\ Did("other", <<>>)
    /\ UNCHANGED <<size, pos, mode>>

WritesFault(f, bs, k) ==
    /\ mode[f] \in {"w", "rw"} /\ k < Room(pos[f], bs)
    /\ data' = Copied(pos[f], [i \in 1 .. Room(pos[f], bs) |->
                                  IF i <= k THEN bs[i] ELSE Zero])
    /\ Did("write fails", SubSeq(bs, 1, Room(pos[f], bs)))
    /\ UNCHANGED <<size, pos, mode>>

Writes(f, bs) ==
    /\ mode[f] \in {"w", "rw"}
    /\ LET taken == SubSeq(bs, 1, Room(pos[f], bs)) IN
       /\ data' = Copied(pos[f], taken)
       /\ Did("write", taken)
       /\ pos' = [pos EXCEPT ![f] = @ + Len(taken)]
    /\ size' = IF size < pos'[f] THEN pos'[f] ELSE size
    /\ UNCHANGED mode

(* Mutant: a negative position is accepted. *)
SeeksBefore(f, newpos) ==
    /\ mode[f] # "closed"
    /\ pos' = [pos EXCEPT ![f] = newpos]
    /\ Did("other", <<>>)
    /\ UNCHANGED <<data, size, mode>>

(* car_llseek(), without the semaphore.  Any position can be sought from   *)
(* the start, and the other two ways lead to no other.                     *)
Seeks(f, newpos) ==
    /\ mode[f] # "closed"
    /\ newpos >= 0
    /\ pos' = [pos EXCEPT ![f] = newpos]
    /\ Did("other", <<>>)
    /\ UNCHANGED <<data, size, mode>>

Buffers == UNION {[1 .. n -> Values] : n \in 0 .. MaxCall}

Next == \E f \in Files :
    \/ \E m \in {"r", "w", "rw"} : Open(f, m)
    \/ Release(f)
    \/ ReadsAtEnd(f) \/ \E count \in 1 .. MaxCall : Reads(f, count)
    \/ WritesNoMemory(f)
    \/ \E bs \in Buffers :
          /\ pos[f] + Len(bs) <= MaxPos + 1
          /\ Writes(f, bs) \/ (\E k \in 0 .. MaxCall : WritesFault(f, bs, k))
    \/ \E newpos \in -1 .. MaxPos : Seeks(f, newpos)

Spec == Init /\ [][Next]_vars

-----------------------------------------------------------------------------
(* Positions this far apart have one place in the list. *)
Span == IntSize * ItemSize

(* What stands at position p of the flat file. *)
Unwritten == Junk
At(p) ==
    IF QuantumAt(data, p) = NoQuantum THEN Unwritten
    ELSE QuantumAt(data, p)[QPos(p) + 1]

(* The device keeps the promise of a file in memory of Span cells:         *)
(* whatever allocations and copies fail on the way, no byte is lost,       *)
(* moved, or read as another but the one that far seeks put in its cell.   *)
Flat == INSTANCE FlatFile WITH content <- [c \in 0 .. Span - 1 |-> At(c)]
StoresBytes == Flat!Spec

(* As long as no write has reached Span the list reaches to the end of the *)
(* data, whatever has failed: that is why car_follow(), which a read calls *)
(* too, never allocates for a reader, and why no read ends early because   *)
(* there is no memory.                                                     *)
ListReachesEnd == size < Span => size <= Len(data) * ItemSize

(* A fresh quantum is not cleared.  Its old memory stays beyond the end of *)
(* the data, and nothing below the end is missing, whatever fails, unless  *)
(* a write begins beyond the end, where an llseek() has led it.            *)
Dense == \A p \in 0 .. size - 1 : At(p) # Unwritten
HolesOnlyBehindSeeks ==
    [][ Dense => Dense' \/ \E f \in Files : pos[f] > size /\ size' > size ]_vars
=============================================================================
