----------------------------- MODULE RingBuffer -----------------------------
(***************************************************************************)
(* The pointer arithmetic shared by the two ring drivers of the pod,       *)
(* pod/driver/motor_tun.c and pod/driver/sensor_tun.c.  A pointer into the *)
(* buffer is its offset: dev->buffer is 0 and dev->end is size.  A pointer *)
(* equals size only between its increment and the wrap test behind it.     *)
(* r and w stand for dev->rp and dev->wp.                                  *)
(***************************************************************************)
EXTENDS Integers, Sequences

AtMost(a, b) == IF a < b THEN a ELSE b

(* Mutant: no cell stays empty. *)
SpaceFreeAll(r, w, size) ==
    IF r = w THEN size - 1 ELSE (r + size - w) % size

(* spacefree() *)
SpaceFree(r, w, size) ==
    IF r = w THEN size - 1 ELSE ((r + size - w) % size) - 1

(* How many of the n bytes asked for a read hands out: never across end. *)
ReadCount(r, w, size, n) ==
    AtMost(n, IF w > r THEN w - r ELSE size - r)

(* Mutant: only the end of the buffer bounds a write. *)
WriteCountToEnd(r, w, size, n) == AtMost(n, size - w)

(* How many of the n bytes offered a write takes: one cell stays empty. *)
WriteCount(r, w, size, n) ==
    AtMost(AtMost(n, SpaceFree(r, w, size)),
           IF w >= r THEN size - w ELSE r - w - 1)

(* memcpy(dev->wp, m, ...) *)
Store(b, w, m) ==
    [i \in DOMAIN b |-> IF i - w + 1 \in DOMAIN m THEN m[i - w + 1] ELSE b[i]]

(* The test that follows every increment of a pointer. *)
Wrap(p, size) == IF p = size THEN 0 ELSE p

(* The unread bytes, which no line of the code names: the abstract value   *)
(* of a ring, oldest byte first.                                           *)
Used(r, w, size) == (w + size - r) % size

Contents(b, r, w, size) ==
    [i \in 1 .. Used(r, w, size) |-> b[(r + i - 1) % size]]
=============================================================================
