-------------------------- MODULE TunnelRingProof --------------------------
(***************************************************************************)
(* Facts about TunnelRing that hold for any clients, any buffer size and   *)
(* any message length: the arithmetic of the ring, and the inductive       *)
(* invariant RingInv, which every step the two drivers share preserves.    *)
(* MotorTunnelProof and SensorTunnelProof add the steps of their driver.   *)
(***************************************************************************)
EXTENDS TunnelRing, FiniteSetTheorems, SequenceTheorems, TLAPS

-----------------------------------------------------------------------------
(* Arithmetic *)

(* The remainder of a number below the divisor is the number itself. *)
LEMMA ModSmall ==
    ASSUME NEW a \in Nat, NEW n \in Nat, a < n
    PROVE  a % n = a
BY SMT

(* The remainder of a number between one and two divisors. *)
LEMMA ModOnce ==
    ASSUME NEW a \in Nat, NEW n \in Nat, n <= a, a < 2 * n
    PROVE  a % n = a - n
BY SMT

(* The quotient and the remainder of a number. *)
LEMMA DivMod ==
    ASSUME NEW a \in Nat, NEW n \in Nat \ {0}
    PROVE  /\ a = (a \div n) * n + (a % n)
           /\ a % n \in 0 .. (n - 1) /\ a \div n \in Nat
BY SMT

(* The slots of n cells do not overlap. *)
LEMMA SlotBefore ==
    ASSUME NEW s \in Nat, NEW q \in Nat, NEW n \in Nat, s < q
    PROVE  s * n + n <= q * n /\ s * n \in Nat /\ q * n \in Nat
BY SMT

LEMMA SlotUnique ==
    ASSUME NEW s \in Nat, NEW q \in Nat, NEW n \in Nat,
           NEW i \in 0 .. (n - 1), NEW j \in 0 .. (n - 1), s * n + i = q * n + j
    PROVE  s = q /\ i = j
<1>1. ~(s < q) /\ ~(q < s)
  BY SlotBefore, SMT
<1>. QED  BY <1>1

LEMMA ModUnique ==
    ASSUME NEW q \in Nat, NEW n \in Nat \ {0}, NEW r \in 0 .. (n - 1)
    PROVE  (q * n + r) % n = r /\ (q * n + r) \div n = q
<1> DEFINE a == q * n + r
<1>1. a \in Nat
  BY SMT
<1>2. /\ a = (a \div n) * n + (a % n)
      /\ a % n \in 0 .. (n - 1) /\ a \div n \in Nat
  BY <1>1, DivMod
<1>. QED  BY <1>2, SlotUnique

(* spacefree() without the remainder, for two different wrapped pointers. *)
LEMMA SpaceFreeValue ==
    ASSUME NEW n \in Nat, NEW r \in 0 .. (n - 1), NEW w \in 0 .. (n - 1), r # w
    PROVE  SpaceFree(r, w, n) = IF r > w THEN r - w - 1 ELSE r + n - w - 1
<1> DEFINE a == r + n - w
<1>1. a \in Nat /\ n \in Nat
  OBVIOUS
<1>2. CASE r > w
  <2>1. n <= a /\ a < 2 * n
    BY <1>2
  <2>2. a % n = a - n
    BY <1>1, <2>1, ModOnce
  <2>. QED  BY <1>2, <2>2 DEF SpaceFree
<1>3. CASE r < w
  <2>1. a < n
    BY <1>3
  <2>2. a % n = a
    BY <1>1, <2>1, ModSmall
  <2>. QED  BY <1>3, <2>2 DEF SpaceFree
<1>. QED  BY <1>2, <1>3

(* A read of wrapped pointers stays inside the buffer. *)
LEMMA ReadStays ==
    ASSUME NEW size \in Nat, NEW r \in 0 .. (size - 1), NEW w \in 0 .. (size - 1),
           NEW n \in Nat
    PROVE  /\ ReadCount(r, w, size, n) \in Nat
           /\ r + ReadCount(r, w, size, n) <= size
BY DEF ReadCount, AtMost

(* A write of wrapped pointers stays inside the buffer and short of rp. *)
LEMMA WriteStays ==
    ASSUME NEW size \in Nat \ {0}, NEW r \in 0 .. (size - 1),
           NEW w \in 0 .. (size - 1), NEW n \in Nat
    PROVE  /\ WriteCount(r, w, size, n) \in Nat
           /\ w + WriteCount(r, w, size, n) <= size
           /\ w < r => w + WriteCount(r, w, size, n) < r
<1>1. SpaceFree(r, w, size) \in Nat
  <2>1. CASE r = w
    BY <2>1 DEF SpaceFree
  <2>2. CASE r # w
    BY <2>2, SpaceFreeValue
  <2>. QED  BY <2>1, <2>2
<1>. QED  BY <1>1 DEF WriteCount, AtMost

(* A function on 1 .. n is a sequence. *)
LEMMA FunctionIsSeq ==
    ASSUME NEW S, NEW n \in Nat, NEW f \in [1 .. n -> S]
    PROVE  f \in Seq(S)
<1>1. f \in UNION {[1 .. k -> S] : k \in Nat}
  OBVIOUS
<1>. QED  BY <1>1, SeqDef, Zenon

LEMMA FunctionLength ==
    ASSUME NEW S, NEW n \in Nat, NEW f \in [1 .. n -> S]
    PROVE  f \in Seq(S) /\ Len(f) = n
<1>1. f \in Seq(S)
  BY FunctionIsSeq
<1>2. Len(f) \in Nat /\ DOMAIN f = 1 .. Len(f)
  BY <1>1, LenProperties
<1>3. DOMAIN f = 1 .. n
  OBVIOUS
<1>4. Len(f) = n
  BY <1>2, <1>3
<1>. QED  BY <1>1, <1>4

-----------------------------------------------------------------------------
(* The inductive invariant *)

(* A pointer stands at the end of the buffer only until its thread wraps it. *)
PointersWrapped ==
    /\ rp = BufSize => \E t \in Threads : pc[t] = "rd_up"
    /\ wp = BufSize => \E t \in Threads : pc[t] = "wr_up"

(* Whoever is in the driver has a file, or is opening one. *)
CallersHaveFiles == \A t \in Threads : pc[t] # "idle" => mode[t] # {}

RingInv ==
    /\ TypeOK
    /\ MutualExclusion
    /\ PointersWrapped
    /\ CallersHaveFiles
    /\ BufferHeld

Readers == {t \in OpenFiles : "r" \in mode[t]}
Writers == {t \in OpenFiles : "w" \in mode[t]}

(* A step that leaves the ring and every critical section alone. *)
Aside ==
    /\ UNCHANGED <<sem, rp, wp>>
    /\ \A u \in Threads : pc[u] \in Critical \/ pc'[u] \in Critical => pc'[u] = pc[u]

(* A step that opens and closes no file. *)
SameFiles ==
    /\ UNCHANGED <<nreaders, nwriters, allocated>>
    /\ OpenFiles' = OpenFiles
    /\ \A u \in OpenFiles : mode'[u] = mode[u]

(* The initial state satisfies the invariant. *)
LEMMA RingInit == Init => RingInv
<1> SUFFICES ASSUME Init PROVE RingInv
  OBVIOUS
<1> USE SizesAssumption, ThreadsAssumption
<1>1. TypeOK
  <2>1. buf \in [Cells -> Byte \cup {Junk}]
    BY DEF Init, Blank
  <2>2. /\ msg \in [Threads -> Seq(Byte)]
        /\ ubuf \in Seq(Byte \cup {Junk})
    BY DEF Init
  <2>3. rp \in 0 .. BufSize /\ wp \in 0 .. BufSize
    BY DEF Init
  <2>. QED  BY <2>1, <2>2, <2>3 DEF Init, TypeOK
<1>2. MutualExclusion /\ PointersWrapped /\ CallersHaveFiles
  BY DEF Init, MutualExclusion, PointersWrapped, CallersHaveFiles, Critical
<1>3. OpenFiles = {}
  BY DEF Init, OpenFiles
<1>4. BufferHeld
  <2>1. Readers = {} /\ Writers = {}
    BY <1>3 DEF Readers, Writers
  <2>. QED  BY <1>3, <2>1, FS_EmptySet DEF Init, BufferHeld, Readers, Writers
<1>. QED  BY <1>1, <1>2, <1>4 DEF RingInv

(* A step that leaves the critical sections alone excludes as before. *)
LEMMA AsideKeeps ==
    ASSUME MutualExclusion, PointersWrapped, Aside
    PROVE  MutualExclusion' /\ PointersWrapped'
BY DEF MutualExclusion, PointersWrapped, Aside, Critical

(* A step that opens and closes no file leaves the counts right. *)
LEMMA SameFilesKeeps ==
    ASSUME BufferHeld, SameFiles
    PROVE  BufferHeld'
<1>1. Readers' = Readers /\ Writers' = Writers
  BY DEF Readers, Writers, SameFiles
<1>. QED  BY <1>1 DEF BufferHeld, Readers, Writers, SameFiles

-----------------------------------------------------------------------------
(* The calls *)

(* What a thread back in user space looks like. *)
LEMMA ReturnTypes ==
    ASSUME TypeOK, NEW t \in Threads, Return(t)
    PROVE  /\ pc' = [pc EXCEPT ![t] = "idle"]
           /\ (pc \in [Threads -> {"idle", "open", "release", "poll",
                           "read", "rd_wait", "in_inq", "rd_up", "rd_wake",
                           "write", "wr_wait", "in_outq", "wr_up", "wr_wake"}])'
           /\ want' \in [Threads -> ReadSizes \cup {0}]
           /\ msg' \in [Threads -> Seq(Byte)]
<1>1. <<>> \in Seq(Byte)
  OBVIOUS
<1>. QED  BY <1>1 DEF TypeOK, Return

(* Entering the driver preserves the invariant. *)
LEMMA CallsKeep ==
    ASSUME RingInv, NEW t \in Threads, CommonCall(t)
    PROVE  RingInv'
<1> USE DEF RingInv, TypeOK, Goto
<1>1. ASSUME NEW m \in Modes, CallOpen(t, m) PROVE RingInv'
  <2>1. m \in Modes /\ m # {}
    <3>1. m = {"r"} \/ m = {"w"} \/ m = {"r", "w"}
      BY ModesAssumption
    <3>2. "r" \in m \/ "w" \in m
      BY <3>1
    <3>. QED  BY <3>2
  <2>2. TypeOK'
    BY <1>1, <2>1 DEF CallOpen, ringVars, countVars
  <2>3. CallersHaveFiles'
    BY <1>1, <2>1 DEF CallOpen, CallersHaveFiles
  <2>4. Aside
    BY <1>1 DEF CallOpen, Aside, Critical, ringVars
  <2>5. SameFiles
    BY <1>1 DEF CallOpen, SameFiles, OpenFiles, ringVars, countVars
  <2>. QED  BY <2>2, <2>3, <2>4, <2>5, AsideKeeps, SameFilesKeeps
<1>2. CASE CallRelease(t) \/ CallPoll(t)
  <2>1. TypeOK' /\ CallersHaveFiles'
    BY <1>2 DEF CallRelease, CallPoll, CallersHaveFiles, ringVars, countVars
  <2>2. Aside
    BY <1>2 DEF CallRelease, CallPoll, Aside, Critical, ringVars
  <2>3. SameFiles
    BY <1>2 DEF CallRelease, CallPoll, SameFiles, OpenFiles, ringVars, countVars
  <2>. QED  BY <2>1, <2>2, <2>3, AsideKeeps, SameFilesKeeps
<1>3. ASSUME NEW n \in ReadSizes, CallRead(t, n) PROVE RingInv'
  <2>1. TypeOK' /\ CallersHaveFiles'
    BY <1>3 DEF CallRead, CallersHaveFiles, ringVars, countVars
  <2>2. Aside
    BY <1>3 DEF CallRead, Aside, Critical, ringVars
  <2>3. SameFiles
    BY <1>3 DEF CallRead, SameFiles, OpenFiles, ringVars, countVars
  <2>. QED  BY <2>1, <2>2, <2>3, AsideKeeps, SameFilesKeeps
<1>. QED  BY <1>1, <1>2, <1>3 DEF CommonCall

(* A writing call on an open file preserves the invariant. *)
LEMMA CallWriteKeeps ==
    ASSUME RingInv, NEW t \in Threads, NEW m \in Seq(Byte),
           mode[t] # {}, CallWrite(t, m)
    PROVE  RingInv'
<1> USE DEF RingInv, TypeOK, CallWrite
<1>1. TypeOK' /\ CallersHaveFiles'
  BY DEF CallersHaveFiles, ringVars, countVars
<1>2. Aside
  BY DEF Aside, Critical, ringVars
<1>3. SameFiles
  BY DEF SameFiles, OpenFiles, ringVars, countVars
<1>. QED  BY <1>1, <1>2, <1>3, AsideKeeps, SameFilesKeeps

(* A signal preserves the invariant. *)
LEMMA InterruptKeeps ==
    ASSUME RingInv, NEW t \in Threads, Interrupt(t)
    PROVE  RingInv'
<1> USE DEF RingInv, Interrupt
<1>1. Return(t) /\ UNCHANGED <<sem, ringVars, countVars, ubuf>>
  BY DEF OpenFails
<1>2. \/ mode' = mode /\ pc[t] # "open"
      \/ mode' = [mode EXCEPT ![t] = {}] /\ pc[t] = "open"
  BY DEF OpenFails
<1>3. TypeOK'
  BY <1>1, <1>2, ReturnTypes DEF TypeOK, ringVars, countVars
<1>4. CallersHaveFiles'
  BY <1>1, <1>2 DEF TypeOK, Return, CallersHaveFiles
<1>5. Aside
  BY <1>1 DEF TypeOK, Return, Aside, Critical, Interruptible, ringVars
<1>6. SameFiles
  BY <1>1, <1>2 DEF TypeOK, Return, SameFiles, OpenFiles, Interruptible, ringVars, countVars
<1>. QED  BY <1>3, <1>4, <1>5, <1>6, AsideKeeps, SameFilesKeeps

-----------------------------------------------------------------------------
(* The steps inside the driver *)

(* A step that only moves t to a label outside the critical sections, or   *)
(* back to user space, and touches neither ring nor counts.                *)
LEMMA WaitsKeep ==
    ASSUME RingInv, NEW t \in Threads,
           OpenNoMemory(t) \/ Poll(t) \/ ReadEmpty(t) \/ WaitForData(t)
             \/ ReadFault(t) \/ WriteFull(t) \/ WaitForSpace(t)
    PROVE  RingInv'
<1> USE DEF RingInv
<1>1. CASE OpenNoMemory(t)
  <2> USE <1>1 DEF OpenNoMemory, OpenFails
  <2>1. TypeOK'
    BY ReturnTypes DEF TypeOK, ringVars, countVars
  <2>2. CallersHaveFiles'
    BY DEF TypeOK, Return, CallersHaveFiles
  <2>3. Aside
    BY DEF TypeOK, Return, Aside, Critical, ringVars
  <2>4. SameFiles
    BY DEF TypeOK, Return, SameFiles, OpenFiles, ringVars, countVars
  <2>. QED  BY <2>1, <2>2, <2>3, <2>4, AsideKeeps, SameFilesKeeps
<1>2. ASSUME Return(t), UNCHANGED <<mode, sem, ringVars, countVars, ubuf>>,
             pc[t] \in {"poll", "read", "write"}
      PROVE  RingInv'
  <2>1. TypeOK'
    BY <1>2, ReturnTypes DEF TypeOK, ringVars, countVars
  <2>2. CallersHaveFiles'
    BY <1>2 DEF TypeOK, Return, CallersHaveFiles
  <2>3. Aside
    BY <1>2 DEF TypeOK, Return, Aside, Critical, ringVars
  <2>4. SameFiles
    BY <1>2 DEF TypeOK, Return, SameFiles, OpenFiles, ringVars, countVars
  <2>. QED  BY <2>1, <2>2, <2>3, <2>4, AsideKeeps, SameFilesKeeps
<1>3. ASSUME NEW label \in {"rd_wait", "wr_wait", "read", "write", "in_inq", "in_outq"},
             Goto(t, label), UNCHANGED <<sem, ringVars, countVars, ubuf>>,
             pc[t] \in {"read", "write", "rd_wait", "wr_wait"}
      PROVE  RingInv'
  <2>1. TypeOK'
    BY <1>3 DEF TypeOK, Goto, ringVars, countVars
  <2>2. CallersHaveFiles'
    BY <1>3 DEF TypeOK, Goto, CallersHaveFiles
  <2>3. Aside
    BY <1>3 DEF TypeOK, Goto, Aside, Critical, ringVars
  <2>4. SameFiles
    BY <1>3 DEF TypeOK, Goto, SameFiles, OpenFiles, ringVars, countVars
  <2>. QED  BY <2>1, <2>2, <2>3, <2>4, AsideKeeps, SameFilesKeeps
<1>4. CASE Poll(t)
  BY <1>2, <1>4 DEF Poll
<1>5. CASE ReadEmpty(t)
  BY <1>2, <1>3, <1>5 DEF ReadEmpty
<1>6. CASE WaitForData(t)
  BY <1>3, <1>6 DEF WaitForData
<1>7. CASE ReadFault(t)
  BY <1>2, <1>7 DEF ReadFault
<1>8. CASE WriteFull(t)
  BY <1>2, <1>3, <1>8 DEF WriteFull
<1>9. CASE WaitForSpace(t)
  BY <1>3, <1>9 DEF WaitForSpace
<1>. QED  BY <1>1, <1>4, <1>5, <1>6, <1>7, <1>8, <1>9

(* The wake-ups change no critical section and no file. *)
LEMMA WakesKeep ==
    ASSUME RingInv, NEW t \in Threads, ReadWake(t) \/ WriteWake(t)
    PROVE  RingInv'
<1> USE DEF RingInv
<1>1. CASE ReadWake(t)
  <2> USE <1>1 DEF ReadWake
  <2>1. TypeOK'
    BY DEF TypeOK, ringVars, countVars
  <2>2. CallersHaveFiles'
    BY DEF TypeOK, CallersHaveFiles
  <2>3. Aside
    BY DEF TypeOK, Aside, Critical, ringVars
  <2>4. SameFiles
    BY DEF TypeOK, SameFiles, OpenFiles, ringVars, countVars
  <2>. QED  BY <2>1, <2>2, <2>3, <2>4, AsideKeeps, SameFilesKeeps
<1>2. CASE WriteWake(t)
  <2> USE <1>2 DEF WriteWake
  <2>0. <<>> \in Seq(Byte)
    OBVIOUS
  <2>1. TypeOK'
    BY <2>0 DEF TypeOK, ringVars, countVars
  <2>2. CallersHaveFiles'
    BY DEF TypeOK, CallersHaveFiles
  <2>3. Aside
    BY DEF TypeOK, Aside, Critical, ringVars
  <2>4. SameFiles
    BY DEF TypeOK, SameFiles, OpenFiles, ringVars, countVars
  <2>. QED  BY <2>1, <2>2, <2>3, <2>4, AsideKeeps, SameFilesKeeps
<1>. QED  BY <1>1, <1>2

(* Nobody is in a critical section while the semaphore is free, so the     *)
(* pointers are wrapped.                                                   *)
LEMMA FreeMeansWrapped ==
    ASSUME RingInv, sem = 1
    PROVE  /\ rp \in 0 .. (BufSize - 1)
           /\ wp \in 0 .. (BufSize - 1)
           /\ \A u \in Threads : pc[u] \notin Critical
BY SizesAssumption
   DEF RingInv, TypeOK, MutualExclusion, PointersWrapped, Critical

(* The first half of a read, from down() to the increment of rp. *)
LEMMA ReadCopyKeeps ==
    ASSUME RingInv, NEW t \in Threads, ReadCopy(t)
    PROVE  RingInv'
<1> USE DEF ReadCopy, Goto
<1> DEFINE n == ReadCount(rp, wp, BufSize, want[t])
<1>1. /\ rp \in 0 .. (BufSize - 1)
      /\ wp \in 0 .. (BufSize - 1)
      /\ \A u \in Threads : pc[u] \notin Critical
  BY FreeMeansWrapped
<1>2. n \in Nat /\ rp + n <= BufSize
  <2>1. want[t] \in ReadSizes \cup {0}
    BY DEF RingInv, TypeOK
  <2>2. BufSize \in Nat
    BY SizesAssumption
  <2>3. ReadSizes \cup {0} \subseteq Nat
    BY SizesAssumption
  <2>4. want[t] \in Nat
    BY <2>1, <2>3
  <2>. QED  BY <1>1, <2>2, <2>4, ReadStays
<1>3. TypeOK'
  <2>1. rp' \in 0 .. BufSize
    BY <1>1, <1>2
  <2>2. ubuf' \in Seq(Byte \cup {Junk})
    <3>1. \A i \in 1 .. n : rp + i - 1 \in Cells
      BY <1>1, <1>2, SizesAssumption DEF Cells
    <3>2. \A i \in 1 .. n : buf[rp + i - 1] \in Byte \cup {Junk}
      BY <3>1 DEF RingInv, TypeOK
    <3>3. ubuf' \in [1 .. n -> Byte \cup {Junk}]
      BY <3>2
    <3>. QED  BY <1>2, <3>3, FunctionIsSeq
  <2>. QED  BY <2>1, <2>2 DEF RingInv, TypeOK, countVars
<1>4. MutualExclusion'
  BY <1>1 DEF RingInv, TypeOK, MutualExclusion, Critical
<1>5. PointersWrapped'
  BY <1>1 DEF RingInv, TypeOK, PointersWrapped
<1>6. CallersHaveFiles'
  BY DEF RingInv, TypeOK, CallersHaveFiles
<1>7. SameFiles
  BY DEF RingInv, TypeOK, SameFiles, OpenFiles, countVars
<1>. QED  BY <1>3, <1>4, <1>5, <1>6, <1>7, SameFilesKeeps DEF RingInv

(* The first half of a writing call, from down() to the increment of wp. *)
LEMMA WriteCopyKeeps ==
    ASSUME RingInv, NEW t \in Threads, CanWrite(t), WriteCopy(t)
    PROVE  RingInv'
<1> USE DEF CanWrite, WriteCopy, Goto
<1>1. /\ rp \in 0 .. (BufSize - 1)
      /\ wp \in 0 .. (BufSize - 1)
      /\ \A u \in Threads : pc[u] \notin Critical
  BY FreeMeansWrapped
<1>2. Room \in Nat /\ wp + Room <= BufSize
  BY <1>1, SizesAssumption, WriteStays DEF Room
<1>3. TypeOK'
  <2> DEFINE m == SubSeq(msg[t], 1, AtMost(Room, Len(msg[t])))
  <2>1. wp' \in 0 .. BufSize
    BY <1>1, <1>2
  <2>2. m \in Seq(Byte)
    <3>1. msg[t] \in Seq(Byte)
      BY DEF RingInv, TypeOK
    <3>. QED  BY <1>2, <3>1 DEF AtMost
  <2>3. buf' \in [Cells -> Byte \cup {Junk}]
    <3>1. \A i \in DOMAIN m : m[i] \in Byte
      BY <2>2
    <3>2. buf \in [Cells -> Byte \cup {Junk}]
      BY DEF RingInv, TypeOK
    <3>. QED  BY <3>1, <3>2 DEF Store
  <2>. QED  BY <2>1, <2>3 DEF RingInv, TypeOK, countVars
<1>4. MutualExclusion'
  BY <1>1 DEF RingInv, TypeOK, MutualExclusion, Critical
<1>5. PointersWrapped'
  BY <1>1 DEF RingInv, TypeOK, PointersWrapped
<1>6. CallersHaveFiles'
  BY DEF RingInv, TypeOK, CallersHaveFiles
<1>7. SameFiles
  BY DEF RingInv, TypeOK, SameFiles, OpenFiles, countVars
<1>. QED  BY <1>3, <1>4, <1>5, <1>6, <1>7, SameFilesKeeps DEF RingInv

(* The second half of both: the wrap and up(). *)
LEMMA UpsKeep ==
    ASSUME RingInv, NEW t \in Threads, ReadUp(t) \/ WriteUp(t)
    PROVE  RingInv'
<1> USE DEF Goto
<1>1. pc[t] \in Critical /\ sem = 0
  BY DEF RingInv, TypeOK, MutualExclusion, ReadUp, WriteUp, Critical
<1>2. \A u \in Threads : u # t => pc[u] \notin Critical
  BY <1>1 DEF RingInv, MutualExclusion
<1>3. CASE ReadUp(t)
  <2> USE <1>3 DEF ReadUp
  <2>1. rp' \in 0 .. (BufSize - 1) /\ wp \in 0 .. (BufSize - 1)
    BY <1>2, SizesAssumption DEF RingInv, TypeOK, PointersWrapped, Critical, Wrap
  <2>2. TypeOK'
    <3>1. <<>> \in Seq(Byte \cup {Junk})
      OBVIOUS
    <3>2. sem' = 1 /\ rp' \in 0 .. BufSize
      BY <1>1, <2>1, SizesAssumption
    <3>. QED  BY <3>1, <3>2 DEF RingInv, TypeOK, countVars
  <2>3. MutualExclusion'
    BY <1>1, <1>2 DEF RingInv, TypeOK, MutualExclusion, Critical
  <2>4. PointersWrapped'
    BY <2>1, SizesAssumption DEF PointersWrapped
  <2>5. CallersHaveFiles'
    BY DEF RingInv, TypeOK, CallersHaveFiles
  <2>6. SameFiles
    BY DEF RingInv, TypeOK, SameFiles, OpenFiles, countVars
  <2>. QED  BY <2>2, <2>3, <2>4, <2>5, <2>6, SameFilesKeeps DEF RingInv
<1>4. CASE WriteUp(t)
  <2> USE <1>4 DEF WriteUp
  <2>1. wp' \in 0 .. (BufSize - 1) /\ rp \in 0 .. (BufSize - 1)
    BY <1>2, SizesAssumption DEF RingInv, TypeOK, PointersWrapped, Critical, Wrap
  <2>2. TypeOK'
    <3>1. sem' = 1 /\ wp' \in 0 .. BufSize
      BY <1>1, <2>1, SizesAssumption
    <3>. QED  BY <3>1 DEF RingInv, TypeOK, countVars
  <2>3. MutualExclusion'
    BY <1>1, <1>2 DEF RingInv, TypeOK, MutualExclusion, Critical
  <2>4. PointersWrapped'
    BY <2>1, SizesAssumption DEF PointersWrapped
  <2>5. CallersHaveFiles'
    BY DEF RingInv, TypeOK, CallersHaveFiles
  <2>6. SameFiles
    BY DEF RingInv, TypeOK, SameFiles, OpenFiles, countVars
  <2>. QED  BY <2>2, <2>3, <2>4, <2>5, <2>6, SameFilesKeeps DEF RingInv
<1>. QED  BY <1>3, <1>4

-----------------------------------------------------------------------------
(* open and release: the counts *)

(* Every open file is counted at least once. *)
LEMMA FilesCounted ==
    ASSUME NEW F \in SUBSET Threads,
           NEW md \in [Threads -> Modes \cup {{}}],
           \A u \in F : md[u] # {}
    PROVE  F = {} <=> /\ {u \in F : "r" \in md[u]} = {}
                      /\ {u \in F : "w" \in md[u]} = {}
<1>1. ASSUME NEW u \in F PROVE "r" \in md[u] \/ "w" \in md[u]
  <2>1. md[u] = {"r"} \/ md[u] = {"w"} \/ md[u] = {"r", "w"}
    BY ModesAssumption
  <2>. QED  BY <2>1
<1>. QED  BY <1>1

(* The size of a finite set, one element more or less. *)
LEMMA CountOne ==
    ASSUME NEW S, IsFiniteSet(S), NEW t
    PROVE  /\ Cardinality(S) \in Nat
           /\ Cardinality(S) = 0 <=> S = {}
           /\ t \notin S => Cardinality(S \cup {t}) = Cardinality(S) + 1
           /\ t \in S => Cardinality(S \ {t}) = Cardinality(S) - 1
BY FS_CardinalityType, FS_EmptySet, FS_AddElement, FS_RemoveElement

(* There are finitely many open files. *)
LEMMA FilesFinite == IsFiniteSet(Readers) /\ IsFiniteSet(Writers)
<1>1. Readers \subseteq Threads /\ Writers \subseteq Threads
  BY DEF Readers, Writers, OpenFiles
<1>. QED  BY <1>1, ThreadsAssumption, FS_Subset

(* A successful open preserves the invariant. *)
LEMMA OpenKeeps ==
    ASSUME RingInv, NEW t \in Threads, Open(t)
    PROVE  RingInv'
<1> USE DEF Open
<1>1. mode[t] # {} /\ t \notin OpenFiles
  BY DEF RingInv, CallersHaveFiles, OpenFiles
<1>2. OpenFiles' = OpenFiles \cup {t}
  BY <1>1 DEF RingInv, TypeOK, Return, OpenFiles
<1>3. /\ Readers' = IF "r" \in mode[t] THEN Readers \cup {t} ELSE Readers
      /\ Writers' = IF "w" \in mode[t] THEN Writers \cup {t} ELSE Writers
  BY <1>2 DEF Readers, Writers
<1>4. nreaders = Cardinality(Readers) /\ nwriters = Cardinality(Writers)
  BY DEF RingInv, BufferHeld, Readers, Writers
<1>5. nreaders' = Cardinality(Readers') /\ nreaders' \in Nat
  <2>1. t \notin Readers
    BY <1>1 DEF Readers
  <2>2. /\ Cardinality(Readers) \in Nat
        /\ Cardinality(Readers \cup {t}) = Cardinality(Readers) + 1
    BY <2>1, CountOne, FilesFinite
  <2>. QED  BY <1>3, <1>4, <2>2
<1>6. nwriters' = Cardinality(Writers') /\ nwriters' \in Nat
  <2>1. t \notin Writers
    BY <1>1 DEF Writers
  <2>2. /\ Cardinality(Writers) \in Nat
        /\ Cardinality(Writers \cup {t}) = Cardinality(Writers) + 1
    BY <2>1, CountOne, FilesFinite
  <2>. QED  BY <1>3, <1>4, <2>2
<1>7. BufferHeld'
  BY <1>2, <1>5, <1>6 DEF BufferHeld, Readers, Writers
<1>8. TypeOK'
  <2>1. 0 \in 0 .. BufSize
    BY SizesAssumption
  <2>. QED  BY <1>5, <1>6, <2>1, ReturnTypes DEF RingInv, TypeOK
<1>9. MutualExclusion'
  BY DEF RingInv, TypeOK, Return, MutualExclusion, Critical
<1>10. PointersWrapped'
  BY SizesAssumption DEF PointersWrapped
<1>11. CallersHaveFiles'
  BY DEF RingInv, TypeOK, Return, CallersHaveFiles
<1>. QED  BY <1>7, <1>8, <1>9, <1>10, <1>11 DEF RingInv

(* A close preserves the invariant, the last one included. *)
LEMMA ReleaseKeeps ==
    ASSUME RingInv, NEW t \in Threads, Release(t)
    PROVE  RingInv'
<1> USE DEF Release
<1>1. t \in OpenFiles
  BY DEF RingInv, CallersHaveFiles, OpenFiles
<1>2. OpenFiles' = OpenFiles \ {t}
  BY DEF RingInv, TypeOK, Return, OpenFiles
<1>3. /\ Readers' = IF "r" \in mode[t] THEN Readers \ {t} ELSE Readers
      /\ Writers' = IF "w" \in mode[t] THEN Writers \ {t} ELSE Writers
  BY <1>2 DEF RingInv, TypeOK, OpenFiles, Readers, Writers
<1>4. nreaders = Cardinality(Readers) /\ nwriters = Cardinality(Writers)
  BY DEF RingInv, BufferHeld, Readers, Writers
<1>5. IsFiniteSet(Readers') /\ IsFiniteSet(Writers')
  BY <1>3, FilesFinite, FS_RemoveElement
<1>6. nreaders' = Cardinality(Readers') /\ nreaders' \in Nat
  <2>1. "r" \in mode[t] => t \in Readers
    BY <1>1 DEF Readers
  <2>2. nreaders' = Cardinality(Readers')
    <3>1. /\ Cardinality(Readers) \in Nat
          /\ t \in Readers => Cardinality(Readers \ {t}) = Cardinality(Readers) - 1
      BY CountOne, FilesFinite
    <3>. QED  BY <1>3, <1>4, <2>1, <3>1
  <2>. QED  BY <1>5, <2>2, FS_CardinalityType
<1>7. nwriters' = Cardinality(Writers') /\ nwriters' \in Nat
  <2>1. "w" \in mode[t] => t \in Writers
    BY <1>1 DEF Writers
  <2>2. nwriters' = Cardinality(Writers')
    <3>1. /\ Cardinality(Writers) \in Nat
          /\ t \in Writers => Cardinality(Writers \ {t}) = Cardinality(Writers) - 1
      BY CountOne, FilesFinite
    <3>. QED  BY <1>3, <1>4, <2>1, <3>1
  <2>. QED  BY <1>5, <2>2, FS_CardinalityType
<1>8. TypeOK'
  <2>1. buf' \in [Cells -> Byte \cup {Junk}] /\ allocated' \in BOOLEAN
    BY DEF RingInv, TypeOK, Blank
  <2>2. mode' \in [Threads -> Modes \cup {{}}]
    BY DEF RingInv, TypeOK
  <2>. QED  BY <1>6, <1>7, <2>1, <2>2, ReturnTypes DEF RingInv, TypeOK
<1>9. allocated' <=> OpenFiles' # {}
  <2>1. OpenFiles' = {} <=> Readers' = {} /\ Writers' = {}
    <3>1. \A u \in OpenFiles' : mode'[u] # {}
      BY DEF OpenFiles
    <3>2. OpenFiles' \in SUBSET Threads /\ mode' \in [Threads -> Modes \cup {{}}]
      BY <1>8 DEF OpenFiles, TypeOK
    <3>. QED  BY <3>1, <3>2, FilesCounted DEF Readers, Writers
  <2>2. nreaders' + nwriters' = 0 <=> Readers' = {} /\ Writers' = {}
    <3>1. /\ Cardinality(Readers') = 0 <=> Readers' = {}
          /\ Cardinality(Writers') = 0 <=> Writers' = {}
      BY <1>5, FS_EmptySet
    <3>. QED  BY <1>6, <1>7, <3>1
  <2>3. allocated
    BY <1>1 DEF RingInv, BufferHeld
  <2>. QED  BY <2>1, <2>2, <2>3
<1>10. BufferHeld'
  BY <1>6, <1>7, <1>9 DEF BufferHeld, Readers, Writers
<1>11. Aside
  BY DEF RingInv, TypeOK, Return, Aside, Critical
<1>12. CallersHaveFiles'
  BY DEF RingInv, TypeOK, Return, CallersHaveFiles
<1>. QED  BY <1>8, <1>10, <1>11, <1>12, AsideKeeps DEF RingInv

(* Every step the drivers share preserves the invariant. *)
LEMMA StepsKeep ==
    ASSUME RingInv, NEW t \in Threads, CommonStep(t)
    PROVE  RingInv'
BY WaitsKeep, WakesKeep, ReadCopyKeeps, UpsKeep, OpenKeeps, ReleaseKeeps
   DEF CommonStep

(* So does standing still. *)
LEMMA StutterKeeps ==
    ASSUME RingInv, UNCHANGED vars
    PROVE  RingInv'
BY DEF RingInv, TypeOK, MutualExclusion, PointersWrapped, CallersHaveFiles,
       BufferHeld, OpenFiles, vars, threadVars, ringVars, countVars

-----------------------------------------------------------------------------
(* No reader sleeps over unread bytes *)

(* Going to sleep needs an empty ring, and only a writing call ends that,  *)
(* which has its wake-up ahead of it.                                      *)
LEMMA WakeupStepsKeep ==
    ASSUME RingInv, NoLostWakeup, NEW t \in Threads, CommonStep(t)
    PROVE  NoLostWakeup'
<1> USE DEF RingInv, TypeOK, NoLostWakeup, Return, Goto, OpenFails, ringVars
<1>1. CASE OpenNoMemory(t) \/ Poll(t) \/ ReadEmpty(t) \/ ReadFault(t) \/ WriteFull(t)
  <2>1. rp' = rp /\ wp' = wp
    BY <1>1 DEF OpenNoMemory, Poll, ReadEmpty, ReadFault, WriteFull
  <2>2. \E label \in {"idle", "rd_wait", "wr_wait"} : pc' = [pc EXCEPT ![t] = label]
    BY <1>1 DEF OpenNoMemory, Poll, ReadEmpty, ReadFault, WriteFull
  <2>3. pc[t] \notin {"wr_up", "wr_wake"}
    BY <1>1 DEF OpenNoMemory, Poll, ReadEmpty, ReadFault, WriteFull
  <2>. QED  BY <2>1, <2>2, <2>3
<1>2. CASE WaitForData(t)
  BY <1>2 DEF WaitForData
<1>3. CASE WaitForSpace(t)
  BY <1>3 DEF WaitForSpace
<1>4. CASE Open(t)
  BY <1>4 DEF Open
<1>5. CASE Release(t)
  BY <1>5 DEF Release
<1>6. CASE ReadCopy(t)
  BY <1>6 DEF ReadCopy
<1>7. CASE ReadUp(t)
  <2>1. wp # BufSize
    BY <1>7 DEF ReadUp, MutualExclusion, PointersWrapped, Critical
  <2>. QED  BY <1>7, <2>1 DEF ReadUp, Wrap
<1>8. CASE ReadWake(t)
  BY <1>8 DEF ReadWake
<1>9. CASE WriteUp(t)
  BY <1>9 DEF WriteUp
<1>10. CASE WriteWake(t)
  BY <1>10 DEF WriteWake
<1>. QED  BY <1>1, <1>2, <1>3, <1>4, <1>5, <1>6, <1>7, <1>8, <1>9, <1>10 DEF CommonStep

(* Entering the driver and signals put nobody to sleep and cancel no       *)
(* wake-up.                                                                *)
LEMMA WakeupCallsKeep ==
    ASSUME RingInv, NoLostWakeup, NEW t \in Threads,
           CommonCall(t) \/ Interrupt(t) \/ \E m : CallWrite(t, m)
    PROVE  NoLostWakeup'
<1> USE DEF RingInv, TypeOK, NoLostWakeup, Return, Goto, OpenFails, ringVars
<1>1. CASE CommonCall(t)
  <2>1. rp' = rp /\ wp' = wp
    BY <1>1 DEF CommonCall, CallOpen, CallRelease, CallPoll, CallRead
  <2>2. \E label \in {"open", "release", "poll", "read"} : pc' = [pc EXCEPT ![t] = label]
    BY <1>1 DEF CommonCall, CallOpen, CallRelease, CallPoll, CallRead
  <2>3. pc[t] \notin {"wr_up", "wr_wake"}
    BY <1>1 DEF CommonCall, CallOpen, CallRelease, CallPoll, CallRead
  <2>. QED  BY <2>1, <2>2, <2>3
<1>2. CASE Interrupt(t)
  <2>1. rp' = rp /\ wp' = wp /\ pc' = [pc EXCEPT ![t] = "idle"]
    BY <1>2 DEF Interrupt
  <2>2. pc[t] \notin {"wr_up", "wr_wake"}
    BY <1>2 DEF Interrupt, Interruptible
  <2>. QED  BY <2>1, <2>2
<1>3. CASE \E m : CallWrite(t, m)
  BY <1>3 DEF CallWrite
<1>. QED  BY <1>1, <1>2, <1>3

(* A writing call that moves wp has its wake-up ahead of it.               *)
LEMMA WakeupWriteKeeps ==
    ASSUME RingInv, NEW t \in Threads, CanWrite(t), WriteCopy(t)
    PROVE  NoLostWakeup'
BY DEF RingInv, TypeOK, NoLostWakeup, CanWrite, WriteCopy, Goto

-----------------------------------------------------------------------------
(* The bytes in the ring *)

(* How many they are, without the remainder. *)
LEMMA UsedValue ==
    ASSUME NEW n \in Nat \ {0}, NEW r \in 0 .. (n - 1), NEW w \in 0 .. (n - 1)
    PROVE  Used(r, w, n) = IF w >= r THEN w - r ELSE w + n - r
<1> DEFINE a == w + n - r
<1>1. a \in Nat /\ n \in Nat
  OBVIOUS
<1>2. CASE w >= r
  <2>1. n <= a /\ a < 2 * n
    BY <1>2
  <2>2. a % n = a - n
    BY <1>1, <2>1, ModOnce
  <2>. QED  BY <1>2, <2>2 DEF Used
<1>3. CASE w < r
  <2>1. a < n
    BY <1>3
  <2>2. a % n = a
    BY <1>1, <2>1, ModSmall
  <2>. QED  BY <1>3, <2>2 DEF Used
<1>. QED  BY <1>2, <1>3

(* The cell k cells behind r. *)
Behind(r, k, n) == IF r + k < n THEN r + k ELSE r + k - n

LEMMA BehindValue ==
    ASSUME NEW n \in Nat \ {0}, NEW r \in 0 .. (n - 1), NEW k \in 0 .. (n - 1)
    PROVE  (r + k) % n = Behind(r, k, n) /\ Behind(r, k, n) \in 0 .. (n - 1)
<1> DEFINE a == r + k
<1>1. a \in Nat /\ n \in Nat
  OBVIOUS
<1>2. CASE a < n
  <2>1. a % n = a
    BY <1>1, <1>2, ModSmall
  <2>. QED  BY <1>2, <2>1 DEF Behind
<1>3. CASE n <= a
  <2>1. a < 2 * n
    OBVIOUS
  <2>2. a % n = a - n
    BY <1>1, <1>3, <2>1, ModOnce
  <2>. QED  BY <1>3, <2>1, <2>2 DEF Behind
<1>. QED  BY <1>2, <1>3

(* The buffers of n cells with elements of S. *)
Buffers(n, S) == [0 .. (n - 1) -> S]

(* q is what lies between r and w. *)
HeldBetween(q, b, r, w, n, S) ==
    /\ q \in Seq(S)
    /\ Len(q) = Used(r, w, n)
    /\ Used(r, w, n) \in 0 .. (n - 1)
    /\ \A i \in 1 .. Used(r, w, n) : q[i] = b[Behind(r, i - 1, n)]

(* The contents of a ring with wrapped pointers, byte by byte. *)
LEMMA ContentsValue ==
    ASSUME NEW n \in Nat \ {0}, NEW r \in 0 .. (n - 1), NEW w \in 0 .. (n - 1),
           NEW S, NEW b \in Buffers(n, S)
    PROVE  HeldBetween(Contents(b, r, w, n), b, r, w, n, S)
<1> DEFINE u == Used(r, w, n)
           q == Contents(b, r, w, n)
<1>1. u \in 0 .. (n - 1)
  <2>1. u = IF w >= r THEN w - r ELSE w + n - r
    BY UsedValue
  <2>. QED  BY <2>1
<1>2. \A i \in 1 .. u : (r + i - 1) % n = Behind(r, i - 1, n) /\ Behind(r, i - 1, n) \in 0 .. (n - 1)
  <2>1. ASSUME NEW i \in 1 .. u
        PROVE  (r + i - 1) % n = Behind(r, i - 1, n) /\ Behind(r, i - 1, n) \in 0 .. (n - 1)
    <3>1. i - 1 \in 0 .. (n - 1) /\ r + (i - 1) = r + i - 1
      BY <1>1
    <3>2. (r + (i - 1)) % n = Behind(r, i - 1, n) /\ Behind(r, i - 1, n) \in 0 .. (n - 1)
      BY <3>1, BehindValue
    <3>. QED  BY <3>1, <3>2
  <2>. QED  BY <2>1
<1>3. q = [i \in 1 .. u |-> b[(r + i - 1) % n]]
  BY DEF Contents
<1>4. \A i \in 1 .. u : b[(r + i - 1) % n] \in S
  BY <1>2 DEF Buffers
<1> HIDE DEF u, q
<1>5. q \in [1 .. u -> S]
  BY <1>3, <1>4
<1>6. q \in Seq(S) /\ Len(q) = u
  <2>1. u \in Nat
    BY <1>1
  <2>. QED  BY <1>5, <2>1, FunctionLength
<1>7. \A i \in 1 .. u : q[i] = b[Behind(r, i - 1, n)]
  BY <1>2, <1>3
<1>. QED  BY <1>1, <1>6, <1>7 DEF u, q, HeldBetween

(* The wrap of a pointer is none of the contents' business. *)
LEMMA ContentsWrapped ==
    ASSUME NEW n \in Nat \ {0}, NEW b, NEW w \in 0 .. (n - 1), NEW p \in 0 .. n
    PROVE  /\ Wrap(p, n) \in 0 .. (n - 1)
           /\ Contents(b, p, w, n) = Contents(b, Wrap(p, n), w, n)
           /\ Contents(b, w, p, n) = Contents(b, w, Wrap(p, n), n)
<1>1. Wrap(p, n) \in 0 .. (n - 1)
  BY DEF Wrap
<1>2. CASE p # n
  BY <1>1, <1>2 DEF Wrap
<1>3. CASE p = n
  <2>1. Wrap(p, n) = 0
    BY <1>3 DEF Wrap
  <2>2. ASSUME NEW a \in Nat PROVE (n + a) % n = (0 + a) % n
    <3> DEFINE q == a \div n
               m == a % n
    <3>1. a = q * n + m /\ m \in 0 .. (n - 1) /\ q \in Nat
      BY DivMod
    <3> HIDE DEF q, m
    <3>2. n + a = (q + 1) * n + m /\ q + 1 \in Nat
      BY <3>1, SMT
    <3>3. ((q + 1) * n + m) % n = m
      BY <3>1, <3>2, ModUnique
    <3>4. (0 + a) % n = m
      BY DEF m
    <3>. QED  BY <3>2, <3>3, <3>4
  <2>3. Contents(b, n, w, n) = Contents(b, 0, w, n)
    <3>1. (w + n - n) % n = (w + n - 0) % n
      <4>1. (n + w) % n = (0 + w) % n
        <5>1. w \in Nat
          OBVIOUS
        <5>. QED  BY <2>2, <5>1
      <4>2. w + n - n = 0 + w /\ w + n - 0 = n + w
        OBVIOUS
      <4>. QED  BY <4>1, <4>2
    <3> DEFINE u == (w + n - 0) % n
    <3>2. \A i \in 1 .. u : (n + i - 1) % n = (0 + i - 1) % n
      <4>1. u \in Nat
        BY DivMod
      <4>2. ASSUME NEW i \in 1 .. u PROVE (n + i - 1) % n = (0 + i - 1) % n
        <5>1. i - 1 \in Nat /\ n + i - 1 = n + (i - 1) /\ 0 + i - 1 = 0 + (i - 1)
          BY <4>1
        <5>. QED  BY <2>2, <5>1
      <4>. QED  BY <4>2
    <3>. QED  BY <3>1, <3>2 DEF Contents, Used
  <2>4. Contents(b, w, n, n) = Contents(b, w, 0, n)
    <3>1. (n + n - w) % n = (0 + n - w) % n
      <4>1. n - w \in Nat /\ n + n - w = n + (n - w) /\ 0 + n - w = 0 + (n - w)
        OBVIOUS
      <4>. QED  BY <2>2, <4>1
    <3>. QED  BY <3>1 DEF Contents, Used
  <2>. QED  BY <1>1, <1>3, <2>1, <2>3, <2>4
<1>. QED  BY <1>2, <1>3

(* q without its first k bytes, which lie behind r, is what a read leaves. *)
ReadFrom(q, b, r, w, k, n) ==
    /\ k <= Len(q)
    /\ [i \in 1 .. k |-> b[r + i - 1]] = SubSeq(q, 1, k)
    /\ Contents(b, r + k, w, n) = SubSeq(q, k + 1, Len(q))

(* A read of k bytes hands out the oldest k and leaves the others. *)
LEMMA ContentsRead ==
    ASSUME NEW n \in Nat \ {0}, NEW r \in 0 .. (n - 1), NEW w \in 0 .. (n - 1),
           NEW S, NEW b \in Buffers(n, S), r # w,
           NEW k \in Nat, k <= IF w > r THEN w - r ELSE n - r
    PROVE  ReadFrom(Contents(b, r, w, n), b, r, w, k, n)
<1> DEFINE u == Used(r, w, n)
           q == Contents(b, r, w, n)
           taken == [i \in 1 .. k |-> b[r + i - 1]]
           v == Wrap(r + k, n)
           rest == Contents(b, v, w, n)
<1>1. u = IF w >= r THEN w - r ELSE w + n - r
  BY UsedValue
<1>2. k <= u /\ u \in Nat /\ r + k \in 0 .. n
  BY <1>1
<1>3. q \in Seq(S) /\ Len(q) = u /\ \A i \in 1 .. u : q[i] = b[Behind(r, i - 1, n)] /\ q[i] \in S
  <2>1. HeldBetween(q, b, r, w, n, S)
    BY ContentsValue
  <2>2. q \in Seq(S) /\ Len(q) = u /\ \A i \in 1 .. u : q[i] = b[Behind(r, i - 1, n)]
    BY <2>1 DEF HeldBetween
  <2>. QED  BY <2>2, ElementOfSeq
<1>4. v = (IF r + k = n THEN 0 ELSE r + k) /\ v \in 0 .. (n - 1)
  BY <1>2 DEF Wrap
<1>5. Contents(b, r + k, w, n) = rest
  BY <1>2, ContentsWrapped
<1>6. Used(v, w, n) = u - k
  <2>1. Used(v, w, n) = IF w >= v THEN w - v ELSE w + n - v
    BY <1>4, UsedValue
  <2>. QED  BY <1>1, <1>4, <2>1
<1>7. /\ rest \in Seq(S) /\ Len(rest) = u - k
      /\ \A i \in 1 .. u - k : rest[i] = b[Behind(v, i - 1, n)]
  <2>1. v \in 0 .. (n - 1)
    BY <1>4
  <2> HIDE DEF v
  <2>2. HeldBetween(rest, b, v, w, n, S)
    BY <2>1, ContentsValue
  <2>. QED  BY <1>6, <2>2 DEF HeldBetween
<1> HIDE DEF u, q, v, rest
<1>8. taken = SubSeq(q, 1, k)
  <2>1. /\ SubSeq(q, 1, k) \in Seq(S) /\ Len(SubSeq(q, 1, k)) = k
        /\ \A i \in 1 .. k : SubSeq(q, 1, k)[i] = q[i]
    BY <1>2, <1>3, SubSeqProperties
  <2>2. \A i \in 1 .. k : q[i] = b[r + i - 1] /\ b[r + i - 1] \in S
    BY <1>1, <1>2, <1>3 DEF Behind, Buffers
  <2>3. taken \in [1 .. k -> S]
    BY <2>2
  <2>4. taken \in Seq(S) /\ Len(taken) = k
    <3> HIDE DEF taken
    <3>. QED  BY <2>3, FunctionLength
  <2>5. \A i \in 1 .. k : taken[i] = b[r + i - 1]
    OBVIOUS
  <2> HIDE DEF taken
  <2>. QED  BY <2>1, <2>2, <2>4, <2>5, SeqEqual
<1>9. rest = SubSeq(q, k + 1, Len(q))
  <2> DEFINE t == SubSeq(q, k + 1, u)
  <2>1. /\ t \in Seq(S) /\ Len(t) = u - k
        /\ \A i \in 1 .. u - k : t[i] = q[k + i]
    <3>1. \A i \in k + 1 .. u : q[i] \in S
      BY <1>2, <1>3
    <3>. QED  BY <1>2, <3>1, SubSeqProperties
  <2> HIDE DEF t
  <2>2. ASSUME NEW i \in 1 .. u - k PROVE rest[i] = t[i]
    <3>1. k + i \in 1 .. u /\ q[k + i] = b[Behind(r, k + i - 1, n)]
      BY <1>2, <1>3
    <3>2. Behind(v, i - 1, n) = Behind(r, k + i - 1, n)
      BY <1>1, <1>2, <1>4 DEF Behind
    <3>. QED  BY <1>7, <2>1, <3>1, <3>2
  <2>3. rest = t
    BY <1>7, <2>1, <2>2, SeqEqual
  <2>. QED  BY <1>3, <2>3 DEF t
<1>. QED  BY <1>2, <1>3, <1>5, <1>8, <1>9 DEF q, taken, ReadFrom

(* Two buffers of n cells differ at most in the k cells from w on. *)
SameOutside(b, c, w, k, n) ==
    \A j \in 0 .. (n - 1) : j < w \/ j >= w + k => c[j] = b[j]

(* q with the k bytes from w on behind it is what a write leaves. *)
AppendedTo(q, c, r, w, k, n) ==
    /\ Contents(c, r, w + k, n) = q \o [i \in 1 .. k |-> c[w + i - 1]]
    /\ Len([i \in 1 .. k |-> c[w + i - 1]]) = k
    /\ Len(q) + k < n

(* A write of k bytes that fit appends them to the others. *)
LEMMA ContentsWritten ==
    ASSUME NEW n \in Nat \ {0}, NEW r \in 0 .. (n - 1), NEW w \in 0 .. (n - 1),
           NEW S, NEW b \in Buffers(n, S), NEW c \in Buffers(n, S),
           NEW k \in Nat, w + k <= n, Used(r, w, n) + k < n,
           SameOutside(b, c, w, k, n)
    PROVE  AppendedTo(Contents(b, r, w, n), c, r, w, k, n)
<1> DEFINE u == Used(r, w, n)
           q == Contents(b, r, w, n)
           m == [i \in 1 .. k |-> c[w + i - 1]]
           v == Wrap(w + k, n)
           all == Contents(c, r, v, n)
<1>1. u = IF w >= r THEN w - r ELSE w + n - r
  BY UsedValue
<1>2. u \in Nat /\ u + k < n /\ w + k \in 0 .. n
  BY <1>1
<1>3. q \in Seq(S) /\ Len(q) = u /\ \A i \in 1 .. u : q[i] = b[Behind(r, i - 1, n)]
  <2>1. HeldBetween(q, b, r, w, n, S)
    BY ContentsValue
  <2>. QED  BY <2>1 DEF HeldBetween
<1>4. v = (IF w + k = n THEN 0 ELSE w + k) /\ v \in 0 .. (n - 1)
  BY <1>2 DEF Wrap
<1>5. Contents(c, r, w + k, n) = all
  BY <1>2, ContentsWrapped
<1>6. Used(r, v, n) = u + k
  <2>1. Used(r, v, n) = IF v >= r THEN v - r ELSE v + n - r
    BY <1>4, UsedValue
  <2>. QED  BY <1>1, <1>2, <1>4, <2>1
<1>7. /\ all \in Seq(S) /\ Len(all) = u + k
      /\ \A i \in 1 .. u + k : all[i] = c[Behind(r, i - 1, n)]
  <2>1. v \in 0 .. (n - 1)
    BY <1>4
  <2> HIDE DEF u, q, m, v
  <2>2. HeldBetween(all, c, r, v, n, S)
    BY <2>1, ContentsValue
  <2>. QED  BY <1>6, <2>2 DEF HeldBetween
<1>8. m \in Seq(S) /\ Len(m) = k /\ \A i \in 1 .. k : m[i] = c[w + i - 1]
  <2>1. \A i \in 1 .. k : w + i - 1 \in 0 .. (n - 1)
    BY <1>2
  <2>2. m \in [1 .. k -> S]
    BY <2>1 DEF Buffers
  <2>3. \A i \in 1 .. k : m[i] = c[w + i - 1]
    OBVIOUS
  <2> HIDE DEF m
  <2>. QED  BY <2>2, <2>3, FunctionLength
<1> HIDE DEF u, q, m, v, all
<1>9. /\ q \o m \in Seq(S) /\ Len(q \o m) = u + k
      /\ \A i \in 1 .. u + k : (q \o m)[i] = IF i <= u THEN q[i] ELSE m[i - u]
  BY <1>3, <1>8, ConcatProperties
<1>10. ASSUME NEW i \in 1 .. u + k PROVE all[i] = (q \o m)[i]
  <2>1. CASE i <= u
    <3>1. i \in 1 .. u /\ (q \o m)[i] = b[Behind(r, i - 1, n)]
      BY <1>2, <1>3, <1>9, <2>1
    <3>2. /\ Behind(r, i - 1, n) \in 0 .. (n - 1)
          /\ Behind(r, i - 1, n) < w \/ Behind(r, i - 1, n) >= w + k
      BY <1>1, <1>2, <3>1 DEF Behind
    <3>3. c[Behind(r, i - 1, n)] = b[Behind(r, i - 1, n)]
      BY <3>2 DEF SameOutside
    <3>. QED  BY <1>7, <3>1, <3>3
  <2>2. CASE i > u
    <3>1. i - u \in 1 .. k /\ (q \o m)[i] = c[w + (i - u) - 1]
      BY <1>2, <1>8, <1>9, <2>2
    <3>2. Behind(r, i - 1, n) = w + (i - u) - 1
      BY <1>1, <1>2, <2>2 DEF Behind
    <3>. QED  BY <1>7, <3>1, <3>2
  <2>3. i \in Nat /\ u \in Nat
    BY <1>2
  <2>4. i <= u \/ i > u
    BY <2>3
  <2>. QED  BY <2>1, <2>2, <2>4
<1>11. all = q \o m
  BY <1>7, <1>9, <1>10, SeqEqual
<1>. QED  BY <1>2, <1>3, <1>5, <1>8, <1>11 DEF q, m, AppendedTo

-----------------------------------------------------------------------------
(* What the steps do to the queue of unread bytes *)

Pending == IF allocated THEN Contents(buf, rp, wp, BufSize) ELSE <<>>

(* The steps of TunnelPromise, in terms of the ring. *)
Quiet == Pending' = Pending /\ ubuf' = ubuf /\ OpenFiles' = OpenFiles
Opens(t) ==
    /\ t \in Threads \ OpenFiles /\ OpenFiles' = OpenFiles \cup {t}
    /\ Pending' = <<>> /\ ubuf' = ubuf
Closes(t) ==
    /\ t \in OpenFiles /\ OpenFiles' = OpenFiles \ {t}
    /\ Pending' = (IF OpenFiles' = {} THEN <<>> ELSE Pending) /\ ubuf' = ubuf
Takes(n) ==
    /\ OpenFiles # {} /\ OpenFiles' = OpenFiles
    /\ ubuf' = SubSeq(Pending, 1, n)
    /\ Pending' = SubSeq(Pending, n + 1, Len(Pending))
Hands ==
    /\ OpenFiles' = OpenFiles
    /\ ubuf' = <<>> /\ Pending' = Pending
Appends(m) ==
    /\ OpenFiles # {} /\ OpenFiles' = OpenFiles
    /\ Len(Pending) + Len(m) < BufSize
    /\ Pending' = Pending \o m /\ ubuf' = ubuf

(* Nothing is queued before anybody opens the device. *)
LEMMA InitQueue == Init => Pending = <<>> /\ ubuf = <<>> /\ OpenFiles \subseteq Threads
BY DEF Init, Pending, OpenFiles

(* Calls, signals, waits and wake-ups leave the queue alone. *)
LEMMA CallsAreQuiet ==
    ASSUME RingInv, NEW t \in Threads,
           CommonCall(t) \/ Interrupt(t) \/ \E m : CallWrite(t, m) /\ mode[t] # {}
    PROVE  Quiet
<1> USE DEF RingInv, TypeOK, Quiet, Pending, OpenFiles, ringVars, Return, Goto, OpenFails
<1>1. CASE \E m \in Modes : CallOpen(t, m)
  BY <1>1 DEF CallOpen
<1>2. CASE CallRelease(t) \/ CallPoll(t)
  BY <1>2 DEF CallRelease, CallPoll
<1>3. CASE \E n \in ReadSizes : CallRead(t, n)
  BY <1>3 DEF CallRead
<1>4. CASE Interrupt(t)
  <2>1. CASE pc[t] = "open"
    BY <1>4, <2>1 DEF Interrupt
  <2>2. CASE pc[t] # "open"
    BY <1>4, <2>2 DEF Interrupt
  <2>. QED  BY <2>1, <2>2
<1>5. CASE \E m : CallWrite(t, m) /\ mode[t] # {}
  BY <1>5 DEF CallWrite
<1>. QED  BY <1>1, <1>2, <1>3, <1>4, <1>5 DEF CommonCall

LEMMA WaitsAreQuiet ==
    ASSUME RingInv, NEW t \in Threads,
           \/ OpenNoMemory(t) \/ Poll(t)
           \/ ReadEmpty(t) \/ WaitForData(t) \/ ReadFault(t) \/ ReadWake(t)
           \/ WriteFull(t) \/ WaitForSpace(t) \/ WriteWake(t)
    PROVE  Quiet
<1>1. UNCHANGED ringVars /\ ubuf' = ubuf
  BY DEF OpenNoMemory, Poll, ReadEmpty, WaitForData, ReadFault, ReadWake,
         WriteFull, WaitForSpace, WriteWake
<1>2. OpenFiles' = OpenFiles
  <2> USE DEF RingInv, TypeOK, OpenFiles, Return, Goto, OpenFails
  <2>1. CASE OpenNoMemory(t)
    BY <2>1 DEF OpenNoMemory
  <2>2. CASE Poll(t) \/ ReadFault(t)
    BY <2>2 DEF Poll, ReadFault
  <2>3. CASE ReadEmpty(t) \/ WaitForData(t)
    BY <2>3 DEF ReadEmpty, WaitForData
  <2>4. CASE WriteFull(t) \/ WaitForSpace(t)
    BY <2>4 DEF WriteFull, WaitForSpace
  <2>5. CASE ReadWake(t)
    BY <2>5 DEF ReadWake
  <2>6. CASE WriteWake(t)
    BY <2>6 DEF WriteWake
  <2>. QED  BY <2>1, <2>2, <2>3, <2>4, <2>5, <2>6
<1>. QED  BY <1>1, <1>2 DEF Quiet, Pending, ringVars

(* An open empties the queue, whoever has it open already. *)
LEMMA OpenEmpties ==
    ASSUME RingInv, NEW t \in Threads, Open(t)
    PROVE  Opens(t)
<1>1. Contents(buf', rp', wp', BufSize) = <<>>
  <2>1. Used(0, 0, BufSize) = 0
    <3>1. BufSize \in Nat \ {0} /\ 0 \in 0 .. (BufSize - 1)
      BY SizesAssumption
    <3>. QED  BY <3>1, UsedValue
  <2>2. rp' = 0 /\ wp' = 0
    BY DEF Open
  <2>. QED  BY <2>1, <2>2 DEF Contents
<1>2. t \notin OpenFiles /\ OpenFiles' = OpenFiles \cup {t}
  BY DEF Open, Return, RingInv, TypeOK, CallersHaveFiles, OpenFiles
<1>. QED  BY <1>1, <1>2 DEF Open, Opens, Pending

(* A close empties it if it is the last, and otherwise changes nothing. *)
LEMMA ReleaseCloses ==
    ASSUME RingInv, NEW t \in Threads, Release(t)
    PROVE  Closes(t)
<1>1. t \in OpenFiles
  BY DEF Release, RingInv, CallersHaveFiles, OpenFiles
<1>2. OpenFiles' = OpenFiles \ {t}
  BY DEF Release, RingInv, TypeOK, Return, OpenFiles
<1>3. BufferHeld /\ BufferHeld'
  BY ReleaseKeeps DEF RingInv
<1>4. allocated /\ (allocated' <=> OpenFiles' # {})
  BY <1>1, <1>3 DEF BufferHeld
<1>5. allocated' => buf' = buf
  BY <1>4 DEF Release
<1>6. Pending' = (IF OpenFiles' = {} THEN <<>> ELSE Pending)
  BY <1>4, <1>5 DEF Release, Pending
<1>. QED  BY <1>1, <1>2, <1>6 DEF Closes, Release

(* In the middle of a call the buffer is there. *)
LEMMA CallersHaveBuffer ==
    ASSUME RingInv, NEW t \in Threads, pc[t] \notin {"idle", "open"}
    PROVE  OpenFiles # {} /\ allocated
BY DEF RingInv, CallersHaveFiles, BufferHeld, OpenFiles

(* A read that takes no byte only hands over. *)
LEMMA TakeNothing ==
    ASSUME NEW S, Pending \in Seq(S), Takes(0)
    PROVE  Hands
BY DEF Takes, Hands

(* How many bytes a read takes. *)
Taken(t) == ReadCount(rp, wp, BufSize, want[t])

(* A read takes the oldest bytes. *)
LEMMA ReadTakes ==
    ASSUME RingInv, NEW t \in Threads, ReadCopy(t)
    PROVE  /\ Taken(t) \in 0 .. Len(Pending) /\ Takes(Taken(t))
           /\ Pending \in Seq(Byte \cup {Junk})
<1> DEFINE n == Taken(t)
           q == Contents(buf, rp, wp, BufSize)
<1>1. /\ rp \in 0 .. (BufSize - 1) /\ wp \in 0 .. (BufSize - 1)
      /\ buf \in Buffers(BufSize, Byte \cup {Junk})
      /\ BufSize \in Nat \ {0} /\ want[t] \in Nat
  <2>1. rp \in 0 .. (BufSize - 1) /\ wp \in 0 .. (BufSize - 1)
    BY FreeMeansWrapped DEF ReadCopy
  <2>2. want[t] \in ReadSizes \cup {0} /\ buf \in Buffers(BufSize, Byte \cup {Junk})
    BY DEF RingInv, TypeOK, Cells, Buffers
  <2>3. ReadSizes \cup {0} \subseteq Nat /\ BufSize \in Nat \ {0}
    BY SizesAssumption
  <2>4. want[t] \in Nat
    BY <2>2, <2>3
  <2>. QED  BY <2>1, <2>2, <2>3, <2>4
<1>2. n \in Nat /\ n <= IF wp > rp THEN wp - rp ELSE BufSize - rp
  BY <1>1 DEF Taken, ReadCount, AtMost
<1>3. rp # wp /\ ubuf' = [i \in 1 .. n |-> buf[rp + i - 1]] /\ rp' = rp + n
  BY DEF ReadCopy, Taken
<1> HIDE DEF n
<1>4. ReadFrom(q, buf, rp, wp, n, BufSize)
  BY <1>1, <1>2, <1>3, ContentsRead
<1>5. OpenFiles # {} /\ allocated /\ allocated' = allocated
  BY CallersHaveBuffer DEF ReadCopy
<1>6. OpenFiles' = OpenFiles
  BY DEF ReadCopy, Goto, RingInv, TypeOK, OpenFiles
<1>7. Pending = q /\ Pending' = Contents(buf, rp + n, wp, BufSize)
  BY <1>3, <1>5 DEF ReadCopy, Pending
<1>8. Takes(n)
  BY <1>3, <1>4, <1>5, <1>6, <1>7 DEF Takes, ReadFrom
<1>9. n \in 0 .. Len(Pending)
  <2>1. Len(q) \in Nat
    BY <1>1, ContentsValue, LenProperties DEF HeldBetween
  <2>. QED  BY <1>2, <1>4, <1>7, <2>1 DEF ReadFrom
<1>10. q \in Seq(Byte \cup {Junk})
  BY <1>1, ContentsValue DEF HeldBetween
<1>. QED  BY <1>7, <1>8, <1>9, <1>10 DEF n

(* The wrap behind a read finishes the hand-over; the one behind a write   *)
(* changes nothing.                                                        *)
LEMMA UpsHand ==
    ASSUME RingInv, NEW t \in Threads
    PROVE  (ReadUp(t) => Hands) /\ (WriteUp(t) => Quiet)
<1>1. ASSUME ReadUp(t) PROVE Hands
  <2>1. wp \in 0 .. (BufSize - 1) /\ rp \in 0 .. BufSize /\ BufSize \in Nat \ {0}
    BY <1>1, SizesAssumption
       DEF ReadUp, RingInv, TypeOK, MutualExclusion, PointersWrapped, Critical
  <2>2. Contents(buf, rp, wp, BufSize) = Contents(buf, rp', wp, BufSize)
    BY <1>1, <2>1, ContentsWrapped DEF ReadUp
  <2>3. OpenFiles' = OpenFiles
    BY <1>1 DEF ReadUp, Goto, RingInv, TypeOK, OpenFiles
  <2>. QED  BY <1>1, <2>2, <2>3 DEF ReadUp, Hands, Pending
<1>2. ASSUME WriteUp(t) PROVE Quiet
  <2>1. rp \in 0 .. (BufSize - 1) /\ wp \in 0 .. BufSize /\ BufSize \in Nat \ {0}
    BY <1>2, SizesAssumption
       DEF WriteUp, RingInv, TypeOK, MutualExclusion, PointersWrapped, Critical
  <2>2. Contents(buf, rp, wp, BufSize) = Contents(buf, rp, wp', BufSize)
    BY <1>2, <2>1, ContentsWrapped DEF WriteUp
  <2>3. OpenFiles' = OpenFiles
    BY <1>2 DEF WriteUp, Goto, RingInv, TypeOK, OpenFiles
  <2>. QED  BY <1>2, <2>2, <2>3 DEF WriteUp, Quiet, Pending
<1>. QED  BY <1>1, <1>2

(* What a writing call appends. *)
Written == [i \in 1 .. Room |-> buf'[wp + i - 1]]

(* A writing call appends it, and the queue stays shorter than the buffer. *)
LEMMA WriteAppends ==
    ASSUME RingInv, NEW t \in Threads, CanWrite(t), WriteCopy(t)
    PROVE  Appends(Written) /\ Len(Written) = Room
<1> DEFINE q == Contents(buf, rp, wp, BufSize)
           S == Byte \cup {Junk}
<1>1. rp \in 0 .. (BufSize - 1) /\ wp \in 0 .. (BufSize - 1) /\ BufSize \in Nat \ {0}
  BY FreeMeansWrapped, SizesAssumption DEF CanWrite
<1>2. buf \in Buffers(BufSize, S) /\ buf' \in Buffers(BufSize, S)
  BY WriteCopyKeeps DEF RingInv, TypeOK, Cells, Buffers
<1>3. Room \in Nat /\ wp + Room <= BufSize /\ Used(rp, wp, BufSize) + Room < BufSize
  <2>1. Room \in Nat /\ wp + Room <= BufSize
    BY <1>1, SizesAssumption, WriteStays DEF Room
  <2>2. Used(rp, wp, BufSize) = IF wp >= rp THEN wp - rp ELSE wp + BufSize - rp
    BY <1>1, UsedValue
  <2>3. SpaceFree(rp, wp, BufSize)
          = IF rp = wp THEN BufSize - 1
            ELSE IF rp > wp THEN rp - wp - 1 ELSE rp + BufSize - wp - 1
    BY <1>1, SpaceFreeValue DEF SpaceFree
  <2>4. Room <= SpaceFree(rp, wp, BufSize)
    BY <1>1, <2>3, SizesAssumption DEF Room, WriteCount, AtMost
  <2>. QED  BY <1>1, <2>1, <2>2, <2>3, <2>4
<1>4. SameOutside(buf, buf', wp, Room, BufSize)
  <2> DEFINE m == SubSeq(msg[t], 1, AtMost(Room, Len(msg[t])))
  <2>1. DOMAIN m \subseteq 1 .. Room
    <3>1. msg[t] \in Seq(Byte)
      BY DEF RingInv, TypeOK
    <3>. QED  BY <1>3, <3>1 DEF AtMost
  <2>2. buf' = Store(buf, wp, m) /\ DOMAIN buf = 0 .. (BufSize - 1)
    BY DEF WriteCopy, RingInv, TypeOK, Cells
  <2> HIDE DEF m
  <2>3. ASSUME NEW j \in 0 .. (BufSize - 1), j < wp \/ j >= wp + Room
        PROVE  buf'[j] = buf[j]
    <3>1. j - wp + 1 \notin DOMAIN m
      BY <1>1, <1>3, <2>1, <2>3
    <3>. QED  BY <2>2, <3>1 DEF Store
  <2>. QED  BY <2>3 DEF SameOutside
<1>5. AppendedTo(q, buf', rp, wp, Room, BufSize)
  BY <1>1, <1>2, <1>3, <1>4, ContentsWritten
<1>6. OpenFiles # {} /\ allocated /\ allocated' = allocated
  BY CallersHaveBuffer DEF CanWrite, WriteCopy
<1>7. OpenFiles' = OpenFiles
  BY DEF WriteCopy, CanWrite, Goto, RingInv, TypeOK, OpenFiles
<1>8. Pending = q /\ Pending' = Contents(buf', rp, wp + Room, BufSize)
  BY <1>6 DEF WriteCopy, Pending
<1>9. ubuf' = ubuf
  BY DEF WriteCopy
<1>. QED  BY <1>5, <1>6, <1>7, <1>8, <1>9 DEF Appends, AppendedTo, Written
=============================================================================
