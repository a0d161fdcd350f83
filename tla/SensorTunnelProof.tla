------------------------- MODULE SensorTunnelProof -------------------------
(***************************************************************************)
(* The theorems about sensor_tun.c: RingInv of TunnelRingProof is          *)
(* preserved by the write as well, and the semaphore is never lost.        *)
(***************************************************************************)
EXTENDS SensorTunnel, TunnelRingProof

Inv == RingInv /\ SemBalanced /\ NoLostWakeup

(* A written value is a sequence of bytes. *)
LEMMA WordIsBytes ==
    ASSUME NEW v \in Values
    PROVE  Word(v) \in Seq(Byte)
<1>1. Word(v) \in [1 .. MsgLen -> Byte]
  BY ValuesAssumption DEF Word
<1>. QED  BY <1>1, SizesAssumption, FunctionIsSeq

(* A write that faults leaves everything but its thread alone. *)
LEMMA WriteFaultKeeps ==
    ASSUME RingInv, NoLostWakeup, NEW t \in Threads, WriteFault(t)
    PROVE  RingInv' /\ NoLostWakeup'
<1> USE DEF RingInv, WriteFault, CanWrite
<1>1. TypeOK'
  BY ReturnTypes DEF TypeOK, ringVars, countVars
<1>2. CallersHaveFiles'
  BY DEF TypeOK, Return, CallersHaveFiles
<1>3. Aside
  BY DEF TypeOK, Return, Aside, Critical, ringVars
<1>4. SameFiles
  BY DEF TypeOK, Return, SameFiles, OpenFiles, ringVars, countVars
<1>5. NoLostWakeup'
  BY DEF TypeOK, Return, NoLostWakeup, ringVars
<1>. QED  BY <1>1, <1>2, <1>3, <1>4, <1>5, AsideKeeps, SameFilesKeeps

(* A step that takes the semaphore enters a critical section, and a thread *)
(* leaves one with up(): the early returns included.                       *)
LEMMA SemBalancedKeeps ==
    ASSUME RingInv, SemBalanced, [Next]_vars
    PROVE  SemBalanced'
<1> USE DEF RingInv, TypeOK, SemBalanced, Critical, Goto, Return, OpenFails
<1>1. ASSUME NEW t \in Threads, CommonCall(t) PROVE SemBalanced'
  BY <1>1 DEF CommonCall, CallOpen, CallRelease, CallPoll, CallRead
<1>2. ASSUME NEW t \in Threads, NEW v \in Values, CallWriteWord(t, v) PROVE SemBalanced'
  BY <1>2 DEF CallWriteWord, CallWrite
<1>3. ASSUME NEW t \in Threads, Interrupt(t) PROVE SemBalanced'
  BY <1>3 DEF Interrupt, Interruptible
<1>4. ASSUME NEW t \in Threads, car_p_open(t) \/ car_p_release(t) \/ car_p_poll(t)
      PROVE  SemBalanced'
  BY <1>4 DEF car_p_open, car_p_release, car_p_poll, Open, OpenNoMemory, Release, Poll
<1>5. ASSUME NEW t \in Threads, car_p_read(t) PROVE SemBalanced'
  <2>1. CASE ReadEmpty(t) \/ WaitForData(t) \/ ReadFault(t)
    BY <2>1 DEF ReadEmpty, WaitForData, ReadFault
  <2>2. CASE ReadCopy(t)
    BY <2>2 DEF ReadCopy
  <2>3. CASE ReadUp(t)
    BY <2>3 DEF ReadUp
  <2>4. CASE ReadWake(t)
    BY <2>4 DEF ReadWake
  <2>. QED  BY <1>5, <2>1, <2>2, <2>3, <2>4 DEF car_p_read
<1>6. ASSUME NEW t \in Threads, car_p_write(t) PROVE SemBalanced'
  <2>1. CASE car_getwritespace(t) \/ WriteFault(t)
    BY <2>1 DEF car_getwritespace, WriteFull, WaitForSpace, WriteFault, CanWrite
  <2>2. CASE WritePut(t)
    BY <2>2 DEF WritePut, WriteCopy
  <2>3. CASE WriteUp(t)
    BY <2>3 DEF WriteUp
  <2>4. CASE WriteWake(t)
    BY <2>4 DEF WriteWake
  <2>. QED  BY <1>6, <2>1, <2>2, <2>3, <2>4 DEF car_p_write
<1>7. CASE UNCHANGED vars
  BY <1>7 DEF vars, threadVars
<1>. QED  BY <1>1, <1>2, <1>3, <1>4, <1>5, <1>6, <1>7 DEF Next, Step

(* Every step of the driver preserves the invariant. *)
LEMMA NextKeeps ==
    ASSUME Inv, [Next]_vars
    PROVE  Inv'
<1> USE DEF Inv
<1>1. SemBalanced'
  BY SemBalancedKeeps
<1>2. ASSUME NEW t \in Threads, CommonCall(t) PROVE RingInv' /\ NoLostWakeup'
  BY <1>2, CallsKeep, WakeupCallsKeep
<1>3. ASSUME NEW t \in Threads, NEW v \in Values, CallWriteWord(t, v)
      PROVE  RingInv' /\ NoLostWakeup'
  <2>1. mode[t] # {} /\ CallWrite(t, Word(v))
    BY <1>3 DEF CallWriteWord
  <2>2. RingInv'
    BY <2>1, WordIsBytes, CallWriteKeeps
  <2>3. NoLostWakeup'
    BY <2>1, WakeupCallsKeep
  <2>. QED  BY <2>2, <2>3
<1>4. ASSUME NEW t \in Threads, Interrupt(t) PROVE RingInv' /\ NoLostWakeup'
  BY <1>4, InterruptKeeps, WakeupCallsKeep
<1>5. ASSUME NEW t \in Threads, CommonStep(t) PROVE RingInv' /\ NoLostWakeup'
  BY <1>5, StepsKeep, WakeupStepsKeep
<1>6. ASSUME NEW t \in Threads, WriteFault(t) PROVE RingInv' /\ NoLostWakeup'
  BY <1>6, WriteFaultKeeps
<1>7. ASSUME NEW t \in Threads, WritePut(t) PROVE RingInv' /\ NoLostWakeup'
  BY <1>7, WriteCopyKeeps, WakeupWriteKeeps DEF WritePut
<1>8. CASE UNCHANGED vars
  <2>1. NoLostWakeup'
    BY <1>8 DEF NoLostWakeup, vars, threadVars, ringVars
  <2>. QED  BY <1>1, <1>8, <2>1, StutterKeeps
<1>9. ASSUME NEW t \in Threads, Step(t)
      PROVE  CommonStep(t) \/ WriteFault(t) \/ WritePut(t)
  BY <1>9 DEF Step, car_p_open, car_p_release, car_p_read, car_p_poll, car_p_write,
              car_getwritespace, CommonStep
<1>. QED  BY <1>1, <1>2, <1>3, <1>4, <1>5, <1>6, <1>7, <1>8, <1>9 DEF Next

(* The initial state satisfies the invariant. *)
LEMMA InitHolds == Init => Inv
BY RingInit DEF Init, Inv, NoLostWakeup, SemBalanced

(* The inductive invariant of sensor_tun.c. *)
THEOREM Invariance == Spec => []Inv
BY InitHolds, NextKeeps, PTL DEF Spec

(* Every variable keeps its type, for any clients, buffer and value size.  *)
THEOREM TypeCorrect == Spec => []TypeOK
<1>1. Inv => TypeOK
  BY DEF Inv, RingInv
<1>. QED  BY <1>1, Invariance, PTL

(* The semaphore excludes and is never lost, unlike that of motor_tun.c.   *)
THEOREM SemNeverLost == Spec => []SemExact
<1>1. Inv => SemExact
  BY DEF Inv, RingInv, SemExact
<1>. QED  BY <1>1, Invariance, PTL

-----------------------------------------------------------------------------
(* The refinement *)

(* Whoever is on its way to the ring offers a whole value. *)
Offers ==
    \A t \in Threads :
        pc[t] \in {"write", "wr_wait", "in_outq"} => msg[t] \in {Word(v) : v \in Values}

LEMMA OffersKept ==
    ASSUME Inv, Offers, [Next]_vars
    PROVE  Offers'
<1> USE DEF Inv, RingInv, TypeOK, Offers, Goto, Return, OpenFails
<1>1. ASSUME NEW t \in Threads, CommonCall(t) PROVE Offers'
  BY <1>1 DEF CommonCall, CallOpen, CallRelease, CallPoll, CallRead
<1>2. ASSUME NEW t \in Threads, NEW v \in Values, CallWriteWord(t, v) PROVE Offers'
  BY <1>2 DEF CallWriteWord, CallWrite
<1>3. ASSUME NEW t \in Threads, Interrupt(t) PROVE Offers'
  BY <1>3 DEF Interrupt
<1>4. ASSUME NEW t \in Threads, car_p_open(t) \/ car_p_release(t) \/ car_p_poll(t)
      PROVE  Offers'
  BY <1>4 DEF car_p_open, car_p_release, car_p_poll, Open, OpenNoMemory, Release, Poll
<1>5. ASSUME NEW t \in Threads, car_p_read(t) PROVE Offers'
  <2>1. CASE ReadEmpty(t) \/ WaitForData(t) \/ ReadFault(t)
    BY <2>1 DEF ReadEmpty, WaitForData, ReadFault
  <2>2. CASE ReadCopy(t) \/ ReadUp(t)
    BY <2>2 DEF ReadCopy, ReadUp
  <2>3. CASE ReadWake(t)
    BY <2>3 DEF ReadWake
  <2>. QED  BY <1>5, <2>1, <2>2, <2>3 DEF car_p_read
<1>6. ASSUME NEW t \in Threads, car_p_write(t) PROVE Offers'
  <2>1. CASE car_getwritespace(t) \/ WriteFault(t)
    BY <2>1 DEF car_getwritespace, WriteFull, WaitForSpace, WriteFault, CanWrite
  <2>2. CASE WritePut(t) \/ WriteUp(t)
    BY <2>2 DEF WritePut, WriteCopy, WriteUp
  <2>3. CASE WriteWake(t)
    BY <2>3 DEF WriteWake
  <2>. QED  BY <1>6, <2>1, <2>2, <2>3 DEF car_p_write
<1>7. CASE UNCHANGED vars
  BY <1>7 DEF vars, threadVars
<1>. QED  BY <1>1, <1>2, <1>3, <1>4, <1>5, <1>6, <1>7 DEF Next, Step

(* The pieces of values a write may append. *)
Pieces == {SubSeq(Word(v), 1, n) : v \in Values, n \in 1 .. MsgLen}

(* A write appends the beginning of its value, a byte of it at least. *)
LEMMA PutAppends ==
    ASSUME Inv, Offers, NEW t \in Threads, WritePut(t)
    PROVE  /\ Appends(Written) /\ Room \in 1 .. MsgLen
           /\ \E v \in Values : msg[t] = Word(v) /\ Written = SubSeq(Word(v), 1, Room)
<1> USE DEF Inv
<1>1. /\ CanWrite(t) /\ WriteCopy(t)
      /\ rp \in 0 .. (BufSize - 1) /\ wp \in 0 .. (BufSize - 1)
      /\ BufSize \in Nat \ {0} /\ MsgLen \in Nat \ {0}
  BY FreeMeansWrapped, SizesAssumption DEF WritePut, CanWrite
<1>2. PICK v \in Values : msg[t] = Word(v)
  BY <1>1 DEF Offers, CanWrite
<1>3. Room \in 1 .. MsgLen /\ wp + Room <= BufSize
  <2>1. SpaceFree(rp, wp, BufSize)
          = IF rp = wp THEN BufSize - 1
            ELSE IF rp > wp THEN rp - wp - 1 ELSE rp + BufSize - wp - 1
    BY <1>1, SpaceFreeValue DEF SpaceFree
  <2>2. SpaceFree(rp, wp, BufSize) # 0
    BY <1>1 DEF CanWrite
  <2>. QED  BY <1>1, <2>1, <2>2 DEF Room, WriteCount, AtMost
<1> DEFINE w == Word(v)
           m == SubSeq(w, 1, Room)
<1>4. w \in Seq(Byte) /\ Len(w) = MsgLen
  <2>1. w \in [1 .. MsgLen -> Byte]
    BY ValuesAssumption DEF Word
  <2> HIDE DEF w
  <2>. QED  BY <1>1, <2>1, FunctionLength
<1> HIDE DEF w
<1>5. m \in Seq(Byte) /\ Len(m) = Room /\ DOMAIN m = 1 .. Room
  BY <1>3, <1>4
<1>6. buf' = Store(buf, wp, m) /\ DOMAIN buf = 0 .. (BufSize - 1)
  BY <1>1, <1>2, <1>3, <1>4 DEF WriteCopy, AtMost, w, RingInv, TypeOK, Cells
<1> HIDE DEF m
<1>7. ASSUME NEW i \in 1 .. Room PROVE buf'[wp + i - 1] = m[i]
  <2> DEFINE j == wp + i - 1
  <2>1. j \in 0 .. (BufSize - 1) /\ j - wp + 1 = i
    BY <1>1, <1>3
  <2> HIDE DEF j
  <2>2. buf'[j] = m[i]
    BY <1>5, <1>6, <2>1 DEF Store
  <2>. QED  BY <2>2 DEF j
<1>8. Written = m
  <2>1. Written = [i \in 1 .. Room |-> m[i]]
    BY <1>7 DEF Written
  <2>2. m = [i \in 1 .. Room |-> m[i]]
    BY <1>3, <1>5
  <2>. QED  BY <2>1, <2>2
<1>9. Appends(Written)
  BY <1>1, WriteAppends
<1>. QED  BY <1>2, <1>3, <1>8, <1>9 DEF m, w

LEMMA PutAppendsPiece ==
    ASSUME Inv, Offers, NEW t \in Threads, WritePut(t)
    PROVE  Appends(Written) /\ Written \in Pieces
BY PutAppends DEF Pieces

(* The initial states are initial states of the promised queue. *)
LEMMA PromiseInit == Init => Promise!Init
BY InitQueue DEF Promise!Init, Pending, Unread

(* A step of the ring's queue is a step of the promised one. *)
LEMMA QueueSteps ==
    /\ Quiet => UNCHANGED Promise!vars
    /\ \A t \in Threads : Opens(t) \/ Closes(t) => Promise!Next
    /\ \A n \in 1 .. Len(Pending) : Takes(n) => Promise!Next
    /\ Hands => Promise!Next
    /\ \A m \in Pieces : Appends(m) => Promise!Next
<1>1. Quiet => UNCHANGED Promise!vars
  BY DEF Quiet, Pending, Unread, Promise!vars
<1>2. \A t \in Threads : Opens(t) => Promise!Open(t)
  BY DEF Opens, Pending, Unread, Promise!Open
<1>3. \A t \in Threads : Closes(t) => Promise!Close(t)
  BY DEF Closes, Pending, Unread, Promise!Close
<1>4. \A n \in 1 .. Len(Pending) : Takes(n) => Promise!Take(n)
  BY DEF Takes, Pending, Unread, Promise!Take
<1>5. Hands => Promise!Handed
  BY DEF Hands, Pending, Unread, Promise!Handed
<1>6. \A m \in Pieces : Appends(m) => Promise!Accept(m)
  BY DEF Appends, Pending, Unread, Promise!Accept
<1>. QED  BY <1>1, <1>2, <1>3, <1>4, <1>5, <1>6 DEF Promise!Next, Pending, Unread, Pieces

(* Every step of the driver is one of the promised queue, or none. *)
LEMMA PromiseStep ==
    ASSUME Inv, Offers, [Next]_vars
    PROVE  [Promise!Next]_(Promise!vars)
<1> USE DEF Inv
<1>1. ASSUME NEW t \in Threads, CommonCall(t) \/ Interrupt(t)
      PROVE  UNCHANGED Promise!vars
  BY <1>1, CallsAreQuiet, QueueSteps
<1>2. ASSUME NEW t \in Threads, NEW v \in Values, CallWriteWord(t, v)
      PROVE  UNCHANGED Promise!vars
  <2>1. CallWrite(t, Word(v)) /\ mode[t] # {}
    BY <1>2 DEF CallWriteWord
  <2>. QED  BY <2>1, CallsAreQuiet, QueueSteps
<1>3. ASSUME NEW t \in Threads, car_p_open(t) \/ car_p_release(t) \/ car_p_poll(t)
      PROVE  [Promise!Next]_(Promise!vars)
  BY <1>3, OpenEmpties, ReleaseCloses, WaitsAreQuiet, QueueSteps
     DEF car_p_open, car_p_release, car_p_poll
<1>4. ASSUME NEW t \in Threads, car_p_read(t)
      PROVE  [Promise!Next]_(Promise!vars)
  <2>1. CASE ReadCopy(t)
    <3>1. PICK n \in 0 .. Len(Pending) : Takes(n)
      BY <2>1, ReadTakes
    <3>2. CASE n = 0
      BY <2>1, <3>1, <3>2, ReadTakes, TakeNothing, QueueSteps
    <3>3. CASE n # 0
      BY <3>1, <3>3, QueueSteps
    <3>. QED  BY <3>2, <3>3
  <2>2. CASE ReadUp(t)
    BY <2>2, UpsHand, QueueSteps
  <2>3. CASE ~(ReadCopy(t) \/ ReadUp(t))
    BY <1>4, <2>3, WaitsAreQuiet, QueueSteps DEF car_p_read
  <2>. QED  BY <2>1, <2>2, <2>3
<1>5. ASSUME NEW t \in Threads, car_p_write(t)
      PROVE  [Promise!Next]_(Promise!vars)
  <2>1. CASE WritePut(t)
    BY <2>1, PutAppendsPiece, QueueSteps
  <2>2. CASE WriteUp(t)
    BY <2>2, UpsHand, QueueSteps
  <2>3. CASE WriteFault(t)
    <3>1. Quiet
      BY <2>3 DEF WriteFault, Quiet, Pending, ringVars, OpenFiles, Return, CanWrite,
                  RingInv, TypeOK
    <3>. QED  BY <3>1, QueueSteps
  <2>4. CASE car_getwritespace(t) \/ WriteWake(t)
    BY <2>4, WaitsAreQuiet, QueueSteps DEF car_getwritespace
  <2>. QED  BY <1>5, <2>1, <2>2, <2>3, <2>4 DEF car_p_write
<1>6. CASE UNCHANGED vars
  BY <1>6 DEF vars, threadVars, ringVars, Promise!vars, Unread, OpenFiles
<1>. QED  BY <1>1, <1>2, <1>3, <1>4, <1>5, <1>6 DEF Next, Step

(* sensor_tun.c implements the promised queue, for any clients, buffer and *)
(* values: beginnings of values in order, none overwritten before it is    *)
(* read and none read twice, unread ones lost to an open or the last close.*)
THEOREM Refines == Spec => KeepsPromise
<1>1. Init => Promise!Init
  BY PromiseInit
<1>2. Inv /\ Offers /\ [Next]_vars => [Promise!Next]_(Promise!vars)
  BY PromiseStep
<1>3. Init => Inv /\ Offers
  BY InitHolds DEF Init, Offers
<1>4. Inv /\ Offers /\ [Next]_vars => Inv' /\ Offers'
  BY NextKeeps, OffersKept
<1>. QED  BY <1>1, <1>2, <1>3, <1>4, PTL DEF Spec, KeepsPromise, Promise!Spec

-----------------------------------------------------------------------------
(* Writers asleep *)

(* The wrap of wp makes no room. *)
LEMMA WrapMakesNoRoom ==
    ASSUME NEW n \in Nat \ {0, 1}, NEW r \in 0 .. (n - 1), NEW w \in 0 .. n,
           SpaceFree(r, w, n) = 0
    PROVE  SpaceFree(r, Wrap(w, n), n) = 0
<1>1. CASE w # n
  BY <1>1 DEF Wrap
<1>2. CASE w = n
  <2>1. r % n = r
    BY ModSmall
  <2>2. r + n - n = r /\ r # n
    OBVIOUS
  <2>3. r = 1
    BY <1>2, <2>1, <2>2 DEF SpaceFree
  <2>4. Wrap(w, n) = 0
    BY <1>2 DEF Wrap
  <2>5. SpaceFree(r, 0, n) = 0
    BY <2>3, SpaceFreeValue
  <2>. QED  BY <2>4, <2>5
<1>. QED  BY <1>1, <1>2

(* A writer goes to sleep in a full ring only. *)
LEMMA SleepsInFullRing ==
    ASSUME Inv, [Next]_vars, NEW t \in Threads, pc[t] # "in_outq", (pc[t] = "in_outq")'
    PROVE  (SpaceFree(rp, wp, BufSize) = 0)'
<1> USE DEF Inv, RingInv, TypeOK, Goto, Return, OpenFails
<1>1. PICK u \in Threads :
          \/ CommonCall(u) \/ Interrupt(u) \/ Step(u)
          \/ \E v \in Values : CallWriteWord(u, v)
  BY DEF Next, vars, threadVars
<1>2. WaitForSpace(u)
  <2>1. CASE CommonCall(u)
    BY <2>1 DEF CommonCall, CallOpen, CallRelease, CallPoll, CallRead
  <2>2. CASE Interrupt(u) \/ \E v \in Values : CallWriteWord(u, v)
    BY <2>2 DEF Interrupt, CallWriteWord, CallWrite
  <2>3. CASE car_p_open(u) \/ car_p_release(u) \/ car_p_poll(u)
    BY <2>3 DEF car_p_open, car_p_release, car_p_poll, Open, OpenNoMemory, Release, Poll
  <2>4. CASE car_p_read(u)
    BY <2>4 DEF car_p_read, ReadEmpty, WaitForData, ReadFault, ReadCopy, ReadUp, ReadWake
  <2>5. CASE car_p_write(u)
    BY <2>5 DEF car_p_write, car_getwritespace, WriteFull, WriteFault, CanWrite,
                WritePut, WriteCopy, WriteUp, WriteWake
  <2>. QED  BY <1>1, <2>1, <2>2, <2>3, <2>4, <2>5 DEF Step
<1>. QED  BY <1>2 DEF WaitForSpace, ringVars

(* A full ring gets room by a read, which is on its way to wake the        *)
(* writers, or by an open.                                                 *)
LEMMA RoomMade ==
    ASSUME Inv, [Next]_vars,
           SpaceFree(rp, wp, BufSize) = 0, (SpaceFree(rp, wp, BufSize) # 0)'
    PROVE  \E u \in Threads :
              \/ pc'[u] \in {"rd_up", "rd_wake"}
              \/ pc[u] = "open" /\ pc'[u] = "idle"
<1> USE DEF Inv, RingInv, TypeOK, Goto, Return
<1>1. PICK u \in Threads :
          \/ CommonCall(u) \/ Interrupt(u) \/ Step(u)
          \/ \E v \in Values : CallWriteWord(u, v)
  BY DEF Next, vars, ringVars
<1>2. ~CommonCall(u) /\ ~Interrupt(u) /\ ~(\E v \in Values : CallWriteWord(u, v))
  BY DEF CommonCall, CallOpen, CallRelease, CallPoll, CallRead, Interrupt,
         CallWriteWord, CallWrite, ringVars
<1>3. CASE car_p_open(u) \/ car_p_release(u) \/ car_p_poll(u)
  <2>1. Open(u)
    BY <1>3 DEF car_p_open, car_p_release, car_p_poll, OpenNoMemory, Release, Poll, ringVars
  <2>. QED  BY <2>1 DEF Open
<1>4. CASE car_p_read(u)
  BY <1>4 DEF car_p_read, ReadEmpty, WaitForData, ReadFault, ReadCopy, ReadUp, ReadWake,
              ringVars
<1>5. CASE car_p_write(u)
  <2>1. WriteUp(u)
    BY <1>5 DEF car_p_write, car_getwritespace, WriteFull, WaitForSpace, WriteFault,
                WritePut, CanWrite, WriteWake, ringVars
  <2>2. /\ rp \in 0 .. (BufSize - 1) /\ wp \in 0 .. BufSize
        /\ BufSize \in Nat \ {0, 1}
    BY <2>1, SizesAssumption DEF WriteUp, MutualExclusion, PointersWrapped, Critical
  <2>3. SpaceFree(rp, Wrap(wp, BufSize), BufSize) = 0
    BY <2>2, WrapMakesNoRoom
  <2>. QED  BY <2>1, <2>3 DEF WriteUp
<1>. QED  BY <1>1, <1>2, <1>3, <1>4, <1>5 DEF Step

(* A read that is finished has woken every writer. *)
LEMMA ReadsWake ==
    ASSUME Inv, [Next]_vars, NEW u \in Threads, pc[u] \in {"rd_up", "rd_wake"},
           pc'[u] \notin {"rd_up", "rd_wake"}
    PROVE  \A t \in Threads : pc'[t] # "in_outq"
<1> USE DEF Inv, RingInv, TypeOK, Goto, Return, OpenFails
<1>1. PICK t \in Threads :
          \/ CommonCall(t) \/ Interrupt(t) \/ Step(t)
          \/ \E v \in Values : CallWriteWord(t, v)
  BY DEF Next, vars, threadVars
<1>2. ReadWake(t)
  <2>1. CASE CommonCall(t)
    BY <2>1 DEF CommonCall, CallOpen, CallRelease, CallPoll, CallRead
  <2>2. CASE Interrupt(t) \/ \E v \in Values : CallWriteWord(t, v)
    BY <2>2 DEF Interrupt, Interruptible, CallWriteWord, CallWrite
  <2>3. CASE car_p_open(t) \/ car_p_release(t) \/ car_p_poll(t)
    BY <2>3 DEF car_p_open, car_p_release, car_p_poll, Open, OpenNoMemory, Release, Poll
  <2>4. CASE car_p_read(t)
    BY <2>4 DEF car_p_read, ReadEmpty, WaitForData, ReadFault, ReadCopy, ReadUp
  <2>5. CASE car_p_write(t)
    BY <2>5 DEF car_p_write, car_getwritespace, WriteFull, WaitForSpace, WriteFault,
                CanWrite, WritePut, WriteCopy, WriteUp, WriteWake
  <2>. QED  BY <1>1, <2>1, <2>2, <2>3, <2>4, <2>5 DEF Step
<1>. QED  BY <1>2 DEF ReadWake

(* No read, fault, signal, close or other writer leaves a writer asleep    *)
(* over free room with nobody on the way to wake it: only an open does,    *)
(* for any clients, buffer and values.                                     *)
THEOREM StrandsOnlyByOpen == Spec => StrandedOnlyByOpen
<1> DEFINE A == \A t \in Threads : Stranded(t)' => Stranded(t) \/
                    \E u \in Threads : pc[u] = "open" /\ (pc[u] = "idle")'
<1>1. Inv /\ [Next]_vars => A
  <2> SUFFICES ASSUME Inv, [Next]_vars, NEW t \in Threads, Stranded(t)', ~Stranded(t),
                      ~\E u \in Threads : pc[u] = "open" /\ (pc[u] = "idle")'
               PROVE  FALSE
    OBVIOUS
  <2>1. /\ pc'[t] = "in_outq" /\ (SpaceFree(rp, wp, BufSize) # 0)'
        /\ \A u \in Threads : pc'[u] \notin {"rd_up", "rd_wake"}
    BY DEF Stranded
  <2>2. pc[t] = "in_outq"
    BY <2>1, SleepsInFullRing
  <2>3. SpaceFree(rp, wp, BufSize) # 0
    BY <2>1, RoomMade
  <2>4. \A u \in Threads : pc[u] \notin {"rd_up", "rd_wake"}
    BY <2>1, ReadsWake
  <2>. QED  BY <2>2, <2>3, <2>4 DEF Stranded
<1>2. Spec => []Inv
  BY Invariance
<1>3. Spec => [][Next]_vars
  BY DEF Spec
<1>4. Inv /\ [Next]_vars => [A]_vars
  BY <1>1
<1>. QED  BY <1>2, <1>3, <1>4, PTL DEF StrandedOnlyByOpen

-----------------------------------------------------------------------------
(* Framing *)

(* The clients of a sensor tunnel read whole values: runner.c asks for     *)
(* sizeof(uint32) bytes, which is what the relay writes.                   *)
WholeReads == \A n \in ReadSizes : n % MsgLen = 0

(* q is m values, one behind the other. *)
OfWords(q, m) ==
    /\ q \in Seq(Byte \cup {Junk})
    /\ Len(q) = m * MsgLen
    /\ \A k \in 0 .. (m - 1) : \E v \in Values :
           \A i \in 1 .. MsgLen : q[k * MsgLen + i] = <<v, i>>

(* The piece i of value k of m lies within them. *)
LEMMA PieceOf ==
    ASSUME NEW n \in Nat \ {0}, NEW m \in Nat, NEW k \in 0 .. (m - 1), NEW i \in 1 .. n
    PROVE  /\ k * n + i \in 1 .. m * n /\ m * n \in Nat /\ k * n \in Nat
           /\ (k + 1) * n = k * n + n /\ k * n + n <= m * n
<1>1. k \in Nat /\ k < m
  OBVIOUS
<1>2. k * n + n <= m * n /\ k * n \in Nat /\ m * n \in Nat
  BY <1>1, SlotBefore
<1>3. (k + 1) * n = k * n + n
  BY <1>1, SMT
<1>. QED  BY <1>2, <1>3

(* A value is its pieces. *)
LEMMA WordValue ==
    ASSUME NEW v \in Values
    PROVE  /\ Word(v) \in Seq(Byte \cup {Junk}) /\ Len(Word(v)) = MsgLen
           /\ \A i \in 1 .. MsgLen : Word(v)[i] = <<v, i>>
<1> DEFINE w == Word(v)
<1>1. w \in [1 .. MsgLen -> Byte \cup {Junk}] /\ \A i \in 1 .. MsgLen : w[i] = <<v, i>>
  BY ValuesAssumption DEF Word
<1> HIDE DEF w
<1>2. w \in Seq(Byte \cup {Junk}) /\ Len(w) = MsgLen
  BY <1>1, SizesAssumption, FunctionLength
<1>. QED  BY <1>1, <1>2 DEF w

(* A block of a sequence is a value if it is so piece by piece. *)
LEMMA BlockIsWord ==
    ASSUME NEW q \in Seq(Byte \cup {Junk}), NEW a \in Nat, a + MsgLen <= Len(q),
           NEW v \in Values
    PROVE  SubSeq(q, a + 1, a + MsgLen) = Word(v)
               <=> \A i \in 1 .. MsgLen : q[a + i] = <<v, i>>
<1> DEFINE w == Word(v)
           b == SubSeq(q, a + 1, a + MsgLen)
<1>1. MsgLen \in Nat \ {0} /\ Len(q) \in Nat
  BY SizesAssumption, LenProperties
<1>2. w \in Seq(Byte \cup {Junk}) /\ Len(w) = MsgLen /\ \A i \in 1 .. MsgLen : w[i] = <<v, i>>
  BY WordValue
<1> HIDE DEF w
<1>3. /\ b \in Seq(Byte \cup {Junk}) /\ Len(b) = MsgLen
      /\ \A i \in 1 .. MsgLen : b[i] = q[a + i]
  <2>1. \A i \in a + 1 .. a + MsgLen : q[i] \in Byte \cup {Junk}
    BY <1>1, ElementOfSeq
  <2>2. a + 1 \in 1 .. Len(q) + 1 /\ a + MsgLen \in a .. Len(q) /\ (a + MsgLen) - (a + 1) + 1 = MsgLen
    BY <1>1
  <2>3. b \in Seq(Byte \cup {Junk}) /\ Len(b) = MsgLen
    BY <1>1, <2>1, <2>2, SubSeqProperties
  <2>4. \A i \in 1 .. MsgLen : b[i] = q[a + i]
    <3>1. \A i \in 1 .. MsgLen : (a + 1) + i - 1 = a + i
      BY <1>1
    <3>2. \A i \in 1 .. Len(b) : b[i] = q[(a + 1) + i - 1]
      BY <1>1, <2>1, <2>2, SubSeqProperties
    <3>. QED  BY <2>3, <3>1, <3>2
  <2>. QED  BY <2>3, <2>4
<1> HIDE DEF b
<1>4. b = w <=> \A i \in 1 .. MsgLen : b[i] = w[i]
  BY <1>2, <1>3, SeqEqual
<1>. QED  BY <1>2, <1>3, <1>4 DEF b, w

(* Framed of any bytes. *)
FramedSeq(q) ==
    /\ Len(q) % MsgLen = 0
    /\ \A k \in 0 .. (Len(q) \div MsgLen) - 1 :
           SubSeq(q, k * MsgLen + 1, (k + 1) * MsgLen) \in {Word(v) : v \in Values}

LEMMA FramedIs == (Framed <=> FramedSeq(Unread)) /\ (Framed' <=> FramedSeq(Unread'))
BY DEF Framed, FramedSeq

(* It says that they are values. *)
LEMMA FramedValue ==
    ASSUME NEW q \in Seq(Byte \cup {Junk})
    PROVE  FramedSeq(q) <=> \E m \in Nat : OfWords(q, m)
<1>1. MsgLen \in Nat \ {0} /\ Len(q) \in Nat
  BY SizesAssumption, LenProperties
<1>2. ASSUME NEW m \in Nat, Len(q) = m * MsgLen, NEW k \in 0 .. (m - 1)
      PROVE  SubSeq(q, k * MsgLen + 1, (k + 1) * MsgLen) \in {Word(v) : v \in Values}
               <=> \E v \in Values : \A i \in 1 .. MsgLen : q[k * MsgLen + i] = <<v, i>>
  <2>1. PICK a \in Nat : a = k * MsgLen /\ (k + 1) * MsgLen = a + MsgLen /\ a + MsgLen <= Len(q)
    <3>1. 1 \in 1 .. MsgLen
      BY <1>1
    <3>. QED  BY <1>1, <1>2, <3>1, PieceOf
  <2>2. \A v \in Values : SubSeq(q, a + 1, a + MsgLen) = Word(v)
                             <=> \A i \in 1 .. MsgLen : q[a + i] = <<v, i>>
    BY <2>1, BlockIsWord
  <2>. QED  BY <2>1, <2>2
<1>3. ASSUME FramedSeq(q) PROVE \E m \in Nat : OfWords(q, m)
  <2> DEFINE m == Len(q) \div MsgLen
  <2>1. m \in Nat /\ Len(q) = m * MsgLen
    <3>1. Len(q) % MsgLen = 0
      BY <1>3 DEF FramedSeq
    <3>2. Len(q) = m * MsgLen + (Len(q) % MsgLen) /\ m \in Nat
      BY <1>1, DivMod
    <3>. QED  BY <1>1, <3>1, <3>2, SlotBefore, SMT
  <2>2. \A k \in 0 .. (m - 1) : SubSeq(q, k * MsgLen + 1, (k + 1) * MsgLen)
                                    \in {Word(v) : v \in Values}
    BY <1>3 DEF FramedSeq
  <2> HIDE DEF m
  <2>3. OfWords(q, m)
    BY <1>2, <2>1, <2>2 DEF OfWords
  <2>. QED  BY <2>1, <2>3
<1>4. ASSUME NEW m \in Nat, OfWords(q, m) PROVE FramedSeq(q)
  <2>1. Len(q) = m * MsgLen
    BY <1>4 DEF OfWords
  <2>2. Len(q) % MsgLen = 0 /\ Len(q) \div MsgLen = m
    <3>1. 0 \in 0 .. (MsgLen - 1) /\ m * MsgLen + 0 = Len(q)
      BY <1>1, <2>1
    <3>2. (m * MsgLen + 0) % MsgLen = 0 /\ (m * MsgLen + 0) \div MsgLen = m
      BY <1>1, <3>1, ModUnique
    <3>. QED  BY <3>1, <3>2
  <2>3. \A k \in 0 .. (m - 1) : SubSeq(q, k * MsgLen + 1, (k + 1) * MsgLen)
                                    \in {Word(v) : v \in Values}
    BY <1>2, <1>4, <2>1 DEF OfWords
  <2>. QED  BY <2>2, <2>3 DEF FramedSeq
<1>. QED  BY <1>3, <1>4

(* No bytes are no values, ... *)
LEMMA NoWords == OfWords(<<>>, 0)
BY SizesAssumption DEF OfWords

(* ... values without the first j are values, ... *)
LEMMA WordsBehind ==
    ASSUME NEW q, NEW m \in Nat, OfWords(q, m), NEW j \in 0 .. m
    PROVE  OfWords(SubSeq(q, j * MsgLen + 1, Len(q)), m - j)
<1>1. /\ MsgLen \in Nat \ {0} /\ q \in Seq(Byte \cup {Junk}) /\ Len(q) = m * MsgLen
      /\ \A k \in 0 .. (m - 1) : \E v \in Values :
             \A i \in 1 .. MsgLen : q[k * MsgLen + i] = <<v, i>>
  BY SizesAssumption DEF OfWords
<1>2. PICK a \in Nat : a = j * MsgLen /\ a <= Len(q) /\ (m - j) * MsgLen = Len(q) - a
  <2>1. j * MsgLen \in Nat /\ (m - j) * MsgLen = m * MsgLen - j * MsgLen
    BY <1>1, SMT
  <2>2. (m - j) * MsgLen \in Nat
    BY <1>1, SMT
  <2>3. m * MsgLen \in Nat
    BY <1>1, SMT
  <2>. QED  BY <1>1, <2>1, <2>2, <2>3
<1> DEFINE t == SubSeq(q, a + 1, Len(q))
<1>3. /\ t \in Seq(Byte \cup {Junk}) /\ Len(t) = Len(q) - a
      /\ \A i \in 1 .. Len(q) - a : t[i] = q[a + i]
  <2>1. Len(q) \in Nat /\ \A i \in a + 1 .. Len(q) : q[i] \in Byte \cup {Junk}
    BY <1>1, LenProperties, ElementOfSeq
  <2>2. a + 1 \in 1 .. Len(q) + 1 /\ Len(q) \in a .. Len(q) /\ Len(q) - (a + 1) + 1 = Len(q) - a
    BY <1>2, <2>1
  <2>3. t \in Seq(Byte \cup {Junk}) /\ Len(t) = Len(q) - a
    BY <2>1, <2>2, <1>2, SubSeqProperties
  <2>4. \A i \in 1 .. Len(q) - (a + 1) + 1 : t[i] = q[(a + 1) + i - 1]
    <3>1. a + 1 \in Int /\ Len(q) \in Int
      BY <2>1
    <3>. QED  BY <2>1, <3>1, SubSeqProperties
  <2>5. \A i \in 1 .. Len(q) - a : (a + 1) + i - 1 = a + i
    BY <2>1
  <2>. QED  BY <2>2, <2>3, <2>4, <2>5
<1> HIDE DEF t
<1>4. ASSUME NEW k \in 0 .. ((m - j) - 1)
      PROVE  \E v \in Values : \A i \in 1 .. MsgLen : t[k * MsgLen + i] = <<v, i>>
  <2>1. k + j \in 0 .. (m - 1)
    OBVIOUS
  <2>2. PICK v \in Values : \A i \in 1 .. MsgLen : q[(k + j) * MsgLen + i] = <<v, i>>
    BY <1>1, <2>1
  <2>3. ASSUME NEW i \in 1 .. MsgLen PROVE t[k * MsgLen + i] = <<v, i>>
    <3>1. k * MsgLen + i \in 1 .. (m - j) * MsgLen /\ k * MsgLen \in Nat
      <4>1. m - j \in Nat
        OBVIOUS
      <4>. QED  BY <1>1, <4>1, PieceOf
    <3>2. (k + j) * MsgLen = k * MsgLen + j * MsgLen
      BY <1>1, <2>1, SMT
    <3>3. PICK x \in Nat : x = k * MsgLen
      BY <3>1
    <3>4. x + i \in 1 .. Len(q) - a /\ t[x + i] = q[a + (x + i)] /\ q[(x + a) + i] = <<v, i>>
      BY <1>2, <1>3, <2>2, <3>1, <3>2, <3>3
    <3>5. a + (x + i) = (x + a) + i
      OBVIOUS
    <3>. QED  BY <3>3, <3>4, <3>5
  <2>. QED  BY <2>3
<1>5. OfWords(t, m - j)
  BY <1>2, <1>3, <1>4 DEF OfWords
<1>. QED  BY <1>2, <1>5 DEF t

(* ... and so are values with one more behind them. *)
LEMMA WordsAppended ==
    ASSUME NEW q, NEW m \in Nat, OfWords(q, m), NEW v \in Values
    PROVE  OfWords(q \o Word(v), m + 1)
<1> DEFINE w == Word(v)
           t == q \o w
<1>1. /\ MsgLen \in Nat \ {0} /\ q \in Seq(Byte \cup {Junk}) /\ Len(q) = m * MsgLen
      /\ \A k \in 0 .. (m - 1) : \E u \in Values :
             \A i \in 1 .. MsgLen : q[k * MsgLen + i] = <<u, i>>
  BY SizesAssumption DEF OfWords
<1>2. w \in Seq(Byte \cup {Junk}) /\ Len(w) = MsgLen /\ \A i \in 1 .. MsgLen : w[i] = <<v, i>>
  BY WordValue
<1>3. PICK a \in Nat : a = m * MsgLen /\ (m + 1) * MsgLen = a + MsgLen
  <2>1. m * MsgLen \in Nat /\ (m + 1) * MsgLen = m * MsgLen + MsgLen
    BY <1>1, SMT
  <2>. QED  BY <2>1
<1> HIDE DEF w
<1>4. /\ t \in Seq(Byte \cup {Junk}) /\ Len(t) = a + MsgLen
      /\ \A i \in 1 .. a + MsgLen : t[i] = IF i <= a THEN q[i] ELSE w[i - a]
  <2>1. Len(q) = a
    BY <1>1, <1>3
  <2>. QED  BY <1>1, <1>2, <2>1, ConcatProperties
<1> HIDE DEF t
<1>5. ASSUME NEW k \in 0 .. ((m + 1) - 1)
      PROVE  \E u \in Values : \A i \in 1 .. MsgLen : t[k * MsgLen + i] = <<u, i>>
  <2>1. CASE k = m
    <3>1. ASSUME NEW i \in 1 .. MsgLen PROVE t[a + i] = <<v, i>>
      <4>1. a + i \in 1 .. a + MsgLen /\ ~(a + i <= a) /\ (a + i) - a = i
        BY <1>1
      <4>. QED  BY <1>2, <1>4, <4>1
    <3>. QED  BY <1>3, <2>1, <3>1
  <2>2. CASE k # m
    <3>1. k \in 0 .. (m - 1)
      BY <2>2
    <3>2. PICK u \in Values : \A i \in 1 .. MsgLen : q[k * MsgLen + i] = <<u, i>>
      BY <1>1, <3>1
    <3>3. ASSUME NEW i \in 1 .. MsgLen PROVE t[k * MsgLen + i] = <<u, i>>
      <4>1. k * MsgLen + i \in 1 .. a
        BY <1>1, <1>3, <3>1, PieceOf
      <4>2. PICK x \in 1 .. a : x = k * MsgLen + i
        BY <4>1
      <4>3. x \in 1 .. a + MsgLen /\ x <= a /\ t[x] = q[x]
        BY <1>1, <1>4
      <4>. QED  BY <3>2, <4>2, <4>3
    <3>. QED  BY <3>3
  <2>. QED  BY <2>1, <2>2
<1>6. OfWords(t, m + 1)
  BY <1>3, <1>4, <1>5 DEF OfWords
<1>. QED  BY <1>6 DEF t, w

(* No piece of a value lies nearer to the front of the buffer than the     *)
(* pieces before it have room: a write never crosses the end.              *)
Placed == \A c \in Cells, v \in Values, i \in 1 .. MsgLen : buf[c] = <<v, i>> => i <= c + 1

LEMMA PlacedKept ==
    ASSUME Inv, Offers, Placed, [Next]_vars
    PROVE  Placed'
<1>1. (buf' = buf \/ buf' = Blank) => Placed'
  <2>1. \A c \in Cells, v \in Values, i \in 1 .. MsgLen : Blank[c] # <<v, i>>
    BY JunkAssumption, ValuesAssumption DEF Blank
  <2>. QED  BY <2>1 DEF Placed
<1>2. ASSUME NEW t \in Threads, WritePut(t) PROVE Placed'
  <2>1. /\ wp \in 0 .. (BufSize - 1) /\ Room \in 1 .. MsgLen
        /\ MsgLen \in Nat \ {0} /\ BufSize \in Nat
    BY <1>2, FreeMeansWrapped, PutAppends, SizesAssumption DEF Inv, WritePut, CanWrite
  <2>2. PICK v \in Values : msg[t] = Word(v)
    BY <1>2, PutAppends
  <2> DEFINE m == SubSeq(Word(v), 1, Room)
  <2>3. buf' = Store(buf, wp, m) /\ DOMAIN buf = Cells
    <3>1. Len(Word(v)) = MsgLen
      BY WordValue
    <3>. QED  BY <1>2, <2>1, <2>2, <3>1
              DEF WritePut, WriteCopy, AtMost, Inv, RingInv, TypeOK
  <2>4. DOMAIN m = 1 .. Room /\ \A i \in 1 .. Room : m[i] = <<v, i>>
    <3> DEFINE w == Word(v)
    <3>1. w \in Seq(Byte \cup {Junk}) /\ Len(w) = MsgLen /\ \A i \in 1 .. MsgLen : w[i] = <<v, i>>
      BY WordValue
    <3> HIDE DEF w
    <3>2. Room \in Nat /\ Room <= MsgLen /\ \A i \in 1 .. Room : i \in 1 .. MsgLen
      BY <2>1
    <3>3. DOMAIN SubSeq(w, 1, Room) = 1 .. Room /\ \A i \in 1 .. Room : SubSeq(w, 1, Room)[i] = w[i]
      BY <3>1, <3>2
    <3>. QED  BY <3>1, <3>2, <3>3 DEF w
  <2> HIDE DEF m
  <2>5. ASSUME NEW c \in Cells, NEW u \in Values, NEW i \in 1 .. MsgLen, buf'[c] = <<u, i>>
        PROVE  i <= c + 1
    <3>1. CASE c - wp + 1 \in 1 .. Room
      <4>1. buf'[c] = <<v, c - wp + 1>>
        BY <2>3, <2>4, <3>1 DEF Store
      <4>2. i = c - wp + 1
        BY <2>5, <4>1
      <4>. QED  BY <2>1, <4>2 DEF Cells
    <3>2. CASE c - wp + 1 \notin 1 .. Room
      <4>1. buf'[c] = buf[c]
        BY <2>3, <2>4, <3>2 DEF Store
      <4>. QED  BY <2>5, <4>1 DEF Placed
    <3>. QED  BY <3>1, <3>2
  <2>. QED  BY <2>5 DEF Placed, Cells
<1>3. ASSUME NEW t \in Threads, Step(t), ~WritePut(t) PROVE buf' = buf \/ buf' = Blank
  <2>1. CASE car_p_open(t) \/ car_p_release(t) \/ car_p_poll(t)
    BY <2>1 DEF car_p_open, car_p_release, car_p_poll, Open, OpenNoMemory, Release, Poll, ringVars
  <2>2. CASE car_p_read(t)
    BY <2>2 DEF car_p_read, ReadEmpty, WaitForData, ReadFault, ReadCopy, ReadUp, ReadWake, ringVars
  <2>3. CASE car_p_write(t)
    BY <1>3, <2>3 DEF car_p_write, car_getwritespace, WriteFull, WaitForSpace, WriteFault,
                      WriteUp, WriteWake, ringVars
  <2>. QED  BY <1>3, <2>1, <2>2, <2>3 DEF Step
<1>4. ASSUME NEW t \in Threads,
             CommonCall(t) \/ Interrupt(t) \/ \E v \in Values : CallWriteWord(t, v)
      PROVE  buf' = buf
  BY <1>4 DEF CommonCall, CallOpen, CallRelease, CallPoll, CallRead, Interrupt,
              CallWriteWord, CallWrite, ringVars
<1>5. CASE UNCHANGED vars
  BY <1>1, <1>5 DEF vars, ringVars
<1>. QED  BY <1>1, <1>2, <1>3, <1>4, <1>5 DEF Next

(* While the ring holds whole values a read of whole values takes whole    *)
(* ones: had it to stop within one at the end of the buffer, the rest of   *)
(* that value would lie in the first cell, where only a first piece lies.  *)
LEMMA TakesWords ==
    ASSUME WholeReads, Inv, Placed, NEW t \in Threads, ReadCopy(t),
           NEW m \in Nat, OfWords(Pending, m)
    PROVE  \E j \in 0 .. m : Taken(t) = j * MsgLen
<1> DEFINE q == Pending
           len == BufSize - rp
<1>1. /\ rp \in 0 .. (BufSize - 1) /\ wp \in 0 .. (BufSize - 1)
      /\ BufSize \in Nat \ {0} /\ MsgLen \in Nat \ {0} /\ rp # wp
      /\ buf \in Buffers(BufSize, Byte \cup {Junk}) /\ allocated
  BY FreeMeansWrapped, CallersHaveBuffer, SizesAssumption
     DEF Inv, RingInv, TypeOK, ReadCopy, Cells, Buffers
<1>2. /\ want[t] \in Nat /\ want[t] % MsgLen = 0
  <2>1. want[t] \in ReadSizes \cup {0}
    BY DEF Inv, RingInv, TypeOK
  <2>2. 0 \in Nat /\ 0 % MsgLen = 0
    BY <1>1, ModSmall
  <2>3. \A x \in ReadSizes : x \in Nat /\ x % MsgLen = 0
    BY SizesAssumption DEF WholeReads
  <2>. QED  BY <2>1, <2>2, <2>3, Zenon
<1>3. /\ Len(q) = IF wp > rp THEN wp - rp ELSE wp + BufSize - rp
      /\ \A i \in 1 .. Len(q) : q[i] = buf[Behind(rp, i - 1, BufSize)]
  <2>1. HeldBetween(Contents(buf, rp, wp, BufSize), buf, rp, wp, BufSize, Byte \cup {Junk})
    BY <1>1, ContentsValue
  <2>2. q = Contents(buf, rp, wp, BufSize)
    BY <1>1 DEF Pending
  <2>3. Used(rp, wp, BufSize) = IF wp >= rp THEN wp - rp ELSE wp + BufSize - rp
    BY <1>1, UsedValue
  <2>. QED  BY <1>1, <2>1, <2>2, <2>3 DEF HeldBetween
<1>4. /\ Len(q) = m * MsgLen /\ m * MsgLen \in Nat
      /\ \A k \in 0 .. (m - 1) : \E v \in Values :
             \A i \in 1 .. MsgLen : q[k * MsgLen + i] = <<v, i>>
  <2>1. m * MsgLen \in Nat
    BY <1>1, SMT
  <2>. QED  BY <2>1 DEF OfWords
<1> HIDE DEF q
<1>5. Taken(t) \in Nat /\ Taken(t) <= Len(q)
  <2>1. Taken(t) \in 0 .. Len(q) /\ Len(q) \in Nat
    BY <1>4, ReadTakes DEF Inv, q
  <2>. QED  BY <2>1
<1>6. ASSUME wp < rp PROVE \E d \in Nat : len = d * MsgLen
  <2>1. CASE wp = 0
    <3>1. len = Len(q)
      BY <1>1, <1>3, <1>6, <2>1
    <3>. QED  BY <1>4, <3>1, Zenon
  <2>2. CASE wp # 0
    <3>1. PICK d \in Nat, e \in 0 .. (MsgLen - 1) : len = d * MsgLen + e
      <4>1. len \in Nat
        BY <1>1
      <4>. QED  BY <1>1, <4>1, DivMod
    <3>2. CASE e = 0
      <4>1. d * MsgLen \in Nat
        BY <1>1, SMT
      <4>. QED  BY <3>1, <3>2, <4>1
    <3>3. CASE e # 0
      <4>1. len + 1 <= Len(q) /\ len \in Nat
        BY <1>1, <1>3, <1>6, <2>2
      <4>2. d \in 0 .. (m - 1)
        <5>1. CASE m < d
          <6>1. m * MsgLen + MsgLen <= d * MsgLen /\ d * MsgLen \in Nat
            BY <1>1, <5>1, SlotBefore
          <6>. QED  BY <1>1, <1>4, <3>1, <4>1, <6>1
        <5>2. CASE m = d
          BY <1>1, <1>4, <3>1, <4>1, <5>2
        <5>. QED  BY <5>1, <5>2
      <4>3. PICK v \in Values : \A i \in 1 .. MsgLen : q[d * MsgLen + i] = <<v, i>>
        BY <1>4, <4>2
      <4>4. PICK a \in Nat : a = d * MsgLen /\ len = a + e
        <5>1. d * MsgLen \in Nat
          BY <1>1, SMT
        <5>. QED  BY <3>1, <5>1
      <4>5. e + 1 \in 1 .. MsgLen /\ a + (e + 1) = len + 1
        BY <1>1, <3>3, <4>4
      <4>6. q[len + 1] = <<v, e + 1>>
        BY <4>3, <4>4, <4>5
      <4>7. q[len + 1] = buf[0]
        <5>1. len + 1 \in 1 .. Len(q) /\ (len + 1) - 1 = len
          BY <1>4, <4>1
        <5>2. Behind(rp, len, BufSize) = 0
          BY <1>1 DEF Behind
        <5>. QED  BY <1>3, <5>1, <5>2
      <4>8. 0 \in Cells
        BY <1>1 DEF Cells
      <4>9. e + 1 <= 0 + 1
        BY <4>5, <4>6, <4>7, <4>8 DEF Placed
      <4>. QED  BY <3>1, <3>3, <4>9
    <3>. QED  BY <3>2, <3>3
  <2>. QED  BY <2>1, <2>2
<1>7. \E j \in Nat : Taken(t) = j * MsgLen
  <2>1. \/ Taken(t) = want[t]
        \/ wp > rp /\ Taken(t) = wp - rp
        \/ ~(wp > rp) /\ Taken(t) = len
    BY DEF Taken, ReadCount, AtMost
  <2>2. CASE Taken(t) = want[t]
    <3>1. want[t] = (want[t] \div MsgLen) * MsgLen + (want[t] % MsgLen) /\ want[t] \div MsgLen \in Nat
      BY <1>1, <1>2, DivMod
    <3>2. PICK j \in Nat : want[t] = j * MsgLen + 0
      BY <1>2, <3>1
    <3>3. j * MsgLen \in Nat
      BY <1>1, SMT
    <3>. QED  BY <2>2, <3>2, <3>3
  <2>3. CASE wp > rp /\ Taken(t) = wp - rp
    BY <1>3, <1>4, <2>3
  <2>4. CASE ~(wp > rp) /\ Taken(t) = len
    <3>1. wp < rp
      BY <1>1, <2>4
    <3>. QED  BY <1>6, <2>4, <3>1
  <2>. QED  BY <2>1, <2>2, <2>3, <2>4
<1>8. PICK j \in Nat : Taken(t) = j * MsgLen
  BY <1>7
<1>9. j <= m
  <2>1. CASE m < j
    <3>1. m * MsgLen + MsgLen <= j * MsgLen /\ j * MsgLen \in Nat
      BY <1>1, <2>1, SlotBefore
    <3>. QED  BY <1>1, <1>4, <1>5, <1>8, <3>1
  <2>. QED  BY <2>1
<1>. QED  BY <1>8, <1>9

(* A step that does not write part of a value keeps whole values whole. *)
LEMMA FramingStep ==
    ASSUME WholeReads, Inv, Offers, Placed, [Next]_vars, Framed, ~ShortWrite
    PROVE  Framed'
<1> USE DEF Inv
<1>1. Unread = Pending /\ Unread' = Pending'
  BY DEF Unread, Pending
<1>2. FramedSeq(Pending)
  BY <1>1, FramedIs
<1>3. ASSUME Pending' = Pending \/ Pending' = <<>> PROVE Framed'
  <2>1. FramedSeq(<<>>)
    <3>1. <<>> \in Seq(Byte \cup {Junk}) /\ OfWords(<<>>, 0) /\ 0 \in Nat
      BY NoWords DEF OfWords
    <3>. QED  BY <3>1, FramedValue
  <2>. QED  BY <1>1, <1>2, <1>3, <2>1, FramedIs
<1>4. ASSUME NEW n \in Nat, OfWords(Pending', n) PROVE Framed'
  <2>1. Pending' \in Seq(Byte \cup {Junk})
    BY <1>4 DEF OfWords
  <2>2. FramedSeq(Pending')
    BY <1>4, <2>1, FramedValue
  <2>. QED  BY <1>1, <2>2, FramedIs
<1>5. ASSUME NEW t \in Threads,
             \/ CommonCall(t) \/ Interrupt(t) \/ \E v \in Values : CallWriteWord(t, v)
             \/ OpenNoMemory(t) \/ Poll(t)
             \/ ReadEmpty(t) \/ WaitForData(t) \/ ReadFault(t) \/ ReadWake(t)
             \/ WriteFull(t) \/ WaitForSpace(t) \/ WriteWake(t)
             \/ ReadUp(t) \/ WriteUp(t) \/ WriteFault(t)
      PROVE  Pending' = Pending
  <2>1. CASE CommonCall(t) \/ Interrupt(t)
    BY <2>1, CallsAreQuiet DEF Quiet
  <2>2. CASE \E v \in Values : CallWriteWord(t, v)
    <3>1. \E m : CallWrite(t, m) /\ mode[t] # {}
      BY <2>2 DEF CallWriteWord
    <3>. QED  BY <3>1, CallsAreQuiet DEF Quiet
  <2>3. CASE ReadUp(t) \/ WriteUp(t)
    BY <2>3, UpsHand DEF Quiet, Hands
  <2>4. CASE WriteFault(t)
    BY <2>4 DEF WriteFault, Pending, ringVars
  <2>. QED  BY <1>5, <2>1, <2>2, <2>3, <2>4, WaitsAreQuiet DEF Quiet
<1>6. ASSUME NEW t \in Threads, Open(t) \/ Release(t)
      PROVE  Pending' = Pending \/ Pending' = <<>>
  BY <1>6, OpenEmpties, ReleaseCloses DEF Opens, Closes
<1>7. ASSUME NEW t \in Threads, ReadCopy(t) PROVE Framed'
  <2>1. Pending \in Seq(Byte \cup {Junk}) /\ Takes(Taken(t))
    BY <1>7, ReadTakes
  <2>2. PICK m \in Nat : OfWords(Pending, m)
    BY <1>2, <2>1, FramedValue
  <2>3. PICK j \in 0 .. m : Taken(t) = j * MsgLen
    BY <1>7, <2>2, TakesWords
  <2>4. Pending' = SubSeq(Pending, j * MsgLen + 1, Len(Pending))
    BY <2>1, <2>3 DEF Takes
  <2>5. OfWords(Pending', m - j) /\ m - j \in Nat
    BY <2>2, <2>4, WordsBehind
  <2>. QED  BY <1>4, <2>5
<1>8. ASSUME NEW t \in Threads, WritePut(t) PROVE Framed'
  <2>1. PICK v \in Values : Written = SubSeq(Word(v), 1, Room)
    BY <1>8, PutAppends
  <2>2. Appends(Written) /\ Room \in 1 .. MsgLen /\ MsgLen \in Nat
    BY <1>8, PutAppends, SizesAssumption
  <2>3. Room = MsgLen
    <3>1. wp' # wp
      BY <1>8, <2>2 DEF WritePut, WriteCopy, RingInv, TypeOK
    <3>2. ~(Room < MsgLen)
      BY <1>8, <3>1 DEF ShortWrite, WritePut
    <3>. QED  BY <2>2, <3>2
  <2>4. Written = Word(v)
    <3> DEFINE w == Word(v)
    <3>1. w \in Seq(Byte \cup {Junk}) /\ Len(w) = MsgLen
      BY WordValue
    <3>2. SubSeq(w, 1, Len(w)) = w
      <4> HIDE DEF w
      <4>. QED  BY <3>1
    <3>. QED  BY <2>1, <2>3, <3>1, <3>2
  <2>5. Pending \in Seq(Byte \cup {Junk})
    <3>1. /\ rp \in 0 .. (BufSize - 1) /\ wp \in 0 .. (BufSize - 1)
          /\ BufSize \in Nat \ {0} /\ buf \in Buffers(BufSize, Byte \cup {Junk}) /\ allocated
      BY <1>8, FreeMeansWrapped, CallersHaveBuffer, SizesAssumption
         DEF RingInv, TypeOK, WritePut, CanWrite, Cells, Buffers
    <3>. QED  BY <3>1, ContentsValue DEF Pending, HeldBetween
  <2>6. PICK m \in Nat : OfWords(Pending, m)
    BY <1>2, <2>5, FramedValue
  <2>7. Pending' = Pending \o Word(v)
    BY <2>2, <2>4 DEF Appends
  <2>8. OfWords(Pending', m + 1) /\ m + 1 \in Nat
    BY <2>6, <2>7, WordsAppended
  <2>. QED  BY <1>4, <2>8
<1>9. CASE UNCHANGED vars
  <2>1. Pending' = Pending
    BY <1>9 DEF vars, ringVars, Pending
  <2>. QED  BY <1>3, <2>1
<1>. QED  BY <1>3, <1>5, <1>6, <1>7, <1>8, <1>9
          DEF Next, Step, car_p_open, car_p_release, car_p_read, car_p_poll, car_p_write,
              car_getwritespace

(* While the clients read whole values, framing is lost to a write that    *)
(* found room for part of its value, and to nothing else: no open, close,  *)
(* signal, fault or wrap in any order, whatever the buffer's size.         *)
THEOREM KeepsFraming == WholeReads => (Spec => FramingLostOnlyByShortWrite)
<1> DEFINE A == Framed /\ ~ShortWrite => Framed'
<1> SUFFICES ASSUME WholeReads PROVE Spec => FramingLostOnlyByShortWrite
  OBVIOUS
<1>1. Inv /\ Offers /\ Placed /\ [Next]_vars => Inv' /\ Offers' /\ Placed'
  BY NextKeeps, OffersKept, PlacedKept
<1>2. Inv /\ Offers /\ Placed /\ [Next]_vars => [A]_vars
  BY FramingStep
<1>3. Init => Inv /\ Offers /\ Placed
  <2>1. Init => Placed
    BY JunkAssumption, ValuesAssumption DEF Init, Blank, Placed
  <2>. QED  BY <2>1, InitHolds DEF Init, Offers
<1>. QED  BY <1>1, <1>2, <1>3, PTL DEF Spec, FramingLostOnlyByShortWrite
=============================================================================
