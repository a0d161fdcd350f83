-------------------------- MODULE MotorTunnelProof --------------------------
(***************************************************************************)
(* The theorems about motor_tun.c: RingInv of TunnelRingProof is preserved *)
(* by the ioctl as well.                                                   *)
(***************************************************************************)
EXTENDS MotorTunnel, TunnelRingProof

Inv == RingInv /\ NoLostWakeup

(* Whatever its code, an ioctl publishes bytes. *)
LEMMA IoctlPublishesBytes ==
    ASSUME NEW code \in Commands \cup OtherCodes
    PROVE  (IF code \in Commands THEN CommandString(code) ELSE <<>>) \in Seq(Byte)
<1>1. CASE code \in Commands
  <2>1. CommandString(code) \in [1 .. MsgLen -> Byte]
    BY <1>1, CommandsAssumption DEF CommandString
  <2>2. CommandString(code) \in Seq(Byte)
    BY <2>1, SizesAssumption, FunctionIsSeq
  <2>. QED  BY <1>1, <2>2
<1>2. CASE code \notin Commands
  BY <1>2
<1>. QED  BY <1>1, <1>2

(* The return that forgets up(&dev->sem) leaves the ring alone. *)
LEMMA IoctlShortKeeps ==
    ASSUME Inv, NEW t \in Threads, IoctlShort(t)
    PROVE  Inv'
<1> USE DEF Inv, RingInv, IoctlShort, CanWrite
<1>1. TypeOK'
  BY ReturnTypes DEF TypeOK, ringVars, countVars
<1>2. MutualExclusion' /\ PointersWrapped'
  BY DEF TypeOK, Return, MutualExclusion, PointersWrapped, Critical, ringVars
<1>3. CallersHaveFiles'
  BY DEF TypeOK, Return, CallersHaveFiles
<1>4. SameFiles
  BY DEF TypeOK, Return, SameFiles, OpenFiles, ringVars, countVars
<1>5. NoLostWakeup'
  BY DEF TypeOK, Return, NoLostWakeup, ringVars
<1>. QED  BY <1>1, <1>2, <1>3, <1>4, <1>5, SameFilesKeeps

(* Every step of the driver preserves the invariant. *)
LEMMA NextKeeps ==
    ASSUME Inv, [Next]_vars
    PROVE  Inv'
<1> USE DEF Inv
<1>1. ASSUME NEW t \in Threads, CommonCall(t) PROVE Inv'
  BY <1>1, CallsKeep, WakeupCallsKeep
<1>2. ASSUME NEW t \in Threads, NEW code \in Commands \cup OtherCodes, CallIoctl(t, code)
      PROVE  Inv'
  <2> DEFINE m == IF code \in Commands THEN CommandString(code) ELSE <<>>
  <2>1. m \in Seq(Byte)
    BY IoctlPublishesBytes
  <2>2. mode[t] # {} /\ CallWrite(t, m)
    BY <1>2 DEF CallIoctl
  <2>3. RingInv'
    BY <2>1, <2>2, CallWriteKeeps
  <2>4. NoLostWakeup'
    BY <2>2, WakeupCallsKeep
  <2>. QED  BY <2>3, <2>4
<1>3. ASSUME NEW t \in Threads, Interrupt(t) PROVE Inv'
  BY <1>3, InterruptKeeps, WakeupCallsKeep
<1>4. ASSUME NEW t \in Threads, CommonStep(t) PROVE Inv'
  BY <1>4, StepsKeep, WakeupStepsKeep
<1>5. ASSUME NEW t \in Threads, IoctlShort(t) PROVE Inv'
  BY <1>5, IoctlShortKeeps
<1>6. ASSUME NEW t \in Threads, IoctlPut(t) PROVE Inv'
  BY <1>6, WriteCopyKeeps, WakeupWriteKeeps DEF IoctlPut
<1>7. CASE UNCHANGED vars
  <2>1. NoLostWakeup'
    BY <1>7 DEF NoLostWakeup, vars, threadVars, ringVars
  <2>. QED  BY <1>7, <2>1, StutterKeeps
<1>. QED  BY <1>1, <1>2, <1>3, <1>4, <1>5, <1>6, <1>7 DEF Next, Step

(* The initial state satisfies the invariant. *)
LEMMA InitHolds == Init => Inv
BY RingInit DEF Init, Inv, NoLostWakeup

(* The inductive invariant of motor_tun.c. *)
THEOREM Invariance == Spec => []Inv
BY InitHolds, NextKeeps, PTL DEF Spec

(* Every variable keeps its type: no pointer leaves the buffer, no open    *)
(* count goes below zero, for any clients, buffer and message length.      *)
THEOREM TypeCorrect == Spec => []TypeOK
<1>1. Inv => TypeOK
  BY DEF Inv, RingInv
<1>. QED  BY <1>1, Invariance, PTL

(* Two threads are never in a critical section of the driver together.     *)
THEOREM Excludes == Spec => []MutualExclusion
<1>1. Inv => MutualExclusion
  BY DEF Inv, RingInv
<1>. QED  BY <1>1, Invariance, PTL

(* The open counts are right, and no open file finds the buffer freed.     *)
THEOREM HoldsBuffer == Spec => []BufferHeld
<1>1. Inv => BufferHeld
  BY DEF Inv, RingInv
<1>. QED  BY <1>1, Invariance, PTL

(* No reader sleeps over unread commands without a wake-up on its way.     *)
THEOREM LosesNoWakeup == Spec => []NoLostWakeup
<1>1. Inv => NoLostWakeup
  BY DEF Inv
<1>. QED  BY <1>1, Invariance, PTL

-----------------------------------------------------------------------------
(* Whole messages *)

(* Every writing call on its way publishes one command string or nothing. *)
MsgWhole == \A t \in Threads : msg[t] \in {CommandString(c) : c \in Commands} \cup {<<>>}

Whole == MsgWhole /\ SlotsWhole

(* The cells of a slot lie in the buffer, between those of the others. *)
LEMMA SlotInside ==
    ASSUME NEW s \in 0 .. (BufSize \div MsgLen) - 1
    PROVE  /\ s * MsgLen \in Nat
           /\ \A i \in 1 .. MsgLen : s * MsgLen + i - 1 \in Cells
<1> DEFINE q == BufSize \div MsgLen
<1>1. /\ BufSize = q * MsgLen + (BufSize % MsgLen)
      /\ BufSize % MsgLen \in 0 .. (MsgLen - 1) /\ q \in Nat
      /\ BufSize \in Nat /\ MsgLen \in Nat \ {0}
  BY SizesAssumption, DivMod
<1>2. s * MsgLen + MsgLen <= q * MsgLen /\ s * MsgLen \in Nat /\ q * MsgLen \in Nat
  BY <1>1, SlotBefore
<1>. QED  BY <1>1, <1>2 DEF Cells

(* A step that copies nothing and moves wp at most to a start of a slot. *)
LEMMA SlotsAside ==
    ASSUME SlotsWhole, buf' = buf, wp' % MsgLen = 0
    PROVE  SlotsWhole'
BY DEF SlotsWhole, Slot, Published

(* A step that ends calls, or none, and starts none. *)
LEMMA MsgAside ==
    ASSUME MsgWhole, \A u \in Threads : msg'[u] \in {msg[u], <<>>}
    PROVE  MsgWhole'
BY DEF MsgWhole

(* Calls, signals and the wake-ups move neither a byte nor wp. *)
LEMMA CallsKeepWhole ==
    ASSUME Inv, Whole, NEW t \in Threads, CommonCall(t) \/ Interrupt(t)
    PROVE  Whole'
<1> USE DEF Inv, RingInv, TypeOK, Whole, Return, Goto, OpenFails
<1>1. buf' = buf /\ wp' = wp
  BY DEF CommonCall, CallOpen, CallRelease, CallPoll, CallRead, Interrupt, ringVars
<1>2. SlotsWhole'
  BY <1>1, SlotsAside DEF SlotsWhole
<1>3. \A u \in Threads : msg'[u] \in {msg[u], <<>>}
  <2>1. msg' = msg \/ msg' = [msg EXCEPT ![t] = <<>>]
    BY DEF CommonCall, CallOpen, CallRelease, CallPoll, CallRead, Interrupt
  <2>. QED  BY <2>1
<1>4. MsgWhole'
  BY <1>3, MsgAside
<1>. QED  BY <1>2, <1>4

(* An ioctl offers one command string or nothing. *)
LEMMA IoctlKeepsWhole ==
    ASSUME Inv, Whole, NEW t \in Threads, NEW code \in Commands \cup OtherCodes,
           CallIoctl(t, code)
    PROVE  Whole'
<1> USE DEF Inv, RingInv, TypeOK, Whole, CallIoctl, CallWrite
<1>1. SlotsWhole'
  <2>1. buf' = buf /\ wp' = wp
    BY DEF ringVars
  <2>. QED  BY <2>1, SlotsAside DEF SlotsWhole
<1>2. MsgWhole'
  BY DEF MsgWhole
<1>. QED  BY <1>1, <1>2

(* The wrap at the end of the buffer is a start of a slot, and blank slots *)
(* are whole.                                                              *)
LEMMA CommonStepKeepsWhole ==
    ASSUME Inv, Whole, NEW t \in Threads, CommonStep(t) \/ IoctlShort(t)
    PROVE  Whole'
<1> USE DEF Inv, RingInv, TypeOK, Whole, Return, Goto, OpenFails
<1>1. 0 % MsgLen = 0
  BY SizesAssumption, ModSmall
<1>2. MsgWhole'
  <2>1. \A u \in Threads : msg'[u] \in {msg[u], <<>>}
    <3>1. msg' = msg \/ msg' = [msg EXCEPT ![t] = <<>>]
      BY DEF CommonStep, OpenNoMemory, Open, Release, Poll, ReadEmpty, WaitForData,
             ReadFault, ReadCopy, ReadUp, ReadWake, WriteFull, WaitForSpace, WriteUp,
             WriteWake, IoctlShort
    <3>. QED  BY <3>1
  <2>. QED  BY <2>1, MsgAside
<1>3. CASE Open(t)
  <2>1. buf' = buf /\ wp' % MsgLen = 0
    BY <1>1, <1>3 DEF Open
  <2>. QED  BY <1>2, <2>1, SlotsAside
<1>4. CASE Release(t)
  <2>1. CASE buf' = buf
    <3>1. wp' % MsgLen = 0
      BY <1>4 DEF Release, SlotsWhole
    <3>. QED  BY <1>2, <2>1, <3>1, SlotsAside
  <2>2. CASE buf' = Blank
    <3>1. ASSUME NEW s \in 0 .. (BufSize \div MsgLen) - 1 PROVE Slot(s)' = Unwritten
      <4>1. \A i \in 1 .. MsgLen : s * MsgLen + i - 1 \in Cells
        BY SlotInside
      <4>. QED  BY <2>2, <4>1 DEF Slot, Unwritten, Blank
    <3>. QED  BY <1>2, <1>4, <3>1 DEF Release, SlotsWhole, Published
  <2>. QED  BY <1>2, <1>4, <2>1, <2>2 DEF Release
<1>5. CASE WriteUp(t)
  <2>1. wp' = 0 \/ wp' = wp
    BY <1>5 DEF WriteUp, Wrap
  <2>2. wp' % MsgLen = 0
    BY <1>1, <2>1 DEF SlotsWhole
  <2>. QED  BY <1>2, <1>5, <2>2, SlotsAside DEF WriteUp
<1>6. CASE ~(Open(t) \/ Release(t) \/ WriteUp(t))
  <2>1. buf' = buf /\ wp' = wp
    BY <1>6 DEF CommonStep, OpenNoMemory, Poll, ReadEmpty, WaitForData,
             ReadFault, ReadCopy, ReadUp, ReadWake, WriteFull, WaitForSpace,
             WriteWake, IoctlShort, ringVars
  <2>. QED  BY <1>2, <2>1, SlotsAside DEF SlotsWhole
<1>. QED  BY <1>2, <1>3, <1>4, <1>5, <1>6

(* An ioctl that has room for its whole string fills one slot with it, or, *)
(* when its code has no case, leaves the slot as it was.                   *)
LEMMA PutKeepsWhole ==
    ASSUME Inv, Whole, NEW t \in Threads, IoctlPut(t)
    PROVE  Whole' /\ Written \in Published
<1> DEFINE last == BufSize \div MsgLen
<1>1. /\ wp \in 0 .. (BufSize - 1) /\ wp + MsgLen <= BufSize /\ wp' = wp + MsgLen
      /\ Room = MsgLen /\ MsgLen \in Nat \ {0} /\ BufSize \in Nat
  <2>1. wp \in 0 .. (BufSize - 1) /\ rp \in 0 .. (BufSize - 1)
    BY FreeMeansWrapped DEF Inv, IoctlPut, CanWrite
  <2>2. Room = MsgLen /\ wp' = wp + Room
    BY DEF IoctlPut, WriteCopy
  <2>3. wp + Room <= BufSize
    BY <2>1, SizesAssumption, WriteStays DEF Room
  <2>. QED  BY <2>1, <2>2, <2>3, SizesAssumption
<1>2. PICK q \in Nat : wp = q * MsgLen /\ q * MsgLen \in Nat
  <2>1. wp % MsgLen = 0
    BY DEF Whole, SlotsWhole
  <2> DEFINE d == wp \div MsgLen
  <2>2. wp = d * MsgLen + (wp % MsgLen) /\ d \in Nat
    BY <1>1, DivMod
  <2> HIDE DEF d
  <2>3. wp = d * MsgLen + 0
    BY <2>1, <2>2
  <2>4. d * MsgLen \in Nat
    BY <1>1, <2>2, SMT
  <2>. QED  BY <2>2, <2>3, <2>4
<1>3. wp' % MsgLen = 0
  <2>1. wp + MsgLen = (q + 1) * MsgLen + 0 /\ q + 1 \in Nat
    BY <1>1, <1>2, SMT
  <2>2. 0 \in 0 .. (MsgLen - 1)
    BY <1>1
  <2>3. ((q + 1) * MsgLen + 0) % MsgLen = 0
    BY <1>1, <2>1, <2>2, ModUnique
  <2>. QED  BY <1>1, <2>1, <2>3
<1>4. q \in 0 .. last - 1
  <2>1. /\ BufSize = last * MsgLen + (BufSize % MsgLen)
        /\ BufSize % MsgLen \in 0 .. (MsgLen - 1) /\ last \in Nat
    BY <1>1, DivMod
  <2> HIDE DEF last
  <2>2. last <= q => last * MsgLen <= q * MsgLen /\ last * MsgLen \in Nat
    BY <1>1, <1>2, <2>1, SMT
  <2>. QED  BY <1>1, <1>2, <2>1, <2>2
<1>5. Slot(q) \in Published /\ \A s \in 0 .. last - 1 : Slot(s) \in Published
  BY <1>4 DEF Whole, SlotsWhole
<1>6. /\ \A i \in 1 .. MsgLen : q * MsgLen + i - 1 \in Cells
      /\ \A s \in 0 .. last - 1 : \A i \in 1 .. MsgLen : s * MsgLen + i - 1 \in Cells
  BY <1>4, SlotInside
<1>7. msg[t] \in {CommandString(c) : c \in Commands} \cup {<<>>}
  BY DEF Whole, MsgWhole
<1>8. Written = Slot(q)'
  BY <1>1, <1>2 DEF Written, Slot
<1>9. Slot(q)' \in Published /\ \A s \in 0 .. last - 1 : s # q => Slot(s)' = Slot(s)
  <2>1. CASE msg[t] = <<>>
    <3>1. SubSeq(msg[t], 1, AtMost(Room, Len(msg[t]))) = <<>>
      BY <1>1, <2>1 DEF AtMost
    <3>2. buf' = Store(buf, wp, <<>>) /\ buf \in [Cells -> Byte \cup {Junk}]
      BY <3>1 DEF IoctlPut, WriteCopy, Inv, RingInv, TypeOK
    <3>3. DOMAIN <<>> = {}
      OBVIOUS
    <3>4. buf' = [i \in DOMAIN buf |-> buf[i]]
      BY <3>2, <3>3 DEF Store
    <3>5. buf' = buf
      BY <3>2, <3>4
    <3>. QED  BY <1>5, <3>5 DEF Slot, Published
  <2>2. ASSUME NEW c \in Commands, msg[t] = CommandString(c)
        PROVE  /\ Slot(q)' = CommandString(c)
               /\ \A s \in 0 .. last - 1 : s # q => Slot(s)' = Slot(s)
    <3> DEFINE m == CommandString(c)
    <3>1. m \in Seq(Byte) /\ Len(m) = MsgLen /\ DOMAIN m = 1 .. MsgLen
      <4>1. m \in [1 .. MsgLen -> Byte]
        BY CommandsAssumption DEF CommandString
      <4>2. DOMAIN m = 1 .. MsgLen
        BY DEF CommandString
      <4> HIDE DEF m
      <4>. QED  BY <1>1, <4>1, <4>2, FunctionLength
    <3> HIDE DEF m
    <3>2. SubSeq(m, 1, MsgLen) = m
      BY <3>1
    <3>3. buf' = Store(buf, wp, m) /\ DOMAIN buf = Cells
      BY <1>1, <2>2, <3>1, <3>2 DEF IoctlPut, WriteCopy, AtMost, m, Inv, RingInv, TypeOK
    <3>4. ASSUME NEW i \in 1 .. MsgLen PROVE buf'[q * MsgLen + i - 1] = m[i]
      <4> DEFINE j == q * MsgLen + i - 1
      <4>1. j \in Cells
        BY <1>6
      <4>2. j - wp + 1 = i
        BY <1>1, <1>2
      <4> HIDE DEF j
      <4>3. buf'[j] = m[i]
        BY <3>1, <3>3, <4>1, <4>2 DEF Store
      <4>. QED  BY <4>3 DEF j
    <3>5. Slot(q)' = m
      <4>1. m = [i \in 1 .. MsgLen |-> m[i]]
        BY DEF m, CommandString
      <4>2. Slot(q)' = [i \in 1 .. MsgLen |-> m[i]]
        BY <3>4 DEF Slot
      <4>. QED  BY <4>1, <4>2
    <3>6. ASSUME NEW s \in 0 .. last - 1, s # q, NEW i \in 1 .. MsgLen
          PROVE  buf'[s * MsgLen + i - 1] = buf[s * MsgLen + i - 1]
      <4>1. s \in Nat /\ s * MsgLen \in Nat
        BY <3>6, SlotInside
      <4>2. s * MsgLen + MsgLen <= q * MsgLen \/ q * MsgLen + MsgLen <= s * MsgLen
        <5>1. s < q \/ q < s
          BY <1>2, <3>6, <4>1
        <5>. QED  BY <1>1, <1>2, <4>1, <5>1, SlotBefore
      <4> DEFINE j == s * MsgLen + i - 1
      <4>3. j \in Cells
        BY <1>6, <3>6
      <4>4. j - wp + 1 \notin 1 .. MsgLen
        BY <1>1, <1>2, <4>1, <4>2
      <4> HIDE DEF j
      <4>5. buf'[j] = buf[j]
        BY <3>1, <3>3, <4>3, <4>4 DEF Store
      <4>. QED  BY <4>5 DEF j
    <3>. QED  BY <3>5, <3>6 DEF Slot, m
  <2>. QED  BY <1>7, <2>1, <2>2 DEF Published
<1>10. SlotsWhole'
  BY <1>3, <1>5, <1>9 DEF SlotsWhole, Published
<1>11. MsgWhole'
  <2>1. msg' = msg
    BY DEF IoctlPut, WriteCopy, Goto
  <2>. QED  BY <2>1, MsgAside DEF Whole
<1>. QED  BY <1>8, <1>9, <1>10, <1>11 DEF Whole

(* Initially nobody calls and every slot is blank. *)
LEMMA InitWhole == Init => Whole
<1> SUFFICES ASSUME Init PROVE Whole
  OBVIOUS
<1>1. wp % MsgLen = 0
  BY SizesAssumption, ModSmall DEF Init
<1>2. ASSUME NEW s \in 0 .. (BufSize \div MsgLen) - 1 PROVE Slot(s) = Unwritten
  <2>1. \A i \in 1 .. MsgLen : s * MsgLen + i - 1 \in Cells
    BY SlotInside
  <2>. QED  BY <2>1 DEF Slot, Unwritten, Blank, Init
<1>3. MsgWhole
  BY DEF Init, MsgWhole
<1>. QED  BY <1>1, <1>2, <1>3 DEF Whole, SlotsWhole, Published

(* Every step of the driver keeps the messages whole. *)
LEMMA NextKeepsWhole ==
    ASSUME Inv, Whole, [Next]_vars
    PROVE  Whole'
<1>1. CASE UNCHANGED vars
  <2>1. SlotsWhole'
    BY <1>1, SlotsAside DEF Whole, SlotsWhole, vars, ringVars
  <2>2. MsgWhole'
    BY <1>1, MsgAside DEF Whole, vars, threadVars
  <2>. QED  BY <2>1, <2>2 DEF Whole
<1>. QED
  BY <1>1, CallsKeepWhole, IoctlKeepsWhole, CommonStepKeepsWhole, PutKeepsWhole DEF Next, Step

(* The ring consists of whole command strings, whatever is interrupted,    *)
(* reset or freed, and wherever the codes without a case leave wp: what a  *)
(* relay reads of an unfilled slot is stale or blank, never half of one    *)
(* command and half of another.                                            *)
THEOREM SlotsStayWhole == Spec => []SlotsWhole
<1>1. Init => Inv /\ Whole
  BY InitHolds, InitWhole
<1>2. Inv /\ Whole /\ [Next]_vars => Inv' /\ Whole'
  BY NextKeeps, NextKeepsWhole
<1>3. Whole => SlotsWhole
  BY DEF Whole
<1>. QED  BY <1>1, <1>2, <1>3, PTL DEF Spec

-----------------------------------------------------------------------------
(* The refinement *)

(* The initial states are initial states of the promised queue. *)
LEMMA PromiseInit == Init => Promise!Init
BY InitQueue DEF Promise!Init, Pending

(* A step of the ring's queue is a step of the promised one. *)
LEMMA QueueSteps ==
    /\ Quiet => UNCHANGED Promise!vars
    /\ \A t \in Threads : Opens(t) \/ Closes(t) => Promise!Next
    /\ \A n \in 1 .. Len(Pending) : Takes(n) => Promise!Next
    /\ Hands => Promise!Next
    /\ \A m \in Published : Appends(m) => Promise!Next
<1>1. Quiet => UNCHANGED Promise!vars
  BY DEF Quiet, Pending, Promise!vars
<1>2. \A t \in Threads : Opens(t) => Promise!Open(t)
  BY DEF Opens, Pending, Promise!Open
<1>3. \A t \in Threads : Closes(t) => Promise!Close(t)
  BY DEF Closes, Pending, Promise!Close
<1>4. \A n \in 1 .. Len(Pending) : Takes(n) => Promise!Take(n)
  BY DEF Takes, Pending, Promise!Take
<1>5. Hands => Promise!Handed
  BY DEF Hands, Pending, Promise!Handed
<1>6. \A m \in Published : Appends(m) => Promise!Accept(m)
  BY DEF Appends, Pending, Promise!Accept
<1>. QED  BY <1>1, <1>2, <1>3, <1>4, <1>5, <1>6 DEF Promise!Next, Pending

(* Every step of the driver is one of the promised queue, or none. *)
LEMMA PromiseStep ==
    ASSUME Inv, Whole, [Next]_vars
    PROVE  [Promise!Next]_(Promise!vars)
<1> USE DEF Inv
<1>1. ASSUME NEW t \in Threads, CommonCall(t) \/ Interrupt(t)
      PROVE  UNCHANGED Promise!vars
  BY <1>1, CallsAreQuiet, QueueSteps
<1>2. ASSUME NEW t \in Threads, NEW code \in Commands \cup OtherCodes, CallIoctl(t, code)
      PROVE  UNCHANGED Promise!vars
  BY <1>2, CallsAreQuiet, QueueSteps DEF CallIoctl
<1>3. ASSUME NEW t \in Threads, CommonStep(t)
      PROVE  [Promise!Next]_(Promise!vars)
  <2>1. CASE Open(t) \/ Release(t)
    BY <2>1, OpenEmpties, ReleaseCloses, QueueSteps
  <2>2. CASE ReadCopy(t)
    <3>1. PICK n \in 0 .. Len(Pending) : Takes(n)
      BY <2>2, ReadTakes
    <3>2. CASE n = 0
      BY <2>2, <3>1, <3>2, ReadTakes, TakeNothing, QueueSteps
    <3>3. CASE n # 0
      BY <3>1, <3>3, QueueSteps
    <3>. QED  BY <3>2, <3>3
  <2>3. CASE ReadUp(t) \/ WriteUp(t)
    BY <2>3, UpsHand, QueueSteps
  <2>4. CASE ~(Open(t) \/ Release(t) \/ ReadCopy(t) \/ ReadUp(t) \/ WriteUp(t))
    BY <1>3, <2>4, WaitsAreQuiet, QueueSteps DEF CommonStep
  <2>. QED  BY <2>1, <2>2, <2>3, <2>4
<1>4. ASSUME NEW t \in Threads, IoctlShort(t)
      PROVE  UNCHANGED Promise!vars
  <2>1. Quiet
    BY <1>4 DEF IoctlShort, Quiet, Pending, ringVars, OpenFiles, Return, CanWrite,
                RingInv, TypeOK
  <2>. QED  BY <2>1, QueueSteps
<1>5. ASSUME NEW t \in Threads, IoctlPut(t)
      PROVE  Promise!Next
  <2>1. Appends(Written)
    BY <1>5, WriteAppends DEF IoctlPut
  <2>2. Written \in Published
    BY <1>5, PutKeepsWhole
  <2>. QED  BY <2>1, <2>2, QueueSteps
<1>6. CASE UNCHANGED vars
  BY <1>6 DEF vars, threadVars, ringVars, Promise!vars, OpenFiles
<1>. QED  BY <1>1, <1>2, <1>3, <1>4, <1>5, <1>6 DEF Next, Step

(* motor_tun.c implements the promised queue, for any clients, buffer and  *)
(* commands: whole messages in order, none overwritten before it is read   *)
(* and none read twice, unread ones lost to an open or the last close.     *)
THEOREM Refines == Spec => KeepsPromise
<1>1. Init => Promise!Init
  BY PromiseInit
<1>2. Inv /\ Whole /\ [Next]_vars => [Promise!Next]_(Promise!vars)
  BY PromiseStep
<1>3. Init => Inv /\ Whole
  BY InitHolds, InitWhole
<1>4. Inv /\ Whole /\ [Next]_vars => Inv' /\ Whole'
  BY NextKeeps, NextKeepsWhole
<1>. QED  BY <1>1, <1>2, <1>3, <1>4, PTL DEF Spec, KeepsPromise, Promise!Spec
=============================================================================
