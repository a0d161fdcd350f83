---------------------------- MODULE SensorTunnel ----------------------------
(***************************************************************************)
(* pod/driver/sensor_tun.c: the tunnel that carries the values of one      *)
(* sensor from the sensor relay's write() to the car program's read().     *)
(* Its open, release, read, poll and car_getwritespace are, line for line, *)
(* those of motor_tun.c; they are named here after this file's functions.  *)
(***************************************************************************)
EXTENDS TunnelRing

CONSTANT Values         \* what a sensor may report

(* The uint32 the relay writes, byte by byte. *)
Word(v) == [i \in 1 .. MsgLen |-> <<v, i>>]

ASSUME ValuesAssumption == Byte = Values \X (1 .. MsgLen)

CallWriteWord(t, v) == "w" \in mode[t] /\ CallWrite(t, Word(v))

car_p_open(t) == OpenNoMemory(t) \/ Open(t)

car_p_release(t) == Release(t)

car_p_read(t) ==
    \/ ReadEmpty(t)
    \/ WaitForData(t)
    \/ ReadFault(t)
    \/ ReadCopy(t)
    \/ ReadUp(t)
    \/ ReadWake(t)

car_getwritespace(t) == WriteFull(t) \/ WaitForSpace(t)

car_p_poll(t) == Poll(t)

(* Mutant: the failed copy returns without up(). *)
WriteFaultKeepsSem(t) ==
    /\ CanWrite(t)
    /\ sem' = 0
    /\ Return(t)
    /\ UNCHANGED <<mode, ringVars, countVars, ubuf>>

WriteFault(t) ==
    /\ CanWrite(t)
    /\ Return(t)
    /\ UNCHANGED <<mode, sem, ringVars, countVars, ubuf>>

(* As many bytes as there is room for, the rest of the value is dropped:   *)
(* the relay does not look at the count write() returns.                   *)
WritePut(t) == CanWrite(t) /\ WriteCopy(t)

car_p_write(t) ==
    \/ car_getwritespace(t)
    \/ WriteFault(t)
    \/ WritePut(t)
    \/ WriteUp(t)
    \/ WriteWake(t)

Step(t) ==
    \/ car_p_open(t)
    \/ car_p_release(t)
    \/ car_p_read(t)
    \/ car_p_poll(t)
    \/ car_p_write(t)

Next == \E t \in Threads :
            \/ CommonCall(t)
            \/ \E v \in Values : CallWriteWord(t, v)
            \/ Interrupt(t)
            \/ Step(t)

(* See MotorTunnel: the scheduler runs every thread, and a Linux semaphore *)
(* serves its waiters in turn.                                             *)
Fairness == \A t \in Threads : SF_vars(Step(t))

Spec == Init /\ [][Next]_vars
FairSpec == Spec /\ Fairness

-----------------------------------------------------------------------------
(* The semaphore excludes, and no path through the driver loses it, the    *)
(* early returns included.                                                 *)
SemExact == MutualExclusion /\ SemBalanced

(* A writer asleep on outq although there is room, with nobody about to    *)
(* wake it.                                                                *)
Stranded(t) ==
    /\ pc[t] = "in_outq"
    /\ SpaceFree(rp, wp, BufSize) # 0
    /\ \A u \in Threads : pc[u] \notin {"rd_up", "rd_wake"}

(* The comment at the sleep loop (l.129) says a writer waits while the     *)
(* ring is full: while (spacefree(dev) == 0) { /* full */                  *)
WaitsOnlyWhenFull == \A t \in Threads : ~Stranded(t)

(* Reads, faults, signals, closes and other writers strand no writer: only *)
(* an open does, which empties the ring (l.58) and wakes nobody.           *)
StrandedOnlyByOpen ==
    [][ \A t \in Threads : Stranded(t)' => Stranded(t) \/
            \E u \in Threads : pc[u] = "open" /\ (pc[u] = "idle")' ]_vars

(* The unread bytes are whole values, as the car program's 4-byte reads    *)
(* need them to be.                                                        *)
Unread == IF allocated THEN Contents(buf, rp, wp, BufSize) ELSE <<>>
Framed ==
    /\ Len(Unread) % MsgLen = 0
    /\ \A k \in 0 .. (Len(Unread) \div MsgLen) - 1 :
            SubSeq(Unread, k * MsgLen + 1, (k + 1) * MsgLen)
                \in {Word(v) : v \in Values}

(* A write that takes less than the value it was offered (l.170-174). *)
ShortWrite == wp' # wp /\ \E t \in Threads : CanWrite(t) /\ Room < MsgLen

(* Framing is lost to a short write and to nothing else: not to a signal,  *)
(* a fault, an open, a close or the wrap, in whatever order they come.     *)
FramingLostOnlyByShortWrite == [][ Framed /\ ~ShortWrite => Framed' ]_vars

(* The driver implements the promised queue: a write appends the beginning *)
(* of its value, and bytes leave in order, each of them once, or are       *)
(* discarded by an open or the last close.                                 *)
Promise == INSTANCE TunnelPromise
             WITH Messages <- {SubSeq(Word(v), 1, n) : v \in Values, n \in 1 .. MsgLen},
                  Capacity <- BufSize,
                  queue <- Unread,
                  delivered <- ubuf,
                  Clients <- Threads,
                  files <- OpenFiles
KeepsPromise == Promise!Spec

(* An open, a close and a poll end, and a reader asleep over unread bytes  *)
(* is woken or the bytes are gone.                                         *)
Served ==
    \A t \in Threads :
        /\ pc[t] \in {"open", "release", "poll"} ~> pc[t] = "idle"
        /\ (pc[t] = "in_inq" /\ rp # wp) ~> (pc[t] # "in_inq" \/ rp = wp)
=============================================================================
