---------------------------- MODULE MotorTunnel ----------------------------
(***************************************************************************)
(* pod/driver/motor_tun.c: the tunnel that carries motor commands from the *)
(* ioctl() of the car program to the read() of the motor relay.            *)
(***************************************************************************)
EXTENDS TunnelRing

CONSTANTS Commands,     \* the ioctl codes with a case in car_motor_ioctl
          OtherCodes    \* the codes without one, PI_CMD_GARBAGE among them

(* memcpy(dev->wp, LEFT, MAX_CMD_STR_LEN): a command string, byte by byte. *)
CommandString(c) == [i \in 1 .. MsgLen |-> <<c, i>>]

ASSUME CommandsAssumption == /\ Commands \cap OtherCodes = {}
                             /\ Byte = Commands \X (1 .. MsgLen)

(* Mutant: no test that the whole string fits. *)
IoctlPutUnchecked(t) ==
    /\ CanWrite(t)
    /\ WriteCopy(t)

(* A code without a case copies nothing, and wp moves all the same. *)
CallIoctl(t, code) ==
    /\ mode[t] # {}
    /\ CallWrite(t, IF code \in Commands THEN CommandString(code) ELSE <<>>)

(* if ( count < MAX_CMD_STR_LEN ) return -1;  -- and no up(&dev->sem) *)
IoctlShort(t) ==
    /\ CanWrite(t) /\ Room < MsgLen
    /\ sem' = 0
    /\ Return(t)
    /\ UNCHANGED <<mode, ringVars, countVars, ubuf>>

IoctlPut(t) ==
    /\ CanWrite(t) /\ Room = MsgLen
    /\ WriteCopy(t)

Step(t) == CommonStep(t) \/ IoctlShort(t) \/ IoctlPut(t)

Next == \E t \in Threads :
            \/ CommonCall(t)
            \/ \E code \in Commands \cup OtherCodes : CallIoctl(t, code)
            \/ Interrupt(t)
            \/ Step(t)

(* A thread in the driver is scheduled again and again, and the waiters of *)
(* a Linux semaphore are served in turn, so no down() is passed over for   *)
(* ever.  Nothing makes a client call, and no signal has to arrive.        *)
Fairness == \A t \in Threads : SF_vars(Step(t))

Spec == Init /\ [][Next]_vars
FairSpec == Spec /\ Fairness

-----------------------------------------------------------------------------
(* The ring always consists of whole messages: each slot of MsgLen cells   *)
(* is one command string or was never written, whatever was interrupted,   *)
(* reset, freed or re-published, and wp stands at the start of a slot.     *)
Slot(s) == [i \in 1 .. MsgLen |-> buf[s * MsgLen + i - 1]]
Unwritten == [i \in 1 .. MsgLen |-> Junk]
Published == {CommandString(c) : c \in Commands} \cup {Unwritten}
SlotsWhole ==
    /\ wp % MsgLen = 0
    /\ \A s \in 0 .. (BufSize \div MsgLen) - 1 : Slot(s) \in Published

(* The driver implements the promised queue: whole messages, first in      *)
(* first out, nothing overwritten before it is read, nothing read twice,   *)
(* and nothing unread discarded but by an open or the last close.          *)
Promise == INSTANCE TunnelPromise
             WITH Messages <- Published,
                  Capacity <- BufSize,
                  queue <- IF allocated THEN Contents(buf, rp, wp, BufSize)
                                        ELSE <<>>,
                  delivered <- ubuf,
                  Clients <- Threads,
                  files <- OpenFiles
KeepsPromise == Promise!Spec

(* Unless the semaphore leaks, an open, a close and a poll end, and a      *)
(* reader asleep over unread bytes is woken or the bytes are gone.         *)
Served ==
    []SemBalanced =>
        \A t \in Threads :
            /\ pc[t] \in {"open", "release", "poll"} ~> pc[t] = "idle"
            /\ (pc[t] = "in_inq" /\ rp # wp) ~> (pc[t] # "in_inq" \/ rp = wp)
=============================================================================
