----------------------------- MODULE TunnelRing -----------------------------
(***************************************************************************)
(* The part motor_tun.c and sensor_tun.c have in common: one device node,  *)
(* the files its client processes have open on it, the semaphore, the two  *)
(* wait queues and the ring.  MotorTunnel adds the ioctl that fills the    *)
(* ring of motor commands, SensorTunnel the write that fills a ring of     *)
(* sensor values.                                                          *)
(*                                                                         *)
(* A thread is a client process with at most one file on the device.  Its  *)
(* pc is the place in the driver where it can be held up or overtaken:     *)
(* waiting for the semaphore, testing the pointers without it, asleep, and *)
(* between the increment of a pointer, the wrap test with up(), and the    *)
(* wake-up that follows.  A down() and the statements it guards up to the  *)
(* next of these places are one step.                                      *)
(***************************************************************************)
EXTENDS RingBuffer, FiniteSets

CONSTANTS Threads,      \* the client processes
          NonBlocking,  \* those that open the device with O_NONBLOCK
          BufSize,      \* car_motor_buffer, car_p_buffer
          Byte,         \* the bytes clients publish
          Junk,         \* a byte of kmalloc()ed memory nobody wrote
          Modes,        \* how they open it: subsets of {"r", "w"}
          ReadSizes,    \* the count arguments of read()
          MsgLen        \* the bytes one writing call offers

ASSUME ThreadsAssumption == IsFiniteSet(Threads) /\ NonBlocking \subseteq Threads
ASSUME SizesAssumption == /\ BufSize \in Nat \ {0, 1}
                          /\ MsgLen \in Nat \ {0}
                          /\ ReadSizes \subseteq Nat \ {0}
ASSUME ModesAssumption == Modes \subseteq {{"r"}, {"w"}, {"r", "w"}}
ASSUME JunkAssumption == Junk \notin Byte

VARIABLES pc,         \* where each thread is in the driver
          mode,       \* filp->f_mode of its file, {} when it has none
          want,       \* count of its read() in progress
          msg,        \* what its writing call publishes, at most MsgLen bytes
          sem,        \* dev->sem.count
          allocated,  \* dev->buffer # NULL
          buf,        \* the bytes of the buffer
          rp, wp,     \* dev->rp, dev->wp
          nreaders, nwriters,
          ubuf        \* what the read() in its critical section copied to its caller

threadVars == <<pc, mode, want, msg>>
ringVars == <<allocated, buf, rp, wp>>
countVars == <<nreaders, nwriters>>
vars == <<threadVars, sem, ringVars, countVars, ubuf>>

Cells == 0 .. (BufSize - 1)
Blank == [i \in Cells |-> Junk]

(* Between a successful down() and its up(). *)
Critical == {"rd_up", "wr_up"}
(* Where a signal ends the call with -ERESTARTSYS. *)
Interruptible == {"open", "read", "rd_wait", "in_inq", "write", "wr_wait", "in_outq"}

TypeOK ==
    /\ pc \in [Threads -> {"idle", "open", "release", "poll",
                           "read", "rd_wait", "in_inq", "rd_up", "rd_wake",
                           "write", "wr_wait", "in_outq", "wr_up", "wr_wake"}]
    /\ mode \in [Threads -> Modes \cup {{}}]
    /\ want \in [Threads -> ReadSizes \cup {0}]
    /\ msg \in [Threads -> Seq(Byte)]
    /\ sem \in {0, 1}
    /\ allocated \in BOOLEAN
    /\ buf \in [Cells -> Byte \cup {Junk}]
    /\ rp \in 0 .. BufSize
    /\ wp \in 0 .. BufSize
    /\ nreaders \in Nat
    /\ nwriters \in Nat
    /\ ubuf \in Seq(Byte \cup {Junk})

Init ==
    /\ pc = [t \in Threads |-> "idle"]
    /\ mode = [t \in Threads |-> {}]
    /\ want = [t \in Threads |-> 0]
    /\ msg = [t \in Threads |-> <<>>]
    /\ sem = 1
    /\ allocated = FALSE
    /\ buf = Blank
    /\ rp = 0 /\ wp = 0
    /\ nreaders = 0 /\ nwriters = 0
    /\ ubuf = <<>>

(* t is on its way back to user space. *)
Return(t) ==
    /\ pc' = [pc EXCEPT ![t] = "idle"]
    /\ want' = [want EXCEPT ![t] = 0]
    /\ msg' = [msg EXCEPT ![t] = <<>>]

(* A file whose open() failed is never released. *)
OpenFails(t) ==
    /\ Return(t)
    /\ mode' = [mode EXCEPT ![t] = {}]

Goto(t, label) ==
    /\ pc' = [pc EXCEPT ![t] = label]
    /\ UNCHANGED <<mode, want, msg>>

-----------------------------------------------------------------------------
(* Calls: a client enters the driver. *)

CallOpen(t, m) ==
    /\ pc[t] = "idle" /\ mode[t] = {}
    /\ pc' = [pc EXCEPT ![t] = "open"]
    /\ mode' = [mode EXCEPT ![t] = m]
    /\ UNCHANGED <<want, msg, sem, ringVars, countVars, ubuf>>

CallRelease(t) ==
    /\ pc[t] = "idle" /\ mode[t] # {}
    /\ Goto(t, "release")
    /\ UNCHANGED <<sem, ringVars, countVars, ubuf>>

CallPoll(t) ==
    /\ pc[t] = "idle" /\ mode[t] # {}
    /\ Goto(t, "poll")
    /\ UNCHANGED <<sem, ringVars, countVars, ubuf>>

CallRead(t, n) ==
    /\ pc[t] = "idle" /\ "r" \in mode[t]
    /\ pc' = [pc EXCEPT ![t] = "read"]
    /\ want' = [want EXCEPT ![t] = n]
    /\ UNCHANGED <<mode, msg, sem, ringVars, countVars, ubuf>>

(* A writing call that publishes m. *)
CallWrite(t, m) ==
    /\ pc[t] = "idle"
    /\ pc' = [pc EXCEPT ![t] = "write"]
    /\ msg' = [msg EXCEPT ![t] = m]
    /\ UNCHANGED <<mode, want, sem, ringVars, countVars, ubuf>>

(* A signal arrives while t may be interrupted. *)
Interrupt(t) ==
    /\ pc[t] \in Interruptible
    /\ IF pc[t] = "open" THEN OpenFails(t) ELSE Return(t) /\ UNCHANGED mode
    /\ UNCHANGED <<sem, ringVars, countVars, ubuf>>

-----------------------------------------------------------------------------
(* open, release and poll: one critical section each. *)

OpenNoMemory(t) ==
    /\ pc[t] = "open" /\ sem = 1 /\ ~allocated
    /\ OpenFails(t)
    /\ UNCHANGED <<sem, ringVars, countVars, ubuf>>

(* Mutant: nreaders is not counted. *)
OpenUncounted(t) ==
    /\ pc[t] = "open" /\ sem = 1
    /\ allocated' = TRUE
    /\ rp' = 0 /\ wp' = 0
    /\ nwriters' = nwriters + (IF "w" \in mode[t] THEN 1 ELSE 0)
    /\ Return(t)
    /\ UNCHANGED <<mode, sem, buf, nreaders, ubuf>>

(* Mutant: only the read pointer is reset. *)
OpenKeepsWp(t) ==
    /\ pc[t] = "open" /\ sem = 1
    /\ allocated' = TRUE
    /\ rp' = 0
    /\ nreaders' = nreaders + (IF "r" \in mode[t] THEN 1 ELSE 0)
    /\ nwriters' = nwriters + (IF "w" \in mode[t] THEN 1 ELSE 0)
    /\ Return(t)
    /\ UNCHANGED <<mode, sem, buf, wp, ubuf>>

Open(t) ==
    /\ pc[t] = "open" /\ sem = 1
    /\ allocated' = TRUE
    /\ rp' = 0 /\ wp' = 0
    /\ nreaders' = nreaders + (IF "r" \in mode[t] THEN 1 ELSE 0)
    /\ nwriters' = nwriters + (IF "w" \in mode[t] THEN 1 ELSE 0)
    /\ Return(t)
    /\ UNCHANGED <<mode, sem, buf, ubuf>>

(* Mutant: the buffer is freed with a file still open. *)
ReleaseEarly(t) ==
    /\ pc[t] = "release" /\ sem = 1
    /\ nreaders' = nreaders - (IF "r" \in mode[t] THEN 1 ELSE 0)
    /\ nwriters' = nwriters - (IF "w" \in mode[t] THEN 1 ELSE 0)
    /\ IF nreaders' + nwriters' <= 1
       THEN allocated' = FALSE /\ buf' = Blank
       ELSE UNCHANGED <<allocated, buf>>
    /\ Return(t)
    /\ mode' = [mode EXCEPT ![t] = {}]
    /\ UNCHANGED <<sem, rp, wp, ubuf>>

Release(t) ==
    /\ pc[t] = "release" /\ sem = 1
    /\ nreaders' = nreaders - (IF "r" \in mode[t] THEN 1 ELSE 0)
    /\ nwriters' = nwriters - (IF "w" \in mode[t] THEN 1 ELSE 0)
    /\ IF nreaders' + nwriters' = 0
       THEN allocated' = FALSE /\ buf' = Blank
       ELSE UNCHANGED <<allocated, buf>>
    /\ Return(t)
    /\ mode' = [mode EXCEPT ![t] = {}]
    /\ UNCHANGED <<sem, rp, wp, ubuf>>

Poll(t) ==
    /\ pc[t] = "poll" /\ sem = 1
    /\ Return(t)
    /\ UNCHANGED <<mode, sem, ringVars, countVars, ubuf>>

-----------------------------------------------------------------------------
(* read *)

ReadEmpty(t) ==
    /\ pc[t] = "read" /\ sem = 1 /\ rp = wp
    /\ IF t \in NonBlocking THEN Return(t) /\ UNCHANGED mode
                            ELSE Goto(t, "rd_wait")
    /\ UNCHANGED <<sem, ringVars, countVars, ubuf>>

(* wait_event_interruptible(): the test is made without the semaphore. *)
WaitForData(t) ==
    /\ pc[t] = "rd_wait"
    /\ Goto(t, IF rp # wp THEN "read" ELSE "in_inq")
    /\ UNCHANGED <<sem, ringVars, countVars, ubuf>>

ReadFault(t) ==
    /\ pc[t] = "read" /\ sem = 1 /\ rp # wp
    /\ Return(t)
    /\ UNCHANGED <<mode, sem, ringVars, countVars, ubuf>>

ReadCopy(t) ==
    /\ pc[t] = "read" /\ sem = 1 /\ rp # wp
    /\ sem' = 0
    /\ LET n == ReadCount(rp, wp, BufSize, want[t])
       IN  /\ ubuf' = [i \in 1 .. n |-> buf[rp + i - 1]]
           /\ rp' = rp + n
    /\ Goto(t, "rd_up")
    /\ UNCHANGED <<allocated, buf, wp, countVars>>

ReadUp(t) ==
    /\ pc[t] = "rd_up"
    /\ rp' = Wrap(rp, BufSize)
    /\ sem' = sem + 1
    /\ ubuf' = <<>>
    /\ Goto(t, "rd_wake")
    /\ UNCHANGED <<allocated, buf, wp, countVars>>

(* Mutant: the wrong queue is woken. *)
ReadWakesReaders(t) ==
    /\ pc[t] = "rd_wake"
    /\ pc' = [u \in Threads |-> IF u = t THEN "idle"
                                ELSE IF pc[u] = "in_inq" THEN "rd_wait" ELSE pc[u]]
    /\ want' = [want EXCEPT ![t] = 0]
    /\ UNCHANGED <<mode, msg, sem, ringVars, countVars, ubuf>>

(* wake_up_interruptible(&dev->outq): the sleepers go back for the semaphore. *)
ReadWake(t) ==
    /\ pc[t] = "rd_wake"
    /\ pc' = [u \in Threads |-> IF u = t THEN "idle"
                                ELSE IF pc[u] = "in_outq" THEN "write" ELSE pc[u]]
    /\ want' = [want EXCEPT ![t] = 0]
    /\ UNCHANGED <<mode, msg, sem, ringVars, countVars, ubuf>>

-----------------------------------------------------------------------------
(* car_getwritespace() and the tail of the writing calls *)

WriteFull(t) ==
    /\ pc[t] = "write" /\ sem = 1 /\ SpaceFree(rp, wp, BufSize) = 0
    /\ IF t \in NonBlocking THEN Return(t) /\ UNCHANGED mode
                            ELSE Goto(t, "wr_wait")
    /\ UNCHANGED <<sem, ringVars, countVars, ubuf>>

(* prepare_to_wait() and the test made without the semaphore *)
WaitForSpace(t) ==
    /\ pc[t] = "wr_wait"
    /\ Goto(t, IF SpaceFree(rp, wp, BufSize) = 0 THEN "in_outq" ELSE "write")
    /\ UNCHANGED <<sem, ringVars, countVars, ubuf>>

(* How many bytes the call of t moves wp by. *)
Room == WriteCount(rp, wp, BufSize, MsgLen)

(* Mutant: the semaphore is not taken again after the wait. *)
CanWriteUnlocked(t) == pc[t] = "write" /\ SpaceFree(rp, wp, BufSize) # 0

CanWrite(t) == pc[t] = "write" /\ sem = 1 /\ SpaceFree(rp, wp, BufSize) # 0

WriteCopy(t) ==
    /\ sem' = 0
    /\ buf' = Store(buf, wp, SubSeq(msg[t], 1, AtMost(Room, Len(msg[t]))))
    /\ wp' = wp + Room
    /\ Goto(t, "wr_up")
    /\ UNCHANGED <<allocated, rp, countVars, ubuf>>

WriteUp(t) ==
    /\ pc[t] = "wr_up"
    /\ wp' = Wrap(wp, BufSize)
    /\ sem' = sem + 1
    /\ Goto(t, "wr_wake")
    /\ UNCHANGED <<allocated, buf, rp, countVars, ubuf>>

(* Mutant: the readers are not woken. *)
WriteWakesNobody(t) ==
    /\ pc[t] = "wr_wake"
    /\ pc' = [pc EXCEPT ![t] = "idle"]
    /\ msg' = [msg EXCEPT ![t] = <<>>]
    /\ UNCHANGED <<mode, want, sem, ringVars, countVars, ubuf>>

(* wake_up_interruptible(&dev->inq): wait_event tests its condition again. *)
WriteWake(t) ==
    /\ pc[t] = "wr_wake"
    /\ pc' = [u \in Threads |-> IF u = t THEN "idle"
                                ELSE IF pc[u] = "in_inq" THEN "rd_wait" ELSE pc[u]]
    /\ msg' = [msg EXCEPT ![t] = <<>>]
    /\ UNCHANGED <<mode, want, sem, ringVars, countVars, ubuf>>

-----------------------------------------------------------------------------
(* What both drivers do whatever fills their ring. *)

CommonCall(t) ==
    \/ \E m \in Modes : CallOpen(t, m)
    \/ CallRelease(t)
    \/ CallPoll(t)
    \/ \E n \in ReadSizes : CallRead(t, n)

CommonStep(t) ==
    \/ OpenNoMemory(t)
    \/ Open(t)
    \/ Release(t)
    \/ Poll(t)
    \/ ReadEmpty(t)
    \/ WaitForData(t)
    \/ ReadFault(t)
    \/ ReadCopy(t)
    \/ ReadUp(t)
    \/ ReadWake(t)
    \/ WriteFull(t)
    \/ WaitForSpace(t)
    \/ WriteUp(t)
    \/ WriteWake(t)

-----------------------------------------------------------------------------
(* Properties of both drivers. *)

(* Two threads are never between down() and up() together, and none is     *)
(* there while the semaphore is free (the field sem, motor_tun.c:23).      *)
MutualExclusion ==
    /\ \A t, u \in Threads : pc[t] \in Critical /\ pc[u] \in Critical => t = u
    /\ sem = 1 => \A t \in Threads : pc[t] \notin Critical

(* The semaphore is down only while some thread is on its way to up().     *)
(* motor_tun.c says so of its early return: "car_getwritespace called      *)
(* up(&dev->sem)" (l.169).                                                 *)
SemBalanced == sem = 0 => \E t \in Threads : pc[t] \in Critical

(* No reader sleeps over unread bytes, unless the wake-up that gets it out *)
(* of inq is still to come: the pointer test and going to sleep            *)
(* (motor_tun.c:102) race the writing calls, other readers and the opens.  *)
NoLostWakeup ==
    \A t \in Threads : pc[t] = "in_inq" /\ rp # wp =>
        \E u \in Threads : pc[u] \in {"wr_up", "wr_wake"}

(* The open counts follow the open files, through failed and interrupted   *)
(* opens, and the buffer exists exactly while a file is open, so no call   *)
(* on an open file finds dev->buffer NULL or freed (motor_tun.c:80).       *)
OpenFiles == {t \in Threads : mode[t] # {} /\ pc[t] # "open"}
BufferHeld ==
    /\ nreaders = Cardinality({t \in OpenFiles : "r" \in mode[t]})
    /\ nwriters = Cardinality({t \in OpenFiles : "w" \in mode[t]})
    /\ allocated <=> OpenFiles # {}
=============================================================================
