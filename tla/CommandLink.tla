---------------------------- MODULE CommandLink ----------------------------
(***************************************************************************)
(* The way of a motor command from the pod to the wheels: the clients of   *)
(* the motor tunnel (the car program and the hand-control programs of      *)
(* car/controller), the relay motorRelayInPod.go, its TCP connection, and  *)
(* RealCarRunner.c on the physical car.                                    *)
(*                                                                         *)
(* The tunnel itself is TunnelPromise, which MotorTunnel implements, with  *)
(* one element per command string.  The one thing MotorTunnel does beyond  *)
(* the promise is modelled too: an ioctl() that finds the ring without     *)
(* room leaves the semaphore down, and the device is jammed for good.      *)
(*                                                                         *)
(* A JSON line travels as four units: {"MotorBytes":" , the two halves of  *)
(* the command's name, and the rest.  TCP keeps units in order and may cut *)
(* the stream between any two of them.                                     *)
(***************************************************************************)
EXTENDS Naturals, Sequences

CONSTANTS Moves,        \* FWRD, LEFT, RGHT, BKWD
          Stop,         \* STOP
          Other,        \* a name strncmp() finds none of these in
          RingSlots,    \* command strings in car_motor_buffer bytes
          BufUnits,     \* CMD_LEN bytes, in units
          SocketUnits,  \* what the sockets hold before a write() blocks
          MaxCommands,  \* bound on the accepted commands of a behaviour
          MaxMisses,    \* bound on the I2C messages that fail
          Unopened      \* the programs whose open() of their device may fail

ASSUME DirectionsAssumption == Stop \notin Moves /\ Other \notin Moves \cup {Stop}
ASSUME BoundsAssumption == /\ RingSlots \in Nat \ {0} /\ MaxCommands \in Nat
                           /\ BufUnits \in Nat \ {0}
                           /\ SocketUnits \in Nat /\ SocketUnits >= 4
                           /\ MaxMisses \in Nat
                           /\ Unopened \subseteq {"relay", "car"}

VARIABLES ring, byt, files,  \* the tunnel: unread, the relay's byt, open files
          jammed,            \* the tunnel's semaphore has leaked
          issued,            \* the names the tunnel has accepted, in order
          operator,          \* what the hand-control program is about to do
          relay,             \* what the relay is about to do
          stream,            \* units sent and not yet read
          sent,              \* history: the command of the last line sent
          car,               \* what RealCarRunner is about to do
          cmd,               \* its cmd, with the number of the command it is from
          motor,             \* what the motors do
          opened,            \* RealCarRunner has /dev/car/motor open
          missed, misses     \* history: the last message, and how many, never
                             \* reached the motors

tunnelVars == <<ring, byt, files, jammed, issued>>
wheelVars == <<motor, opened, missed, misses>>
carVars == <<car, cmd, wheelVars>>
lineVars == <<stream, sent>>
vars == <<tunnelVars, operator, relay, lineVars, carVars>>

Names == Moves \cup {Stop}
Commands == [no : 1 .. MaxCommands, name : Names]
NoCommand == [no |-> 0, name |-> Other]
Packet(m) == [i \in 1 .. 4 |-> [of |-> m, part |-> i]]

Tunnel == INSTANCE TunnelPromise
            WITH queue <- ring, delivered <- byt, Capacity <- RingSlots,
                 Messages <- {<<m>> : m \in Commands},
                 Clients <- {"carcon", "operator", "relay"}

TypeOK ==
    /\ ring \in Seq(Commands) /\ Len(ring) < RingSlots
    /\ byt \in {<<>>} \cup {<<m>> : m \in Commands}
    /\ files \in SUBSET {"carcon", "operator", "relay"}
    /\ jammed \in BOOLEAN
    /\ issued \in Seq(Names)
    /\ operator \in {"away", "ioctl", "close"}
    /\ relay \in {"dial", "open", "read", "send", "dead"}
    /\ stream \in Seq([of : {NoCommand} \cup Commands, part : 1 .. 4])
    /\ Len(stream) <= SocketUnits
    /\ sent \in {NoCommand} \cup Commands
    /\ car \in {"accept", "read", "exited"}
    /\ cmd \in [no : 0 .. MaxCommands, name : Names \cup {Other}]
    /\ motor \in Names /\ opened \in BOOLEAN
    /\ missed \in BOOLEAN /\ misses \in 0 .. MaxMisses

(* cmd is an uninitialized array of the stack: not the name of a command. *)
Init ==
    /\ ring = <<>> /\ byt = <<>> /\ files = {} /\ jammed = FALSE /\ issued = <<>>
    /\ operator = "away"
    /\ relay = "dial"
    /\ stream = <<>> /\ sent = NoCommand
    /\ car = "accept" /\ cmd = NoCommand /\ motor = Stop
    /\ opened = FALSE /\ missed = FALSE /\ misses = 0

-----------------------------------------------------------------------------
(* The tunnel's clients.  Every one of them opens it with O_RDWR. *)

Opens(c) == ~jammed /\ Tunnel!Open(c) /\ UNCHANGED <<jammed, issued>>

(* close() waits for the semaphore without end. *)
Closes(c) == ~jammed /\ Tunnel!Close(c) /\ UNCHANGED <<jammed, issued>>

Full == Len(ring) + 1 >= RingSlots

(* ioctl ( dev, PI_CMD_... ).  The codes without a case, which publish an  *)
(* old slot again, are in MotorTunnel only: of the programs here just      *)
(* garbage.c sends one, by hand.                                           *)
Ioctl(c, d) ==
    /\ c \in files /\ ~jammed /\ Len(issued) < MaxCommands
    /\ IF Full
       THEN /\ jammed' = TRUE
            /\ UNCHANGED <<ring, byt, files, issued>>
       ELSE /\ Tunnel!Accept(<<[no |-> Len(issued) + 1, name |-> d]>>)
            /\ issued' = Append(issued, d)
            /\ UNCHANGED jammed

CarconOpens ==
    /\ Opens("carcon")
    /\ UNCHANGED <<operator, relay, lineVars, carVars>>

CarconIoctl(d) ==
    /\ Ioctl("carcon", d)
    /\ UNCHANGED <<operator, relay, lineVars, carVars>>

(* The car program is killed.  Its sigHandler would close the device before *)
(* its ioctl of PI_CMD_STOP, but it is installed for SIGKILL only.          *)
CarconDies ==
    /\ Closes("carcon")
    /\ UNCHANGED <<operator, relay, lineVars, carVars>>

(* stop.c, forward.c, backward.c, left.c, right.c: open, one ioctl, close *)
OperatorOpens ==
    /\ operator = "away"
    /\ Opens("operator")
    /\ operator' = "ioctl"
    /\ UNCHANGED <<relay, lineVars, carVars>>

OperatorIoctl(d) ==
    /\ operator = "ioctl"
    /\ Ioctl("operator", d)
    /\ operator' = "close"
    /\ UNCHANGED <<relay, lineVars, carVars>>

OperatorCloses ==
    /\ operator = "close"
    /\ Closes("operator")
    /\ operator' = "away"
    /\ UNCHANGED <<relay, lineVars, carVars>>

-----------------------------------------------------------------------------
(* motorRelayInPod.go *)

(* net.Dial() succeeds once the car listens, before it accepts. *)
RelayDials ==
    /\ relay = "dial" /\ car = "accept"
    /\ relay' = "open"
    /\ UNCHANGED <<tunnelVars, operator, lineVars, carVars>>

(* run(): the open throws away what the tunnel held.  If it fails the loop *)
(* is entered all the same.                                                *)
RelayOpens ==
    /\ relay = "open"
    /\ \/ Opens("relay")
       \/ "relay" \in Unopened /\ UNCHANGED tunnelVars
    /\ relay' = "read"
    /\ UNCHANGED <<operator, lineVars, carVars>>

(* Mutant: the newest command first. *)
RelayReadsNewest ==
    /\ relay = "read" /\ "relay" \in files /\ ~jammed /\ ring # <<>>
    /\ byt' = <<ring[Len(ring)]>>
    /\ ring' = SubSeq(ring, 1, Len(ring) - 1)
    /\ relay' = "send"
    /\ UNCHANGED <<files, jammed, issued, operator, lineVars, carVars>>

(* syscall.Read() of 5 bytes, and the write() the driver does not have *)
RelayReads ==
    /\ relay = "read" /\ "relay" \in files /\ ~jammed /\ ring # <<>>
    /\ Tunnel!Take(1)
    /\ relay' = "send"
    /\ UNCHANGED <<jammed, issued, operator, lineVars, carVars>>

(* A read that fails returns -1, so that the test of length and err never  *)
(* holds and byt is sent as it is: five zeros, no command's name.          *)
RelayReadFails ==
    /\ relay = "read" /\ "relay" \notin files
    /\ relay' = "send"
    /\ UNCHANGED <<tunnelVars, operator, lineVars, carVars>>

MotorBytes == IF byt = <<>> THEN NoCommand ELSE byt[1]

(* json.Marshal() and connWriter.Write(), which blocks on full sockets *)
RelaySends ==
    /\ relay = "send" /\ car # "exited" /\ Len(stream) + 4 <= SocketUnits
    /\ stream' = stream \o Packet(MotorBytes)
    /\ sent' = MotorBytes
    /\ Tunnel!Handed
    /\ relay' = "read"
    /\ UNCHANGED <<jammed, issued, operator, carVars>>

(* Mutant: a failed write is tried again. *)
RelayRetries ==
    /\ relay = "send" /\ car = "exited"
    /\ UNCHANGED vars

(* "Connection Broken": the command is dropped and the loop goes on. *)
RelayWriteFails ==
    /\ relay = "send" /\ car = "exited"
    /\ Tunnel!Handed
    /\ relay' = "read"
    /\ UNCHANGED <<jammed, issued, operator, lineVars, carVars>>

(* The relay is killed; its connection closes, and so does the tunnel if   *)
(* its release() gets the semaphore.                                       *)
RelayDies ==
    /\ relay \in {"read", "send"}
    /\ IF jammed
       THEN UNCHANGED <<ring, files>>
       ELSE /\ files' = files \ {"relay"}
            /\ ring' = IF files' = {} THEN <<>> ELSE ring
    /\ byt' = <<>>
    /\ relay' = "dead"
    /\ UNCHANGED <<jammed, issued, operator, lineVars, carVars>>

-----------------------------------------------------------------------------
(* RealCarRunner.c *)

(* accept(), and open() of /dev/car/motor, whose result nobody looks at. *)
CarAccepts ==
    /\ car = "accept" /\ relay # "dial"
    /\ car' = "read"
    /\ opened' \in BOOLEAN /\ (opened' \/ "car" \in Unopened)
    /\ UNCHANGED <<tunnelVars, operator, relay, lineVars, cmd, motor, missed, misses>>

(* sscanf(): it fails, and cmd stays what it was, unless the buffer begins *)
(* with a line and reaches into its name; a name cut short is no command.  *)
Scanned(chunk) ==
    IF chunk[1].part # 1 \/ Len(chunk) = 1 THEN cmd
    ELSE [no |-> chunk[1].of.no,
          name |-> IF Len(chunk) = 2 THEN Other ELSE chunk[1].of.name]

(* Mutant: no branch for other names. *)
EffectOfAny(c) == c.name

(* The ioctl on /dev/car/motor: DEFAULT DIRECTION --> STOP *)
Effect(c) == IF c.name \in Moves THEN c.name ELSE Stop

(* ioctl() of motor.c: i2c_master_send() of one message for each code.     *)
(* Whether it arrived is known to nobody: the result is the code itself.   *)
Drives(c) ==
    \/ opened /\ motor' = c /\ missed' = FALSE /\ UNCHANGED misses
    \/ opened /\ misses < MaxMisses
       /\ missed' = TRUE /\ misses' = misses + 1 /\ UNCHANGED motor
    \/ ~opened /\ missed' = TRUE /\ UNCHANGED <<motor, misses>>

(* Mutant: the motors get the command of the line before. *)
CarReadsLate(n) ==
    /\ car = "read" /\ n <= Len(stream)
    /\ cmd' = Scanned(SubSeq(stream, 1, n))
    /\ Drives(Effect(cmd))
    /\ stream' = SubSeq(stream, n + 1, Len(stream))
    /\ UNCHANGED <<tunnelVars, operator, relay, sent, car, opened>>

(* One turn of the loop.  No sender of DIR_TERMINATION exists, and the     *)
(* tunnel cannot carry it.                                                 *)
CarReads(n) ==
    /\ car = "read" /\ n <= Len(stream)
    /\ cmd' = Scanned(SubSeq(stream, 1, n))
    /\ Drives(Effect(cmd'))
    /\ stream' = SubSeq(stream, n + 1, Len(stream))
    /\ UNCHANGED <<tunnelVars, operator, relay, sent, car, opened>>

(* Mutant: read() == 0 is taken for an empty line. *)
CarReadsNothing ==
    /\ car = "read" /\ stream = <<>> /\ relay = "dead"
    /\ Drives(Effect(cmd))
    /\ UNCHANGED <<tunnelVars, operator, relay, lineVars, car, cmd, opened>>

(* recvSize == 0: exit ( 1 ), and the motors run on. *)
CarEnds ==
    /\ car = "read" /\ stream = <<>> /\ relay = "dead"
    /\ car' = "exited"
    /\ UNCHANGED <<tunnelVars, operator, relay, lineVars, cmd, wheelVars>>

(* RealCarRunner is killed; its sigHandler is installed for SIGKILL only. *)
CarDies ==
    /\ car # "exited"
    /\ car' = "exited"
    /\ stream' = <<>>
    /\ UNCHANGED <<tunnelVars, operator, relay, sent, cmd, wheelVars>>

-----------------------------------------------------------------------------
Relay == RelayDials \/ RelayOpens \/ RelayReads \/ RelayReadFails \/ RelaySends
         \/ RelayWriteFails
Car == CarAccepts \/ (\E n \in 1 .. BufUnits : CarReads(n)) \/ CarEnds

Next == \/ CarconOpens \/ (\E d \in Names : CarconIoctl(d)) \/ CarconDies
        \/ OperatorOpens \/ (\E d \in Names : OperatorIoctl(d)) \/ OperatorCloses
        \/ Relay \/ RelayDies
        \/ Car \/ CarDies

(* The relay and RealCarRunner loop for ever and are scheduled while they  *)
(* can go on; nobody has to issue a command, and nobody has to die.        *)
Fairness == WF_vars(Relay) /\ WF_vars(Car)

Spec == Init /\ [][Next]_vars
FairSpec == Spec /\ Fairness

-----------------------------------------------------------------------------
(* However the stream is cut and joined, and whatever is dropped by opens, *)
(* closes and deaths on the way, the car never goes back to an older       *)
(* command, and its motors change only at a command newer than all before, *)
(* or when the message of that one is sent again and arrives this time.    *)
InOrder == [][ /\ cmd'.no >= cmd.no
               /\ motor' # motor => cmd'.no > cmd.no \/ missed ]_vars

(* The motors do what the last scanned name says, or stand still for a     *)
(* name that was cut or was none, unless the message for it was lost; a    *)
(* name is never put together from two commands, and it is one the tunnel  *)
(* accepted.                                                               *)
NothingInvented ==
    /\ ~missed => motor = Effect(cmd)
    /\ cmd.name # Other => cmd.no \in DOMAIN issued /\ issued[cmd.no] = cmd.name

(* A car whose relay has died reads what is left and ends. *)
EndsAfterRelay == (relay = "dead" /\ car # "exited") ~> (car = "exited")

(* The tunnel does not back up behind a car that is gone: a relay that has *)
(* it open keeps emptying it.                                              *)
KeepsDraining ==
    ("relay" \in files /\ ring # <<>>) ~> (ring = <<>> \/ relay = "dead" \/ jammed)

(* README.md: "Physical car executes those simulated results".  With every *)
(* line read, the motors do what the last of them says, unless the name    *)
(* read last was cut.                                                      *)
ExecutesResults ==
    car = "read" /\ stream = <<>> /\ sent # NoCommand =>
        cmd.name = Other \/ motor = sent.name
=============================================================================
