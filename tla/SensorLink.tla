----------------------------- MODULE SensorLink -----------------------------
(***************************************************************************)
(* The way of the sensor values from the physical car to the decisions of  *)
(* the car program: sendSensorValueToVirtCar.go, its TCP connection,       *)
(* sensorRelayInPod.go, the three sensor tunnels, and runner.c.            *)
(*                                                                         *)
(* A tunnel is TunnelPromise, which SensorTunnel implements; what is added *)
(* is that a writer asleep on a full ring is woken by reads only, and that *)
(* a call moves what there is room for up to the end of the buffer.  A     *)
(* value is WordLen bytes, each of them the sample it is from and its      *)
(* place in the word.                                                      *)
(*                                                                         *)
(* A JSON line travels as two units, its beginning and its end with the    *)
(* newline, and a read of the relay may end between any two units.         *)
(*                                                                         *)
(* Of the motor tunnel, whose bytes are CommandLink's, there is what can   *)
(* hold the car program up: no room for a command, or a semaphore that     *)
(* nobody gives back.                                                      *)
(***************************************************************************)
EXTENDS Runner, SequencesExt

CONSTANTS Dists,        \* what sr04 measures, 0 when the echo is missing
          Infrared,     \* the pairs of values of the two infrared sensors
          WordLen,      \* sizeof(uint32)
          RingBytes,    \* car_p_buffer, which holds whole words
          SocketUnits,  \* what the sockets hold before a write blocks
          MaxSamples,   \* bound on the lines sent in a behaviour
          MaxRestarts,  \* bound on the restarts of the car program
          Unopened      \* the sets of devices whose open() may fail

ASSUME SensorAssumption == /\ Dists \subseteq Nat /\ 0 \in Dists
                           /\ WordLen \in Nat \ {0}
                           /\ Infrared \subseteq {0, 1} \X {0, 1}
                           /\ RingBytes \in Nat \ {0} /\ WordLen < RingBytes
                           /\ RingBytes % WordLen = 0
                           /\ SocketUnits \in Nat /\ SocketUnits >= 2
                           /\ MaxSamples \in Nat /\ MaxRestarts \in Nat

(* 4 bytes against 15 cm: a value that leaves nothing in the buffer of the *)
(* sensor server is one from which the car backs off.                      *)
ASSUME EchoAssumption == WordLen < BackDist

Sensors == {"sr04", "left", "right"}

ASSUME UnopenedAssumption ==
    Unopened \subseteq SUBSET ({"relay", "runner"} \X Sensors)

VARIABLES log,        \* history: the samples sent
          server,     \* what sendSensorValueToVirtCar is about to do
          devByte,    \* its last distance and how it came by it
          buffered,   \* words its bufio.Reader of sr04 still holds
          stream,     \* units sent and not yet read
          relay,      \* what sensorRelayInPod is about to do
          line,       \* the sample it is writing, 0 if none
          asleep,     \* it sleeps in write() on a full ring
          ring,       \* the unread bytes of each tunnel
          wp,         \* where in its buffer the next one goes
          got,        \* bytes a read() hands over, <<>> between reads
          files,      \* who has each tunnel open
          failing,    \* the open()s that fail in this behaviour
          runner,     \* what runner.c is about to do
          seen,       \* its dist, irLeft and irRight, byte by byte
          basis,      \* history: the values of its last decision
          command,    \* that decision
          restarts,
          motor       \* does the motor tunnel let a call of the car program end

serverVars == <<log, server, devByte, buffered>>
tunnelVars == <<ring, wp, got, files, failing>>
relayVars == <<relay, line, asleep>>
runnerVars == <<runner, seen, basis, command, restarts, motor>>
vars == <<serverVars, stream, relayVars, tunnelVars, runnerVars>>

Word(k) == [i \in 1 .. WordLen |-> <<k, i>>]
Zero == [s \in Sensors |-> Word(0)]

(* Deployment: the nodes the tunnel container's names lead to.  Its mounts *)
(* of the infrared tunnels are crossed; the car container's are not.       *)
Node(s) == CASE s = "sr04" -> "sr04" [] s = "left" -> "right" [] s = "right" -> "left"

Bytes == (0 .. MaxSamples) \X (1 .. WordLen)

ServerTypes ==
    /\ log \in Seq([dist : Dists, how : {"echo", "rest", "old"},
                    left : {0, 1}, right : {0, 1}])
    /\ Len(log) <= MaxSamples
    /\ server \in {"run", "dead"}
    /\ devByte \in [dist : Dists, how : {"echo", "rest", "old"}]
    /\ buffered \in Nat
    /\ stream \in Seq((1 .. MaxSamples) \X {"head", "tail"})
    /\ Len(stream) <= SocketUnits

RelayTypes ==
    /\ relay \in Sensors \cup {"dial", "open sr04", "open left", "open right",
                               "receive", "dead"}
    /\ line \in 0 .. Len(log)
    /\ asleep \in BOOLEAN /\ (asleep => relay \in Sensors)

TunnelTypes ==
    /\ ring \in [Sensors -> Seq(Bytes)]
    /\ \A s \in Sensors : Len(ring[s]) < RingBytes
    /\ wp \in [Sensors -> 0 .. RingBytes - 1]
    /\ got \in [Sensors -> Seq(Bytes)]
    /\ files \in [Sensors -> SUBSET {"relay", "runner"}]
    /\ failing \in Unopened

RunnerTypes ==
    /\ runner \in Sensors \cup {"open motor", "open left", "open right", "open sr04",
                                "command", "dead"}
    /\ seen \in [Sensors -> Seq(Bytes)]
    /\ basis \in [Sensors -> Seq(Bytes)]
    /\ command \in Directions \cup {"none"}
    /\ restarts \in 0 .. MaxRestarts
    /\ motor \in {"room", "full", "jammed"}

TypeOK == ServerTypes /\ RelayTypes /\ TunnelTypes /\ RunnerTypes

Init ==
    /\ log = <<>> /\ server = "run" /\ buffered = 0
    /\ devByte = [dist |-> 0, how |-> "old"]
    /\ stream = <<>>
    /\ relay = "dial" /\ line = 0 /\ asleep = FALSE
    /\ ring = [s \in Sensors |-> <<>>] /\ got = ring
    /\ wp = [s \in Sensors |-> 0]
    /\ files = [s \in Sensors |-> {}] /\ failing \in Unopened
    /\ runner = "open motor" /\ seen = Zero /\ basis = Zero
    /\ command = "none" /\ restarts = 0 /\ motor = "room"

-----------------------------------------------------------------------------
(* The tunnel devices: sensor_tun.c *)

(* Mutant: only the first open empties the ring. *)
OpensOnce(c, s) ==
    IF <<c, s>> \in failing
    THEN UNCHANGED <<ring, wp, files>>
    ELSE /\ files' = [files EXCEPT ![s] = @ \cup {c}]
         /\ wp' = [wp EXCEPT ![s] = 0]
         /\ ring' = [ring EXCEPT ![s] = IF files[s] = {} THEN <<>> ELSE @]

(* An open empties the ring and wakes nobody. *)
Opens(c, s) ==
    IF <<c, s>> \in failing
    THEN UNCHANGED <<ring, wp, files>>
    ELSE /\ files' = [files EXCEPT ![s] = @ \cup {c}]
         /\ wp' = [wp EXCEPT ![s] = 0]
         /\ ring' = [ring EXCEPT ![s] = <<>>]

(* The exit of a process closes what it has open. *)
Exits(c) ==
    /\ files' = [s \in Sensors |-> files[s] \ {c}]
    /\ ring' = [s \in Sensors |-> IF files'[s] = {} THEN <<>> ELSE ring[s]]
    /\ wp' = [s \in Sensors |-> IF files'[s] = {} THEN 0 ELSE wp[s]]

(* Mutant: to the last byte, so that full looks like empty. *)
RoomOfAll(s) == RingBytes - Len(ring[s])

Room(s) == RingBytes - 1 - Len(ring[s])

Least(a, b) == IF a < b THEN a ELSE b

(* As much of a value as there is room for, up to the end of the buffer.   *)
Fitting(s) == SubSeq(Word(line), 1, Least(Room(s), Least(WordLen, RingBytes - wp[s])))

(* The bytes that a read() of a value gets.                                *)
rp(s) == (wp[s] - Len(ring[s])) % RingBytes
First(s) == SubSeq(ring[s], 1, Least(Len(ring[s]), Least(WordLen, RingBytes - rp(s))))

-----------------------------------------------------------------------------
(* sendSensorValueToVirtCar.go *)

(* sr04.c returns the distance as the number of bytes it has read, so that *)
(* its buffer holds the value and zeros behind it.                         *)
WordsRead(d) == (d + WordLen - 1) \div WordLen

(* Read() of devReader["/dev/car/sr04"]: from its buffer, or from the      *)
(* driver.  0 bytes are end of file, and devByte stays what it was.        *)
ReadSr04(d) ==
    IF buffered > 0
    THEN /\ devByte' = [dist |-> 0, how |-> "rest"]
         /\ buffered' = buffered - 1
    ELSE IF d = 0
    THEN /\ devByte' = [devByte EXCEPT !.how = "old"]
         /\ UNCHANGED buffered
    ELSE /\ devByte' = [dist |-> d, how |-> "echo"]
         /\ buffered' = WordsRead(d) - 1

(* One round: three reads, json.Marshal() and uport.Write().  Behind a     *)
(* dead relay the loop goes on and nobody hears of it.                     *)
ServerSends(d, l, r) ==
    /\ server = "run" /\ relay \notin {"dial", "dead"} /\ Len(log) < MaxSamples
    /\ Len(stream) + 2 <= SocketUnits
    /\ ReadSr04(d)
    /\ log' = Append(log, [dist |-> devByte'.dist, how |-> devByte'.how,
                           left |-> l, right |-> r])
    /\ stream' = stream \o << <<Len(log'), "head">>, <<Len(log'), "tail">> >>
    /\ UNCHANGED <<server, relayVars, tunnelVars, runnerVars>>

ServerDies ==
    /\ server = "run" /\ relay # "dial"
    /\ server' = "dead"
    /\ UNCHANGED <<log, devByte, buffered, stream, relayVars, tunnelVars, runnerVars>>

-----------------------------------------------------------------------------
(* sensorRelayInPod.go *)

(* Through the backlog of a server that listens. *)
RelayDials ==
    /\ relay = "dial" /\ server = "run"
    /\ relay' = "open sr04"
    /\ UNCHANGED <<serverVars, stream, line, asleep, tunnelVars, runnerVars>>

RelayOpens(s, now, next) ==
    /\ relay = now
    /\ Opens("relay", Node(s))
    /\ relay' = next
    /\ UNCHANGED <<serverVars, stream, line, asleep, got, failing, runnerVars>>

RelayOpensAll ==
    \/ RelayOpens("sr04", "open sr04", "open left")
    \/ RelayOpens("left", "open left", "open right")
    \/ RelayOpens("right", "open right", "receive")

EndsOfLines == {i \in DOMAIN stream : stream[i][2] = "tail"}

(* getSensorValue(): a new bufio.Reader takes n units, the first line of   *)
(* them counts and the rest goes with the reader.  A line that has lost    *)
(* its beginning is no JSON and leaves a Cartype of zeros.  A sample       *)
(* without an echo is skipped, its infrared values too.                    *)
RelayReceives(n) ==
    /\ relay = "receive"
    /\ n \in DOMAIN stream /\ EndsOfLines \cap 1 .. n # {}
    /\ stream' = SubSeq(stream, n + 1, Len(stream))
    /\ IF stream[1][2] = "head" /\ log[stream[1][1]].dist # 0
       THEN relay' = "sr04" /\ line' = stream[1][1]
       ELSE UNCHANGED <<relay, line>>
    /\ UNCHANGED <<serverVars, asleep, tunnelVars, runnerVars>>

(* Mutant: the last of devNames is left out. *)
AfterTwo(s) == CASE s = "sr04" -> "left" [] s = "left" -> "receive" [] s = "right" -> "receive"

After(s) == CASE s = "sr04" -> "left" [] s = "left" -> "right" [] s = "right" -> "receive"

(* Mutant: the ring was full when it looked, and a read came between. *)
RelaySleepsLate ==
    /\ relay \in Sensors /\ ~asleep
    /\ "relay" \in files[Node(relay)]
    /\ asleep' = TRUE
    /\ UNCHANGED <<serverVars, stream, relay, line, tunnelVars, runnerVars>>

(* write() finds the ring full.  A signal would end the sleep, the value   *)
(* unwritten; nobody sends the relay one that it survives.                 *)
RelaySleeps ==
    /\ relay \in Sensors /\ ~asleep
    /\ "relay" \in files[Node(relay)] /\ Room(Node(relay)) = 0
    /\ asleep' = TRUE
    /\ UNCHANGED <<serverVars, stream, relay, line, tunnelVars, runnerVars>>

(* syscall.Write(): as much of the value as there is room for, its count   *)
(* ignored; nothing at all on a descriptor that was never opened.          *)
RelayWrites ==
    /\ relay \in Sensors /\ ~asleep
    /\ IF "relay" \notin files[Node(relay)]
       THEN UNCHANGED <<ring, wp>>
       ELSE /\ Room(Node(relay)) > 0
            /\ ring' = [ring EXCEPT ![Node(relay)] = @ \o Fitting(Node(relay))]
            /\ wp' = [wp EXCEPT ![Node(relay)] = (@ + Len(Fitting(Node(relay)))) % RingBytes]
    /\ relay' = After(relay)
    /\ line' = IF relay' = "receive" THEN 0 ELSE line
    /\ UNCHANGED <<serverVars, stream, asleep, got, files, failing, runnerVars>>

RelayEnds ==
    /\ Exits("relay")
    /\ relay' = "dead" /\ line' = 0 /\ asleep' = FALSE
    /\ stream' = <<>>
    /\ UNCHANGED <<serverVars, got, failing, runnerVars>>

(* "Connection broken(sensor)": os.Exit(1) *)
RelayExits ==
    /\ relay = "receive" /\ server = "dead" /\ EndsOfLines = {}
    /\ RelayEnds

RelayDies == relay \notin {"dial", "dead"} /\ RelayEnds

-----------------------------------------------------------------------------
(* The motor tunnel: motor_tun.c *)

(* What its other clients do to it shows in a call of the car program      *)
(* only.  An ioctl() sleeps on a full ring until a read makes room; a      *)
(* semaphore kept down (motor_tun.c:183) stops each later call for good.   *)
MotorFills == runner = "command" /\ motor = "room" /\ motor' = "full"
MotorDrains == motor = "full" /\ motor' = "room"
MotorJams == runner \in {"open motor", "command"} /\ motor' = "jammed"

Motor == /\ MotorFills \/ MotorDrains \/ MotorJams
         /\ UNCHANGED <<serverVars, stream, relayVars, tunnelVars,
                        runner, seen, basis, command, restarts>>

-----------------------------------------------------------------------------
(* runner.c *)

RunnerOpensMotor ==
    /\ runner = "open motor" /\ motor # "jammed"
    /\ runner' = "open left"
    /\ UNCHANGED <<serverVars, stream, relayVars, tunnelVars,
                   seen, basis, command, restarts, motor>>

RunnerOpens(s, now, next) ==
    /\ runner = now
    /\ Opens("runner", s)
    /\ runner' = next
    /\ UNCHANGED <<serverVars, stream, relayVars, got, failing,
                   seen, basis, command, restarts, motor>>

RunnerOpensAll ==
    \/ RunnerOpens("left", "open left", "open right")
    \/ RunnerOpens("right", "open right", "open sr04")
    \/ RunnerOpens("sr04", "open sr04", "sr04")

(* The sample whose word b is, if it is one. *)
Whole(b) == \E k \in 0 .. MaxSamples : b = Word(k)
SampleOf(b) == b[1][1]

(* What node s holds of sample k: what the relay wrote there. *)
Field(k, s) ==
    IF k = 0 THEN 0
    ELSE CASE Node("sr04") = s -> log[k].dist
           [] Node("left") = s -> log[k].left
           [] Node("right") = s -> log[k].right

(* The numbers the bytes b may make: anything if they are of two values. *)
Numbers(b, s) == IF Whole(b) THEN {Field(SampleOf(b), s)}
                 ELSE IF s = "sr04" THEN Dists ELSE {0, 1}

(* Mutant: rp stays where it was. *)
ReadsAgain(s) ==
    IF "runner" \notin files[s]
    THEN UNCHANGED <<ring, got, seen, asleep>>
    ELSE /\ ring[s] # <<>>
         /\ got' = [got EXCEPT ![s] = First(s)]
         /\ seen' = [seen EXCEPT ![s] = First(s) \o SubSeq(@, Len(First(s)) + 1, WordLen)]
         /\ UNCHANGED ring
         /\ asleep' = (asleep /\ Node(relay) # s)

(* read() of a value.  It wakes a writer; on a descriptor that was never   *)
(* opened it fails and leaves the value alone.                             *)
Reads(s) ==
    IF "runner" \notin files[s]
    THEN UNCHANGED <<ring, got, seen, asleep>>
    ELSE /\ ring[s] # <<>>
         /\ got' = [got EXCEPT ![s] = First(s)]
         /\ seen' = [seen EXCEPT ![s] = First(s) \o SubSeq(@, Len(First(s)) + 1, WordLen)]
         /\ ring' = [ring EXCEPT ![s] = SubSeq(@, Len(First(s)) + 1, Len(@))]
         /\ asleep' = (asleep /\ Node(relay) # s)

RunnerReadsSr04 ==
    /\ runner = "sr04"
    /\ Reads("sr04")
    /\ runner' = "left"
    /\ UNCHANGED <<serverVars, stream, relay, line, wp, files, failing,
                   basis, command, restarts, motor>>

RunnerReadsLeft ==
    /\ runner = "left"
    /\ Reads("left")
    /\ runner' = "right"
    /\ UNCHANGED <<serverVars, stream, relay, line, wp, files, failing,
                   basis, command, restarts, motor>>

(* The last read of a round and the decision. *)
RunnerDecides ==
    /\ runner = "right"
    /\ Reads("right")
    /\ \E d \in Numbers(seen'["sr04"], "sr04"),
          l \in Numbers(seen'["left"], "left"),
          r \in Numbers(seen'["right"], "right") :
              command' = Decide(d, l, r)
    /\ basis' = seen'
    /\ runner' = "command"
    /\ UNCHANGED <<serverVars, stream, relay, line, wp, files, failing, restarts, motor>>

(* The ioctl() comes back, its result ignored; the next round begins.      *)
RunnerCommands ==
    /\ runner = "command" /\ motor = "room"
    /\ runner' = "sr04"
    /\ UNCHANGED <<serverVars, stream, relayVars, tunnelVars,
                   seen, basis, command, restarts, motor>>

(* Mutant: a close wakes the writers. *)
RunnerDiesWaking ==
    /\ runner # "dead"
    /\ Exits("runner")
    /\ runner' = "dead" /\ seen' = Zero /\ asleep' = FALSE
    /\ UNCHANGED <<serverVars, stream, relay, line, got, failing,
                   basis, command, restarts, motor>>

(* The end of the car program at any point: SIGKILL, which no handler      *)
(* sees; a log that fopen() could not open; the division by accum_length,  *)
(* which 65536 rounds bring back to 0.  The close of a jammed motor device *)
(* never ends; the kernel closes that file behind the three tunnels.       *)
RunnerDies ==
    /\ runner # "dead"
    /\ Exits("runner")
    /\ runner' = "dead" /\ seen' = Zero
    /\ UNCHANGED <<serverVars, stream, relayVars, got, failing,
                   basis, command, restarts, motor>>

RunnerStarts ==
    /\ runner = "dead" /\ restarts < MaxRestarts
    /\ runner' = "open motor"
    /\ restarts' = restarts + 1
    /\ UNCHANGED <<serverVars, stream, relayVars, tunnelVars,
                   seen, basis, command, motor>>

-----------------------------------------------------------------------------
Server == \E d \in Dists, ir \in Infrared : ServerSends(d, ir[1], ir[2])
Relay == \/ RelayDials \/ RelayOpensAll
         \/ (\E n \in 1 .. SocketUnits : RelayReceives(n))
         \/ RelaySleeps \/ RelayWrites \/ RelayExits
Runs == \/ RunnerOpensMotor \/ RunnerOpensAll
        \/ RunnerReadsSr04 \/ RunnerReadsLeft \/ RunnerDecides \/ RunnerCommands

Next == \/ Server \/ ServerDies \/ Relay \/ RelayDies
        \/ Runs \/ RunnerDies \/ RunnerStarts \/ Motor

(* Three endless loops that are scheduled whenever they can go on; nobody  *)
(* has to die, nothing is assumed of what the sensors measure, and nobody  *)
(* has to make room in the motor tunnel.                                   *)
Fairness == WF_vars(Server) /\ WF_vars(Relay) /\ WF_vars(Runs)

Spec == Init /\ [][Next]_vars
FairSpec == Spec /\ Fairness

-----------------------------------------------------------------------------
(* The samples of the words in tunnel s, those the car program has read in *)
(* this round in front and the one the relay has not yet written behind.   *)
ReadThisRound(s) == \/ s = "sr04" /\ runner \in {"left", "right"}
                    \/ s = "left" /\ runner = "right"
ToBeWritten(s) == relay \in Sensors /\ s \in
    {Node(n) : n \in CASE relay = "sr04" -> Sensors
                       [] relay = "left" -> {"left", "right"}
                       [] relay = "right" -> {"right"}}
Chunk(s, j) == SubSeq(ring[s], (j - 1) * WordLen + 1, j * WordLen)
Pending(s) ==
    (IF ReadThisRound(s) THEN <<SampleOf(seen[s])>> ELSE <<>>)
    \o [j \in 1 .. Len(ring[s]) \div WordLen |-> SampleOf(Chunk(s, j))]
    \o (IF ToBeWritten(s) THEN <<line>> ELSE <<>>)

(* The three tunnels are in step: whole words of the same samples. *)
InStep ==
    /\ \A s \in Sensors :
          /\ {"relay", "runner"} \subseteq files[s]
          /\ wp[s] % WordLen = 0 /\ Len(ring[s]) % WordLen = 0
          /\ \A j \in 1 .. Len(ring[s]) \div WordLen : Whole(Chunk(s, j))
          /\ ReadThisRound(s) => Whole(seen[s])
    /\ Pending("left") = Pending("sr04") /\ Pending("right") = Pending("sr04")

ShortWrite == /\ relay \in Sensors /\ relay' # relay /\ ring' # ring
              /\ Len(ring'[Node(relay)]) < Len(ring[Node(relay)]) + WordLen

(* The tunnels get out of step when one of them is opened or closed or     *)
(* takes part of a value, and by nothing else that the three programs do;  *)
(* as long as they are in step every decision is made on one sample.       *)
StepLostOnlyByOpen ==
    [][ InStep => /\ InStep' \/ files' # files \/ ShortWrite
                  /\ RunnerDecides => \E k \in 1 .. MaxSamples :
                                         \A s \in Sensors : basis'[s] = Word(k) ]_vars

(* The car program moves ahead, straight or in a turn, only on a distance  *)
(* measured for that very sample: neither on the zeros that follow a value *)
(* in the sensor server's buffer, nor on the old value it sends again when *)
(* the echo is missing, nor on a device that was never opened.             *)
AheadOnlyOnEcho ==
    command \in {"FORWARD", "LEFT", "RIGHT"} /\ Whole(basis["sr04"]) =>
        /\ SampleOf(basis["sr04"]) # 0
        /\ log[SampleOf(basis["sr04"])].how = "echo"

(* Whatever is dropped on the way, the car program never decides on an     *)
(* older distance than before, nor twice on the same while it lives.       *)
InOrder ==
    [][ RunnerDecides /\ Whole(basis["sr04"]) /\ Whole(basis'["sr04"]) =>
          \/ SampleOf(basis'["sr04"]) > SampleOf(basis["sr04"])
          \/ "runner" \notin files["sr04"] ]_vars

(* A relay asleep on a tunnel that an open has emptied is never woken      *)
(* again: not by the car program, and not by starting it anew.             *)
Stranded == asleep /\ ring[Node(relay)] = <<>>
StrandedForGood == [][ Stranded => Stranded' \/ relay' = "dead" ]_vars

(* In step, a car program that has read the distance gets the infrared     *)
(* values of its sample too, decides, and begins the next round, unless    *)
(* the motor tunnel holds its ioctl() up.                                  *)
HeldUp == runner = "command" /\ motor # "room"
RoundCompleted ==
    (runner \in {"left", "right"} /\ InStep) ~> (runner = "sr04" \/ HeldUp \/ ~InStep)

(* Each tunnel is used as the driver promises it: a queue of bytes.        *)
Tunnel(s) == INSTANCE TunnelPromise
               WITH queue <- ring[s], delivered <- got[s], files <- files[s],
                    Clients <- {"relay", "runner"}, Capacity <- RingBytes,
                    Messages <- {SubSeq(Word(k), 1, n) :
                                    k \in 1 .. MaxSamples, n \in 1 .. WordLen}
UsesTunnels ==
    /\ \A s \in Sensors : Tunnel(s)!Init
    /\ [][\A s \in Sensors : Tunnel(s)!Next \/ UNCHANGED Tunnel(s)!vars]_vars

(* README.md: "simple driving algorithm with rough object avoidance".  An  *)
(* obstacle on one side alone is not what the car turns to.                *)
AvoidsObstacle ==
    \A k \in 1 .. Len(log) :
        (\A s \in Sensors : basis[s] = Word(k)) =>
            /\ log[k].left > log[k].right => command # "LEFT"
            /\ log[k].right > log[k].left => command # "RIGHT"
=============================================================================
