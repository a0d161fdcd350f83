# Verification of remoteCarFromMonet

A car with three sensors and a motor board is driven from a Kubernetes pod. The
car program runs in the pod against devices that look like the car's own; kernel
drivers in the pod (the *tunnels*) and two pairs of TCP programs carry sensor
values to it and motor commands back. These TLA+ modules model the tunnels, both
paths from end to end, the memory device, and the loading of every kernel module;
TLC checks them on small instances, and TLAPS proves for all sizes that every tunnel driver and the
memory device implement what they promise, and every invariant and action property that the
passing runs check.

## The system

    physical car                                   pod
    sr04, left_ir, right_ir drivers
      -> sendSensorValueToVirtCar.go ==TCP 10101==> sensorRelayInPod.go
                                                     -> write  sensor_tun.c (x3)
                                                                 -> read  runner.c
                                                                          -> ioctl
    motor.c <- ioctl  RealCarRunner.c <==TCP 10102== motorRelayInPod.go
                                                     <- read   motor_tun.c <-+

| component | state it keeps | operations | what makes it correct |
|---|---|---|---|
| `pod/driver/motor_tun.c` | ring, `rp`, `wp`, semaphore, two wait queues, open counts | open, release, read, ioctl, poll | exclusion; no lost wake-up; whole command strings; first in first out; buffer there while open; open, close and poll return |
| `pod/driver/sensor_tun.c` | the same, per sensor | open, release, read, write, poll | the same; values stay framed in 4 bytes |
| `car/tunnel` (list driver) | a doubly linked list per device | read (dequeue), write (enqueue), load, unload | the list is a list; nothing freed is followed; first in first out |
| `motorRelayInPod.go` | the bytes last read, a TCP connection | dial, open, read-and-send loop | order; survives a car that is gone |
| `RealCarRunner.c` | `cmd`, a TCP connection | accept, read-parse-dispatch loop, exit | obeys the newest command; ends when the relay does |
| `controller/{stop,forward,...}.c` | none | open, ioctl, close | the command reaches the tunnel |
| `car/runner/runner.c` | last distance and infrared values, counters | read three sensors, decide, ioctl, die | decides on one sample; stops when killed |
| sensor relay and server | a TCP connection, buffered readers | sample, send, receive, write three tunnels | samples arrive whole, in order and together |
| `pod/driver/main.c` | quantum sets, module state | open, read, write, llseek, load, unload | contents; minors; clean failure |
| `car/driver/{sr04,ir,motor}.c` | GPIO and I2C, a trigger mutex | read, ioctl, load, unload | one measurement at a time; clean failure |
| `config`, `*.sh` | node names, minors, volume mounts | - | each name reaches its own sensor |

The components meet at the tunnel devices (shared kernel memory under a semaphore,
sleeping and waking) and on two TCP streams. What is hard: the unlocked tests
before a sleep, pointers that are reset by every open, partial transfers at the
end of a ring, a list with no lock at all, a byte stream whose reads do not match
its lines, three tunnels that are filled and emptied one after the other, init
functions that each undo their failures in a way of their own, and programs that
die while the other end goes on. `PROJECT.json`
lists each such hazard at its line with the properties that cover it.

## Modules

| module | models |
|---|---|
| `RingBuffer` | the pointer arithmetic of both ring drivers: `spacefree`, the `min()` chains, the wrap |
| `TunnelRing` | what `motor_tun.c` and `sensor_tun.c` have in common, one action per step of a client in the driver |
| `MotorTunnel`, `SensorTunnel` | the two drivers: `TunnelRing` with the ioctl, or the write, that fills the ring |
| `TunnelPromise` | the abstract specification: a bounded queue that only an open or the last close empties |
| `ListTunnel` | the list driver of `car/tunnel`, one action per access to a shared field |
| `CommandLink` | clients of the motor tunnel, relay, TCP connection and `RealCarRunner.c`; the tunnel is an instance of `TunnelPromise` |
| `Runner` | the decision table of `runner.c` |
| `SensorLink` | sensor server, TCP connection, sensor relay, three sensor tunnels and the car program's rounds; extends `Runner`, each tunnel is used as `TunnelPromise` |
| `FlatFile` | the abstract specification of the memory device: a file in memory |
| `CarStore` | `main.c`: quantum sets, a write's allocations, `llseek` |
| `DriverLoad` | init and exit of the five kernel modules, call by call |
| `Sr04` | `DriverLoad` together with the readers of `sr04.c`: mutex, signals, echo, arithmetic |
| `TunnelRingProof`, and for each of `MotorTunnel`, `SensorTunnel`, `ListTunnel`, `CommandLink`, `SensorLink`, `CarStore` and `Sr04` a module `...Proof` | theorems and proofs |
| `MC...` | the instances TLC checks |

`MotorTunnel`, `SensorTunnel` and `ListTunnel` each implement `TunnelPromise`
(property `KeepsPromise`), `CommandLink` is built on it, and `SensorLink` shows that
what its programs do with the tunnels is allowed by it (`UsesTunnels`). `CarStore`
implements `FlatFile` (`StoresBytes`).

**Ring drivers.** A thread is a client process with at most one file on the
device. Its `pc` names the place where it can be overtaken: outside the driver,
waiting for the semaphore (`open`, `read`, `write`, `release`, `poll`), testing
`rp` and `wp` without it (`rd_wait`, `wr_wait`), asleep (`in_inq`, `in_outq`),
between the increment of a pointer and the wrap with `up()` (`rd_up`, `wr_up`), and
before the wake-up behind it (`rd_wake`, `wr_wake`). Open, release and poll are one
critical section each and therefore one action; a read or writing call is two, cut
between the increment and the wrap because the unlocked tests can see a pointer
equal to `dev->end`. Signals end a call at any interruptible point, `kmalloc` and
the user copies may fail. A byte is its message and its place in the message, so
that mixed messages can be told apart; `Junk` is memory nobody wrote. In
`motor_tun.c` an ioctl code without a case publishes what the slot held before, and
the model does too. Each caller has its own file; two threads sharing one are not
modelled, which the drivers cannot tell from two files except in the last close.

**List driver.** Since it locks nothing, each read or write of a shared field is an
action, `lst->size ++` is a load and a store, and freed memory holds `Null`. Whether
the clients' calls overlap is fixed at the start of a behaviour: with overlap only
`SentinelsHold` and `TypeOK` are claimed, without it the list is a list and
implements the queue. A `Null` or freed pointer that is followed ends the thread
(`dead`) and sets `fault`; the real kernel may go on over reused memory, but nothing is
claimed of the calls behind a fault. A write first gets `kernelBuf` (`buffer`): without memory `memset()` follows the
NULL and the kernel ends the client before it has touched the list (`BufferFails`), a `copy_from_user()` may
fault, and one of more than 512 bytes overwrites memory of others (`CopyInOverruns`), which no
statement about the list survives: it sets `broken`, and the behaviour ends. A load whose `kmalloc()` of
a sentinel fails (`InsmodFails`) ends one too. So `WellFormed` speaks of list nodes: no NULL or freed *node* is
followed. That a read frees the node and not the `kernelBuf` that is its key (`driver.c:122`) is not
modelled: `LostOnlyByFault` counts nodes. The driver's array of lists and the index computed from
majors are left out: the model is one device. An unload needs all files closed; `free_list()` follows
the pointer of a node it has just freed, so that with messages queued the unload either frees them all
(the memory still held what it did) or goes astray, which ends the behaviour. Lost nodes outlive it.

**Command link.** A command is one element of the queue, because `MotorTunnel`
keeps strings whole (`SlotsWhole`, with the 4000-byte buffer a multiple of 5) and the relay
reads 5 bytes. The codes without a case, which publish an old slot again, are in `MotorTunnel` only;
of the programs that use this path just `garbage.c`, started by hand, sends one. The one departure of `motor_tun.c` from its promise is added:
an ioctl that finds the ring full sets `jammed`, and nothing enters the driver again.
The relay's open and the car's open of `/dev/car/motor` may fail, and nobody looks: such a relay sends
the five zeros of its buffer for ever, such a car moves nothing. `Drives` is the ioctl of
`motor.c`, one I2C message for each code, whose loss nobody notices either.
A JSON line is four units (the text up to the name, two halves of the name, the
rest), and a `read()` of the car takes any number of them up to `BufUnits`: TCP may
cut a stream anywhere. The initial `cmd`, an uninitialized array, is taken to be
none of the five names. The branch for `TERM` has no sender: the tunnel driver can
only publish five strings. `sent`, `issued`, `missed` and `misses` are histories.

**Sensor link.** The server's `bufio.Reader` matters: `sr04`'s `read()` returns the
distance where it should return a byte count, so that a distance of *d* leaves
*d* bytes in the buffer, the value and zeros behind it, and the next rounds read those
zeros; a missing echo (0) is end of file and sends the old value again. `devByte`
and `buffered` are that state; `how` in a sample says which of the three it was. A line
is two units and a read of the relay may end between any two, since it makes a new
`bufio.Reader` for every line and what that has read beyond the line is gone. A
value in a tunnel is `WordLen` bytes, each tagged with its sample; `wp` is the position in
the buffer, because a write and a read are cut at the buffer's end, and the relay
ignores how much was written. `Node` is the deployment: the two infrared
volumes of `Pod-car.yaml` are crossed in one container and straight in the other. A set
in `Unopened` fixes which `open()`s fail in a behaviour. What two samples mixed
in one value read as is any number. The relay's deaths, the server's, the end of
the car program at any point and its next start are steps. Its end (`RunnerDies`) is a SIGKILL, a log
that `fopen()` could not open, or the division by `accum_length`, which has 16 bits and is
0 again after 65536 rounds. Of the motor tunnel there is what a call of the car program meets (`motor`): room, a full
ring that a read of the motor relay ends, or a semaphore kept down (`motor_leak`'s finding), behind which neither its
`open()` nor its `ioctl()` ever returns. A decision (`RunnerDecides`) and the return of its ioctl
(`RunnerCommands`) are therefore two steps, and the next round begins with the second. The close of a
jammed device never ends either; it is taken to come behind that of the three
sensor tunnels. Left out: a signal that ends a sleep of the relay without ending the relay (`sensor_tun.c:140`), which
nobody sends, and the 8 bytes that `sizeof(unsigned long)` in `car/driver/sr04.c:89` is on a 64-bit
build: the mapped copy, of `driver-real-car`, is the one for the 32-bit car. The server accepts once: behind a
dead relay its writes go nowhere, so nothing is modelled of a second relay.

**Memory device.** All calls but `llseek` hold the semaphore from beginning to
end, so each is one step, `car_follow()` and `car_trim()` included. Every `kmalloc()` may fail
and each copy may fault at any byte; a fresh quantum is `Junk`, since the code does not clear
it. One open file is enough: a call depends on the data, the size, its own
position and mode, and any position can be sought. `int item = (long)*f_pos / itemsize` loses all but
the low 32 bits of the quotient, and a negative item counts `car_follow()` down through all ints:
`Item` is the quotient modulo `IntSize`, so that positions `Span` = 2^32 times the item size (17 PB)
apart have one cell. `FlatFile` promises no more than that: a file of `Span` cells. A `long` is taken to
hold the position, as on the pod's 64-bit kernel.

**Module loading.** An init function is a sequence of `Call`s: what it gets, how a
failure shows (a status, a pointer that may be NULL or an ERR_PTR, or not at
all), what is undone then, and the sign of the result. NULL is noticed, an
`ERR_PTR` of `class_create` or `device_create` is not. The five plans are read off the five
inits; `held`, `orphans` (left behind) and `wrong` (given back without being held) are what the
exits and the error paths make of them. `car/driver` and `driver-real-car/driver` hold
two nearly identical copies of the three drivers; they share the plans. `Sr04` lets readers in
as soon as the device node is there, which is before `mutex_init()`, and while the
module stays loaded after an init that returned a positive error.

## Runs

| run | result | instance | what it shows |
|---|---|---|---|
| `motor` | passes | 2 clients (one non-blocking), ring of 4 bytes, commands of 2, reads of 1 or 2 | types (of the ring too), exclusion, no lost wake-up, whole strings, open counts, `KeepsPromise`, `Served` |
| `motor_leak` | `SemBalanced` violated | the same | finding: `motor_tun.c:183` returns with the semaphore down |
| `sensor` | passes | 2 clients, ring of 4, values of 2 | the semaphore is never lost, only an open strands a writer, only a short write loses framing, `KeepsPromise`, `Served` |
| `sensor_strand` | `WaitsOnlyWhenFull` violated | the same | finding: an open under a sleeping writer, `sensor_tun.c:58` |
| `list` | passes | 2 clients, 2 nodes, 2 messages, symmetric | with overlap the sentinels hold; without it list, leaks and promise, over unloads and loads |
| `list_race` | `Intact` violated | the same | finding: no lock in `driver.c`, against `buffer.h:55` |
| `command_link` | passes | 3 commands, tunnel of 3, 1 move and STOP, reads of up to 7 units, 1 lost I2C message, either open may fail | order, nothing invented, both ends survive each other |
| `command_coalesced` | `ExecutesResults` violated | 2 commands | finding: `RealCarRunner.c:153` reads two lines as one |
| `sensor_link` | passes | 3 samples of distances 0, 2 or 5 with an obstacle on the left, 2-byte values, rings of 4 bytes, a motor tunnel with room, full or jammed, 1 restart; no open fails, or one of two | ahead only on an echo of the same sample; the tunnels get out of step by an open, a close or a short write only; order; a stranded relay stays so; a round begun in step is decided and ended, unless the motor tunnel holds the ioctl up; the tunnels are used as promised |
| `sensor_side` | `AvoidsObstacle` violated | every device opens | finding: with the volumes of `Pod-car.yaml:80` an obstacle on one side is turned to |
| `drivers` | passes | 2 loads of each of the 5 modules, 2 infrared sensors, 2 lists, 2 car devices; 3 readers of `sr04`, 1 signal, times of 16 values | what a failure at any call leaves behind; what an unload gives back; who measures together and why; the distance over a wrap of the clock; every reader is served |
| `car_store` | passes | 1 file, quanta of 2 bytes, 1 to a set, ints of 2 values (`Span` is 4), calls of up to 2 bytes, positions 0 .. 5 | the device is a flat file of `Span` cells, whatever fails; the list reaches to the end of the data; no byte below the end is missing but behind a write that began beyond it |

**Bounds.** A ring of two slots makes it full after one message and wraps after
two, so that full, empty, wrapped and the short room at the end are all reached
within a few calls; with 2-byte messages and 1-byte reads the pointers take every
position. Two clients are enough for each race the properties speak of (a reader
against a writer, an open against a sleeper, two readers), and the proofs do
not depend on the number. For the list two nodes give "only node", "first node" and
"allocation fails"; `SizeBound` stops a behaviour whose races have driven `size` out of
0 .. 2, and after a fault only the calls in progress go on. In `CommandLink`,
`MaxCommands` bounds the accepted commands and `SocketUnits` the sockets; a read of
7 units holds one line and most of the next, as 100 bytes do of lines of 56.
In `SensorLink` a ring of 4 bytes holds one value and half of the next, so that the
second write is short, the third starts inside a value and a later one is cut at the buffer's
end; the distances are none, one below both thresholds and one beyond them that
leaves a rest in the server's buffer. Three samples are the first that lets one be read,
one wait and one be written. In `CarStore` positions 1 and 3 are
the last bytes of a quantum, position 2 is the first byte of a second item, and positions 4 and 5 fall on the
cells of 0 and 1; several quanta to a set are left to the proofs. In `Drivers` two loads show what
the first leaves to the second (`orphans`), and the times are such that one start makes each
echo wrap and the product of `Measured` fits for one echo and not for the other.

**Deadlock** is not checked in `motor` (the leaked semaphore stops everybody), `list`
(all clients may have been killed by a fault, or be past the bounds, or other memory is overwritten),
`command_link` and `sensor_link` (the programs end, the samples are used up, and a
stranded relay and the car program wait for each other for good), `drivers` (the last load is
over, or an oops has ended everything) and `car_store` (the largest position is reached). It is
checked in `sensor`.

**Fairness.** The ring drivers assume strong fairness of each thread's steps inside
the driver: Linux runs every runnable thread, and a `struct semaphore` hands itself to its
waiters in the order in which they came, so a thread that wants it again and again
gets it. Calls and signals are not fair: nobody has to make one. `CommandLink`
assumes weak fairness of the relay's loop and of the car's loop, nothing of the
commands, the operator or the deaths. `SensorLink` assumes weak fairness of the three
endless loops, each a process that the kernel runs when it can go on, and nothing of what the sensors
measure; nobody has to make room in the motor tunnel, nor to start a car program that has ended. `Sr04` assumes weak fairness of a reader that is measuring, whose waits are
counted loops, and strong fairness of its lock: the kernel's mutex hands itself to a waiter
that has been overtaken. `Served` of the motor tunnel is stated under
`[]SemBalanced`, because the leak does stop everybody.

## Proofs

Every invariant and every action property of every passing run is a theorem, for all values of the
constants that satisfy the named assumptions of the modules, and so are the four refinements of
drivers and device and the use of the sensor tunnels. One theorem has a hypothesis beyond the
assumptions, `WholeReads` of `KeepsFraming`.

| module | theorem | states |
|---|---|---|
| `MotorTunnelProof` | `TypeCorrect`, `Excludes`, `HoldsBuffer`, `LosesNoWakeup`, `SlotsStayWhole` | `TypeOK`, `MutualExclusion`, `BufferHeld`, `NoLostWakeup`, `SlotsWhole` |
| | `Refines` | `KeepsPromise` |
| `SensorTunnelProof` | `TypeCorrect`, `SemNeverLost` | `TypeOK`, `SemExact` |
| | `StrandsOnlyByOpen`, `Refines` | `StrandedOnlyByOpen`, `KeepsPromise` |
| | `KeepsFraming` | `FramingLostOnlyByShortWrite`, if every read asks for whole values |
| `ListTunnelProof` | `TypeCorrect`, `KeepsSentinels`, `StaysWellFormed` | `TypeOK`, `SentinelsHold`, `WellFormed` |
| | `LosesOnlyByFault`, `Refines` | `LostOnlyByFault`, `KeepsPromise` |
| `CommandLinkProof` | `LinkTyped`, `InventsNothing`, `KeepsOrder` | `TypeOK`, `NothingInvented`, `InOrder` |
| `SensorLinkProof` | `LinkTyped`, `AheadIsOnEcho`, `StrandedIsForGood` | `TypeOK`, `AheadOnlyOnEcho`, `StrandedForGood` |
| | `UsesPromise`, `DecidesInOrder`, `KeepsStep` | `UsesTunnels`, `InOrder`, `StepLostOnlyByOpen` |
| `Sr04Proof` | `TypeCorrect`, `ReadsAlone`, `MeasuresRight`, `LeavesNoDevice`, `UsesUninitialisedOnly`, `UnloadsCleanly` | `TypeOK`, `Alone`, `DistanceRight`, `NoDanglingDevice`, `UsedUninitialised`, `CleanUnload` |
| `CarStoreProof` | `TypeCorrect`, `ReachesEnd`, `Refines`, `LeavesNoHole` | `TypeOK`, `ListReachesEnd`, `StoresBytes`, `HolesOnlyBehindSeeks` |

**Ring drivers.** `TunnelRingProof` proves what the steps of `TunnelRing` preserve, `MotorTunnelProof`
and `SensorTunnelProof` put the drivers' own steps beside them. The inductive invariant is
`RingInv`, which joins `TypeOK`, `MutualExclusion`,
`BufferHeld` and `PointersWrapped`: a pointer equals `BufSize` only while a thread is
at the wrap behind its increment. Without the last part the type invariant is not
inductive (a read would start at `BufSize`), and it needs exclusion, since it is the
one thread in the critical section that wraps. `NoLostWakeup` is inductive beside it;
its case analysis is over who can make `rp # wp` true while a reader is asleep.
`BufferHeld` needs the counting of finite sets, hence the finite set of threads.

The refinements go through the contents of the ring: lemmas say what an increment of `rp` takes
from the front of the queue and a store behind `wp` adds to its end, wrapped or not, and that a
pointer at `BufSize` is the wrapped one's place. Each step of a thread is then one of five on the queue:
nothing, an open, a close, a take, an append (`Quiet`, `Opens`, `Closes`, `Takes`, `Appends`),
which are the steps of `TunnelPromise`. `SlotsWhole` is inductive with `MsgWhole`,
what the callers of ioctl hold, for any buffer: one whose size is no multiple of a
command ends in a rest that is never written.

`KeepsFraming` assumes `WholeReads`, that a read asks for a multiple of `MsgLen` bytes, as the
sensors' reader `runner.c` does (`sizeof ( u_int32_t )`); a read of one byte breaks the framing by itself. That a
read of whole values gets whole values is not obvious, because it is cut at the end of the
buffer, whose size need not be a multiple of a value's. `Placed` is what helps: byte *i* of a
value never stands before cell *i* - 1, so that the byte in cell 0 is the first of its value. If
values in the ring wrap, one of them therefore begins in cell 0, and the part before the end of the
buffer is whole (`TakesWords`).

**List driver.** `RaceInv` holds under any race: what a thread will write into a link is no
sentinel of the wrong end. `Shaped` holds when calls do not overlap: there is an order `s` of nodes that
`prev` carries from the rear, and `next`, `size` and the locals of the one active call follow
from `s` and that call's place. One store changes `s` in each call, `LinkRear` and `UnlinkNext`, which is where
the refinement maps it to a step of the queue; every other statement keeps `s`. That `Walk` along
a link that carries `s` returns `s` is an induction over the length, put as the
least element of a set of numbers (`SetInduction`), a form the provers can instantiate.
The assumption that `Nodes` is finite gives the walk its bound.

**Command path.** `NothingInvented` and `InOrder` rest on `LinkInv`: a command gets its number when
the tunnel accepts it, and the numbers grow from the wheels back to the tunnel, through `cmd`, the
stream, the relay's `byt` and the ring; a line begins with a number no line before it
had. `RelayHonest` is the part that the relay's unnoticed failure to open needs.

**Sensor path.** The invariant is again called `LinkInv`. `AheadOnlyOnEcho` alone is not inductive: the
decision takes its value from a tunnel, so that every byte on the way must be of a sample
already sent (`Ids` in `TunnelInv` and `RunnerInv`, `Units` of the stream, `line` of the relay), and
a sample that is not the echo of its own round must be small (`SamplesSmall`). That in
turn rests on `DevByteSmall`: the server sends an old value only when its buffer is
empty, and the buffer is empty only behind a distance of at most `WordLen` bytes. The
assumption `EchoAssumption`, `WordLen < BackDist` (4 bytes, 15 cm), is what makes such
a value one from which the car backs off; with a threshold below 4 cm the
property would fail. `StrandedIsForGood` needs of `LinkInv` that a sleeping relay is
at one of the three writes.

The other three theorems need `UseInv` beside it: a program has not open what it has still to open
(`OpensAhead`), a tunnel nobody has open is empty, a writing relay has a line, and the
tunnels hold bytes of real samples only. With it each step is, at each tunnel, a step of
`TunnelPromise` or none (`UseSteps`). `DecidesInOrder` adds `OrderInv`, an order through the whole path: the
lines on the connection are later than the one the relay holds, that one is later than all
that is in the tunnel of the distances, where the bytes are in order, and these are later than
what was read and decided on; a byte counts by its sample and its place, so that a read of part of a value is
covered. A restart sets the value read to zeros, which are older than any sample, and leaves the last
decision, so that the property holds across it too.

`KeepsStep` replaces `InStep` by a description that is easier to follow through a step: there is one
row of samples `p` of which each tunnel holds a consecutive part, but for the first while it is read and the
last while it is not yet written there (`Row`, `Abreast`). `PendingRow` and `RowPending` show that this says the same as
`InStep`. A line received appends to `p`, a whole write and a read leave it, a decision
drops its first, which all three values then are (`DecidesAbreast`). A read takes a whole value because
pointers and buffer are multiples of a value (`RpIsWhole`, `RoomForWhole`), which is where
`RingBytes % WordLen = 0` is used.

**Module loading and `sr04`.** `LoadInv` says that what a module holds follows its plan: at most what the calls
so far get, and all of it while nothing has failed. That no plan gets a resource twice
(the minors of the pod's module are the hard case) makes an unload give back each once. `ReadInv`
counts the readers: the owner of the mutex accounts for one of those who measure, the breaches for
the others. A breach is a signal or the load's one `mutex_init()`; where the pin could not be had
there is no mutex.

**Memory device.** A cell has one place in the list and a place one cell (`Place`, `PlaceIs`), so that
a copy into a quantum changes the bytes of its own positions and no others (`CopiesInPlace`), and
allocations change none (`Followed`). `Inv` is `TypeOK` with `ListReachesEnd`, which needs that a write ends within
the item it is in (`Reached`), and holds as long as the size is below `Span`. `LeavesNoHole` needs the refinement's
lemmas: a write that begins at or below the end leaves no gap behind the old end.

**Proved only.** `TypeOK` of the sensor tunnel is the ring's, which the `motor` run checks; for the sensor tunnel
it is proved (`TypeCorrect`), and no run checks it.

**Model-checked only.** Liveness (`Served`, `RoundCompleted`, `EndsAfterRelay`, `KeepsDraining`) is outside the
prover's reach. So is what the five findings' runs show: a counterexample needs no proof.

## Findings

Each is a run that TLC finds violated, quoted in `PROJECT.json`:

- `motor_tun.c:183`: the ioctl that finds room for part of a command keeps the semaphore.
- `sensor_tun.c:58`: an open empties the ring under a sleeping writer and wakes nobody.
- `car/tunnel/driver.c:76`: nothing locks the list that `buffer.h:55` says is locked.
- `RealCarRunner.c:153`: of two lines in one read the second is lost.
- `Pod-car.yaml:80`: the left and the right infrared tunnel are crossed.

Others show in the models without a statement of the repository that they contradict:
an init of `ir.c` or of the list driver that fails in a later turn of its loop leaves the earlier
devices registered while their code is freed (`NoDanglingDevice` excludes these two);
`sr04.c` stays loaded after a failure, with a mutex nobody initialized (`UsedUninitialised`); `ir.c`
frees a pin it has not requested, `motor.c` never gives back its I2C adapter, and the list
driver never frees its lists (`CleanUnload` names all three); `main.c:174` cuts a position's item to
an int, so that a write `Span` further on lands on the same bytes and sets a size that the list
has no room for (`Item`, the condition of `ListReachesEnd`).

## Not modelled

- `car/tunnel`: `find.c`, `swap.c`, `repair_size()`, `show()` and the list demo are called by nothing.
- `ir.c`'s read is one pin, the values 0 and 1 of `SensorLink`.
- That the device nodes do not know the first sensor's minor, which the motor tunnel gets if
  the sensor tunnels are not made (`MotorMinor`).
- The value of `mean_diff` of `runner.c`, which nothing reads, and the delay logs of all programs.
- The layout of `RealCarRunner`'s stack, where the scanned name may be longer than `cmd`.
- The interactive demos `runner.go` and `tcpClient.go`, the straight-line clients (`catd.c`,
  `toss.c`, `sonic.c`, `test_all_drivers.c`) and the shell scripts keep no state.

## Plan

Done: the tunnels, both paths, the memory device, module loading and `sr04`, with all their
invariants, action properties and four refinements proved. What is left, in this order:

1. `ListOps`: `find.c` and `swap.c` against reference definitions.
2. The minors of the pod's module composed with the nodes of the deployment.
3. Proofs about the promise itself: that `TunnelPromise` delivers first in, first out, and hence every tunnel.
