-------------------------------- MODULE Sr04 --------------------------------
(***************************************************************************)
(* The five modules of DriverLoad, and the readers of car/driver/sr04.c    *)
(* while it is being loaded, is in, or stays after an init that failed.    *)
(*                                                                         *)
(* The mutex is the kernel's: an unlock by somebody who does not hold it   *)
(* releases it all the same.  Until mutex_init() it is zeros: one reader   *)
(* can take it, a second one spins or hits the empty wait list (oops).     *)
(*                                                                         *)
(* Times are numbers of Width values.  EchoTimes are those after which the *)
(* echo ends, Starts those at which it may begin.                          *)
(***************************************************************************)
EXTENDS DriverLoad

CONSTANTS Readers,
          Width,        \* 2^32: of uint32_t and of long in the build
          Starts, EchoTimes,
          Factor, Scale,    \* 170, 10000000
          MaxSignals    \* bound on the signals that end a wait for the mutex

ASSUME Sr04Assumption ==
    /\ Width \in Nat \ {0} /\ Factor \in Nat /\ Scale \in Nat \ {0}
    /\ Starts \subseteq 0 .. Width - 1 /\ EchoTimes \subseteq 0 .. Width - 1
    /\ MaxSignals \in Nat

VARIABLES at,       \* where each reader is in measureDistance()
          owner,    \* who has mutex4Trigger, {} if it is free
          start,    \* startTime
          took,     \* history: how long the echo took
          distance, \* what measureDistance() returns
          oopsed,   \* a reader died in mutex_lock
          signals,
          breaches  \* history: see Alone

readerVars == <<at, owner, start, took, distance, oopsed, signals, breaches>>
vars == <<loadVars, readerVars>>

Measuring == {r \in Readers : at[r] \in {"rise", "fall", "unlock"}}

Reachable == driver = "sr04" /\ {<<"cdev", 1>>, <<"node", 1>>} \subseteq held
Initialised == <<"mutex", 1>> \in held

TypeOK ==
    /\ LoadTypeOK
    /\ at \in [Readers -> {"idle", "lock", "rise", "fall", "unlock"}]
    /\ owner \in {{}} \cup {{r} : r \in Readers}
    /\ start \in [Readers -> 0 .. Width - 1]
    /\ took \in [Readers -> 0 .. Width - 1]
    /\ distance \in [Readers -> 0 .. Width - 1]
    /\ oopsed \in BOOLEAN
    /\ signals \in 0 .. MaxSignals
    /\ breaches \in 0 .. MaxSignals + 1

Init ==
    /\ LoadInit
    /\ at = [r \in Readers |-> "idle"] /\ owner = {}
    /\ start = [r \in Readers |-> 0] /\ took = start /\ distance = start
    /\ oopsed = FALSE /\ signals = 0 /\ breaches = 0

(* A step of an init; mutex_init() makes the mutex free, whoever has it. *)
Initialises ==
    /\ ~oopsed
    /\ InitStep
    /\ IF <<"mutex", 1>> \in held' \ held /\ owner # {}
       THEN owner' = {} /\ breaches' = breaches + 1
       ELSE UNCHANGED <<owner, breaches>>
    /\ UNCHANGED <<at, start, took, distance, oopsed, signals>>

(* The files that are open keep the module. *)
Leaves ==
    /\ ~oopsed /\ \A r \in Readers : at[r] = "idle"
    /\ Rmmod
    /\ UNCHANGED readerVars

Comes == Insmod /\ UNCHANGED readerVars

Goes(r, from, to) == at[r] = from /\ at' = [at EXCEPT ![r] = to] /\ ~oopsed

(* DeviceRead() *)
Calls(r) ==
    /\ Reachable
    /\ Goes(r, "idle", "lock")
    /\ UNCHANGED <<loadVars, owner, start, took, distance, oopsed, signals, breaches>>

(* Mutant: MUTEX_ENABLE 0. *)
LocksNothing(r) ==
    /\ Goes(r, "lock", "rise")
    /\ owner' = owner \cup {r}
    /\ UNCHANGED <<loadVars, start, took, distance, oopsed, signals, breaches>>

Locks(r) ==
    /\ owner = {}
    /\ Goes(r, "lock", "rise")
    /\ owner' = {r}
    /\ UNCHANGED <<loadVars, start, took, distance, oopsed, signals, breaches>>

(* Nobody looks at what mutex_lock_interruptible() returns. *)
Interrupted(r) ==
    /\ Initialised /\ owner # {} /\ signals < MaxSignals
    /\ Goes(r, "lock", "rise")
    /\ signals' = signals + 1 /\ breaches' = breaches + 1
    /\ UNCHANGED <<loadVars, owner, start, took, distance, oopsed>>

Oopses(r) ==
    /\ ~Initialised /\ owner # {} /\ at[r] = "lock" /\ ~oopsed
    /\ oopsed' = TRUE
    /\ UNCHANGED <<loadVars, at, owner, start, took, distance, signals, breaches>>

(* After the pulse the echo begins at t, or has not begun after            *)
(* COUNT_LIMIT looks.                                                      *)
Rises(r, t) ==
    /\ Goes(r, "rise", "fall")
    /\ start' = [start EXCEPT ![r] = t]
    /\ UNCHANGED <<loadVars, owner, took, distance, oopsed, signals, breaches>>

NoEcho(r) ==
    /\ \/ Goes(r, "rise", "unlock")
       \/ Goes(r, "fall", "unlock")
    /\ distance' = [distance EXCEPT ![r] = 0]
    /\ took' = [took EXCEPT ![r] = 0]
    /\ UNCHANGED <<loadVars, owner, start, oopsed, signals, breaches>>

(* Mutant: the difference as a signed number. *)
MeasuredSigned(startTime, endTime) ==
    (((IF endTime < startTime THEN 0 ELSE endTime - startTime) * Factor) % Width) \div Scale

(* diffTime*170l/10000000l: a product of Width values, too. *)
Measured(startTime, endTime) ==
    ((((endTime - startTime) % Width) * Factor) % Width) \div Scale

Falls(r, d) ==
    /\ Goes(r, "fall", "unlock")
    /\ took' = [took EXCEPT ![r] = d]
    /\ distance' = [distance EXCEPT ![r] = Measured(start[r], (start[r] + d) % Width)]
    /\ UNCHANGED <<loadVars, owner, start, oopsed, signals, breaches>>

Forgets(r) == /\ start' = [start EXCEPT ![r] = 0]
              /\ took' = [took EXCEPT ![r] = 0]
              /\ distance' = [distance EXCEPT ![r] = 0]

(* Mutant: after an echo that ended too late the mutex is kept. *)
UnlocksHeard(r) ==
    /\ Goes(r, "unlock", "idle")
    /\ owner' = IF took[r] = 0 THEN owner ELSE {}
    /\ breaches' = IF Measuring = {r} THEN 0 ELSE breaches
    /\ Forgets(r)
    /\ UNCHANGED <<loadVars, oopsed, signals>>

(* mutex_unlock(), whosever it is, and the value is copied to the caller. *)
Unlocks(r) ==
    /\ Goes(r, "unlock", "idle")
    /\ owner' = {}
    /\ breaches' = IF Measuring = {r} THEN 0 ELSE breaches
    /\ Forgets(r)
    /\ UNCHANGED <<loadVars, oopsed, signals>>

Reader(r) == \/ Locks(r) \/ Oopses(r) \/ Interrupted(r)
             \/ (\E t \in Starts : Rises(r, t)) \/ NoEcho(r)
             \/ (\E d \in EchoTimes : Falls(r, d)) \/ Unlocks(r)

Next == \/ Comes \/ Initialises \/ Leaves
        \/ \E r \in Readers : Calls(r) \/ Reader(r)

(* Loops of COUNT_LIMIT turns end; the kernel's mutex hands itself over to *)
(* a waiter that was overtaken, hence SF.                                  *)
Fairness == \A r \in Readers : /\ WF_vars(Reader(r) /\ at[r] # "lock")
                               /\ SF_vars(Locks(r))

Spec == Init /\ [][Next]_vars
FairSpec == Spec /\ Fairness

-----------------------------------------------------------------------------
(* Readers measure together only because a signal has ended a wait for the *)
(* mutex, or mutex_init() ran over a held one: each of these lets one more *)
(* in, until a moment at which nobody measures, when all is well again.    *)
Alone ==
    /\ Cardinality(Measuring) <= 1 + breaches
    /\ Measuring = {} => owner = {}

(* Whenever the echo begins, a wrap of the 32-bit nanoseconds included,    *)
(* the distance is right, unless the product does not fit 32 bits.         *)
DistanceRight ==
    \A r \in Readers :
        took[r] * Factor < Width /\ at[r] = "unlock" =>
            distance[r] = (took[r] * Factor) \div Scale

(* A read ends: no path through measureDistance() keeps the mutex.         *)
Served == \A r \in Readers : at[r] = "lock" ~> at[r] = "idle" \/ oopsed

(* A mutex that was never initialised is used while the module loads, or   *)
(* because the pin could not be had: gpio_request() failed, and that init  *)
(* leaves the node and, its result being positive, the module; or          *)
(* gpio_is_valid() did, which takes the node away again, and the reader    *)
(* has opened it before and goes on.                                       *)
UsedUninitialised ==
    Measuring # {} /\ ~Initialised =>
        phase = "loading" \/ (phase = "half" /\ <<"gpio", 1>> \notin held)

(* An init of sr04, motor or the pod's module that fails leaves no device  *)
(* registered whose functions are gone.                                    *)
NoDanglingDevice ==
    driver \in {"sr04", "motor", "car"} => \A r \in orphans : r[1] # "cdev"

(* After a load in which nothing failed, unloading gives back all there is *)
(* (but for motor's I2C adapter and the lists), and nothing twice (but for *)
(* the pin ir.c has never requested).                                      *)
CleanUnload ==
    [][ Leaves /\ flawless /\ orphans = {} =>
          /\ orphans' \subseteq {<<"adapter", 1>>} \cup ({"list"} \X (1 .. Lists))
          /\ wrong' \ wrong \subseteq {IrPower} ]_vars
=============================================================================
