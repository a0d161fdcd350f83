----------------------------- MODULE DriverLoad -----------------------------
(***************************************************************************)
(* Loading and unloading the five kernel modules: sr04, ir and motor of    *)
(* the physical car (car/driver and its copy driver-real-car/driver), the  *)
(* list tunnel (car/tunnel/driver.c) and the pod's tunnels (pod/driver).   *)
(*                                                                         *)
(* An init function is a plan: a sequence of calls, each of which gets a   *)
(* resource.  One that fails and is noticed gives back what the code gives *)
(* back at that place and ends the load; a pointer-returning call fails    *)
(* with NULL, which the code notices, or with an ERR_PTR, which it does    *)
(* not.  A negative result makes the kernel free the module, with all its  *)
(* variables; a positive one leaves it loaded.                             *)
(***************************************************************************)
EXTENDS Integers, Sequences, FiniteSets

CONSTANTS Drivers,      \* the modules looked at
          Infrareds,    \* DEVICE_NUM of ir.c
          Lists,        \* DEVICE_NUM of the list tunnel
          CarDevs,      \* CAR_NR_DEVS and CAR_P_NR_DEVS
          MaxLoads      \* bound on the loads in a behaviour

ASSUME LoadAssumption ==
    /\ Drivers \subseteq {"sr04", "ir", "motor", "list", "car"}
    /\ Infrareds \in Nat \ {0} /\ Lists \in Nat \ {0} /\ CarDevs \in Nat \ {0}
    /\ MaxLoads \in Nat

VARIABLES driver,   \* which module this behaviour is about
          phase,    \* out, loading, in, or half: in after an init that failed
          pc,       \* the call of the init that comes next
          held,     \* what the module has got since it was loaded
          orphans,  \* what it had when it left without giving it back
          wrong,    \* what it has given back without holding it
          flawless, \* no call has failed since it was loaded
          loads

loadVars == <<driver, phase, pc, held, orphans, wrong, flawless, loads>>

(* what is got; whether failing shows in a status ("status"), or in NULL   *)
(* or an ERR_PTR ("pointer"), or nobody looks ("ignored"), or cannot       *)
(* happen ("sure"); what must be there for it to do anything; what is      *)
(* given back when it fails; the sign of the init's result then.           *)
Call(gets, shows, needs, undo, result) ==
    [gets |-> gets, shows |-> shows, needs |-> needs, undo |-> undo, result |-> result]

(* Mutant: no mutex_init(). *)
Sr04InitForgetsMutex ==
    << Call(<<"region", 1>>, "status", {}, {<<"gpio", 1>>}, 1),
       Call(<<"class", 1>>, "pointer", {}, {<<"class", 1>>}, 1),
       Call(<<"cdev", 1>>, "status", {}, {<<"cdev", 1>>}, 1),
       Call(<<"node", 1>>, "pointer", {<<"class", 1>>}, {<<"node", 1>>}, 1),
       Call(<<"valid", 1>>, "status", {}, {<<"node", 1>>}, 1),
       Call(<<"gpio", 1>>, "status", {}, {<<"gpio", 1>>}, 1) >>

(* alloc_chrdev_region() ... gpio_request() of DeviceInit() in sr04.c.  It *)
(* returns ENOMEM, EEXIST and EINVAL without a minus sign.  mutex_init()   *)
(* comes last.                                                             *)
Sr04Init ==
    << Call(<<"region", 1>>, "status", {}, {<<"gpio", 1>>}, 1),
       Call(<<"class", 1>>, "pointer", {}, {<<"class", 1>>}, 1),
       Call(<<"cdev", 1>>, "status", {}, {<<"cdev", 1>>}, 1),
       Call(<<"node", 1>>, "pointer", {<<"class", 1>>}, {<<"node", 1>>}, 1),
       Call(<<"valid", 1>>, "status", {}, {<<"node", 1>>}, 1),
       Call(<<"gpio", 1>>, "status", {}, {<<"gpio", 1>>}, 1),
       Call(<<"mutex", 1>>, "sure", {}, {}, 1) >>

Sr04Exit == {<<"gpio", 1>>, <<"node", 1>>, <<"class", 1>>, <<"cdev", 1>>, <<"region", 1>>}

(* One turn of the loop of DeviceInit() in ir.c. *)
IrTurn(i) ==
    << Call(<<"region", i>>, "status", {}, {<<"gpio", i>>}, -1),
       Call(<<"class", i>>, "pointer", {}, {<<"class", i>>}, -1),
       Call(<<"cdev", i>>, "status", {}, {<<"cdev", i>>}, -1),
       Call(<<"node", i>>, "pointer", {<<"class", i>>}, {<<"node", i>>}, -1),
       Call(<<"valid", i>>, "status", {}, {<<"node", i>>}, -1),
       Call(<<"gpio", i>>, "status", {}, {<<"gpio", i>>}, -1) >>

(* The loop: what turn i does is called from 6 * (i - 1) + 1 on. *)
IrInit == [j \in 1 .. 6 * Infrareds |-> IrTurn(((j - 1) \div 6) + 1)[((j - 1) % 6) + 1]]

IrPower == <<"gpio", 0>>    \* IR_POWER_ON, freed and never requested

IrExit == {IrPower} \cup
    ({"gpio", "node", "class", "cdev", "region"} \X (1 .. Infrareds))

(* What r_class of motor.c gives back, r_device the first two. *)
MotorUndo == {<<"region", 1>>, <<"cdev", 1>>}
MotorUndoClass == MotorUndo \cup {<<"class", 1>>}

(* Mutant: r_device forgets cdev_del(). *)
MotorInitKeepsCdev ==
    << Call(<<"region", 1>>, "status", {}, {}, -1),
       Call(<<"cdev", 1>>, "status", {}, MotorUndoClass, -1),
       Call(<<"class", 1>>, "pointer", {}, MotorUndoClass, -1),
       Call(<<"node", 1>>, "pointer", {<<"class", 1>>}, {<<"region", 1>>}, -1),
       Call(<<"adapter", 1>>, "status", {}, MotorUndoClass, -1),
       Call(<<"client", 1>>, "pointer", {}, MotorUndoClass, -1),
       Call(<<"i2c_driver", 1>>, "ignored", {}, {}, -1) >>

(* DeviceInit() in motor.c. *)
MotorInit ==
    << Call(<<"region", 1>>, "status", {}, {}, -1),
       Call(<<"cdev", 1>>, "status", {}, MotorUndoClass, -1),
       Call(<<"class", 1>>, "pointer", {}, MotorUndoClass, -1),
       Call(<<"node", 1>>, "pointer", {<<"class", 1>>}, MotorUndo, -1),
       Call(<<"adapter", 1>>, "status", {}, MotorUndoClass, -1),
       Call(<<"client", 1>>, "pointer", {}, MotorUndoClass, -1),
       Call(<<"i2c_driver", 1>>, "ignored", {}, {}, -1) >>

(* Mutant: the number is not given back. *)
MotorExitKeepsRegion ==
    {<<"client", 1>>, <<"i2c_driver", 1>>, <<"node", 1>>, <<"class", 1>>, <<"cdev", 1>>}

MotorExit == {<<"client", 1>>, <<"i2c_driver", 1>>, <<"node", 1>>, <<"class", 1>>,
              <<"cdev", 1>>, <<"region", 1>>}

(* One turn of the loop of DeviceInit() in the list tunnel's driver.c; the *)
(* ends are the sentinels that init_list() allocates, and without memory   *)
(* for them the kernel stops there.                                        *)
ListTurn(i) ==
    << Call(<<"region", i>>, "status", {}, {}, -1),
       Call(<<"class", i>>, "pointer", {}, {<<"class", i>>}, -1),
       Call(<<"cdev", i>>, "status", {}, {<<"cdev", i>>}, -1),
       Call(<<"node", i>>, "pointer", {<<"class", i>>}, {<<"node", i>>}, -1),
       Call(<<"list", i>>, "status", {}, {}, -1),
       Call(<<"ends", i>>, "sure", {}, {}, -1) >>

ListInit == [j \in 1 .. 6 * Lists |-> ListTurn(((j - 1) \div 6) + 1)[((j - 1) % 6) + 1]]

(* free_list() frees the sentinels, nobody the list itself. *)
ListExit == {"node", "class", "cdev", "region", "ends"} \X (1 .. Lists)

(* cdev_add() of n minors from first on: those of the memory devices, the  *)
(* sensor tunnels, the motor tunnel.                                       *)
Adds(first, n, needs) ==
    [i \in 1 .. n |-> Call(<<"cdev", first + i - 1>>, "ignored", needs, {}, -1)]

(* car_p_init() and car_motor_init() return 0 when they get no region or   *)
(* no memory, and nobody looks; the motor tunnel's minor comes after as    *)
(* many sensor tunnels as were made.                                       *)
MotorMinor == IF <<"sensors", 1>> \in held THEN 2 * CarDevs ELSE CarDevs
SensorsInit == << Call(<<"sensors", 1>>, "ignored", {}, {}, -1) >>
               \o Adds(CarDevs, CarDevs, {<<"sensors", 1>>})
MotorTunInit == << Call(<<"motor", 1>>, "ignored", {}, {}, -1) >>
                \o Adds(MotorMinor, 1, {<<"motor", 1>>})

(* car_init_module() *)
CarInit ==
    << Call(<<"region", 1>>, "status", {}, {}, -1),
       Call(<<"memory", 1>>, "status", {}, {<<"region", 1>>}, -1) >>
    \o Adds(0, CarDevs, {})
    \o SensorsInit \o MotorTunInit

(* car_p_cleanup() and car_motor_cleanup() do nothing for devices that     *)
(* were never allocated.                                                   *)
SensorsExit == IF <<"sensors", 1>> \notin held THEN {}
               ELSE {<<"sensors", 1>>} \cup ({"cdev"} \X (CarDevs .. 2 * CarDevs - 1))
MotorTunExit == IF <<"motor", 1>> \notin held THEN {}
                ELSE {<<"motor", 1>>, <<"cdev", MotorMinor>>}

CarExit == {<<"region", 1>>, <<"memory", 1>>} \cup ({"cdev"} \X (0 .. CarDevs - 1))
           \cup SensorsExit \cup MotorTunExit

Plan == CASE driver = "sr04" -> Sr04Init
          [] driver = "ir" -> IrInit
          [] driver = "motor" -> MotorInit
          [] driver = "list" -> ListInit
          [] driver = "car" -> CarInit

GivesBack == CASE driver = "sr04" -> Sr04Exit
               [] driver = "ir" -> IrExit
               [] driver = "motor" -> MotorExit
               [] driver = "list" -> ListExit
               [] driver = "car" -> CarExit

Resources ==
    {"region", "class", "cdev", "node", "valid", "gpio", "mutex", "adapter", "client",
     "i2c_driver", "list", "ends", "memory", "sensors", "motor"} \X Nat

-----------------------------------------------------------------------------
LoadTypeOK ==
    /\ driver \in Drivers
    /\ phase \in {"out", "loading", "in", "half"}
    /\ pc \in 1 .. Len(Plan) + 1
    /\ held \subseteq Resources /\ orphans \subseteq Resources
    /\ wrong \subseteq Resources
    /\ flawless \in BOOLEAN
    /\ loads \in 0 .. MaxLoads

LoadInit ==
    /\ driver \in Drivers
    /\ phase = "out" /\ pc = 1
    /\ held = {} /\ orphans = {} /\ wrong = {}
    /\ flawless = TRUE /\ loads = 0

(* insmod: fresh variables. *)
Insmod ==
    /\ phase = "out" /\ loads < MaxLoads
    /\ phase' = "loading" /\ pc' = 1 /\ flawless' = TRUE
    /\ loads' = loads + 1
    /\ UNCHANGED <<driver, held, orphans, wrong>>

This == Plan[pc]

(* Names in sysfs, pins and bus addresses can be had once. *)
Taken == /\ This.gets[1] \in {"class", "node", "gpio", "client"}
         /\ This.gets \in orphans

(* What only the module's own memory holds goes with it. *)
Left(rs) == {r \in rs : r[1] \notin {"valid", "mutex"}}

Succeeds ==
    /\ phase = "loading"
    /\ This.needs \subseteq held /\ ~Taken
    /\ held' = held \cup {This.gets}
    /\ pc' = pc + 1
    /\ phase' = IF pc = Len(Plan) THEN "in" ELSE "loading"
    /\ UNCHANGED <<driver, orphans, wrong, flawless, loads>>

FailsUnnoticed ==
    /\ phase = "loading"
    /\ This.shows \in {"pointer", "ignored"}
    /\ pc' = pc + 1 /\ flawless' = FALSE
    /\ phase' = IF pc = Len(Plan) THEN "in" ELSE "loading"
    /\ UNCHANGED <<driver, held, orphans, wrong, loads>>

FailsNoticed ==
    /\ phase = "loading"
    /\ This.shows \in {"status", "pointer"}
    /\ wrong' = wrong \cup (This.undo \ held)
    /\ flawless' = FALSE /\ pc' = 1
    /\ IF This.result < 0
       THEN /\ phase' = "out" /\ held' = {}
            /\ orphans' = orphans \cup Left(held \ This.undo)
       ELSE /\ phase' = "half" /\ held' = held \ This.undo
            /\ UNCHANGED orphans
    /\ UNCHANGED <<driver, loads>>

(* rmmod, and the exit function. *)
Rmmod ==
    /\ phase \in {"in", "half"}
    /\ phase' = "out" /\ pc' = 1 /\ held' = {}
    /\ orphans' = orphans \cup Left(held \ GivesBack)
    /\ wrong' = wrong \cup (GivesBack \ held)
    /\ UNCHANGED <<driver, flawless, loads>>

InitStep == Succeeds \/ FailsUnnoticed \/ FailsNoticed

=============================================================================
