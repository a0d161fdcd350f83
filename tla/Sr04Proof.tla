----------------------------- MODULE Sr04Proof -----------------------------
(***************************************************************************)
(* The theorems about loading and unloading the five kernel modules and    *)
(* about the readers of sr04.c, for any number of readers, devices, loads  *)
(* and signals.  What a module holds follows its plan of calls call by     *)
(* call (LoadInv); the readers are counted against the owner of the mutex  *)
(* and the breaches (ReadInv).                                             *)
(***************************************************************************)
EXTENDS Sr04, FiniteSetTheorems, SequenceTheorems, TLAPS

-----------------------------------------------------------------------------
(* The plans *)

(* The quotient and the remainder of a number. *)
LEMMA DivMod ==
    ASSUME NEW a \in Nat, NEW n \in Nat \ {0}
    PROVE  /\ a = (a \div n) * n + (a % n)
           /\ a % n \in 0 .. (n - 1) /\ a \div n \in Nat
BY SMT

CallRecords == [gets : Resources, shows : {"status", "pointer", "ignored", "sure"},
           needs : SUBSET Resources, undo : SUBSET Resources, result : {-1, 1}]

(* Each kind of thing a module gets is known. *)
LEMMA KnownResource ==
    ASSUME NEW i \in Nat,
           NEW k \in {"region", "class", "cdev", "node", "valid", "gpio", "mutex", "adapter",
                      "client", "i2c_driver", "list", "ends", "memory", "sensors", "motor"}
    PROVE  <<k, i>> \in Resources
BY DEF Resources

(* A call of known things is a call. *)
LEMMA CallIsCall ==
    ASSUME NEW gets \in Resources, NEW shows \in {"status", "pointer", "ignored", "sure"},
           NEW needs \in SUBSET Resources, NEW undo \in SUBSET Resources,
           NEW result \in {-1, 1}
    PROVE  Call(gets, shows, needs, undo, result) \in CallRecords
BY DEF Call, CallRecords

(* The calls of sr04.c: everything that fails is noticed and leaves the    *)
(* module in, but the mutex, which is initialised last, cannot fail.       *)
LEMMA Sr04Calls ==
    /\ Len(Sr04Init) = 7
    /\ \A i \in 1 .. 7 :
          /\ Sr04Init[i] \in CallRecords /\ Sr04Init[i].result = 1
          /\ Sr04Init[i].shows = "sure" <=> i = 7
          /\ Sr04Init[i].shows # "ignored"
          /\ Sr04Init[i].gets = <<"gpio", 1>> <=> i = 6
          /\ Sr04Init[i].gets = <<"mutex", 1>> <=> i = 7
          /\ Sr04Init[i].gets[1] \notin {"valid", "mutex"} => Sr04Init[i].gets \in Sr04Exit
          /\ Sr04Init[i].gets[1] = "cdev" => Sr04Init[i].gets \in Sr04Exit
    /\ Sr04Exit \subseteq {Sr04Init[i].gets : i \in 1 .. 7}
<1>1. Len(Sr04Init) = 7
  BY DEF Sr04Init
<1>2. ASSUME NEW i \in 1 .. 7
      PROVE  /\ Sr04Init[i] \in CallRecords /\ Sr04Init[i].result = 1
             /\ Sr04Init[i].shows = "sure" <=> i = 7
             /\ Sr04Init[i].shows # "ignored"
             /\ Sr04Init[i].gets = <<"gpio", 1>> <=> i = 6
             /\ Sr04Init[i].gets = <<"mutex", 1>> <=> i = 7
             /\ Sr04Init[i].gets[1] \notin {"valid", "mutex"} => Sr04Init[i].gets \in Sr04Exit
             /\ Sr04Init[i].gets[1] = "cdev" => Sr04Init[i].gets \in Sr04Exit
  <2> DEFINE R(k) == <<k, 1>> \in Resources
  <2>1. R("region") /\ R("class") /\ R("cdev") /\ R("node") /\ R("valid") /\ R("gpio") /\ R("mutex")
    BY KnownResource
  <2>2. i = 1 \/ i = 2 \/ i = 3 \/ i = 4 \/ i = 5 \/ i = 6 \/ i = 7
    OBVIOUS
  <2>3. Sr04Init[i] \in CallRecords
    BY <2>1, <2>2, CallIsCall DEF Sr04Init
  <2>4. /\ Sr04Init[i].result = 1
        /\ Sr04Init[i].shows = "sure" <=> i = 7
        /\ Sr04Init[i].shows # "ignored"
    BY <2>2 DEF Sr04Init, Call
  <2>5. /\ Sr04Init[i].gets = <<"gpio", 1>> <=> i = 6
        /\ Sr04Init[i].gets = <<"mutex", 1>> <=> i = 7
    BY <2>2 DEF Sr04Init, Call
  <2>6. Sr04Init[i].gets[1] \notin {"valid", "mutex"} => Sr04Init[i].gets \in Sr04Exit
    BY <2>2 DEF Sr04Init, Call, Sr04Exit
  <2>7. Sr04Init[i].gets[1] = "cdev" => Sr04Init[i].gets \in Sr04Exit
    BY <2>6
  <2>. QED  BY <2>3, <2>4, <2>5, <2>6, <2>7
<1>3. Sr04Exit \subseteq {Sr04Init[i].gets : i \in 1 .. 7}
  BY DEF Sr04Exit, Sr04Init, Call
<1>. QED  BY <1>1, <1>2, <1>3

(* The calls of motor.c: every failure from the second call on gives the   *)
(* device back.                                                            *)
LEMMA MotorCalls ==
    /\ Len(MotorInit) = 7
    /\ \A i \in 1 .. 7 :
          /\ MotorInit[i] \in CallRecords /\ MotorInit[i].result = -1
          /\ MotorInit[i].gets[1] = "cdev" => MotorInit[i].gets = <<"cdev", 1>>
          /\ MotorInit[i].shows # "ignored" /\ i # 1 => <<"cdev", 1>> \in MotorInit[i].undo
          /\ MotorInit[i].gets \in MotorExit \cup {<<"adapter", 1>>}
    /\ MotorExit \subseteq {MotorInit[i].gets : i \in 1 .. 7}
<1>1. Len(MotorInit) = 7
  BY DEF MotorInit
<1>2. ASSUME NEW i \in 1 .. 7
      PROVE  /\ MotorInit[i] \in CallRecords /\ MotorInit[i].result = -1
             /\ MotorInit[i].gets[1] = "cdev" => MotorInit[i].gets = <<"cdev", 1>>
             /\ MotorInit[i].shows # "ignored" /\ i # 1 => <<"cdev", 1>> \in MotorInit[i].undo
             /\ MotorInit[i].gets \in MotorExit \cup {<<"adapter", 1>>}
  <2> DEFINE R(k) == <<k, 1>> \in Resources
  <2>1. /\ R("region") /\ R("class") /\ R("cdev") /\ R("node") /\ R("adapter")
        /\ R("client") /\ R("i2c_driver")
    BY KnownResource
  <2>2. i = 1 \/ i = 2 \/ i = 3 \/ i = 4 \/ i = 5 \/ i = 6 \/ i = 7
    OBVIOUS
  <2>3. MotorUndo \in SUBSET Resources /\ MotorUndoClass \in SUBSET Resources
    BY <2>1 DEF MotorUndo, MotorUndoClass
  <2>4. MotorInit[i] \in CallRecords
    BY <2>1, <2>2, <2>3, CallIsCall DEF MotorInit
  <2>5. MotorInit[i].result = -1
    BY <2>2 DEF MotorInit, Call
  <2>6. MotorInit[i].gets[1] = "cdev" => MotorInit[i].gets = <<"cdev", 1>>
    BY <2>2 DEF MotorInit, Call
  <2>7. MotorInit[i].shows # "ignored" /\ i # 1 => <<"cdev", 1>> \in MotorInit[i].undo
    BY <2>2 DEF MotorInit, Call, MotorUndo, MotorUndoClass
  <2>8. MotorInit[i].gets \in MotorExit \cup {<<"adapter", 1>>}
    BY <2>2 DEF MotorInit, Call, MotorExit
  <2>. QED  BY <2>4, <2>5, <2>6, <2>7, <2>8
<1>3. MotorExit \subseteq {MotorInit[i].gets : i \in 1 .. 7}
  <2>1. /\ MotorInit[1].gets = <<"region", 1>> /\ MotorInit[2].gets = <<"cdev", 1>>
        /\ MotorInit[3].gets = <<"class", 1>> /\ MotorInit[4].gets = <<"node", 1>>
        /\ MotorInit[6].gets = <<"client", 1>> /\ MotorInit[7].gets = <<"i2c_driver", 1>>
    BY DEF MotorInit, Call
  <2>2. \A r \in MotorExit : \E i \in 1 .. 7 : r = MotorInit[i].gets
    BY <2>1 DEF MotorExit
  <2>. QED  BY <2>2
<1>. QED  BY <1>1, <1>2, <1>3

(* Call j of a loop of six calls a turn. *)
LEMMA TurnOf ==
    ASSUME NEW n \in Nat \ {0}, NEW j \in 1 .. 6 * n
    PROVE  ((j - 1) \div 6) + 1 \in 1 .. n /\ ((j - 1) % 6) + 1 \in 1 .. 6
BY SMT

(* Where call k of turn i comes. *)
LEMMA CallOf ==
    ASSUME NEW n \in Nat \ {0}, NEW i \in 1 .. n, NEW k \in 1 .. 6
    PROVE  LET j == 6 * (i - 1) + k
           IN  j \in 1 .. 6 * n /\ ((j - 1) \div 6) + 1 = i /\ ((j - 1) % 6) + 1 = k
BY SMT

LEMMA IrCalls ==
    /\ Len(IrInit) = 6 * Infrareds
    /\ \A j \in 1 .. 6 * Infrareds :
          /\ IrInit[j] \in CallRecords /\ IrInit[j].result = -1
          /\ IrInit[j].gets[1] # "valid" => IrInit[j].gets \in IrExit
    /\ IrExit \subseteq {IrInit[j].gets : j \in 1 .. 6 * Infrareds} \cup {IrPower}
<1>1. Infrareds \in Nat \ {0}
  BY LoadAssumption
<1>2. ASSUME NEW i \in 1 .. Infrareds, NEW k \in 1 .. 6
      PROVE  /\ IrTurn(i)[k] \in CallRecords /\ IrTurn(i)[k].result = -1
             /\ IrTurn(i)[k].gets[1] # "valid" => IrTurn(i)[k].gets \in IrExit
  <2> DEFINE R(x) == <<x, i>> \in Resources
  <2>1. R("region") /\ R("class") /\ R("cdev") /\ R("node") /\ R("valid") /\ R("gpio")
    <3>1. i \in Nat
      BY <1>1
    <3>. QED  BY <3>1, KnownResource
  <2>2. k = 1 \/ k = 2 \/ k = 3 \/ k = 4 \/ k = 5 \/ k = 6
    OBVIOUS
  <2>3. IrTurn(i)[k] \in CallRecords
    BY <2>1, <2>2, CallIsCall DEF IrTurn
  <2>4. IrTurn(i)[k].result = -1
    BY <2>2 DEF IrTurn, Call
  <2>5. IrTurn(i)[k].gets[1] # "valid" => IrTurn(i)[k].gets \in IrExit
    BY <2>2 DEF IrTurn, Call, IrExit
  <2>. QED  BY <2>3, <2>4, <2>5
<1>3. ASSUME NEW j \in 1 .. 6 * Infrareds
      PROVE  /\ IrInit[j] \in CallRecords /\ IrInit[j].result = -1
             /\ IrInit[j].gets[1] # "valid" => IrInit[j].gets \in IrExit
  <2>1. ((j - 1) \div 6) + 1 \in 1 .. Infrareds /\ ((j - 1) % 6) + 1 \in 1 .. 6
    BY <1>1, TurnOf
  <2>2. IrInit[j] = IrTurn(((j - 1) \div 6) + 1)[((j - 1) % 6) + 1]
    BY DEF IrInit
  <2>. QED  BY <1>2, <2>1, <2>2
<1>4. IrExit \subseteq {IrInit[j].gets : j \in 1 .. 6 * Infrareds} \cup {IrPower}
  <2>1. ASSUME NEW i \in 1 .. Infrareds, NEW k \in 1 .. 6
        PROVE  \E j \in 1 .. 6 * Infrareds : IrInit[j] = IrTurn(i)[k]
    <3> DEFINE j == 6 * (i - 1) + k
    <3>1. j \in 1 .. 6 * Infrareds /\ ((j - 1) \div 6) + 1 = i /\ ((j - 1) % 6) + 1 = k
      BY <1>1, CallOf
    <3> HIDE DEF j
    <3>. QED  BY <3>1 DEF IrInit
  <2>2. ASSUME NEW i \in 1 .. Infrareds, NEW x \in {"gpio", "node", "class", "cdev", "region"}
        PROVE  \E j \in 1 .. 6 * Infrareds : IrInit[j].gets = <<x, i>>
    <3>1. \E k \in 1 .. 6 : IrTurn(i)[k].gets = <<x, i>>
      BY DEF IrTurn, Call
    <3>. QED  BY <2>1, <3>1
  <2>. QED  BY <2>2 DEF IrExit
<1>5. Len(IrInit) = 6 * Infrareds
  BY <1>1 DEF IrInit
<1>. QED  BY <1>3, <1>4, <1>5

LEMMA ListCalls ==
    /\ Len(ListInit) = 6 * Lists
    /\ \A j \in 1 .. 6 * Lists :
          /\ ListInit[j] \in CallRecords /\ ListInit[j].result = -1
          /\ ListInit[j].gets[1] # "list" => ListInit[j].gets \in ListExit
    /\ ListExit \subseteq {ListInit[j].gets : j \in 1 .. 6 * Lists}
<1>1. Lists \in Nat \ {0}
  BY LoadAssumption
<1>2. ASSUME NEW i \in 1 .. Lists, NEW k \in 1 .. 6
      PROVE  /\ ListTurn(i)[k] \in CallRecords /\ ListTurn(i)[k].result = -1
             /\ ListTurn(i)[k].gets[1] # "list" => ListTurn(i)[k].gets \in ListExit
  <2> DEFINE R(x) == <<x, i>> \in Resources
  <2>1. R("region") /\ R("class") /\ R("cdev") /\ R("node") /\ R("list") /\ R("ends")
    <3>1. i \in Nat
      BY <1>1
    <3>. QED  BY <3>1, KnownResource
  <2>2. k = 1 \/ k = 2 \/ k = 3 \/ k = 4 \/ k = 5 \/ k = 6
    OBVIOUS
  <2>3. ListTurn(i)[k] \in CallRecords
    BY <2>1, <2>2, CallIsCall DEF ListTurn
  <2>4. ListTurn(i)[k].result = -1
    BY <2>2 DEF ListTurn, Call
  <2>5. ListTurn(i)[k].gets[1] # "list" => ListTurn(i)[k].gets \in ListExit
    BY <2>2 DEF ListTurn, Call, ListExit
  <2>. QED  BY <2>3, <2>4, <2>5
<1>3. ASSUME NEW j \in 1 .. 6 * Lists
      PROVE  /\ ListInit[j] \in CallRecords /\ ListInit[j].result = -1
             /\ ListInit[j].gets[1] # "list" => ListInit[j].gets \in ListExit
  <2>1. ((j - 1) \div 6) + 1 \in 1 .. Lists /\ ((j - 1) % 6) + 1 \in 1 .. 6
    BY <1>1, TurnOf
  <2>2. ListInit[j] = ListTurn(((j - 1) \div 6) + 1)[((j - 1) % 6) + 1]
    BY DEF ListInit
  <2>. QED  BY <1>2, <2>1, <2>2
<1>4. ListExit \subseteq {ListInit[j].gets : j \in 1 .. 6 * Lists}
  <2>1. ASSUME NEW i \in 1 .. Lists, NEW k \in 1 .. 6
        PROVE  \E j \in 1 .. 6 * Lists : ListInit[j] = ListTurn(i)[k]
    <3> DEFINE j == 6 * (i - 1) + k
    <3>1. j \in 1 .. 6 * Lists /\ ((j - 1) \div 6) + 1 = i /\ ((j - 1) % 6) + 1 = k
      BY <1>1, CallOf
    <3> HIDE DEF j
    <3>. QED  BY <3>1 DEF ListInit
  <2>2. ASSUME NEW i \in 1 .. Lists, NEW x \in {"node", "class", "cdev", "region", "ends"}
        PROVE  \E j \in 1 .. 6 * Lists : ListInit[j].gets = <<x, i>>
    <3>1. \E k \in 1 .. 6 : ListTurn(i)[k].gets = <<x, i>>
      BY DEF ListTurn, Call
    <3>. QED  BY <2>1, <3>1
  <2>. QED  BY <2>2 DEF ListExit
<1>5. Len(ListInit) = 6 * Lists
  BY <1>1 DEF ListInit
<1>. QED  BY <1>3, <1>4, <1>5

(* The calls of the pod's module, whose motor tunnel gets minor m. *)
CarPlan(m) ==
    << Call(<<"region", 1>>, "status", {}, {}, -1),
       Call(<<"memory", 1>>, "status", {}, {<<"region", 1>>}, -1) >>
    \o Adds(0, CarDevs, {})
    \o (<< Call(<<"sensors", 1>>, "ignored", {}, {}, -1) >>
        \o Adds(CarDevs, CarDevs, {<<"sensors", 1>>}))
    \o (<< Call(<<"motor", 1>>, "ignored", {}, {}, -1) >>
        \o Adds(m, 1, {<<"motor", 1>>}))

LEMMA CarInitIsPlan == CarInit = CarPlan(MotorMinor)
BY DEF CarInit, CarPlan, SensorsInit, MotorTunInit

(* n devices added are n calls. *)
LEMMA AddsCalls ==
    ASSUME NEW first \in Nat, NEW n \in Nat, NEW needs \in SUBSET Resources
    PROVE  /\ Adds(first, n, needs) \in Seq(CallRecords) /\ Len(Adds(first, n, needs)) = n
           /\ \A i \in 1 .. n : Adds(first, n, needs)[i]
                  = Call(<<"cdev", first + i - 1>>, "ignored", needs, {}, -1)
<1> DEFINE a == Adds(first, n, needs)
<1>1. \A i \in 1 .. n : Call(<<"cdev", first + i - 1>>, "ignored", needs, {}, -1) \in CallRecords
  <2>1. ASSUME NEW i \in 1 .. n
        PROVE  Call(<<"cdev", first + i - 1>>, "ignored", needs, {}, -1) \in CallRecords
    <3>1. first + i - 1 \in Nat
      OBVIOUS
    <3>2. <<"cdev", first + i - 1>> \in Resources
      BY <3>1, KnownResource
    <3>. QED  BY <3>2, CallIsCall
  <2>. QED  BY <2>1
<1>2. a = [i \in 1 .. n |-> Call(<<"cdev", first + i - 1>>, "ignored", needs, {}, -1)]
  BY DEF Adds
<1>3. a \in [1 .. n -> CallRecords]
  BY <1>1, <1>2
<1> HIDE DEF a
<1>4. a \in Seq(CallRecords)
  BY <1>3
<1>5. DOMAIN a = 1 .. n /\ Len(a) = n
  BY <1>3, <1>4
<1>. QED  BY <1>2, <1>4, <1>5 DEF a

(* They come in this order. *)
LEMMA CarCalls ==
    ASSUME NEW m \in Nat
    PROVE  /\ CarPlan(m) \in Seq(CallRecords) /\ Len(CarPlan(m)) = 2 * CarDevs + 5
           /\ CarPlan(m)[1] = Call(<<"region", 1>>, "status", {}, {}, -1)
           /\ CarPlan(m)[2] = Call(<<"memory", 1>>, "status", {}, {<<"region", 1>>}, -1)
           /\ \A i \in 3 .. CarDevs + 2 : CarPlan(m)[i]
                  = Call(<<"cdev", i - 3>>, "ignored", {}, {}, -1)
           /\ CarPlan(m)[CarDevs + 3] = Call(<<"sensors", 1>>, "ignored", {}, {}, -1)
           /\ \A i \in CarDevs + 4 .. 2 * CarDevs + 3 : CarPlan(m)[i]
                  = Call(<<"cdev", i - 4>>, "ignored", {<<"sensors", 1>>}, {}, -1)
           /\ CarPlan(m)[2 * CarDevs + 4] = Call(<<"motor", 1>>, "ignored", {}, {}, -1)
           /\ CarPlan(m)[2 * CarDevs + 5]
                  = Call(<<"cdev", m>>, "ignored", {<<"motor", 1>>}, {}, -1)
<1> DEFINE n == CarDevs
           C(k) == Call(<<k, 1>>, "ignored", {}, {}, -1)
           rm == << Call(<<"region", 1>>, "status", {}, {}, -1),
                    Call(<<"memory", 1>>, "status", {}, {<<"region", 1>>}, -1) >>
           a == Adds(0, n, {})
           b == Adds(n, n, {<<"sensors", 1>>})
           c == Adds(m, 1, {<<"motor", 1>>})
           sb == << C("sensors") >> \o b
           mc == << C("motor") >> \o c
           rma == rm \o a
           rmasb == rma \o sb
           all == rmasb \o mc
<1>1. CarPlan(m) = all
  BY DEF CarPlan
<1>2. n \in Nat /\ n # 0
  BY LoadAssumption
<1>3. /\ <<"region", 1>> \in Resources /\ <<"memory", 1>> \in Resources
      /\ <<"sensors", 1>> \in Resources /\ <<"motor", 1>> \in Resources
  BY KnownResource
<1>4. /\ a \in Seq(CallRecords) /\ Len(a) = n
      /\ \A i \in 1 .. n : a[i] = Call(<<"cdev", i - 1>>, "ignored", {}, {}, -1)
  <2>1. /\ a \in Seq(CallRecords) /\ Len(a) = n
        /\ \A i \in 1 .. n : a[i] = Call(<<"cdev", 0 + i - 1>>, "ignored", {}, {}, -1)
    BY <1>2, AddsCalls
  <2>2. \A i \in 1 .. n : 0 + i - 1 = i - 1
    BY <1>2
  <2>. QED  BY <2>1, <2>2
<1>5. /\ b \in Seq(CallRecords) /\ Len(b) = n
      /\ \A i \in 1 .. n : b[i]
             = Call(<<"cdev", n + i - 1>>, "ignored", {<<"sensors", 1>>}, {}, -1)
  BY <1>2, <1>3, AddsCalls
<1>6. /\ c \in Seq(CallRecords) /\ Len(c) = 1
      /\ c[1] = Call(<<"cdev", m>>, "ignored", {<<"motor", 1>>}, {}, -1)
  <2>1. /\ c \in Seq(CallRecords) /\ Len(c) = 1
        /\ c[1] = Call(<<"cdev", m + 1 - 1>>, "ignored", {<<"motor", 1>>}, {}, -1)
    <3>1. {<<"motor", 1>>} \in SUBSET Resources /\ 1 \in Nat /\ 1 \in 1 .. 1
      BY <1>3
    <3> HIDE DEF C
    <3>. QED  BY <3>1, AddsCalls
  <2>2. m + 1 - 1 = m
    OBVIOUS
  <2>. QED  BY <2>1, <2>2
<1>7. rm \in Seq(CallRecords) /\ Len(rm) = 2
  BY <1>3, CallIsCall
<1>8. << C("sensors") >> \in Seq(CallRecords) /\ << C("motor") >> \in Seq(CallRecords)
  BY <1>3, CallIsCall
<1> HIDE DEF a, b, c, C
<1>9. /\ sb \in Seq(CallRecords) /\ Len(sb) = n + 1 /\ sb[1] = C("sensors")
      /\ \A i \in 2 .. n + 1 : sb[i] = b[i - 1]
  BY <1>2, <1>5, <1>8
<1>10. /\ mc \in Seq(CallRecords) /\ Len(mc) = 2 /\ mc[1] = C("motor") /\ mc[2] = c[1]
  BY <1>6, <1>8
<1>11. /\ rma \in Seq(CallRecords) /\ Len(rma) = n + 2
       /\ rma[1] = rm[1] /\ rma[2] = rm[2]
       /\ \A i \in 3 .. n + 2 : rma[i] = a[i - 2]
  BY <1>2, <1>4, <1>7
<1> HIDE DEF rm, sb, mc, rma
<1>12. /\ rmasb \in Seq(CallRecords) /\ Len(rmasb) = 2 * n + 3
       /\ \A i \in 1 .. n + 2 : rmasb[i] = rma[i]
       /\ \A i \in n + 3 .. 2 * n + 3 : rmasb[i] = sb[i - (n + 2)]
  <2>1. /\ rmasb \in Seq(CallRecords) /\ Len(rmasb) = Len(rma) + Len(sb)
        /\ \A i \in 1 .. Len(rma) + Len(sb) :
              rmasb[i] = IF i <= Len(rma) THEN rma[i] ELSE sb[i - Len(rma)]
    <3>1. rma \in Seq(CallRecords) /\ sb \in Seq(CallRecords)
      BY <1>9, <1>11
    <3>. QED  BY <3>1, ConcatProperties
  <2>2. Len(rma) = n + 2 /\ Len(sb) = n + 1
    BY <1>9, <1>11
  <2> HIDE DEF rmasb
  <2>. QED  BY <1>2, <2>1, <2>2
<1> HIDE DEF rmasb
<1>13. /\ all \in Seq(CallRecords) /\ Len(all) = 2 * n + 5
       /\ \A i \in 1 .. 2 * n + 3 : all[i] = rmasb[i]
       /\ all[2 * n + 4] = mc[1] /\ all[2 * n + 5] = mc[2]
  <2>1. /\ all \in Seq(CallRecords) /\ Len(all) = Len(rmasb) + Len(mc)
        /\ \A i \in 1 .. Len(rmasb) + Len(mc) :
              all[i] = IF i <= Len(rmasb) THEN rmasb[i] ELSE mc[i - Len(rmasb)]
    <3>1. rmasb \in Seq(CallRecords) /\ mc \in Seq(CallRecords)
      BY <1>10, <1>12
    <3>. QED  BY <3>1, ConcatProperties
  <2>2. Len(rmasb) = 2 * n + 3 /\ Len(mc) = 2
    BY <1>10, <1>12
  <2> HIDE DEF all
  <2>3. Len(all) = 2 * n + 5 /\ \A i \in 1 .. 2 * n + 3 : all[i] = rmasb[i]
    BY <1>2, <2>1, <2>2
  <2>4. all[2 * n + 4] = mc[1] /\ all[2 * n + 5] = mc[2]
    BY <1>2, <2>1, <2>2
  <2>. QED  BY <2>1, <2>3, <2>4
<1> HIDE DEF all
<1>14. /\ all[1] = rm[1] /\ all[2] = rm[2]
       /\ \A i \in 3 .. n + 2 : all[i] = a[i - 2]
       /\ all[n + 3] = C("sensors")
       /\ \A i \in n + 4 .. 2 * n + 3 : all[i] = b[i - (n + 3)]
  <2>1. \A i \in 1 .. n + 2 : all[i] = rma[i]
    BY <1>2, <1>12, <1>13
  <2>2. \A i \in n + 3 .. 2 * n + 3 : all[i] = sb[i - (n + 2)]
    BY <1>2, <1>12, <1>13
  <2>3. all[1] = rm[1] /\ all[2] = rm[2] /\ \A i \in 3 .. n + 2 : all[i] = a[i - 2]
    BY <1>2, <1>11, <2>1
  <2>4. all[n + 3] = C("sensors")
    BY <1>2, <1>9, <2>2
  <2>5. ASSUME NEW i \in n + 4 .. 2 * n + 3 PROVE all[i] = b[i - (n + 3)]
    <3> DEFINE k == i - (n + 2)
    <3>1. k \in 2 .. n + 1 /\ k - 1 = i - (n + 3) /\ i \in n + 3 .. 2 * n + 3
      BY <1>2
    <3>2. all[i] = sb[k]
      BY <2>2, <3>1
    <3> HIDE DEF k
    <3>3. sb[k] = b[k - 1]
      BY <1>9, <3>1
    <3>. QED  BY <3>1, <3>2, <3>3
  <2>. QED  BY <2>3, <2>4, <2>5
<1>15. \A i \in 3 .. n + 2 : all[i] = Call(<<"cdev", i - 3>>, "ignored", {}, {}, -1)
  <2>1. ASSUME NEW i \in 3 .. n + 2
        PROVE  all[i] = Call(<<"cdev", i - 3>>, "ignored", {}, {}, -1)
    <3>1. i - 2 \in 1 .. n /\ i - 2 - 1 = i - 3
      BY <1>2
    <3>. QED  BY <1>4, <1>14, <3>1
  <2>. QED  BY <2>1
<1>16. \A i \in n + 4 .. 2 * n + 3 :
          all[i] = Call(<<"cdev", i - 4>>, "ignored", {<<"sensors", 1>>}, {}, -1)
  <2>1. ASSUME NEW i \in n + 4 .. 2 * n + 3
        PROVE  all[i] = Call(<<"cdev", i - 4>>, "ignored", {<<"sensors", 1>>}, {}, -1)
    <3>1. i - (n + 3) \in 1 .. n /\ n + (i - (n + 3)) - 1 = i - 4
      BY <1>2
    <3>. QED  BY <1>5, <1>14, <3>1
  <2>. QED  BY <2>1
<1>. QED  BY <1>1, <1>6, <1>10, <1>13, <1>14, <1>15, <1>16 DEF rm, C

(* Whatever module it is, its plan is a sequence of calls. *)
LEMMA MinorType == MotorMinor \in Nat
BY LoadAssumption DEF MotorMinor

LEMMA PlanCalls ==
    ASSUME driver \in Drivers
    PROVE  /\ Len(Plan) \in Nat \ {0}
           /\ \A i \in 1 .. Len(Plan) : Plan[i] \in CallRecords
<1>0. driver \in {"sr04", "ir", "motor", "list", "car"}
  BY LoadAssumption
<1>1. CASE driver = "sr04"
  <2>1. Plan = Sr04Init
    BY <1>1 DEF Plan
  <2>2. Len(Sr04Init) = 7 /\ \A i \in 1 .. 7 : Sr04Init[i] \in CallRecords
    BY Sr04Calls
  <2>. QED  BY <2>1, <2>2
<1>2. CASE driver = "ir"
  BY <1>2, IrCalls, LoadAssumption DEF Plan
<1>3. CASE driver = "motor"
  <2>1. Plan = MotorInit
    BY <1>3 DEF Plan
  <2>2. Len(MotorInit) = 7 /\ \A i \in 1 .. 7 : MotorInit[i] \in CallRecords
    BY MotorCalls
  <2>. QED  BY <2>1, <2>2
<1>4. CASE driver = "list"
  <2>1. Plan = ListInit
    BY <1>4 DEF Plan
  <2>2. Lists \in Nat \ {0}
    BY LoadAssumption
  <2>. QED  BY <2>1, <2>2, ListCalls
<1>5. CASE driver = "car"
  <2>1. Plan = CarPlan(MotorMinor)
    BY <1>5, CarInitIsPlan DEF Plan
  <2>2. CarPlan(MotorMinor) \in Seq(CallRecords) /\ Len(CarPlan(MotorMinor)) = 2 * CarDevs + 5
    BY MinorType, CarCalls
  <2> DEFINE c == CarPlan(MotorMinor)
  <2> HIDE DEF c
  <2>3. \A i \in 1 .. Len(c) : c[i] \in CallRecords
    BY <2>2, ElementOfSeq DEF c
  <2>4. 2 * CarDevs + 5 \in Nat \ {0}
    BY LoadAssumption
  <2>. QED  BY <2>1, <2>2, <2>3, <2>4 DEF c
<1>. QED  BY <1>0, <1>1, <1>2, <1>3, <1>4, <1>5

-----------------------------------------------------------------------------
(* What a module holds *)

Got == {Plan[i].gets : i \in 1 .. (pc - 1)}
All == {Plan[i].gets : i \in 1 .. Len(Plan)}

(* Why a device of the pod's module may be registered under minor c. *)
MinorHeld(c) ==
    \/ c \in 0 .. (CarDevs - 1)
    \/ <<"sensors", 1>> \in held /\ c \in CarDevs .. (2 * CarDevs - 1)
    \/ <<"motor", 1>> \in held /\ c = MotorMinor

(* What is held follows the plan, exactly while nothing has failed; a      *)
(* module that is half in has no pin and no mutex.                         *)
HeldByPlan ==
    /\ phase = "loading" => /\ pc <= Len(Plan) /\ held \subseteq Got
                            /\ flawless => Got \subseteq held
    /\ phase = "out" => held = {}
    /\ phase = "in" => held \subseteq All /\ (flawless => All \subseteq held)
    /\ phase = "half" => /\ driver = "sr04" /\ ~flawless /\ held \subseteq All
                         /\ <<"gpio", 1>> \notin held /\ <<"mutex", 1>> \notin held
    /\ driver = "sr04" /\ phase = "in" => <<"mutex", 1>> \in held
MinorsHeld == driver = "car" => \A r \in held : r[1] = "cdev" => MinorHeld(r[2])

LoadInv == LoadTypeOK /\ HeldByPlan /\ MinorsHeld /\ NoDanglingDevice

(* Where the pod's module is when it gets the sensor or the motor tunnels. *)
LEMMA CarMilestones ==
    ASSUME NEW m \in Nat, NEW i \in 1 .. 2 * CarDevs + 5
    PROVE  /\ CarPlan(m)[i].gets = <<"sensors", 1>> <=> i = CarDevs + 3
           /\ CarPlan(m)[i].gets = <<"motor", 1>> <=> i = 2 * CarDevs + 4
           /\ CarPlan(m)[i].gets[1] = "cdev" =>
                 \/ CarPlan(m)[i].gets[2] \in 0 .. (CarDevs - 1)
                 \/ /\ CarPlan(m)[i].needs = {<<"sensors", 1>>}
                    /\ CarPlan(m)[i].gets[2] \in CarDevs .. (2 * CarDevs - 1)
                 \/ /\ CarPlan(m)[i].needs = {<<"motor", 1>>}
                    /\ CarPlan(m)[i].gets[2] = m
           /\ CarPlan(m)[i].shows # "ignored" => i \in {1, 2}
           /\ CarPlan(m)[i].result = -1
<1> DEFINE n == CarDevs
           c == CarPlan(m)
<1>1. n \in Nat \ {0}
  BY LoadAssumption
<1>2. /\ c[1] = Call(<<"region", 1>>, "status", {}, {}, -1)
      /\ c[2] = Call(<<"memory", 1>>, "status", {}, {<<"region", 1>>}, -1)
      /\ \A k \in 3 .. n + 2 : c[k] = Call(<<"cdev", k - 3>>, "ignored", {}, {}, -1)
      /\ c[n + 3] = Call(<<"sensors", 1>>, "ignored", {}, {}, -1)
      /\ \A k \in n + 4 .. 2 * n + 3 : c[k]
             = Call(<<"cdev", k - 4>>, "ignored", {<<"sensors", 1>>}, {}, -1)
      /\ c[2 * n + 4] = Call(<<"motor", 1>>, "ignored", {}, {}, -1)
      /\ c[2 * n + 5] = Call(<<"cdev", m>>, "ignored", {<<"motor", 1>>}, {}, -1)
  BY CarCalls
<1>3. \/ i = 1 \/ i = 2 \/ i \in 3 .. n + 2 \/ i = n + 3
      \/ i \in n + 4 .. 2 * n + 3 \/ i = 2 * n + 4 \/ i = 2 * n + 5
  BY <1>1
<1> HIDE DEF c
<1>4. CASE i = 1 \/ i = 2
  BY <1>1, <1>2, <1>4 DEF Call, c
<1>5. CASE i \in 3 .. n + 2
  <2>1. c[i] = Call(<<"cdev", i - 3>>, "ignored", {}, {}, -1)
    BY <1>2, <1>5
  <2>2. i - 3 \in 0 .. (n - 1) /\ i # n + 3 /\ i # 2 * n + 4
    BY <1>1, <1>5
  <2>. QED  BY <2>1, <2>2 DEF Call, c
<1>6. CASE i = n + 3
  BY <1>1, <1>2, <1>6 DEF Call, c
<1>7. CASE i \in n + 4 .. 2 * n + 3
  <2>1. c[i] = Call(<<"cdev", i - 4>>, "ignored", {<<"sensors", 1>>}, {}, -1)
    BY <1>2, <1>7
  <2>2. i - 4 \in n .. (2 * n - 1) /\ i # n + 3 /\ i # 2 * n + 4
    BY <1>1, <1>7
  <2>. QED  BY <2>1, <2>2 DEF Call, c
<1>8. CASE i = 2 * n + 4
  BY <1>1, <1>2, <1>8 DEF Call, c
<1>9. CASE i = 2 * n + 5
  BY <1>1, <1>2, <1>9 DEF Call, c
<1>. QED  BY <1>3, <1>4, <1>5, <1>6, <1>7, <1>8, <1>9

(* A call that succeeds does not change the plan up to itself: the motor   *)
(* tunnel's minor is settled long before its turn.                         *)
LEMMA PlanStable ==
    ASSUME LoadInv, phase = "loading", driver' = driver,
           held' = held \/ held' = held \cup {This.gets}
    PROVE  Len(Plan') = Len(Plan) /\ \A i \in 1 .. pc : Plan'[i] = Plan[i]
<1>1. CASE driver # "car"
  <2>1. driver \in {"sr04", "ir", "motor", "list", "car"}
    BY LoadAssumption DEF LoadInv, LoadTypeOK
  <2>2. Plan' = Plan
    BY <1>1, <2>1 DEF Plan
  <2>. QED  BY <2>2
<1>2. CASE driver = "car"
  <2>1. MotorMinor \in Nat /\ MotorMinor' \in Nat
    BY LoadAssumption DEF MotorMinor
  <2>2. Plan = CarPlan(MotorMinor) /\ Plan' = CarPlan(MotorMinor')
    BY <1>2 DEF Plan, CarInit, CarPlan, SensorsInit, MotorTunInit
  <2>3. Len(Plan) = 2 * CarDevs + 5 /\ Len(Plan') = 2 * CarDevs + 5
    BY <2>1, <2>2, CarCalls
  <2>4. CASE <<"sensors", 1>> \in held' <=> <<"sensors", 1>> \in held
    BY <2>2, <2>4 DEF MotorMinor
  <2>5. CASE ~(<<"sensors", 1>> \in held' <=> <<"sensors", 1>> \in held)
    <3>1. This.gets = <<"sensors", 1>>
      BY <2>5
    <3>2. pc \in 1 .. 2 * CarDevs + 5
      BY <2>3 DEF LoadInv, LoadTypeOK, HeldByPlan
    <3>3. pc = CarDevs + 3
      BY <2>1, <2>2, <3>1, <3>2, CarMilestones DEF This
    <3>4. ASSUME NEW m \in Nat, NEW k \in Nat, NEW i \in 1 .. CarDevs + 3
          PROVE  CarPlan(m)[i] = CarPlan(k)[i]
      <4>1. i = 1 \/ i = 2 \/ i \in 3 .. CarDevs + 2 \/ i = CarDevs + 3
        BY LoadAssumption
      <4>2. /\ CarPlan(m)[1] = CarPlan(k)[1] /\ CarPlan(m)[2] = CarPlan(k)[2]
            /\ \A j \in 3 .. CarDevs + 2 : CarPlan(m)[j] = CarPlan(k)[j]
            /\ CarPlan(m)[CarDevs + 3] = CarPlan(k)[CarDevs + 3]
        <5> DEFINE c == CarPlan(m)
                   d == CarPlan(k)
        <5>0. /\ c[1] = Call(<<"region", 1>>, "status", {}, {}, -1)
              /\ c[2] = Call(<<"memory", 1>>, "status", {}, {<<"region", 1>>}, -1)
              /\ c[CarDevs + 3] = Call(<<"sensors", 1>>, "ignored", {}, {}, -1)
          BY CarCalls
        <5>1. /\ d[1] = Call(<<"region", 1>>, "status", {}, {}, -1)
              /\ d[2] = Call(<<"memory", 1>>, "status", {}, {<<"region", 1>>}, -1)
              /\ d[CarDevs + 3] = Call(<<"sensors", 1>>, "ignored", {}, {}, -1)
          BY CarCalls
        <5>2. ASSUME NEW j \in 3 .. CarDevs + 2 PROVE c[j] = d[j]
          <6>1. c[j] = Call(<<"cdev", j - 3>>, "ignored", {}, {}, -1)
            BY CarCalls
          <6>2. d[j] = Call(<<"cdev", j - 3>>, "ignored", {}, {}, -1)
            BY CarCalls
          <6>. QED  BY <6>1, <6>2
        <5>. QED  BY <5>0, <5>1, <5>2
      <4>. QED  BY <4>1, <4>2
    <3>. QED  BY <2>1, <2>2, <2>3, <3>3, <3>4
  <2>. QED  BY <2>4, <2>5
<1>. QED  BY <1>1, <1>2

(* A module that is out holds nothing. *)
LEMMA LoadInitHolds == LoadInit => LoadInv
<1> SUFFICES ASSUME LoadInit PROVE LoadInv
  OBVIOUS
<1>1. driver \in Drivers /\ Len(Plan) \in Nat \ {0}
  BY PlanCalls DEF LoadInit
<1>2. LoadTypeOK
  BY <1>1, LoadAssumption DEF LoadInit, LoadTypeOK
<1>. QED  BY <1>2 DEF LoadInit, LoadInv, HeldByPlan, MinorsHeld, NoDanglingDevice

(* Loading begins with nothing held. *)
LEMMA InsmodKeeps ==
    ASSUME LoadInv, Insmod
    PROVE  LoadInv'
<1>1. driver \in Drivers /\ driver' = driver /\ held' = held /\ held = {}
  BY DEF LoadInv, LoadTypeOK, HeldByPlan, Insmod
<1>2. Plan' = Plan /\ Len(Plan) \in Nat \ {0}
  BY <1>1, PlanCalls DEF Plan, CarInit, SensorsInit, MotorTunInit, MotorMinor
<1>3. LoadTypeOK'
  BY <1>1, <1>2, LoadAssumption DEF LoadInv, LoadTypeOK, Insmod
<1>4. HeldByPlan'
  <2>1. Got' = {} /\ pc' <= Len(Plan')
    BY <1>2 DEF Got, Insmod
  <2>. QED  BY <1>1, <2>1 DEF Insmod, HeldByPlan
<1>5. MinorsHeld' /\ NoDanglingDevice'
  BY <1>1 DEF LoadInv, Insmod, MinorsHeld, NoDanglingDevice
<1>. QED  BY <1>3, <1>4, <1>5 DEF LoadInv

(* The call that comes next is in the plan. *)
LEMMA NextCall ==
    ASSUME LoadInv, phase = "loading"
    PROVE  /\ Len(Plan) \in Nat \ {0} /\ pc \in 1 .. Len(Plan)
           /\ This \in CallRecords /\ driver \in Drivers
BY PlanCalls DEF LoadInv, LoadTypeOK, HeldByPlan, This

(* What the calls so far were for, one call on. *)
LEMMA GotGrows ==
    ASSUME LoadInv, phase = "loading", driver' = driver, pc' = pc + 1,
           held' = held \/ held' = held \cup {This.gets}
    PROVE  Got' = Got \cup {This.gets} /\ Len(Plan') = Len(Plan)
           /\ (pc = Len(Plan) => All' = Got')
<1>1. Len(Plan') = Len(Plan) /\ \A i \in 1 .. pc : Plan'[i] = Plan[i]
  BY PlanStable
<1>2. pc \in 1 .. Len(Plan) /\ Len(Plan) \in Nat
  BY NextCall
<1>3. Got' = {Plan[i].gets : i \in 1 .. pc}
  <2>1. Got' = {Plan'[i].gets : i \in 1 .. pc}
    BY <1>2 DEF Got
  <2>. QED  BY <1>1, <2>1
<1>4. {Plan[i].gets : i \in 1 .. pc} = Got \cup {This.gets}
  <2>1. \A i \in 1 .. pc : i \in 1 .. (pc - 1) \/ i = pc
    BY <1>2
  <2>2. pc \in 1 .. pc /\ \A i \in 1 .. (pc - 1) : i \in 1 .. pc
    BY <1>2
  <2>. QED  BY <2>1, <2>2 DEF Got, This
<1>5. pc = Len(Plan) => All' = Got'
  BY <1>1, <1>2 DEF All, Got
<1>. QED  BY <1>1, <1>3, <1>4, <1>5

(* What the pod's module has when its next call succeeds. *)
LEMMA MinorsGrow ==
    ASSUME LoadInv, Succeeds
    PROVE  MinorsHeld'
<1> SUFFICES ASSUME driver = "car", NEW r \in held', r[1] = "cdev"
             PROVE  MinorHeld(r[2])'
  BY DEF MinorsHeld, Succeeds
<1>1. /\ MotorMinor \in Nat /\ Plan = CarPlan(MotorMinor)
      /\ Len(Plan) = 2 * CarDevs + 5 /\ pc \in 1 .. 2 * CarDevs + 5
  <2>1. Plan = CarPlan(MotorMinor) /\ MotorMinor \in Nat
    BY MinorType, CarInitIsPlan DEF Plan
  <2>2. Len(Plan) = 2 * CarDevs + 5
    BY <2>1, CarCalls
  <2>. QED  BY <2>1, <2>2, NextCall DEF Succeeds
<1>2. /\ This.gets = <<"sensors", 1>> <=> pc = CarDevs + 3
      /\ This.gets[1] = "cdev" =>
            \/ This.gets[2] \in 0 .. (CarDevs - 1)
            \/ /\ This.needs = {<<"sensors", 1>>}
               /\ This.gets[2] \in CarDevs .. (2 * CarDevs - 1)
            \/ This.needs = {<<"motor", 1>>} /\ This.gets[2] = MotorMinor
  BY <1>1, CarMilestones DEF This
<1>3. held' = held \cup {This.gets} /\ This.needs \subseteq held
  BY DEF Succeeds
<1>4. CASE This.gets[1] = "cdev"
  <2>1. /\ <<"sensors", 1>> \in held' <=> <<"sensors", 1>> \in held
        /\ MotorMinor' = MotorMinor
    BY <1>3, <1>4 DEF MotorMinor
  <2>2. \A c : MinorHeld(c) => MinorHeld(c)'
    BY <1>3, <2>1 DEF MinorHeld
  <2>3. MinorHeld(This.gets[2])
    BY <1>2, <1>3, <1>4 DEF MinorHeld
  <2>4. r \in held \/ r = This.gets
    BY <1>3
  <2>5. r \in held => MinorHeld(r[2])
    BY DEF LoadInv, MinorsHeld
  <2>6. MinorHeld(r[2])
    BY <2>3, <2>4, <2>5
  <2>. QED  BY <2>2, <2>6
<1>5. CASE This.gets[1] # "cdev"
  <2>1. r \in held
    BY <1>3, <1>5
  <2>2. MinorHeld(r[2])
    BY <2>1 DEF LoadInv, MinorsHeld
  <2>3. CASE This.gets = <<"sensors", 1>>
    <3>1. <<"motor", 1>> \notin held
      <4>1. pc = CarDevs + 3 /\ held \subseteq Got
        BY <1>2, <2>3 DEF LoadInv, HeldByPlan, Succeeds
      <4>2. \A i \in 1 .. (pc - 1) : i \in 1 .. 2 * CarDevs + 5 /\ i # 2 * CarDevs + 4
        BY <4>1, LoadAssumption
      <4>3. \A i \in 1 .. (pc - 1) : Plan[i].gets # <<"motor", 1>>
        BY <1>1, <4>2, CarMilestones
      <4>. QED  BY <4>1, <4>3 DEF Got
    <3>2. \/ r[2] \in 0 .. (CarDevs - 1)
          \/ <<"sensors", 1>> \in held /\ r[2] \in CarDevs .. (2 * CarDevs - 1)
      BY <2>2, <3>1 DEF MinorHeld
    <3>. QED  BY <1>3, <3>2 DEF MinorHeld
  <2>4. CASE This.gets # <<"sensors", 1>>
    <3>1. MotorMinor' = MotorMinor
      BY <1>3, <2>4 DEF MotorMinor
    <3>. QED  BY <1>3, <2>2, <3>1 DEF MinorHeld
  <2>. QED  BY <2>3, <2>4
<1>. QED  BY <1>4, <1>5

(* A call that succeeds, the last one included. *)
LEMMA SucceedsKeeps ==
    ASSUME LoadInv, Succeeds
    PROVE  LoadInv'
<1>1. /\ Len(Plan) \in Nat \ {0} /\ pc \in 1 .. Len(Plan)
      /\ This \in CallRecords /\ driver \in Drivers
  BY NextCall DEF Succeeds
<1>2. /\ driver' = driver /\ pc' = pc + 1 /\ held' = held \cup {This.gets}
      /\ phase' = (IF pc = Len(Plan) THEN "in" ELSE "loading")
      /\ phase = "loading" /\ flawless' = flawless /\ orphans' = orphans
  BY DEF Succeeds
<1>3. /\ Got' = Got \cup {This.gets} /\ Len(Plan') = Len(Plan)
      /\ pc = Len(Plan) => All' = Got'
  BY <1>2, GotGrows
<1>4. held \subseteq Got /\ (flawless => Got \subseteq held)
  BY <1>2 DEF LoadInv, HeldByPlan
<1>5. LoadTypeOK'
  <2>1. This.gets \in Resources
    BY <1>1 DEF CallRecords
  <2>2. pc' \in 1 .. Len(Plan') + 1
    BY <1>1, <1>2, <1>3
  <2>. QED  BY <1>2, <2>1, <2>2 DEF LoadInv, LoadTypeOK, Succeeds
<1>6. HeldByPlan'
  <2>1. held' \subseteq Got' /\ (flawless' => Got' \subseteq held')
    BY <1>2, <1>3, <1>4
  <2>2. CASE pc = Len(Plan)
    <3>1. driver = "sr04" => <<"mutex", 1>> \in held'
      <4>1. ASSUME driver = "sr04" PROVE This.gets = <<"mutex", 1>>
        <5>1. Plan = Sr04Init
          BY <4>1 DEF Plan
        <5>2. pc = 7
          BY <2>2, <5>1, Sr04Calls
        <5>. QED  BY <5>1, <5>2, Sr04Calls DEF This
      <4>. QED  BY <1>2, <4>1
    <3>. QED  BY <1>2, <1>3, <2>1, <2>2, <3>1 DEF HeldByPlan
  <2>3. CASE pc # Len(Plan)
    <3>1. pc' <= Len(Plan')
      BY <1>1, <1>2, <1>3, <2>3
    <3>. QED  BY <1>2, <2>1, <2>3, <3>1 DEF HeldByPlan
  <2>. QED  BY <2>2, <2>3
<1>7. NoDanglingDevice'
  BY <1>2 DEF LoadInv, NoDanglingDevice
<1>. QED  BY <1>5, <1>6, <1>7, MinorsGrow DEF LoadInv

(* A failure nobody looks at, after which the load is not flawless. *)
LEMMA FailsUnnoticedKeeps ==
    ASSUME LoadInv, FailsUnnoticed
    PROVE  LoadInv'
<1>1. /\ Len(Plan) \in Nat \ {0} /\ pc \in 1 .. Len(Plan)
      /\ This \in CallRecords /\ driver \in Drivers
  BY NextCall DEF FailsUnnoticed
<1>2. /\ driver' = driver /\ pc' = pc + 1 /\ held' = held
      /\ phase' = (IF pc = Len(Plan) THEN "in" ELSE "loading")
      /\ phase = "loading" /\ flawless' = FALSE /\ orphans' = orphans
  BY DEF FailsUnnoticed
<1>3. /\ Got' = Got \cup {This.gets} /\ Len(Plan') = Len(Plan)
      /\ pc = Len(Plan) => All' = Got'
  BY <1>2, GotGrows
<1>4. LoadTypeOK'
  <2>1. pc' \in 1 .. Len(Plan') + 1
    BY <1>1, <1>2, <1>3
  <2>. QED  BY <1>2, <2>1 DEF LoadInv, LoadTypeOK, FailsUnnoticed
<1>5. HeldByPlan'
  <2>1. held' \subseteq Got'
    BY <1>2, <1>3 DEF LoadInv, HeldByPlan
  <2>2. CASE pc = Len(Plan)
    <3>1. ASSUME driver = "sr04" PROVE FALSE
      <4>1. Plan = Sr04Init
        BY <3>1 DEF Plan
      <4>2. pc = 7
        BY <2>2, <4>1, Sr04Calls
      <4>3. This.shows = "sure"
        BY <4>1, <4>2, Sr04Calls DEF This
      <4>. QED  BY <4>3 DEF FailsUnnoticed
    <3>. QED  BY <1>2, <1>3, <2>1, <2>2, <3>1 DEF HeldByPlan
  <2>3. CASE pc # Len(Plan)
    <3>1. pc' <= Len(Plan')
      BY <1>1, <1>2, <1>3, <2>3
    <3>. QED  BY <1>2, <2>1, <2>3, <3>1 DEF HeldByPlan
  <2>. QED  BY <2>2, <2>3
<1>6. MinorsHeld' /\ NoDanglingDevice'
  BY <1>2 DEF LoadInv, MinorsHeld, MinorHeld, MotorMinor, NoDanglingDevice
<1>. QED  BY <1>4, <1>5, <1>6 DEF LoadInv

(* Only sr04.c answers a failure with a positive number. *)
LEMMA ResultSign ==
    ASSUME LoadInv, phase = "loading"
    PROVE  This.result \in {-1, 1} /\ (This.result = 1 <=> driver = "sr04")
<1>1. pc \in 1 .. Len(Plan) /\ This \in CallRecords /\ driver \in Drivers
  BY NextCall
<1>2. driver \in {"sr04", "ir", "motor", "list", "car"}
  BY <1>1, LoadAssumption
<1>3. driver = "sr04" => This.result = 1
  BY <1>1, Sr04Calls DEF Plan, This
<1>4. driver = "ir" => This.result = -1
  BY <1>1, IrCalls DEF Plan, This
<1>5. driver = "motor" => This.result = -1
  BY <1>1, MotorCalls DEF Plan, This
<1>6. driver = "list" => This.result = -1
  BY <1>1, ListCalls DEF Plan, This
<1>7. ASSUME driver = "car" PROVE This.result = -1
  <2>1. Plan = CarPlan(MotorMinor) /\ MotorMinor \in Nat
    BY <1>7, MinorType, CarInitIsPlan DEF Plan
  <2>2. Len(Plan) = 2 * CarDevs + 5
    BY <2>1, CarCalls
  <2>. QED  BY <1>1, <2>1, <2>2, CarMilestones DEF This
<1>. QED  BY <1>2, <1>3, <1>4, <1>5, <1>6, <1>7

(* A failed load leaves no device behind: motor.c gives its device back    *)
(* from the second call on, the pod's module makes its devices when        *)
(* nothing can fail any more, and sr04.c stays in.                         *)
LEMMA FailureLeavesNoDevice ==
    ASSUME LoadInv, FailsNoticed
    PROVE  NoDanglingDevice'
<1>1. phase = "loading" /\ This.shows \in {"status", "pointer"} /\ held \subseteq Got
      /\ driver' = driver
  BY DEF FailsNoticed, LoadInv, HeldByPlan
<1>2. pc \in 1 .. Len(Plan) /\ Len(Plan) \in Nat
  BY <1>1, NextCall
<1>3. orphans' = orphans \/ orphans' = orphans \cup Left(held \ This.undo)
  BY DEF FailsNoticed
<1>4. CASE driver = "sr04"
  <2>1. This.result = 1
    BY <1>1, <1>4, ResultSign
  <2>2. orphans' = orphans
    BY <2>1 DEF FailsNoticed
  <2>. QED  BY <1>1, <2>2 DEF LoadInv, NoDanglingDevice
<1>5. CASE driver = "motor"
  <2>1. Plan = MotorInit /\ Len(Plan) = 7
    BY <1>5, MotorCalls DEF Plan
  <2>2. \A r \in held : r[1] = "cdev" => r \in This.undo
    <3>1. CASE pc = 1
      BY <1>1, <3>1 DEF Got
    <3>2. CASE pc # 1
      <4>1. <<"cdev", 1>> \in This.undo
        BY <1>1, <1>2, <2>1, <3>2, MotorCalls DEF This
      <4>2. \A i \in 1 .. (pc - 1) : i \in 1 .. 7
        BY <1>2, <2>1
      <4>3. \A r \in Got : r[1] = "cdev" => r = <<"cdev", 1>>
        BY <2>1, <4>2, MotorCalls DEF Got
      <4>. QED  BY <1>1, <4>1, <4>3
    <3>. QED  BY <3>1, <3>2
  <2>. QED  BY <1>1, <1>3, <2>2 DEF LoadInv, NoDanglingDevice, Left
<1>6. CASE driver = "car"
  <2>1. Plan = CarPlan(MotorMinor) /\ MotorMinor \in Nat
    BY <1>6, MinorType, CarInitIsPlan DEF Plan
  <2>2. Len(Plan) = 2 * CarDevs + 5
    BY <2>1, CarCalls
  <2>3. pc \in {1, 2}
    BY <1>1, <1>2, <2>1, <2>2, CarMilestones DEF This
  <2>4. Plan[1].gets = <<"region", 1>>
    <3>1. Plan[1] = Call(<<"region", 1>>, "status", {}, {}, -1)
      BY <2>1, CarCalls
    <3>. QED  BY <3>1 DEF Call
  <2>5. \A r \in held : r[1] # "cdev"
    <3>1. \A i \in 1 .. (pc - 1) : i = 1
      BY <2>3
    <3>2. \A r \in Got : r = <<"region", 1>>
      BY <2>4, <3>1 DEF Got
    <3>. QED  BY <1>1, <3>2
  <2>. QED  BY <1>1, <1>3, <2>5 DEF LoadInv, NoDanglingDevice, Left
<1>7. CASE driver \notin {"sr04", "motor", "car"}
  BY <1>1, <1>7 DEF NoDanglingDevice
<1>. QED  BY <1>4, <1>5, <1>6, <1>7

(* A failure that is noticed ends the load. *)
LEMMA FailsNoticedKeeps ==
    ASSUME LoadInv, FailsNoticed
    PROVE  LoadInv'
<1>1. /\ Len(Plan) \in Nat \ {0} /\ pc \in 1 .. Len(Plan)
      /\ This \in CallRecords /\ driver \in Drivers
      /\ phase = "loading" /\ held \subseteq Got
      /\ This.result \in {-1, 1} /\ (This.result = 1 <=> driver = "sr04")
  BY NextCall, ResultSign DEF FailsNoticed, LoadInv, HeldByPlan
<1>2. /\ driver' = driver /\ pc' = 1 /\ flawless' = FALSE /\ held' \subseteq held
      /\ phase' = (IF driver = "sr04" THEN "half" ELSE "out")
      /\ driver # "sr04" => held' = {}
  BY <1>1 DEF FailsNoticed
<1>3. Len(Plan') \in Nat
  <2>1. driver' \in Drivers => Len(Plan') \in Nat
    <3>1. driver' # "car" => Plan' = Plan
      <4>1. driver \in {"sr04", "ir", "motor", "list", "car"}
        BY <1>1, LoadAssumption
      <4>. QED  BY <1>2, <4>1 DEF Plan
    <3>2. ASSUME driver' = "car" PROVE Len(Plan') \in Nat
      <4>1. Plan' = CarPlan(MotorMinor') /\ MotorMinor' \in Nat
        BY <3>2, LoadAssumption
           DEF Plan, CarInit, CarPlan, SensorsInit, MotorTunInit, MotorMinor
      <4>2. Len(Plan') = 2 * CarDevs + 5
        BY <4>1, CarCalls
      <4>. QED  BY <4>2, LoadAssumption
    <3>. QED  BY <1>1, <3>1, <3>2
  <2>. QED  BY <1>1, <1>2, <2>1
<1>4. LoadTypeOK'
  <2>1. This.undo \subseteq Resources
    BY <1>1 DEF CallRecords
  <2>2. /\ wrong' \subseteq Resources /\ orphans' \subseteq Resources
        /\ held' \subseteq Resources
    BY <1>2, <2>1 DEF FailsNoticed, LoadInv, LoadTypeOK, Left
  <2>3. pc' \in 1 .. Len(Plan') + 1
    BY <1>2, <1>3
  <2>. QED  BY <1>1, <1>2, <2>2, <2>3 DEF FailsNoticed, LoadInv, LoadTypeOK
<1>5. HeldByPlan'
  <2>1. CASE driver = "sr04"
    <3>1. Plan = Sr04Init /\ Plan' = Sr04Init /\ Len(Plan) = 7
      BY <1>2, <2>1, Sr04Calls DEF Plan
    <3>2. pc # 7
      BY <3>1, Sr04Calls DEF FailsNoticed, This
    <3>3. \A i \in 1 .. (pc - 1) : i \in 1 .. 7 /\ i # 6 /\ i # 7
      BY <1>1, <3>1, <3>2
    <3>4. <<"gpio", 1>> \notin Got /\ <<"mutex", 1>> \notin Got
      BY <3>1, <3>3, Sr04Calls DEF Got
    <3>5. Got \subseteq All /\ All' = All
      BY <3>1, <3>3 DEF Got, All
    <3>. QED  BY <1>1, <1>2, <2>1, <3>4, <3>5 DEF HeldByPlan
  <2>2. CASE driver # "sr04"
    BY <1>2, <2>2 DEF HeldByPlan
  <2>. QED  BY <2>1, <2>2
<1>6. MinorsHeld'
  BY <1>2 DEF MinorsHeld
<1>. QED  BY <1>4, <1>5, <1>6, FailureLeavesNoDevice DEF LoadInv

(* Everything registered is given back by the exit functions of sr04.c,    *)
(* motor.c and the pod's module, whatever the load got.                    *)
LEMMA ExitTakesDevices ==
    ASSUME LoadInv, Rmmod, driver \in {"sr04", "motor", "car"},
           NEW r \in held, r[1] = "cdev"
    PROVE  r \in GivesBack
<1>1. driver # "car" => held \subseteq All
  BY DEF LoadInv, HeldByPlan, Rmmod
<1>2. r = <<r[1], r[2]>>
  BY DEF LoadInv, LoadTypeOK, Resources
<1>3. CASE driver = "sr04"
  <2>1. GivesBack = Sr04Exit /\ Plan = Sr04Init /\ Len(Plan) = 7
    BY <1>3, Sr04Calls DEF GivesBack, Plan
  <2>. QED  BY <1>1, <1>3, <2>1, Sr04Calls DEF All
<1>4. CASE driver = "motor"
  <2>1. GivesBack = MotorExit /\ Plan = MotorInit /\ Len(Plan) = 7
    BY <1>4, MotorCalls DEF GivesBack, Plan
  <2>2. r = <<"cdev", 1>>
    BY <1>1, <1>4, <2>1, MotorCalls DEF All
  <2>. QED  BY <2>1, <2>2 DEF MotorExit
<1>5. CASE driver = "car"
  <2>1. GivesBack = CarExit
    BY <1>5 DEF GivesBack
  <2>2. MinorHeld(r[2])
    BY <1>5 DEF LoadInv, MinorsHeld
  <2>3. <<"cdev", r[2]>> \in CarExit
    BY <2>2 DEF MinorHeld, CarExit, SensorsExit, MotorTunExit
  <2>. QED  BY <1>2, <2>1, <2>3
<1>. QED  BY <1>3, <1>4, <1>5

(* The exit functions. *)
LEMMA RmmodKeeps ==
    ASSUME LoadInv, Rmmod
    PROVE  LoadInv'
<1>1. /\ driver' = driver /\ driver \in Drivers /\ phase' = "out" /\ pc' = 1 /\ held' = {}
      /\ orphans' = orphans \cup Left(held \ GivesBack)
      /\ wrong' = wrong \cup (GivesBack \ held)
  BY DEF Rmmod, LoadInv, LoadTypeOK
<1>2. driver \in {"sr04", "ir", "motor", "list", "car"}
  BY <1>1, LoadAssumption
<1>3. Len(Plan') \in Nat
  <2>1. driver # "car" => Plan' = Plan
    BY <1>1, <1>2 DEF Plan
  <2>2. ASSUME driver = "car" PROVE Len(Plan') \in Nat
    <3>1. Plan' = CarPlan(MotorMinor') /\ MotorMinor' \in Nat
      BY <1>1, <2>2, LoadAssumption
         DEF Plan, CarInit, CarPlan, SensorsInit, MotorTunInit, MotorMinor
    <3>2. Len(Plan') = 2 * CarDevs + 5
      BY <3>1, CarCalls
    <3>. QED  BY <3>2, LoadAssumption
  <2>. QED  BY <1>1, <2>1, <2>2, PlanCalls
<1>4. GivesBack \subseteq Resources
  <2>1. CASE driver = "sr04"
    BY <2>1 DEF GivesBack, Sr04Exit, Resources
  <2>2. CASE driver = "motor"
    BY <2>2 DEF GivesBack, MotorExit, Resources
  <2>3. CASE driver = "ir"
    BY <2>3, LoadAssumption DEF GivesBack, IrExit, IrPower, Resources
  <2>4. CASE driver = "list"
    BY <2>4, LoadAssumption DEF GivesBack, ListExit, Resources
  <2>5. CASE driver = "car"
    <3>1. /\ 0 .. (CarDevs - 1) \subseteq Nat /\ CarDevs .. (2 * CarDevs - 1) \subseteq Nat
          /\ MotorMinor \in Nat
      BY MinorType, LoadAssumption
    <3>. QED  BY <2>5, <3>1
              DEF GivesBack, CarExit, SensorsExit, MotorTunExit, Resources
  <2>. QED  BY <1>2, <2>1, <2>2, <2>3, <2>4, <2>5
<1>5. LoadTypeOK'
  <2>1. pc' \in 1 .. Len(Plan') + 1
    BY <1>1, <1>3
  <2>. QED  BY <1>1, <1>4, <2>1 DEF Rmmod, LoadInv, LoadTypeOK, Left
<1>6. HeldByPlan' /\ MinorsHeld'
  BY <1>1 DEF HeldByPlan, MinorsHeld
<1>7. NoDanglingDevice'
  <2>1. driver \in {"sr04", "motor", "car"} =>
            \A r \in Left(held \ GivesBack) : r[1] # "cdev"
    BY ExitTakesDevices DEF Left
  <2>. QED  BY <1>1, <2>1 DEF LoadInv, NoDanglingDevice
<1>. QED  BY <1>5, <1>6, <1>7 DEF LoadInv

(* The readers leave the module alone. *)
LEMMA ReadersKeepLoad ==
    ASSUME LoadInv, UNCHANGED loadVars
    PROVE  LoadInv'
<1> USE DEF loadVars
<1>1. Plan' = Plan
  BY DEF Plan, CarInit, SensorsInit, MotorTunInit, MotorMinor
<1>2. LoadTypeOK'
  BY <1>1 DEF LoadInv, LoadTypeOK
<1>3. HeldByPlan'
  <2>1. Got' = Got /\ All' = All
    BY <1>1 DEF Got, All
  <2>. QED  BY <1>1, <2>1 DEF LoadInv, HeldByPlan
<1>4. MinorsHeld' /\ NoDanglingDevice'
  BY DEF LoadInv, MinorsHeld, MinorHeld, MotorMinor, NoDanglingDevice
<1>. QED  BY <1>2, <1>3, <1>4 DEF LoadInv

(* Every step keeps what a module holds in line with its plan. *)
LEMMA LoadKept ==
    ASSUME LoadInv, [Next]_vars
    PROVE  LoadInv'
<1>1. CASE Comes
  BY <1>1, InsmodKeeps DEF Comes
<1>2. CASE Initialises
  BY <1>2, SucceedsKeeps, FailsUnnoticedKeeps, FailsNoticedKeeps DEF Initialises, InitStep
<1>3. CASE Leaves
  BY <1>3, RmmodKeeps DEF Leaves
<1>4. ASSUME NEW r \in Readers, Calls(r) \/ Reader(r) PROVE UNCHANGED loadVars
  BY <1>4 DEF Calls, Reader, Locks, Oopses, Interrupted, Rises, NoEcho, Falls, Unlocks
<1>5. CASE UNCHANGED vars
  BY <1>5, ReadersKeepLoad DEF vars
<1>. QED  BY <1>1, <1>2, <1>3, <1>4, <1>5, ReadersKeepLoad DEF Next

-----------------------------------------------------------------------------
(* The distance *)

LEMMA ModSmall ==
    ASSUME NEW a \in Nat, NEW n \in Nat, a < n
    PROVE  a % n = a
BY SMT

LEMMA ModOver ==
    ASSUME NEW n \in Nat \ {0}, NEW a \in n .. 2 * n - 1
    PROVE  a % n = a - n
BY SMT

LEMMA ModUnder ==
    ASSUME NEW n \in Nat \ {0}, NEW a \in 0 .. n - 1
    PROVE  (a - n) % n = a
BY SMT

LEMMA DivSmaller ==
    ASSUME NEW a \in Nat, NEW n \in Nat \ {0}
    PROVE  a \div n \in 0 .. a
BY SMT

LEMMA TimesNat ==
    ASSUME NEW a \in Nat, NEW n \in Nat
    PROVE  a * n \in Nat
BY SMT

(* The difference of two 32-bit times is the time that passed, wherever    *)
(* the clock wraps in between.                                             *)
LEMMA DifferenceRight ==
    ASSUME NEW n \in Nat \ {0}, NEW s \in 0 .. n - 1, NEW d \in 0 .. n - 1
    PROVE  (((s + d) % n) - s) % n = d
<1>1. CASE s + d < n
  <2>1. (s + d) % n = s + d /\ d % n = d
    BY <1>1, ModSmall
  <2>2. s + d - s = d
    OBVIOUS
  <2>. QED  BY <2>1, <2>2
<1>2. CASE s + d >= n
  <2>1. (s + d) % n = s + d - n
    BY <1>2, ModOver
  <2>2. s + d - n - s = d - n
    OBVIOUS
  <2>3. (d - n) % n = d
    BY ModUnder
  <2>. QED  BY <2>1, <2>2, <2>3
<1>. QED  BY <1>1, <1>2

LEMMA MeasuredValue ==
    ASSUME NEW s \in 0 .. Width - 1, NEW d \in 0 .. Width - 1
    PROVE  /\ Measured(s, (s + d) % Width) \in 0 .. Width - 1
           /\ d * Factor < Width => Measured(s, (s + d) % Width) = (d * Factor) \div Scale
<1>1. Width \in Nat \ {0} /\ Factor \in Nat /\ Scale \in Nat \ {0}
  BY Sr04Assumption
<1>2. (((s + d) % Width) - s) % Width = d
  BY <1>1, DifferenceRight
<1> DEFINE p == d * Factor
           m == p % Width
<1>3. Measured(s, (s + d) % Width) = m \div Scale
  BY <1>2 DEF Measured
<1>4. p \in Nat
  BY <1>1, TimesNat
<1> HIDE DEF p
<1>5. m \in 0 .. Width - 1
  BY <1>1, <1>4, DivMod
<1>6. p < Width => m = p
  BY <1>1, <1>4, ModSmall
<1> HIDE DEF m
<1>7. m \div Scale \in 0 .. m
  BY <1>1, <1>5, DivSmaller
<1>8. m \div Scale \in 0 .. Width - 1
  BY <1>1, <1>5, <1>7
<1>. QED  BY <1>3, <1>6, <1>8 DEF p

-----------------------------------------------------------------------------
(* The readers *)

ReaderTypeOK ==
    /\ at \in [Readers -> {"idle", "lock", "rise", "fall", "unlock"}]
    /\ owner \in {{}} \cup {{r} : r \in Readers}
    /\ start \in [Readers -> 0 .. Width - 1]
    /\ took \in [Readers -> 0 .. Width - 1]
    /\ distance \in [Readers -> 0 .. Width - 1]
    /\ oopsed \in BOOLEAN
    /\ signals \in 0 .. MaxSignals
    /\ breaches \in Nat

(* The owner accounts for one of those who measure, the breaches for the   *)
(* others; a breach is a signal of this load or its mutex_init().          *)
Counted ==
    /\ IsFiniteSet(Measuring)
    /\ Cardinality(Measuring) <= (IF owner = {} THEN 0 ELSE 1) + breaches
    /\ Measuring = {} => owner = {} /\ breaches = 0
    /\ breaches <= signals + (IF Initialised THEN 1 ELSE 0)

(* Only files of a loaded sr04 are read. *)
IdleOutside == driver # "sr04" \/ phase = "out" => \A r \in Readers : at[r] = "idle"

ReadInv == ReaderTypeOK /\ Counted /\ IdleOutside /\ DistanceRight

LEMMA ReadInit == Init => ReadInv
<1> SUFFICES ASSUME Init PROVE ReadInv
  OBVIOUS
<1>1. Width \in Nat \ {0} /\ MaxSignals \in Nat
  BY Sr04Assumption
<1>2. ReaderTypeOK
  <2>1. 0 \in 0 .. Width - 1 /\ 0 \in 0 .. MaxSignals /\ 0 \in Nat
    BY <1>1
  <2>2. start = [r \in Readers |-> 0] /\ took = start /\ distance = start
    BY DEF Init
  <2>3. start \in [Readers -> 0 .. Width - 1]
    BY <2>1, <2>2
  <2>4. at \in [Readers -> {"idle", "lock", "rise", "fall", "unlock"}]
    BY DEF Init
  <2>. QED  BY <2>1, <2>2, <2>3, <2>4 DEF Init, ReaderTypeOK
<1>3. Measuring = {}
  BY DEF Init, Measuring
<1>4. Counted
  <2>1. IsFiniteSet({}) /\ Cardinality({}) = 0
    BY FS_EmptySet
  <2>2. breaches = 0 /\ signals = 0 /\ owner = {}
    BY DEF Init
  <2>. QED  BY <1>3, <2>1, <2>2 DEF Counted
<1>5. IdleOutside /\ DistanceRight
  BY DEF Init, IdleOutside, DistanceRight
<1>. QED  BY <1>2, <1>4, <1>5 DEF ReadInv

Steps == {"idle", "lock", "rise", "fall", "unlock"}
InSection == {"rise", "fall", "unlock"}

(* Who measures once a reader has moved on. *)
LEMMA MeasuringMoves ==
    ASSUME ReaderTypeOK, NEW r \in Readers, NEW from, NEW to \in Steps, Goes(r, from, to)
    PROVE  /\ at' \in [Readers -> Steps]
           /\ \A q \in Readers : at'[q] = IF q = r THEN to ELSE at[q]
           /\ Measuring' = IF to \in InSection THEN Measuring \cup {r} ELSE Measuring \ {r}
           /\ r \in Measuring <=> from \in InSection
<1>1. /\ at' \in [Readers -> Steps]
      /\ \A q \in Readers : at'[q] = IF q = r THEN to ELSE at[q]
      /\ at[r] = from
  BY DEF ReaderTypeOK, Goes, Steps
<1>. QED  BY <1>1 DEF Measuring, InSection

(* The module under a reader is a loaded sr04. *)
LEMMA IdleKept ==
    ASSUME LoadInv, ReadInv, UNCHANGED loadVars, NEW r \in Readers, NEW from,
           NEW to \in Steps, Goes(r, from, to), from # "idle" \/ Reachable
    PROVE  IdleOutside'
<1>1. driver' = driver /\ phase' = phase
  BY DEF loadVars
<1>2. Reachable => driver = "sr04" /\ phase # "out"
  BY DEF Reachable, LoadInv, HeldByPlan
<1>3. from # "idle" => driver = "sr04" /\ phase # "out"
  BY DEF Goes, ReadInv, IdleOutside
<1>. QED  BY <1>1, <1>2, <1>3 DEF IdleOutside

(* A distance stays right until the reader measures again. *)
LEMMA DistanceKept ==
    ASSUME ReadInv, NEW r \in Readers, NEW from, NEW to \in Steps, Goes(r, from, to),
           to # "unlock", UNCHANGED <<took, distance>>
    PROVE  DistanceRight'
<1>1. \A q \in Readers : at'[q] = "unlock" => at[q] = "unlock"
  BY MeasuringMoves DEF ReadInv
<1>. QED  BY <1>1 DEF ReadInv, DistanceRight

(* A reader opens the device and waits for the mutex. *)
LEMMA CallsKeeps ==
    ASSUME LoadInv, ReadInv, NEW r \in Readers, Calls(r)
    PROVE  ReadInv'
<1>1. /\ Goes(r, "idle", "lock") /\ "lock" \in Steps /\ Reachable
      /\ UNCHANGED loadVars /\ held' = held
      /\ UNCHANGED <<owner, start, took, distance, oopsed, signals, breaches>>
  BY DEF Calls, Steps, loadVars
<1>2. Measuring' = Measuring /\ at' \in [Readers -> Steps]
  BY <1>1, MeasuringMoves DEF ReadInv, InSection
<1>3. ReaderTypeOK'
  BY <1>1, <1>2 DEF ReadInv, ReaderTypeOK, Steps
<1>4. Counted'
  BY <1>1, <1>2 DEF ReadInv, Counted, Initialised
<1>. QED  BY <1>1, <1>3, <1>4, IdleKept, DistanceKept DEF ReadInv

(* The mutex is free: whoever measures, a breach accounts for it, and the  *)
(* newcomer is the owner.                                                  *)
LEMMA LocksKeeps ==
    ASSUME LoadInv, ReadInv, NEW r \in Readers, Locks(r)
    PROVE  ReadInv'
<1>1. /\ Goes(r, "lock", "rise") /\ "rise" \in Steps /\ owner = {} /\ owner' = {r}
      /\ UNCHANGED loadVars /\ held' = held
      /\ UNCHANGED <<start, took, distance, oopsed, signals, breaches>>
  BY DEF Locks, Steps, loadVars
<1>2. Measuring' = Measuring \cup {r} /\ at' \in [Readers -> Steps]
  BY <1>1, MeasuringMoves DEF ReadInv, InSection
<1>3. ReaderTypeOK'
  BY <1>1, <1>2 DEF ReadInv, ReaderTypeOK, Steps
<1>4. Counted'
  <2>1. /\ IsFiniteSet(Measuring) /\ Cardinality(Measuring) <= breaches
        /\ breaches \in Nat
    BY <1>1 DEF ReadInv, Counted, ReaderTypeOK
  <2>2. /\ IsFiniteSet(Measuring') /\ Cardinality(Measuring) \in Nat
        /\ \/ Cardinality(Measuring') = Cardinality(Measuring)
           \/ Cardinality(Measuring') = Cardinality(Measuring) + 1
    BY <1>2, <2>1, FS_AddElement, FS_CardinalityType
  <2>3. Cardinality(Measuring') <= 1 + breaches'
    BY <1>1, <2>1, <2>2
  <2>4. owner' # {} /\ Measuring' # {}
    BY <1>1, <1>2
  <2>5. breaches' <= signals' + (IF Initialised' THEN 1 ELSE 0)
    BY <1>1 DEF ReadInv, Counted, Initialised
  <2>. QED  BY <2>2, <2>3, <2>4, <2>5 DEF Counted
<1>. QED  BY <1>1, <1>3, <1>4, IdleKept, DistanceKept DEF ReadInv

(* The signal that lets a reader in beside the owner is the breach that    *)
(* accounts for it.                                                        *)
LEMMA InterruptedKeeps ==
    ASSUME LoadInv, ReadInv, NEW r \in Readers, Interrupted(r)
    PROVE  ReadInv'
<1>1. /\ Goes(r, "lock", "rise") /\ "rise" \in Steps /\ owner # {}
      /\ signals < MaxSignals /\ signals' = signals + 1 /\ breaches' = breaches + 1
      /\ UNCHANGED loadVars /\ held' = held
      /\ UNCHANGED <<owner, start, took, distance, oopsed>>
  BY DEF Interrupted, Steps, loadVars
<1>2. Measuring' = Measuring \cup {r} /\ at' \in [Readers -> Steps]
  BY <1>1, MeasuringMoves DEF ReadInv, InSection
<1>3. signals \in 0 .. MaxSignals /\ breaches \in Nat /\ MaxSignals \in Nat
  BY Sr04Assumption DEF ReadInv, ReaderTypeOK
<1>4. signals' \in 0 .. MaxSignals /\ breaches' \in Nat
  BY <1>1, <1>3
<1>5. ReaderTypeOK'
  BY <1>1, <1>2, <1>4 DEF ReadInv, ReaderTypeOK, Steps
<1>6. Counted'
  <2>1. IsFiniteSet(Measuring) /\ Cardinality(Measuring) <= 1 + breaches
    BY <1>1 DEF ReadInv, Counted
  <2>2. /\ IsFiniteSet(Measuring') /\ Cardinality(Measuring) \in Nat
        /\ \/ Cardinality(Measuring') = Cardinality(Measuring)
           \/ Cardinality(Measuring') = Cardinality(Measuring) + 1
    BY <1>2, <2>1, FS_AddElement, FS_CardinalityType
  <2>3. Cardinality(Measuring') <= 1 + breaches'
    BY <1>1, <1>3, <2>1, <2>2
  <2>4. owner' # {} /\ Measuring' # {}
    BY <1>1, <1>2
  <2>5. breaches' <= signals' + (IF Initialised' THEN 1 ELSE 0)
    <3>1. breaches <= signals + 1 /\ (Initialised' <=> Initialised)
      BY <1>1, <1>3 DEF ReadInv, Counted, Initialised
    <3>2. Initialised
      BY DEF Interrupted
    <3>3. breaches' <= signals' + 1
      BY <1>1, <1>3, <3>1
    <3>. QED  BY <3>1, <3>2, <3>3
  <2>. QED  BY <2>2, <2>3, <2>4, <2>5 DEF Counted
<1>. QED  BY <1>1, <1>3, <1>5, <1>6, IdleKept, DistanceKept DEF ReadInv

(* A step inside the section: nobody comes or goes. *)
LEMMA InsideKeeps ==
    ASSUME LoadInv, ReadInv, NEW r \in Readers, NEW from \in InSection,
           NEW to \in InSection, Goes(r, from, to),
           UNCHANGED <<loadVars, owner, oopsed, signals, breaches>>,
           start' \in [Readers -> 0 .. Width - 1], took' \in [Readers -> 0 .. Width - 1],
           distance' \in [Readers -> 0 .. Width - 1], DistanceRight'
    PROVE  ReadInv'
<1>1. to \in Steps /\ from # "idle" /\ held' = held
  BY DEF InSection, Steps, loadVars
<1>2. Measuring' = Measuring /\ at' \in [Readers -> Steps]
  BY <1>1, MeasuringMoves DEF ReadInv
<1>3. ReaderTypeOK'
  BY <1>2 DEF ReadInv, ReaderTypeOK, Steps
<1>4. Counted'
  BY <1>1, <1>2 DEF ReadInv, Counted, Initialised
<1>5. IdleOutside'
  BY <1>1, IdleKept
<1>. QED  BY <1>3, <1>4, <1>5 DEF ReadInv

LEMMA RisesKeeps ==
    ASSUME LoadInv, ReadInv, NEW r \in Readers, NEW t \in Starts, Rises(r, t)
    PROVE  ReadInv'
<1>1. /\ Goes(r, "rise", "fall") /\ "rise" \in InSection /\ "fall" \in InSection
      /\ "fall" \in Steps /\ UNCHANGED <<loadVars, owner, oopsed, signals, breaches>>
      /\ UNCHANGED <<took, distance>>
  BY DEF Rises, InSection, Steps
<1>2. /\ start' \in [Readers -> 0 .. Width - 1]
      /\ took' \in [Readers -> 0 .. Width - 1] /\ distance' \in [Readers -> 0 .. Width - 1]
  BY Sr04Assumption DEF Rises, ReadInv, ReaderTypeOK
<1>3. DistanceRight'
  BY <1>1, DistanceKept
<1>. QED  BY <1>1, <1>2, <1>3, InsideKeeps

(* No echo: 0, whatever the clock says. *)
LEMMA NoEchoKeeps ==
    ASSUME LoadInv, ReadInv, NEW r \in Readers, NoEcho(r)
    PROVE  ReadInv'
<1>1. PICK from \in {"rise", "fall"} : Goes(r, from, "unlock")
  BY DEF NoEcho
<1>2. /\ from \in InSection /\ "unlock" \in InSection /\ "unlock" \in Steps
      /\ UNCHANGED <<loadVars, owner, oopsed, signals, breaches>> /\ start' = start
  BY <1>1 DEF NoEcho, InSection, Steps
<1>3. /\ Width \in Nat \ {0} /\ Factor \in Nat /\ Scale \in Nat \ {0}
      /\ 0 \in 0 .. Width - 1
  BY Sr04Assumption
<1>4. /\ start' \in [Readers -> 0 .. Width - 1]
      /\ took' \in [Readers -> 0 .. Width - 1] /\ distance' \in [Readers -> 0 .. Width - 1]
      /\ \A q \in Readers : /\ took'[q] = IF q = r THEN 0 ELSE took[q]
                            /\ distance'[q] = IF q = r THEN 0 ELSE distance[q]
  BY <1>2, <1>3 DEF NoEcho, ReadInv, ReaderTypeOK
<1>5. 0 = (0 * Factor) \div Scale
  <2>1. 0 * Factor = 0
    BY <1>3
  <2>2. 0 \div Scale = 0
    BY <1>3
  <2>. QED  BY <2>1, <2>2
<1>6. \A q \in Readers : q # r => at'[q] = at[q]
  BY <1>1, <1>2, MeasuringMoves DEF ReadInv
<1>7. DistanceRight'
  BY <1>4, <1>5, <1>6 DEF ReadInv, DistanceRight
<1>. QED  BY <1>1, <1>2, <1>4, <1>7, InsideKeeps

LEMMA FallsKeeps ==
    ASSUME LoadInv, ReadInv, NEW r \in Readers, NEW d \in EchoTimes, Falls(r, d)
    PROVE  ReadInv'
<1>1. /\ Goes(r, "fall", "unlock") /\ "fall" \in InSection /\ "unlock" \in InSection
      /\ "unlock" \in Steps
      /\ UNCHANGED <<loadVars, owner, oopsed, signals, breaches>> /\ start' = start
  BY DEF Falls, InSection, Steps
<1>2. d \in 0 .. Width - 1 /\ start[r] \in 0 .. Width - 1
  BY Sr04Assumption DEF ReadInv, ReaderTypeOK
<1> DEFINE m == Measured(start[r], (start[r] + d) % Width)
<1>3. /\ m \in 0 .. Width - 1
      /\ d * Factor < Width => m = (d * Factor) \div Scale
  BY <1>2, MeasuredValue
<1>4. took' = [took EXCEPT ![r] = d] /\ distance' = [distance EXCEPT ![r] = m]
  BY DEF Falls
<1> HIDE DEF m
<1>5. /\ start' \in [Readers -> 0 .. Width - 1]
      /\ took' \in [Readers -> 0 .. Width - 1] /\ distance' \in [Readers -> 0 .. Width - 1]
      /\ \A q \in Readers : /\ took'[q] = IF q = r THEN d ELSE took[q]
                            /\ distance'[q] = IF q = r THEN m ELSE distance[q]
  BY <1>1, <1>2, <1>3, <1>4 DEF ReadInv, ReaderTypeOK
<1>6. \A q \in Readers : q # r => at'[q] = at[q]
  BY <1>1, MeasuringMoves DEF ReadInv
<1>7. DistanceRight'
  BY <1>3, <1>5, <1>6 DEF ReadInv, DistanceRight
<1>. QED  BY <1>1, <1>5, <1>7, InsideKeeps

(* An unlock by whomever makes the mutex free; the last to leave ends the  *)
(* time of the breaches.                                                   *)
LEMMA UnlocksKeeps ==
    ASSUME LoadInv, ReadInv, NEW r \in Readers, Unlocks(r)
    PROVE  ReadInv'
<1>1. /\ Goes(r, "unlock", "idle") /\ "idle" \in Steps /\ "idle" \notin InSection
      /\ "unlock" \in InSection /\ owner' = {}
      /\ breaches' = (IF Measuring = {r} THEN 0 ELSE breaches) /\ Forgets(r)
      /\ UNCHANGED loadVars /\ held' = held /\ UNCHANGED <<oopsed, signals>>
  BY DEF Unlocks, InSection, Steps, loadVars
<1>2. /\ Measuring' = Measuring \ {r} /\ at' \in [Readers -> Steps] /\ r \in Measuring
      /\ \A q \in Readers : at'[q] = IF q = r THEN "idle" ELSE at[q]
  BY <1>1, MeasuringMoves DEF ReadInv
<1>3. Width \in Nat \ {0} /\ 0 \in 0 .. Width - 1
  BY Sr04Assumption
<1>4. /\ start' \in [Readers -> 0 .. Width - 1] /\ took' \in [Readers -> 0 .. Width - 1]
      /\ distance' \in [Readers -> 0 .. Width - 1]
      /\ \A q \in Readers : q # r => took'[q] = took[q] /\ distance'[q] = distance[q]
  BY <1>1, <1>3 DEF Forgets, ReadInv, ReaderTypeOK
<1>5. breaches \in Nat /\ signals \in 0 .. MaxSignals /\ breaches' \in Nat
  BY <1>1 DEF ReadInv, ReaderTypeOK
<1>6. ReaderTypeOK'
  BY <1>1, <1>2, <1>4, <1>5 DEF ReadInv, ReaderTypeOK, Steps
<1>7. Counted'
  <2>1. IsFiniteSet(Measuring) /\ Cardinality(Measuring) <= 1 + breaches
    <3>1. /\ IsFiniteSet(Measuring)
          /\ Cardinality(Measuring) <= (IF owner = {} THEN 0 ELSE 1) + breaches
      BY DEF ReadInv, Counted
    <3>2. Cardinality(Measuring) \in Nat
      BY <3>1, FS_CardinalityType
    <3>3. Cardinality(Measuring) <= 0 + breaches \/ Cardinality(Measuring) <= 1 + breaches
      BY <3>1
    <3>. QED  BY <1>5, <3>1, <3>2, <3>3
  <2>2. /\ IsFiniteSet(Measuring') /\ Cardinality(Measuring) \in Nat
        /\ Cardinality(Measuring') = Cardinality(Measuring) - 1
    BY <1>2, <2>1, FS_RemoveElement, FS_CardinalityType
  <2>3. CASE Measuring = {r}
    <3>1. Measuring' = {} /\ breaches' = 0
      BY <1>1, <1>2, <2>3
    <3>2. Cardinality(Measuring') = 0
      BY <3>1, FS_EmptySet
    <3>3. breaches' <= signals' + (IF Initialised' THEN 1 ELSE 0)
      <4>1. 0 <= signals' /\ 0 <= signals' + 1
        BY <1>1, <1>5
      <4>. QED  BY <3>1, <4>1, <1>1, <1>5
    <3>. QED  BY <1>1, <2>2, <3>1, <3>2, <3>3 DEF Counted
  <2>4. CASE Measuring # {r}
    <3>1. Measuring' # {} /\ breaches' = breaches
      BY <1>1, <1>2, <2>4
    <3>2. Cardinality(Measuring') <= breaches'
      BY <1>5, <2>1, <2>2, <3>1
    <3>3. breaches' <= signals' + (IF Initialised' THEN 1 ELSE 0)
      BY <1>1, <3>1 DEF ReadInv, Counted, Initialised
    <3>4. Cardinality(Measuring') <= (IF owner' = {} THEN 0 ELSE 1) + breaches'
      BY <1>1, <1>5, <3>1, <3>2
    <3>. QED  BY <2>2, <3>1, <3>3, <3>4 DEF Counted
  <2>. QED  BY <2>3, <2>4
<1>8. DistanceRight'
  BY <1>2, <1>4 DEF ReadInv, DistanceRight
<1>9. IdleOutside'
  <2>1. "unlock" # "idle"
    OBVIOUS
  <2>. QED  BY <1>1, <2>1, IdleKept
<1>. QED  BY <1>6, <1>7, <1>8, <1>9 DEF ReadInv

LEMMA OopsesKeeps ==
    ASSUME ReadInv, NEW r \in Readers, Oopses(r)
    PROVE  ReadInv'
BY DEF Oopses, ReadInv, ReaderTypeOK, Counted, IdleOutside, DistanceRight, Measuring,
       Initialised, loadVars

(* mutex_init() is the only step of an init that makes the mutex, in the   *)
(* last call of sr04.c's; no failure takes it away.                        *)
LEMMA InitStepMutex ==
    ASSUME LoadInv, InitStep
    PROVE  /\ driver' = driver /\ phase = "loading"
           /\ driver = "sr04" => phase' # "out" /\ (Initialised => Initialised')
<1>1. CASE Succeeds
  BY <1>1 DEF Succeeds, Initialised
<1>2. CASE FailsUnnoticed
  BY <1>2 DEF FailsUnnoticed, Initialised
<1>3. CASE FailsNoticed
  <2>1. This.result \in {-1, 1} /\ (This.result = 1 <=> driver = "sr04")
    BY <1>3, ResultSign DEF FailsNoticed
  <2>2. driver' = driver /\ phase = "loading" /\ (driver = "sr04" => phase' = "half")
    BY <1>3, <2>1 DEF FailsNoticed
  <2>3. ASSUME driver = "sr04" PROVE <<"mutex", 1>> \notin held
    <3>1. Plan = Sr04Init /\ Len(Plan) = 7 /\ pc \in 1 .. Len(Plan) /\ held \subseteq Got
      BY <2>2, <2>3, Sr04Calls, NextCall DEF Plan, LoadInv, HeldByPlan
    <3>2. \A i \in 1 .. (pc - 1) : i \in 1 .. 7 /\ i # 7
      BY <3>1
    <3>. QED  BY <3>1, <3>2, Sr04Calls DEF Got
  <2>. QED  BY <2>2, <2>3 DEF Initialised
<1>. QED  BY <1>1, <1>2, <1>3 DEF InitStep

LEMMA InitialisesKeeps ==
    ASSUME LoadInv, ReadInv, Initialises
    PROVE  ReadInv'
<1>1. /\ driver' = driver /\ phase = "loading"
      /\ driver = "sr04" => phase' # "out" /\ (Initialised => Initialised')
  BY InitStepMutex DEF Initialises
<1>2. UNCHANGED <<at, start, took, distance, oopsed, signals>> /\ Measuring' = Measuring
  BY DEF Initialises, Measuring
<1>3. /\ breaches \in Nat /\ signals \in Nat
      /\ IsFiniteSet(Measuring) /\ Cardinality(Measuring) \in Nat
      /\ Cardinality(Measuring) <= (IF owner = {} THEN 0 ELSE 1) + breaches
      /\ Measuring = {} => owner = {} /\ breaches = 0
      /\ breaches <= signals + (IF Initialised THEN 1 ELSE 0)
  BY FS_CardinalityType DEF ReadInv, ReaderTypeOK, Counted
<1>4. IdleOutside'
  BY <1>1, <1>2 DEF ReadInv, IdleOutside
<1>5. DistanceRight'
  BY <1>2 DEF ReadInv, DistanceRight
<1>6. CASE ~Initialised /\ Initialised' /\ owner # {}
  <2>1. owner' = {} /\ breaches' = breaches + 1
    BY <1>6 DEF Initialises, Initialised
  <2>2. Cardinality(Measuring') <= 0 + breaches' /\ breaches' <= signals' + 1
    <3>1. Cardinality(Measuring) <= 1 + breaches /\ breaches <= signals + 0
      BY <1>3, <1>6
    <3>. QED  BY <1>2, <1>3, <2>1, <3>1
  <2>3. Measuring' # {}
    BY <1>2, <1>3, <1>6
  <2>4. Counted'
    BY <1>2, <1>3, <1>6, <2>1, <2>2, <2>3 DEF Counted
  <2>5. ReaderTypeOK'
    <3>1. breaches' \in Nat
      BY <1>3, <2>1
    <3>. QED  BY <1>2, <2>1, <3>1 DEF ReadInv, ReaderTypeOK
  <2>. QED  BY <1>4, <1>5, <2>4, <2>5 DEF ReadInv
<1>7. CASE ~(~Initialised /\ Initialised' /\ owner # {})
  <2>1. owner' = owner /\ breaches' = breaches
    BY <1>7 DEF Initialises, Initialised
  <2>2. breaches' <= signals' + (IF Initialised' THEN 1 ELSE 0)
    <3>1. CASE driver = "sr04"
      <4>1. CASE Initialised
        BY <1>1, <1>2, <1>3, <2>1, <3>1, <4>1
      <4>2. CASE ~Initialised
        <5>1. breaches <= signals + 0 /\ breaches <= signals + 1
          BY <1>3, <4>2
        <5>. QED  BY <1>2, <2>1, <5>1
      <4>. QED  BY <4>1, <4>2
    <3>2. CASE driver # "sr04"
      <4>1. Measuring = {}
        BY <3>2 DEF ReadInv, IdleOutside, Measuring
      <4>2. breaches = 0 /\ 0 <= signals + 0 /\ 0 <= signals + 1
        BY <1>3, <4>1
      <4>. QED  BY <1>2, <2>1, <4>2
    <3>. QED  BY <3>1, <3>2
  <2>3. Counted'
    BY <1>2, <1>3, <2>1, <2>2 DEF Counted
  <2>4. ReaderTypeOK'
    BY <1>2, <2>1 DEF ReadInv, ReaderTypeOK
  <2>. QED  BY <1>4, <1>5, <2>3, <2>4 DEF ReadInv
<1>. QED  BY <1>6, <1>7

LEMMA NoneAtMost ==
    ASSUME NEW s \in Nat, NEW b, b = 0, NEW more \in {0, 1}
    PROVE  b <= s + more
OBVIOUS

(* insmod meets no reader, and rmmod is refused while one has the file     *)
(* open: nobody measures, so there is no breach.                           *)
LEMMA LoadingKeeps ==
    ASSUME LoadInv, ReadInv, Comes \/ Leaves
    PROVE  ReadInv'
<1>1. UNCHANGED readerVars /\ driver' = driver
  BY DEF Comes, Leaves, Insmod, Rmmod
<1>2. \A r \in Readers : at[r] = "idle"
  BY DEF Comes, Insmod, Leaves, ReadInv, IdleOutside
<1>3. Measuring = {} /\ Measuring' = {}
  BY <1>1, <1>2 DEF Measuring, readerVars
<1>4. owner = {} /\ breaches = 0 /\ signals \in Nat
  BY <1>3 DEF ReadInv, Counted, ReaderTypeOK
<1>5. Counted'
  <2>1. IsFiniteSet({}) /\ Cardinality({}) = 0
    BY FS_EmptySet
  <2>2. breaches' = 0 /\ owner' = {} /\ signals' \in Nat
    BY <1>1, <1>4 DEF readerVars
  <2>3. breaches' <= signals' + (IF Initialised' THEN 1 ELSE 0)
    <3>1. signals' \in Nat
      BY <2>2
    <3>. QED  BY <2>2, <3>1, NoneAtMost
  <2>4. Cardinality(Measuring') <= (IF owner' = {} THEN 0 ELSE 1) + breaches'
    BY <1>3, <2>1, <2>2
  <2>. QED  BY <1>3, <2>1, <2>2, <2>3, <2>4 DEF Counted
<1>6. ReaderTypeOK' /\ IdleOutside' /\ DistanceRight'
  BY <1>1, <1>2 DEF ReadInv, ReaderTypeOK, IdleOutside, DistanceRight, readerVars
<1>. QED  BY <1>5, <1>6 DEF ReadInv

LEMMA ReadKept ==
    ASSUME LoadInv, ReadInv, [Next]_vars
    PROVE  ReadInv'
<1>1. CASE Comes \/ Leaves
  BY <1>1, LoadingKeeps
<1>2. CASE Initialises
  BY <1>2, InitialisesKeeps
<1>3. ASSUME NEW r \in Readers, Calls(r) \/ Reader(r) PROVE ReadInv'
  <2>1. CASE Calls(r)
    BY <2>1, CallsKeeps
  <2>2. CASE Locks(r) \/ Oopses(r) \/ Interrupted(r)
    BY <2>2, LocksKeeps, OopsesKeeps, InterruptedKeeps
  <2>3. CASE \E t \in Starts : Rises(r, t)
    BY <2>3, RisesKeeps
  <2>4. CASE NoEcho(r) \/ Unlocks(r)
    BY <2>4, NoEchoKeeps, UnlocksKeeps
  <2>5. CASE \E d \in EchoTimes : Falls(r, d)
    BY <2>5, FallsKeeps
  <2>. QED  BY <1>3, <2>1, <2>2, <2>3, <2>4, <2>5 DEF Reader
<1>4. CASE UNCHANGED vars
  BY <1>4 DEF vars, loadVars, readerVars, ReadInv, ReaderTypeOK, Counted, IdleOutside,
              DistanceRight, Measuring, Initialised
<1>. QED  BY <1>1, <1>2, <1>3, <1>4 DEF Next

-----------------------------------------------------------------------------
(* The inductive invariant: what is held follows the plan of calls, and    *)
(* owner and breaches account for the readers that measure.                *)
THEOREM Invariance == Spec => [](LoadInv /\ ReadInv)
<1>1. Init => LoadInv /\ ReadInv
  BY LoadInitHolds, ReadInit DEF Init
<1>2. LoadInv /\ ReadInv /\ [Next]_vars => (LoadInv /\ ReadInv)'
  BY LoadKept, ReadKept
<1>. QED  BY <1>1, <1>2, PTL DEF Spec

(* The modules and the readers of sr04.c stay within their types; there    *)
(* are at most one more breaches than signals have come.                   *)
THEOREM TypeCorrect == Spec => []TypeOK
<1>1. ASSUME LoadInv, ReadInv PROVE TypeOK
  <2>1. breaches \in 0 .. MaxSignals + 1
    <3>1. breaches \in Nat /\ signals \in 0 .. MaxSignals /\ MaxSignals \in Nat
      BY <1>1, Sr04Assumption DEF ReadInv, ReaderTypeOK
    <3>2. breaches <= signals + 0 \/ breaches <= signals + 1
      BY <1>1 DEF ReadInv, Counted
    <3>. QED  BY <3>1, <3>2
  <2>. QED  BY <1>1, <2>1 DEF LoadInv, ReadInv, ReaderTypeOK, TypeOK
<1>. QED  BY <1>1, Invariance, PTL

(* For any number of readers, loads and failures: those who measure at the *)
(* same time in measureDistance() are one and the signals and the          *)
(* mutex_init() that let others in, and when nobody measures, the mutex is *)
(* free.                                                                   *)
THEOREM ReadsAlone == Spec => []Alone
<1>1. ASSUME LoadInv, ReadInv PROVE Alone
  <2>1. /\ IsFiniteSet(Measuring) /\ breaches \in Nat
        /\ Cardinality(Measuring) <= (IF owner = {} THEN 0 ELSE 1) + breaches
        /\ Measuring = {} => owner = {}
    BY <1>1 DEF ReadInv, ReaderTypeOK, Counted
  <2>2. Cardinality(Measuring) \in Nat
    BY <2>1, FS_CardinalityType
  <2>3. Cardinality(Measuring) <= 0 + breaches \/ Cardinality(Measuring) <= 1 + breaches
    BY <2>1
  <2>. QED  BY <2>1, <2>2, <2>3 DEF Alone
<1>. QED  BY <1>1, Invariance, PTL

(* Whenever the echo begins and ends, the distance that diffTime and its   *)
(* product give is right, as long as the product fits.                     *)
THEOREM MeasuresRight == Spec => []DistanceRight
BY Invariance, PTL DEF ReadInv

(* No device of sr04.c, motor.c or the pod's module outlives its module,   *)
(* whichever call of the init fails, and whatever failed unnoticed before. *)
THEOREM LeavesNoDevice == Spec => []NoDanglingDevice
BY Invariance, PTL DEF LoadInv

(* A mutex that was never initialised is used only during the load, or     *)
(* after a gpio_request() that failed.                                     *)
THEOREM UsesUninitialisedOnly == Spec => []UsedUninitialised
<1>1. ASSUME LoadInv, ReadInv PROVE UsedUninitialised
  <2>1. SUFFICES ASSUME Measuring # {}, ~Initialised
                 PROVE  phase = "loading" \/ (phase = "half" /\ <<"gpio", 1>> \notin held)
    BY DEF UsedUninitialised
  <2>2. driver = "sr04" /\ phase # "out"
    BY <1>1, <2>1 DEF ReadInv, IdleOutside, Measuring
  <2>3. phase \in {"out", "loading", "in", "half"}
    BY <1>1 DEF LoadInv, LoadTypeOK
  <2>. QED  BY <1>1, <2>1, <2>2, <2>3 DEF LoadInv, HeldByPlan, Initialised
<1>. QED  BY <1>1, Invariance, PTL

-----------------------------------------------------------------------------
(* Unloading after a load in which nothing failed *)

LEMMA ListsAreLists ==
    ASSUME NEW j \in 1 .. 6 * Lists, ListInit[j].gets[1] = "list"
    PROVE  ListInit[j].gets \in {"list"} \X (1 .. Lists)
<1>1. Lists \in Nat \ {0}
  BY LoadAssumption
<1> DEFINE i == ((j - 1) \div 6) + 1
           k == ((j - 1) % 6) + 1
<1>2. ListInit[j] = ListTurn(i)[k] /\ i \in 1 .. Lists /\ k \in 1 .. 6
  BY <1>1, TurnOf DEF ListInit
<1> HIDE DEF i, k
<1>3. k = 1 \/ k = 2 \/ k = 3 \/ k = 4 \/ k = 5 \/ k = 6
  BY <1>2
<1>4. ListTurn(i)[k].gets[1] = "list" => ListTurn(i)[k].gets = <<"list", i>>
  BY <1>3 DEF ListTurn, Call
<1>5. ListInit[j].gets = <<"list", i>>
  BY <1>2, <1>4
<1>. QED  BY <1>2, <1>5

(* With both tunnels made, the pod's module gives back exactly what its    *)
(* plan got.                                                               *)
LEMMA CarGivesAll ==
    ASSUME driver = "car", <<"sensors", 1>> \in held, <<"motor", 1>> \in held
    PROVE  All = CarExit
<1> DEFINE n == CarDevs
           c == CarPlan(2 * n)
<1>1. n \in Nat \ {0} /\ 2 * n \in Nat
  BY LoadAssumption
<1>2. MotorMinor = 2 * n
  BY DEF MotorMinor
<1>3. Plan = c /\ Len(c) = 2 * n + 5
  BY <1>1, <1>2, CarInitIsPlan, CarCalls DEF Plan
<1>4. /\ c[1].gets = <<"region", 1>> /\ c[2].gets = <<"memory", 1>>
      /\ \A i \in 3 .. n + 2 : c[i].gets = <<"cdev", i - 3>>
      /\ c[n + 3].gets = <<"sensors", 1>>
      /\ \A i \in n + 4 .. 2 * n + 3 : c[i].gets = <<"cdev", i - 4>>
      /\ c[2 * n + 4].gets = <<"motor", 1>>
      /\ c[2 * n + 5].gets = <<"cdev", 2 * n>>
  <2>1. /\ c[1] = Call(<<"region", 1>>, "status", {}, {}, -1)
        /\ c[2] = Call(<<"memory", 1>>, "status", {}, {<<"region", 1>>}, -1)
        /\ c[n + 3] = Call(<<"sensors", 1>>, "ignored", {}, {}, -1)
        /\ c[2 * n + 4] = Call(<<"motor", 1>>, "ignored", {}, {}, -1)
        /\ c[2 * n + 5] = Call(<<"cdev", 2 * n>>, "ignored", {<<"motor", 1>>}, {}, -1)
    BY <1>1, CarCalls
  <2>2. \A i \in 3 .. n + 2 : c[i] = Call(<<"cdev", i - 3>>, "ignored", {}, {}, -1)
    BY <1>1, CarCalls
  <2>3. \A i \in n + 4 .. 2 * n + 3 : c[i]
            = Call(<<"cdev", i - 4>>, "ignored", {<<"sensors", 1>>}, {}, -1)
    BY <1>1, CarCalls
  <2> HIDE DEF c
  <2>4. \A i \in 3 .. n + 2 : c[i].gets = <<"cdev", i - 3>>
    <3>1. ASSUME NEW i \in 3 .. n + 2 PROVE c[i].gets = <<"cdev", i - 3>>
      <4>1. c[i] = Call(<<"cdev", i - 3>>, "ignored", {}, {}, -1)
        BY <2>2
      <4>. QED  BY <4>1 DEF Call
    <3>. QED  BY <3>1
  <2>5. \A i \in n + 4 .. 2 * n + 3 : c[i].gets = <<"cdev", i - 4>>
    <3>1. ASSUME NEW i \in n + 4 .. 2 * n + 3 PROVE c[i].gets = <<"cdev", i - 4>>
      <4>1. c[i] = Call(<<"cdev", i - 4>>, "ignored", {<<"sensors", 1>>}, {}, -1)
        BY <2>3
      <4>. QED  BY <4>1 DEF Call
    <3>. QED  BY <3>1
  <2>. QED  BY <2>1, <2>4, <2>5 DEF Call
<1> HIDE DEF c
<1>5. CarExit = {<<"region", 1>>, <<"memory", 1>>} \cup ({"cdev"} \X (0 .. n - 1))
                \cup {<<"sensors", 1>>} \cup ({"cdev"} \X (n .. 2 * n - 1))
                \cup {<<"motor", 1>>, <<"cdev", 2 * n>>}
  BY <1>2 DEF CarExit, SensorsExit, MotorTunExit
<1>6. ASSUME NEW i \in 1 .. 2 * n + 5 PROVE c[i].gets \in CarExit
  <2>1. \/ i = 1 \/ i = 2 \/ i \in 3 .. n + 2 \/ i = n + 3
        \/ i \in n + 4 .. 2 * n + 3 \/ i = 2 * n + 4 \/ i = 2 * n + 5
    BY <1>1
  <2>2. CASE i \in 3 .. n + 2
    <3>1. i - 3 \in 0 .. n - 1
      BY <1>1, <2>2
    <3>. QED  BY <1>4, <1>5, <2>2, <3>1
  <2>3. CASE i \in n + 4 .. 2 * n + 3
    <3>1. i - 4 \in n .. 2 * n - 1
      BY <1>1, <2>3
    <3>. QED  BY <1>4, <1>5, <2>3, <3>1
  <2>4. CASE i = 1 \/ i = 2 \/ i = n + 3 \/ i = 2 * n + 4 \/ i = 2 * n + 5
    BY <1>4, <1>5, <2>4
  <2>. QED  BY <2>1, <2>2, <2>3, <2>4
<1>7. ASSUME NEW r \in CarExit PROVE \E i \in 1 .. 2 * n + 5 : r = c[i].gets
  <2>1. \/ r = <<"region", 1>> \/ r = <<"memory", 1>> \/ r = <<"sensors", 1>>
        \/ r = <<"motor", 1>> \/ r = <<"cdev", 2 * n>>
        \/ \E k \in 0 .. n - 1 : r = <<"cdev", k>>
        \/ \E k \in n .. 2 * n - 1 : r = <<"cdev", k>>
    BY <1>5
  <2>2. /\ 1 \in 1 .. 2 * n + 5 /\ 2 \in 1 .. 2 * n + 5 /\ n + 3 \in 1 .. 2 * n + 5
        /\ 2 * n + 4 \in 1 .. 2 * n + 5 /\ 2 * n + 5 \in 1 .. 2 * n + 5
    BY <1>1
  <2>3. CASE \E k \in 0 .. n - 1 : r = <<"cdev", k>>
    <3>1. PICK k \in 0 .. n - 1 : r = <<"cdev", k>>
      BY <2>3
    <3>2. k + 3 \in 3 .. n + 2 /\ k + 3 \in 1 .. 2 * n + 5 /\ (k + 3) - 3 = k
      BY <1>1
    <3>3. c[k + 3].gets = <<"cdev", (k + 3) - 3>>
      BY <1>4, <3>2
    <3>. QED  BY <3>1, <3>2, <3>3
  <2>4. CASE \E k \in n .. 2 * n - 1 : r = <<"cdev", k>>
    <3>1. PICK k \in n .. 2 * n - 1 : r = <<"cdev", k>>
      BY <2>4
    <3>2. k + 4 \in n + 4 .. 2 * n + 3 /\ k + 4 \in 1 .. 2 * n + 5 /\ (k + 4) - 4 = k
      BY <1>1
    <3>3. c[k + 4].gets = <<"cdev", (k + 4) - 4>>
      BY <1>4, <3>2
    <3>. QED  BY <3>1, <3>2, <3>3
  <2>5. CASE \/ r = <<"region", 1>> \/ r = <<"memory", 1>> \/ r = <<"sensors", 1>>
             \/ r = <<"motor", 1>> \/ r = <<"cdev", 2 * n>>
    BY <1>4, <2>2, <2>5
  <2>. QED  BY <2>1, <2>3, <2>4, <2>5
<1>8. All = {c[i].gets : i \in 1 .. 2 * n + 5}
  BY <1>3 DEF All
<1>. QED  BY <1>6, <1>7, <1>8

(* The exit functions against the plans: what each leaves of a complete    *)
(* load, and what it gives back beyond it.                                 *)
LEMMA ExitBalances ==
    ASSUME LoadInv, phase = "in", flawless
    PROVE  /\ Left(held \ GivesBack) \subseteq {<<"adapter", 1>>} \cup ({"list"} \X (1 .. Lists))
           /\ GivesBack \ held \subseteq {IrPower}
<1>1. held = All /\ driver \in {"sr04", "ir", "motor", "list", "car"}
  BY LoadAssumption DEF LoadInv, LoadTypeOK, HeldByPlan
<1>2. CASE driver = "sr04"
  <2>1. GivesBack = Sr04Exit /\ Plan = Sr04Init /\ Len(Plan) = 7
    BY <1>2, Sr04Calls DEF GivesBack, Plan
  <2>. QED  BY <1>1, <2>1, Sr04Calls DEF All, Left
<1>3. CASE driver = "motor"
  <2>1. GivesBack = MotorExit /\ Plan = MotorInit /\ Len(Plan) = 7
    BY <1>3, MotorCalls DEF GivesBack, Plan
  <2>. QED  BY <1>1, <2>1, MotorCalls DEF All, Left
<1>4. CASE driver = "ir"
  <2>1. GivesBack = IrExit /\ Plan = IrInit /\ Len(Plan) = 6 * Infrareds
    BY <1>4, IrCalls DEF GivesBack, Plan
  <2>. QED  BY <1>1, <2>1, IrCalls DEF All, Left
<1>5. CASE driver = "list"
  <2>1. GivesBack = ListExit /\ Plan = ListInit /\ Len(Plan) = 6 * Lists
    BY <1>5, ListCalls DEF GivesBack, Plan
  <2>. QED  BY <1>1, <2>1, ListCalls, ListsAreLists DEF All, Left
<1>6. CASE driver = "car"
  <2>1. GivesBack = CarExit
    BY <1>6 DEF GivesBack
  <2>2. <<"sensors", 1>> \in All /\ <<"motor", 1>> \in All
    <3>1. CarDevs \in Nat \ {0} /\ MotorMinor \in Nat
      BY LoadAssumption, MinorType
    <3>2. Plan = CarPlan(MotorMinor) /\ Len(Plan) = 2 * CarDevs + 5
      BY <1>6, <3>1, CarInitIsPlan, CarCalls DEF Plan
    <3>3. CarDevs + 3 \in 1 .. Len(Plan) /\ 2 * CarDevs + 4 \in 1 .. Len(Plan)
      BY <3>1, <3>2
    <3>4. /\ Plan[CarDevs + 3].gets = <<"sensors", 1>>
          /\ Plan[2 * CarDevs + 4].gets = <<"motor", 1>>
      <4>1. /\ Plan[CarDevs + 3] = Call(<<"sensors", 1>>, "ignored", {}, {}, -1)
            /\ Plan[2 * CarDevs + 4] = Call(<<"motor", 1>>, "ignored", {}, {}, -1)
        BY <3>1, <3>2, CarCalls
      <4>. QED  BY <4>1 DEF Call
    <3>. QED  BY <3>3, <3>4 DEF All
  <2>. QED  BY <1>1, <1>6, <2>1, <2>2, CarGivesAll DEF Left
<1>. QED  BY <1>1, <1>2, <1>3, <1>4, <1>5, <1>6

(* After a load in which nothing failed, each module's exit function gives *)
(* back what its init got, whatever the numbers of devices are: but for    *)
(* motor's I2C adapter and the lists; and nothing it had not got, but for  *)
(* the pin IR_POWER_ON.                                                    *)
THEOREM UnloadsCleanly == Spec => CleanUnload
<1> DEFINE Clean == Leaves /\ flawless /\ orphans = {} =>
                    /\ orphans' \subseteq {<<"adapter", 1>>} \cup ({"list"} \X (1 .. Lists))
                    /\ wrong' \ wrong \subseteq {IrPower}
<1>1. ASSUME LoadInv PROVE Clean
  <2>1. SUFFICES ASSUME Leaves, flawless, orphans = {}
                 PROVE  /\ orphans' \subseteq {<<"adapter", 1>>} \cup ({"list"} \X (1 .. Lists))
                        /\ wrong' \ wrong \subseteq {IrPower}
    OBVIOUS
  <2>2. /\ phase \in {"in", "half"} /\ orphans' = orphans \cup Left(held \ GivesBack)
        /\ wrong' = wrong \cup (GivesBack \ held)
    BY <2>1 DEF Leaves, Rmmod
  <2>3. phase = "in"
    BY <1>1, <2>1, <2>2 DEF LoadInv, HeldByPlan
  <2>. QED  BY <1>1, <2>1, <2>2, <2>3, ExitBalances
<1>2. LoadInv => [Clean]_vars
  BY <1>1
<1>. QED  BY <1>2, Invariance, PTL DEF CleanUnload

=============================================================================
