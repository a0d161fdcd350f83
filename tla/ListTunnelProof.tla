-------------------------- MODULE ListTunnelProof --------------------------
(***************************************************************************)
(* The theorems about the list tunnel driver, for any number of clients,   *)
(* nodes and messages.  Whatever the races, no link leads past a sentinel. *)
(* When calls do not overlap, at every step there is a sequence of nodes   *)
(* that the prev links carry, and what next, size and the locals of the    *)
(* one active call hold follows from it and from the call's place          *)
(* (Shaped): hence the list is a list between calls, nodes get lost only   *)
(* where copy_to_user() fails, and the driver keeps the promised queue.    *)
(***************************************************************************)
EXTENDS ListTunnel, FiniteSetTheorems, FunctionTheorems, SequenceTheorems,
        WellFoundedInduction, TLAPS

-----------------------------------------------------------------------------
(* Walking a chain *)

(* Induction, as the least element of a set of numbers: a form that needs  *)
(* no predicate to be put in.                                              *)
Less == {ss \in Nat \X Nat : ss[1] < ss[2]}

LEMMA LessWellFounded == IsWellFoundedOn(Less, Nat)
BY NatLessThanWellFounded, Zenon DEF OpToRel, Less

LEMMA SetInduction ==
    ASSUME NEW S, 0 \in S, \A n \in Nat : n \in S => n + 1 \in S
    PROVE  \A n \in Nat : n \in S
<1> DEFINE T == Nat \ S
<1>1. SUFFICES ASSUME T # {} PROVE FALSE
  OBVIOUS
<1>2. PICK x \in T : \A y \in T : ~ (<<y, x>> \in Less)
  <2>1. T \subseteq Nat
    OBVIOUS
  <2>. QED  BY <1>1, <2>1, WFMin, LessWellFounded, Zenon
<1>3. x \in Nat /\ x # 0
  OBVIOUS
<1>4. x - 1 \in Nat /\ x - 1 < x /\ (x - 1) + 1 = x
  BY <1>3
<1>5. <<x - 1, x>> \in Less
  BY <1>3, <1>4 DEF Less
<1>6. x - 1 \notin T
  BY <1>2, <1>5
<1>. QED  BY <1>3, <1>4, <1>6

LEMMA CountTo ==
    ASSUME NEW n \in Nat
    PROVE  /\ IsFiniteSet(1 .. n) /\ Cardinality(1 .. n) = n
           /\ Cardinality(0 .. n - 1) = n
<1>1. /\ IsFiniteSet(1 .. n)
      /\ Cardinality(1 .. n) = IF 1 > n THEN 0 ELSE n - 1 + 1
  BY FS_Interval
<1>2. n - 1 \in Int /\ 0 \in Int
  OBVIOUS
<1>3. Cardinality(0 .. n - 1) = IF 0 > n - 1 THEN 0 ELSE (n - 1) - 0 + 1
  BY <1>2, FS_Interval
<1>. QED  BY <1>1, <1>3

(* Nodes in an order, each of them once. *)
IsOrder(s) == s \in Seq(Nodes) /\ \A i, j \in 1 .. Len(s) : s[i] = s[j] => i = j

(* The links lead from one end through s to the other. *)
Chain(link, from, s, end) ==
    /\ link[from] = IF Len(s) = 0 THEN end ELSE s[1]
    /\ \A i \in 1 .. Len(s) : link[s[i]] = IF i = Len(s) THEN end ELSE s[i + 1]

LEMMA OrderFits ==
    ASSUME NEW s, IsOrder(s)
    PROVE  Len(s) \in Nat /\ Len(s) <= Cardinality(Nodes) /\ Cardinality(Nodes) \in Nat
<1>1. s \in [1 .. Len(s) -> Nodes] /\ Len(s) \in Nat
  BY DEF IsOrder
<1>2. s \in Injection(1 .. Len(s), Nodes)
  BY <1>1, Zenon DEF IsOrder, Injection, IsInjective
<1>3. IsFiniteSet(Nodes)
  BY BoundAssumption
<1>4. Cardinality(1 .. Len(s)) <= Cardinality(Nodes)
  BY <1>2, <1>3, FS_Injection
<1>5. Cardinality(1 .. Len(s)) = Len(s)
  BY <1>1, CountTo
<1>. QED  BY <1>1, <1>3, <1>4, <1>5, FS_CardinalityType

(* Walk() meets the nodes of a chain in their order. *)
LEMMA WalkIs ==
    ASSUME NEW link, NEW from, NEW end, end \notin Nodes, NEW s, IsOrder(s),
           Chain(link, from, s, end)
    PROVE  Walk(link, from) = s
<1> DEFINE N == Cardinality(Nodes)
           Step1(at, i) == IF i = 0 THEN link[from]
                           ELSE IF at[i - 1] \in Nodes THEN link[at[i - 1]] ELSE at[i - 1]
           met == [i \in 0 .. N |-> IF i < Len(s) THEN s[i + 1] ELSE end]
           at == CHOOSE a : a = [i \in 0 .. N |-> Step1(a, i)]
<1>1. Len(s) \in Nat /\ Len(s) <= N /\ N \in Nat
  BY OrderFits
<1>2. \A i \in 1 .. Len(s) : s[i] \in Nodes
  BY <1>1 DEF IsOrder
<1>3. met = [i \in 0 .. N |-> Step1(met, i)]
  <2>1. ASSUME NEW i \in 0 .. N
        PROVE  (IF i < Len(s) THEN s[i + 1] ELSE end) = Step1(met, i)
    <3>1. CASE i = 0
      BY <1>1, <3>1 DEF Chain
    <3>2. CASE i # 0
      <4>1. i - 1 \in 0 .. N /\ (i - 1) + 1 = i /\ i \in Nat /\ i > 0
        BY <1>1, <3>2
      <4>2. met[i - 1] = IF i - 1 < Len(s) THEN s[i] ELSE end
        BY <4>1
      <4>3. CASE i - 1 < Len(s)
        <5>1. i \in 1 .. Len(s)
          BY <1>1, <4>1, <4>3
        <5>2. met[i - 1] = s[i] /\ s[i] \in Nodes
          BY <1>2, <4>2, <4>3, <5>1
        <5>3. link[s[i]] = IF i = Len(s) THEN end ELSE s[i + 1]
          BY <5>1 DEF Chain
        <5>4. i < Len(s) <=> i # Len(s)
          BY <1>1, <5>1
        <5>. QED  BY <3>2, <5>2, <5>3, <5>4
      <4>4. CASE ~(i - 1 < Len(s))
        <5>1. ~(i < Len(s))
          BY <1>1, <4>1, <4>4
        <5>. QED  BY <3>2, <4>2, <4>4, <5>1
      <4>. QED  BY <4>3, <4>4
    <3>. QED  BY <3>1, <3>2
  <2>. QED  BY <2>1
<1>4. at = [i \in 0 .. N |-> Step1(at, i)]
  BY <1>3, Zenon
<1>5. at = met
  <2> DEFINE S == {i \in Nat : i \in 0 .. N => at[i] = met[i]}
  <2>1. 0 \in S
    BY <1>1, <1>3, <1>4
  <2>2. ASSUME NEW i \in Nat, i \in S PROVE i + 1 \in S
    <3>1. SUFFICES ASSUME i + 1 \in 0 .. N PROVE at[i + 1] = met[i + 1]
      OBVIOUS
    <3>2. i \in 0 .. N /\ (i + 1) - 1 = i /\ i + 1 # 0
      BY <1>1, <3>1
    <3>3. at[i] = met[i]
      BY <2>2, <3>2
    <3>4. at[i + 1] = Step1(at, i + 1) /\ met[i + 1] = Step1(met, i + 1)
      BY <1>3, <1>4, <3>1, Zenon
    <3>5. Step1(at, i + 1) = Step1(met, i + 1)
      BY <3>2, <3>3
    <3>. QED  BY <3>4, <3>5
  <2>3. \A i \in Nat : i \in S
    <3> HIDE DEF S
    <3>. QED  BY <2>1, <2>2, SetInduction
  <2>4. \A i \in 0 .. N : at[i] = met[i]
    <3>1. \A i \in 0 .. N : i \in Nat
      BY <1>1
    <3> HIDE DEF at, met
    <3>. QED  BY <2>3, <3>1
  <2>5. DOMAIN at = 0 .. N /\ DOMAIN met = 0 .. N
    BY <1>4, Zenon
  <2>. QED  BY <1>4, <2>4, <2>5
<1> DEFINE steps == Cardinality({i \in DOMAIN at : at[i] \in Nodes})
<1>6. steps = Len(s)
  <2>1. {i \in DOMAIN met : met[i] \in Nodes} = 0 .. Len(s) - 1
    BY <1>1, <1>2
  <2>2. Cardinality(0 .. Len(s) - 1) = Len(s)
    BY <1>1, CountTo
  <2>. QED  BY <1>5, <2>1, <2>2
<1>7. Walk(link, from) = [i \in 1 .. steps |-> at[i - 1]]
  BY Zenon DEF Walk
<1>8. \A i \in 1 .. Len(s) : at[i - 1] = s[i]
  <2>1. ASSUME NEW i \in 1 .. Len(s) PROVE met[i - 1] = s[i]
    <3>1. i - 1 \in 0 .. N /\ i - 1 < Len(s) /\ (i - 1) + 1 = i
      BY <1>1
    <3>. QED  BY <3>1
  <2>. QED  BY <1>5, <2>1
<1>9. s = [i \in 1 .. Len(s) |-> s[i]]
  BY DEF IsOrder
<1>. QED  BY <1>6, <1>7, <1>8, <1>9
-----------------------------------------------------------------------------
(* What holds whether calls overlap or not *)

(* Where a thread has a node of its own in elem. *)
Linking == {"check", "link_b", "link_prev", "link_next", "link_n"}
Removing == {"get_n", "get_p", "unlink_n", "unlink_p"}
Handed == {"dec", "dec_store", "copy"}

(* A thread's locals: what it will write into next and prev is no sentinel *)
(* of the wrong end; the node it frees is none at all.                     *)
Locals(t) ==
    /\ pc[t] = "idle" => elem[t] = Null
    /\ before[t] # Rear /\ after[t] # Front /\ elem[t] # Front
    /\ pc[t] \in Linking => elem[t] \in Nodes
    /\ pc[t] \in Removing \cup Handed => elem[t] # Rear

RaceInv == TypeOK /\ SentinelsHold /\ \A t \in Threads : Locals(t)

-----------------------------------------------------------------------------
(* What holds when calls do not overlap *)

(* prev carries s: what between() and remove_item() change with one store. *)
Back(link, s, end) ==
    /\ link[Rear] = IF Len(s) = 0 THEN end ELSE s[Len(s)]
    /\ \A i \in 1 .. Len(s) : link[s[i]] = IF i = 1 THEN end ELSE s[i - 1]

(* next carries s. *)
Forth(link, s) == Chain(link, Front, s, Rear)

Apart(e, s) == \A i \in 1 .. Len(s) : s[i] # e

(* What the call in progress knows while it makes a node and links it ...  *)
Writing(t, s) ==
    /\ pc[t] \in {"buffer", "tail", "alloc"} => elem[t] = Null
    /\ pc[t] \in {"tail", "alloc"} \cup Linking => data[t] \in Messages
    /\ pc[t] \in {"alloc"} \cup Linking => before[t] = prev[Rear]
    /\ pc[t] \in Linking => elem[t] \in live /\ Apart(elem[t], s)
    /\ pc[t] \in Linking \ {"check"} => key[elem[t]] = data[t]
    /\ pc[t] = "link_n" => prev[elem[t]] = before[t]
    /\ pc[t] = "link_next" => prev[elem[t]] = before[t]
    /\ pc[t] \in {"inc", "inc_store"} => \E i \in 1 .. Len(s) : elem[t] = s[i]
    /\ pc[t] = "inc_store" => reg[t] = size

(* ... or takes one out and hands it over.                                 *)
Reading(t, s) ==
    /\ pc[t] \in {"empty", "first"} => elem[t] = Null
    /\ pc[t] \in {"first", "guard", "get_n", "get_p", "unlink_n"} => Len(s) > 0
    /\ pc[t] \in {"guard", "get_n", "get_p", "unlink_n"} => elem[t] = s[1]
    /\ pc[t] \in {"get_p", "unlink_n", "unlink_p"} => after[t] = next[elem[t]]
    /\ pc[t] \in {"unlink_n", "unlink_p"} => before[t] = Front
    /\ pc[t] \in {"unlink_p"} \cup Handed => elem[t] \in live /\ Apart(elem[t], s)
    /\ pc[t] = "dec_store" => reg[t] = size

(* next follows prev behind the stores that are still to come, *)
NextFollows(t, s) ==
    IF pc[t] \in {"link_prev", "link_next"}
    THEN Forth([next EXCEPT ![elem[t]] = Rear], Append(s, elem[t]))
    ELSE IF pc[t] = "link_n" THEN Forth(next, Append(s, elem[t]))
    ELSE IF pc[t] = "unlink_p" THEN Forth(next, <<elem[t]>> \o s)
    ELSE Forth(next, s)

(* and so does size. *)
SizeFollows(t, s) ==
    size = IF pc[t] \in {"inc", "inc_store"} THEN Len(s) - 1
           ELSE IF pc[t] \in {"unlink_p", "dec", "dec_store"} THEN Len(s) + 1
           ELSE Len(s)

Doing(t, s) == /\ pc[t] # "dead" /\ Writing(t, s) /\ Reading(t, s)
               /\ NextFollows(t, s) /\ SizeFollows(t, s)

(* s is the list: prev carries it, and the rest follows. *)
IsShape(s) ==
    /\ IsOrder(s) /\ \A i \in 1 .. Len(s) : s[i] \in live
    /\ Back(prev, s, Front)
    /\ Quiet => Forth(next, s) /\ size = Len(s)
    /\ \A t \in Threads : pc[t] # "idle" => Doing(t, s)

OneAtATime == \A t, u \in Threads : pc[t] # "idle" /\ pc[u] # "idle" => t = u

Shaped ==
    ~overlap =>
        /\ OneAtATime
        /\ ~loaded => Quiet
        /\ fault => ~loaded /\ size > 0
        /\ ~fault => \E s : IsShape(s) /\ (~loaded => Len(s) = 0)

-----------------------------------------------------------------------------
(* Whatever the races *)

LEMMA Places ==
    /\ Front \in Cells /\ Rear \in Cells /\ Nodes \subseteq Cells
    /\ Cells \subseteq Pointers /\ Null \in Pointers
    /\ Front # Rear /\ Front # Null /\ Rear # Null /\ Null \notin Nodes /\ Null \notin Messages
    /\ Front \notin Nodes /\ Rear \notin Nodes
BY SentinelAssumption, NullAssumption DEF Cells, Pointers

LEMMA RaceInit == Init => RaceInv
<1> SUFFICES ASSUME Init PROVE RaceInv
  OBVIOUS
<1>1. TypeOK
  <2>1. next \in [Cells -> Pointers] /\ prev \in [Cells -> Pointers]
    BY Places DEF Init, EmptyNext, EmptyPrev
  <2>2. key \in [Cells -> Messages \cup {Null}]
    BY DEF Init
  <2>3. "idle" \in Labels /\ pc = [t \in Threads |-> "idle"]
    BY DEF Init, Labels
  <2>4. pc \in [Threads -> Labels]
    BY <2>3
  <2>5. /\ elem \in [Threads -> Pointers] /\ before \in [Threads -> Pointers]
        /\ after \in [Threads -> Pointers]
    BY Places DEF Init
  <2>6. data \in [Threads -> Messages \cup {Null}] /\ reg \in [Threads -> Int]
    BY DEF Init
  <2>7. live \in SUBSET Nodes /\ size \in Int
    BY DEF Init
  <2>8. fault \in BOOLEAN /\ overlap \in BOOLEAN /\ loaded \in BOOLEAN /\ broken \in BOOLEAN
    <3>1. fault = FALSE /\ loaded = TRUE /\ broken = FALSE /\ overlap \in BOOLEAN
      BY DEF Init
    <3>. QED  BY <3>1
  <2>. QED  BY <2>1, <2>2, <2>4, <2>5, <2>6, <2>7, <2>8 DEF TypeOK
<1>2. SentinelsHold
  BY Places DEF Init, SentinelsHold, EmptyNext, EmptyPrev
<1>3. ASSUME NEW t \in Threads PROVE Locals(t)
  BY Places DEF Init, Locals, Linking, Removing, Handed
<1>. QED  BY <1>1, <1>2, <1>3 DEF RaceInv

(* A call that only looks or moves on: the links stay, and t's locals are  *)
(* what they should be.                                                    *)
LEMMA LinksStay ==
    ASSUME RaceInv, UNCHANGED <<next, prev>>, NEW t \in Threads, NEW label \in Labels,
           Goto(t, label), TypeOK',
           \A u \in Threads \ {t} : /\ elem'[u] = elem[u] /\ before'[u] = before[u]
                                    /\ after'[u] = after[u],
           Locals(t)'
    PROVE  RaceInv'
<1>1. SentinelsHold'
  BY DEF RaceInv, SentinelsHold
<1>2. ASSUME NEW u \in Threads PROVE Locals(u)'
  <2>1. CASE u = t
    BY <2>1
  <2>2. CASE u # t
    <3>1. pc'[u] = pc[u]
      BY <2>2 DEF Goto, RaceInv, TypeOK
    <3>2. elem'[u] = elem[u] /\ before'[u] = before[u] /\ after'[u] = after[u]
      BY <2>2
    <3>. QED  BY <3>1, <3>2 DEF RaceInv, Locals
  <2>. QED  BY <2>1, <2>2
<1>. QED  BY <1>1, <1>2 DEF RaceInv

(* t is back in user space. *)
LEMMA ReturnLocals ==
    ASSUME TypeOK, NEW t \in Threads, Return(t)
    PROVE  /\ pc' \in [Threads -> Labels] /\ elem' \in [Threads -> Pointers]
           /\ before' \in [Threads -> Pointers] /\ after' \in [Threads -> Pointers]
           /\ reg' \in [Threads -> Int] /\ data' \in [Threads -> Messages \cup {Null}]
           /\ pc'[t] = "idle" /\ elem'[t] = Null
           /\ \A u \in Threads \ {t} : /\ pc'[u] = pc[u] /\ elem'[u] = elem[u]
                                       /\ before'[u] = before[u] /\ after'[u] = after[u]
           /\ Locals(t)'
<1>1. /\ pc' = [pc EXCEPT ![t] = "idle"] /\ elem' = [elem EXCEPT ![t] = Null]
      /\ before' = [before EXCEPT ![t] = Null] /\ after' = [after EXCEPT ![t] = Null]
      /\ reg' = [reg EXCEPT ![t] = 0] /\ data' = [data EXCEPT ![t] = Null]
  BY DEF Return, Goto
<1>2. /\ pc' \in [Threads -> Labels] /\ elem' \in [Threads -> Pointers]
      /\ before' \in [Threads -> Pointers] /\ after' \in [Threads -> Pointers]
      /\ reg' \in [Threads -> Int] /\ data' \in [Threads -> Messages \cup {Null}]
  BY <1>1, Places DEF TypeOK, Labels
<1>3. /\ pc'[t] = "idle" /\ elem'[t] = Null /\ before'[t] = Null /\ after'[t] = Null
      /\ \A u \in Threads \ {t} : /\ pc'[u] = pc[u] /\ elem'[u] = elem[u]
                                  /\ before'[u] = before[u] /\ after'[u] = after[u]
  BY <1>1 DEF TypeOK
<1>4. Locals(t)'
  BY <1>3, Places DEF Locals, Linking, Removing, Handed
<1>. QED  BY <1>2, <1>3, <1>4

(* t has followed a bad pointer. *)
LEMMA OopsKeepsRace ==
    ASSUME RaceInv, NEW t \in Threads, Oops(t)
    PROVE  RaceInv'
<1>1. Goto(t, "dead") /\ "dead" \in Labels /\ UNCHANGED <<next, prev, elem, before, after>>
  BY DEF Oops, fields, locals, Labels
<1>2. TypeOK'
  BY DEF Oops, Goto, fields, locals, RaceInv, TypeOK, Labels
<1>3. Locals(t)'
  <2>1. pc'[t] = "dead"
    BY DEF Oops, Goto, RaceInv, TypeOK
  <2>. QED  BY <1>1, <2>1 DEF RaceInv, Locals, Linking, Removing, Handed
<1>. QED  BY <1>1, <1>2, <1>3, LinksStay

(* The call's steps that store no link. *)
LEMMA LooksKeepRace ==
    ASSUME RaceInv, NEW t \in Threads,
           \/ CallWrite(t) \/ BufferFails(t) \/ CopyInFaults(t)
           \/ (\E m \in Messages : CopyIn(t, m)) \/ ReadTail(t) \/ AllocFails(t)
           \/ (\E e \in Nodes : Alloc(t, e)) \/ SetKey(t) \/ IncLoad(t) \/ IncStore(t)
           \/ CallRead(t) \/ ReadEmpty(t) \/ ReadFirst(t) \/ Guard(t) \/ GetNext(t)
           \/ GetPrev(t) \/ DecLoad(t) \/ DecStore(t) \/ CopyFaults(t)
    PROVE  RaceInv'
<1> USE DEF fields, locals, marks
<1>0. TypeOK /\ Locals(t) /\ SentinelsHold
  BY DEF RaceInv
<1>1. CASE CallWrite(t) \/ \E m \in Messages : CopyIn(t, m)
  <2>1. PICK label \in {"buffer", "tail"} : Goto(t, label)
    BY <1>1 DEF CallWrite, CopyIn, Enter
  <2>2. TypeOK'
    BY <1>0, <1>1 DEF CallWrite, CopyIn, Enter, Goto, TypeOK, Labels
  <2>3. pc'[t] = label /\ label \in Labels /\ UNCHANGED <<next, prev, elem, before, after>>
    BY <1>0, <1>1, <2>1 DEF CallWrite, CopyIn, Goto, TypeOK, Labels
  <2>4. Locals(t)'
    BY <1>0, <2>3 DEF Locals, Linking, Removing, Handed
  <2>. QED  BY <2>1, <2>2, <2>3, <2>4, LinksStay
<1>2. CASE ReadTail(t)
  <2>1. Goto(t, "alloc") /\ "alloc" \in Labels /\ UNCHANGED <<next, prev, elem, after>>
        /\ before' = [before EXCEPT ![t] = prev[Rear]]
    BY <1>2 DEF ReadTail, Labels
  <2>2. prev[Rear] \in Pointers /\ prev[Rear] # Rear
    BY <1>0, Places DEF TypeOK, SentinelsHold
  <2>3. TypeOK'
    BY <1>0, <1>2, <2>2 DEF ReadTail, Goto, TypeOK, Labels
  <2>4. pc'[t] = "alloc" /\ before'[t] = prev[Rear]
        /\ \A u \in Threads \ {t} : before'[u] = before[u]
    BY <1>0, <2>1 DEF Goto, TypeOK
  <2>5. Locals(t)'
    BY <1>0, <2>1, <2>2, <2>4 DEF Locals, Linking, Removing, Handed
  <2>. QED  BY <2>1, <2>3, <2>4, <2>5, LinksStay
<1>3. CASE BufferFails(t) \/ CopyInFaults(t) \/ AllocFails(t) \/ IncStore(t) \/ CopyFaults(t)
  <2>1. Return(t) /\ UNCHANGED <<next, prev, key, live, marks>>
    BY <1>3 DEF BufferFails, CopyInFaults, AllocFails, IncStore, CopyFaults
  <2>2. size' \in Int
    BY <1>0, <1>3 DEF BufferFails, CopyInFaults, AllocFails, IncStore, CopyFaults, TypeOK
  <2>3. TypeOK'
    BY <1>0, <2>1, <2>2, ReturnLocals DEF TypeOK
  <2>4. Goto(t, "idle") /\ "idle" \in Labels
    BY <2>1 DEF Return, Labels
  <2>. QED  BY <1>0, <2>1, <2>3, <2>4, ReturnLocals, LinksStay
<1>4. CASE \E e \in Nodes : Alloc(t, e)
  <2>1. PICK e \in Nodes : Alloc(t, e)
    BY <1>4
  <2>2. Goto(t, "check") /\ "check" \in Labels /\ UNCHANGED <<next, prev, before, after>>
        /\ elem' = [elem EXCEPT ![t] = e]
    BY <2>1 DEF Alloc, Labels
  <2>3. TypeOK'
    BY <1>0, <2>1, Places DEF Alloc, Goto, TypeOK, Labels
  <2>4. pc'[t] = "check" /\ elem'[t] = e
        /\ \A u \in Threads \ {t} : elem'[u] = elem[u]
    BY <1>0, <2>2 DEF Goto, TypeOK
  <2>5. Locals(t)'
    BY <1>0, <2>2, <2>4, Places DEF Locals, Linking, Removing, Handed
  <2>. QED  BY <2>2, <2>3, <2>4, <2>5, LinksStay
<1>5. CASE SetKey(t)
  <2>1. Goto(t, "link_b") /\ "link_b" \in Labels /\ pc[t] = "check"
        /\ UNCHANGED <<next, prev, elem, before, after>>
    BY <1>5 DEF SetKey, Labels
  <2>2. elem[t] \in Cells /\ data[t] \in Messages \cup {Null}
    BY <1>0, <2>1, Places DEF Locals, Linking, TypeOK
  <2>3. TypeOK'
    BY <1>0, <1>5, <2>2 DEF SetKey, Goto, TypeOK, Labels
  <2>4. pc'[t] = "link_b"
    BY <1>0, <2>1 DEF Goto, TypeOK
  <2>5. Locals(t)'
    BY <1>0, <2>1, <2>4 DEF Locals, Linking, Removing, Handed
  <2>. QED  BY <2>1, <2>3, <2>5, LinksStay
<1>6. CASE IncLoad(t) \/ DecLoad(t) \/ DecStore(t)
  <2>1. PICK label \in {"inc_store", "dec_store", "copy"} : Goto(t, label)
            /\ (label # "inc_store" => pc[t] \in Handed)
    BY <1>6 DEF IncLoad, DecLoad, DecStore, Handed
  <2>2. UNCHANGED <<next, prev, elem, before, after>> /\ label \in Labels
    BY <1>6 DEF IncLoad, DecLoad, DecStore, Labels
  <2>3. TypeOK'
    BY <1>0, <1>6 DEF IncLoad, DecLoad, DecStore, Goto, TypeOK, Labels
  <2>4. pc'[t] = label
    BY <1>0, <2>1 DEF Goto, TypeOK
  <2>5. Locals(t)'
    BY <1>0, <2>1, <2>2, <2>4 DEF Locals, Linking, Removing, Handed
  <2>. QED  BY <2>1, <2>2, <2>3, <2>5, LinksStay
<1>7. CASE CallRead(t)
  <2>1. Goto(t, "empty") /\ "empty" \in Labels /\ UNCHANGED <<next, prev, elem, before, after>>
    BY <1>7 DEF CallRead, Enter, Labels
  <2>2. TypeOK'
    BY <1>0, <1>7 DEF CallRead, Enter, Goto, TypeOK, Labels
  <2>3. pc'[t] = "empty"
    BY <1>0, <2>1 DEF Goto, TypeOK
  <2>4. Locals(t)'
    BY <1>0, <2>1, <2>3 DEF Locals, Linking, Removing, Handed
  <2>. QED  BY <2>1, <2>2, <2>4, LinksStay
<1>8. CASE ReadEmpty(t)
  <2>1. CASE size = 0
    <3>1. Return(t) /\ UNCHANGED <<next, prev, key, live, size, marks>>
      BY <1>8, <2>1 DEF ReadEmpty
    <3>2. TypeOK'
      BY <1>0, <3>1, ReturnLocals DEF TypeOK
    <3>3. Goto(t, "idle") /\ "idle" \in Labels
      BY <3>1 DEF Return, Labels
    <3>. QED  BY <1>0, <3>1, <3>2, <3>3, ReturnLocals, LinksStay
  <2>2. CASE size # 0
    <3>1. Goto(t, "first") /\ "first" \in Labels
          /\ UNCHANGED <<next, prev, elem, before, after>>
      BY <1>8, <2>2 DEF ReadEmpty, Labels
    <3>2. TypeOK'
      BY <1>0, <1>8, <2>2 DEF ReadEmpty, Goto, TypeOK, Labels
    <3>3. pc'[t] = "first"
      BY <1>0, <3>1 DEF Goto, TypeOK
    <3>4. Locals(t)'
      BY <1>0, <3>1, <3>3 DEF Locals, Linking, Removing, Handed
    <3>. QED  BY <3>1, <3>2, <3>4, LinksStay
  <2>. QED  BY <2>1, <2>2
<1>9. CASE ReadFirst(t)
  <2>1. Goto(t, "guard") /\ "guard" \in Labels /\ UNCHANGED <<next, prev, before, after>>
        /\ elem' = [elem EXCEPT ![t] = next[Front]]
    BY <1>9 DEF ReadFirst, Labels
  <2>2. next[Front] \in Pointers /\ next[Front] # Front
    BY <1>0, Places DEF TypeOK, SentinelsHold
  <2>3. TypeOK'
    BY <1>0, <1>9, <2>2 DEF ReadFirst, Goto, TypeOK, Labels
  <2>4. pc'[t] = "guard" /\ elem'[t] = next[Front]
        /\ \A u \in Threads \ {t} : elem'[u] = elem[u]
    BY <1>0, <2>1 DEF Goto, TypeOK
  <2>5. Locals(t)'
    BY <1>0, <2>1, <2>2, <2>4 DEF Locals, Linking, Removing, Handed
  <2>. QED  BY <2>1, <2>3, <2>4, <2>5, LinksStay
<1>10. CASE Guard(t)
  <2>1. CASE elem[t] \in {Front, Rear} \/ size = 0
    BY <1>10, <2>1, OopsKeepsRace DEF Guard
  <2>2. CASE ~(elem[t] \in {Front, Rear} \/ size = 0)
    <3>1. Goto(t, "get_n") /\ "get_n" \in Labels /\ elem[t] # Rear
          /\ UNCHANGED <<next, prev, elem, before, after>>
      BY <1>10, <2>2 DEF Guard, Labels
    <3>2. TypeOK'
      BY <1>0, <1>10, <2>2 DEF Guard, Goto, TypeOK, Labels
    <3>3. pc'[t] = "get_n"
      BY <1>0, <3>1 DEF Goto, TypeOK
    <3>4. Locals(t)'
      BY <1>0, <3>1, <3>3 DEF Locals, Linking, Removing, Handed
    <3>. QED  BY <3>1, <3>2, <3>4, LinksStay
  <2>. QED  BY <2>1, <2>2
<1>11. CASE GetNext(t)
  <2>1. CASE ~Valid(elem[t])
    BY <1>11, <2>1, OopsKeepsRace DEF GetNext
  <2>2. CASE Valid(elem[t])
    <3>1. Goto(t, "get_p") /\ "get_p" \in Labels /\ pc[t] = "get_n"
          /\ UNCHANGED <<next, prev, elem, before>>
          /\ after' = [after EXCEPT ![t] = next[elem[t]]]
      BY <1>11, <2>2 DEF GetNext, Labels
    <3>2. elem[t] \in Cells
      BY <1>0, <2>2, Places DEF Valid, TypeOK
    <3>3. next[elem[t]] \in Pointers /\ next[elem[t]] # Front
      BY <1>0, <3>2 DEF TypeOK, SentinelsHold
    <3>4. TypeOK'
      BY <1>0, <1>11, <2>2, <3>3 DEF GetNext, Goto, TypeOK, Labels
    <3>5. pc'[t] = "get_p" /\ after'[t] = next[elem[t]]
          /\ \A u \in Threads \ {t} : after'[u] = after[u]
      BY <1>0, <3>1 DEF Goto, TypeOK
    <3>6. Locals(t)'
      BY <1>0, <3>1, <3>3, <3>5 DEF Locals, Linking, Removing, Handed
    <3>. QED  BY <3>1, <3>4, <3>5, <3>6, LinksStay
  <2>. QED  BY <2>1, <2>2
<1>12. CASE GetPrev(t)
  <2>1. CASE ~Valid(elem[t])
    BY <1>12, <2>1, OopsKeepsRace DEF GetPrev
  <2>2. CASE Valid(elem[t])
    <3>1. Goto(t, "unlink_n") /\ "unlink_n" \in Labels /\ pc[t] = "get_p"
          /\ UNCHANGED <<next, prev, elem, after>>
          /\ before' = [before EXCEPT ![t] = prev[elem[t]]]
      BY <1>12, <2>2 DEF GetPrev, Labels
    <3>2. elem[t] \in Cells
      BY <1>0, <2>2, Places DEF Valid, TypeOK
    <3>3. prev[elem[t]] \in Pointers /\ prev[elem[t]] # Rear
      BY <1>0, <3>2 DEF TypeOK, SentinelsHold
    <3>4. TypeOK'
      BY <1>0, <1>12, <2>2, <3>3 DEF GetPrev, Goto, TypeOK, Labels
    <3>5. pc'[t] = "unlink_n" /\ before'[t] = prev[elem[t]]
          /\ \A u \in Threads \ {t} : before'[u] = before[u]
      BY <1>0, <3>1 DEF Goto, TypeOK
    <3>6. Locals(t)'
      BY <1>0, <3>1, <3>3, <3>5 DEF Locals, Linking, Removing, Handed
    <3>. QED  BY <3>1, <3>4, <3>5, <3>6, LinksStay
  <2>. QED  BY <2>1, <2>2
<1>. QED  BY <1>1, <1>2, <1>3, <1>4, <1>5, <1>6, <1>7, <1>8, <1>9, <1>10, <1>11, <1>12

(* A call's step that stores a link and keeps the locals. *)
LEMMA StoreKept ==
    ASSUME RaceInv, NEW t \in Threads, NEW label \in Labels, Goto(t, label), TypeOK',
           UNCHANGED <<elem, before, after>>, Locals(t)',
           \A c \in Cells : next'[c] # Front /\ prev'[c] # Rear, next'[Rear] = Rear
    PROVE  RaceInv'
<1>1. ASSUME NEW u \in Threads PROVE Locals(u)'
  <2>1. CASE u = t
    BY <2>1
  <2>2. CASE u # t
    <3>1. pc'[u] = pc[u]
      BY <2>2 DEF Goto, RaceInv, TypeOK
    <3>. QED  BY <3>1 DEF RaceInv, Locals
  <2>. QED  BY <2>1, <2>2
<1>. QED  BY <1>1 DEF RaceInv, SentinelsHold

LEMMA FreeKeeps ==
    ASSUME TypeOK, SentinelsHold, NEW e \in Nodes, Free(e)
    PROVE  /\ next' \in [Cells -> Pointers] /\ prev' \in [Cells -> Pointers]
           /\ key' \in [Cells -> Messages \cup {Null}] /\ live' \in SUBSET Nodes
           /\ SentinelsHold'
<1>1. e \in Cells /\ e # Rear
  BY Places
<1>2. /\ next' \in [Cells -> Pointers] /\ prev' \in [Cells -> Pointers]
      /\ key' \in [Cells -> Messages \cup {Null}] /\ live' \in SUBSET Nodes
  BY <1>1, Places DEF Free, TypeOK
<1>3. \A c \in Cells : /\ next'[c] = IF c = e THEN Null ELSE next[c]
                       /\ prev'[c] = IF c = e THEN Null ELSE prev[c]
  BY <1>1 DEF Free, TypeOK
<1>. QED  BY <1>1, <1>2, <1>3, Places DEF SentinelsHold

(* t frees a node and is back in user space. *)
LEMMA FreesKeepRace ==
    ASSUME RaceInv, NEW t \in Threads, elem[t] \in Nodes, Free(elem[t]), Return(t),
           UNCHANGED <<size, marks>>
    PROVE  RaceInv'
<1> USE DEF marks
<1>1. TypeOK /\ SentinelsHold
  BY DEF RaceInv
<1>2. SentinelsHold'
  BY <1>1, FreeKeeps
<1>3. TypeOK'
  BY <1>1, FreeKeeps, ReturnLocals DEF TypeOK
<1>4. ASSUME NEW u \in Threads PROVE Locals(u)'
  <2>1. CASE u = t
    BY <1>1, <2>1, ReturnLocals
  <2>2. CASE u # t
    <3>1. /\ pc'[u] = pc[u] /\ elem'[u] = elem[u]
          /\ before'[u] = before[u] /\ after'[u] = after[u]
      BY <1>1, <2>2, ReturnLocals
    <3>. QED  BY <3>1 DEF RaceInv, Locals
  <2>. QED  BY <2>1, <2>2
<1>. QED  BY <1>2, <1>3, <1>4 DEF RaceInv

(* The call's steps that store one link or free a node. *)
LEMMA StoresKeepRace ==
    ASSUME RaceInv, NEW t \in Threads,
           \/ TailMoved(t) \/ LinkBefore(t) \/ LinkPrev(t) \/ LinkNext(t) \/ LinkRear(t)
           \/ UnlinkNext(t) \/ UnlinkPrev(t) \/ CopyOut(t)
    PROVE  RaceInv'
<1> USE DEF fields, locals, marks
<1>0. TypeOK /\ Locals(t) /\ SentinelsHold /\ \A e \in live \cup {Front, Rear} : e \in Cells
  BY Places DEF RaceInv, TypeOK
<1>1. CASE TailMoved(t)
  <2>1. elem[t] \in Nodes
    BY <1>0, <1>1 DEF TailMoved, Locals, Linking
  <2>. QED  BY <1>1, <2>1, FreesKeepRace DEF TailMoved
<1>2. CASE LinkBefore(t)
  <2>1. CASE ~Valid(before[t])
    BY <1>2, <2>1, OopsKeepsRace DEF LinkBefore
  <2>2. CASE Valid(before[t])
    <3>1. /\ pc[t] = "link_b" /\ Goto(t, "link_prev") /\ "link_prev" \in Labels
          /\ next' = [next EXCEPT ![before[t]] = elem[t]]
          /\ UNCHANGED <<prev, key, live, size, elem, before, after, reg, data, marks>>
      BY <1>2, <2>2 DEF LinkBefore, Labels
    <3>2. /\ before[t] \in Cells /\ before[t] # Rear /\ elem[t] # Front
          /\ elem[t] \in Pointers /\ elem[t] \in Nodes
      BY <1>0, <2>2, <3>1, Places DEF Valid, Locals, TypeOK, Linking
    <3>3. TypeOK'
      BY <1>0, <3>1, <3>2 DEF Goto, TypeOK
    <3>4. \A c \in Cells : next'[c] = IF c = before[t] THEN elem[t] ELSE next[c]
      BY <1>0, <3>1, <3>2 DEF TypeOK
    <3>5. pc'[t] = "link_prev"
      BY <1>0, <3>1 DEF Goto, TypeOK
    <3>6. Locals(t)'
      BY <1>0, <3>1, <3>2, <3>5 DEF Locals, Linking, Removing, Handed
    <3>. QED  BY <1>0, <3>1, <3>2, <3>3, <3>4, <3>6, Places, StoreKept DEF SentinelsHold
  <2>. QED  BY <2>1, <2>2
<1>3. CASE LinkPrev(t)
  <2>1. CASE ~Valid(elem[t])
    BY <1>3, <2>1, OopsKeepsRace DEF LinkPrev
  <2>2. CASE Valid(elem[t])
    <3>1. /\ pc[t] = "link_prev" /\ Goto(t, "link_next") /\ "link_next" \in Labels
          /\ prev' = [prev EXCEPT ![elem[t]] = before[t]]
          /\ UNCHANGED <<next, key, live, size, elem, before, after, reg, data, marks>>
      BY <1>3, <2>2 DEF LinkPrev, Labels
    <3>2. /\ before[t] \in Pointers /\ before[t] # Rear
          /\ elem[t] \in Cells /\ elem[t] \in Nodes
      BY <1>0, <3>1, Places DEF Locals, TypeOK, Linking
    <3>3. TypeOK'
      BY <1>0, <3>1, <3>2 DEF Goto, TypeOK
    <3>4. \A c \in Cells : prev'[c] = IF c = elem[t] THEN before[t] ELSE prev[c]
      BY <1>0, <3>1, <3>2 DEF TypeOK
    <3>5. pc'[t] = "link_next"
      BY <1>0, <3>1 DEF Goto, TypeOK
    <3>6. Locals(t)'
      BY <1>0, <3>1, <3>2, <3>5 DEF Locals, Linking, Removing, Handed
    <3>. QED  BY <1>0, <3>1, <3>2, <3>3, <3>4, <3>6, Places, StoreKept DEF SentinelsHold
  <2>. QED  BY <2>1, <2>2
<1>4. CASE LinkNext(t)
  <2>1. CASE ~Valid(elem[t])
    BY <1>4, <2>1, OopsKeepsRace DEF LinkNext
  <2>2. CASE Valid(elem[t])
    <3>1. /\ pc[t] = "link_next" /\ Goto(t, "link_n") /\ "link_n" \in Labels
          /\ next' = [next EXCEPT ![elem[t]] = Rear]
          /\ UNCHANGED <<prev, key, live, size, elem, before, after, reg, data, marks>>
      BY <1>4, <2>2 DEF LinkNext, Labels
    <3>2. elem[t] \in Cells /\ elem[t] \in Nodes /\ Rear \in Pointers
      BY <1>0, <3>1, Places DEF Locals, TypeOK, Linking
    <3>3. TypeOK'
      BY <1>0, <3>1, <3>2 DEF Goto, TypeOK
    <3>4. \A c \in Cells : next'[c] = IF c = elem[t] THEN Rear ELSE next[c]
      BY <1>0, <3>1, <3>2 DEF TypeOK
    <3>5. pc'[t] = "link_n"
      BY <1>0, <3>1 DEF Goto, TypeOK
    <3>6. Locals(t)'
      BY <1>0, <3>1, <3>2, <3>5 DEF Locals, Linking, Removing, Handed
    <3>. QED  BY <1>0, <3>1, <3>2, <3>3, <3>4, <3>6, Places, StoreKept DEF SentinelsHold
  <2>. QED  BY <2>1, <2>2
<1>5. CASE LinkRear(t)
  <2>1. /\ pc[t] = "link_n" /\ Goto(t, "inc") /\ "inc" \in Labels
        /\ prev' = [prev EXCEPT ![Rear] = elem[t]]
        /\ UNCHANGED <<next, key, live, size, elem, before, after, reg, data, marks>>
    BY <1>5 DEF LinkRear, Labels
  <2>2. elem[t] \in Pointers /\ elem[t] # Rear /\ Rear \in Cells
    BY <1>0, <2>1, Places DEF Locals, TypeOK, Linking
  <2>3. TypeOK'
    BY <1>0, <2>1, <2>2 DEF Goto, TypeOK
  <2>4. \A c \in Cells : prev'[c] = IF c = Rear THEN elem[t] ELSE prev[c]
    BY <1>0, <2>1, <2>2 DEF TypeOK
  <2>5. pc'[t] = "inc"
    BY <1>0, <2>1 DEF Goto, TypeOK
  <2>6. Locals(t)'
    BY <1>0, <2>1, <2>2, <2>5 DEF Locals, Linking, Removing, Handed
  <2>. QED  BY <1>0, <2>1, <2>2, <2>3, <2>4, <2>6, Places, StoreKept DEF SentinelsHold
<1>6. CASE UnlinkNext(t)
  <2>1. CASE ~Valid(after[t])
    BY <1>6, <2>1, OopsKeepsRace DEF UnlinkNext
  <2>2. CASE Valid(after[t])
    <3>1. /\ pc[t] = "unlink_n" /\ Goto(t, "unlink_p") /\ "unlink_p" \in Labels
          /\ prev' = [prev EXCEPT ![after[t]] = before[t]]
          /\ UNCHANGED <<next, key, live, size, elem, before, after, reg, data, marks>>
      BY <1>6, <2>2 DEF UnlinkNext, Labels
    <3>2. /\ before[t] \in Pointers /\ before[t] # Rear /\ after[t] \in Cells
          /\ elem[t] # Rear
      BY <1>0, <2>2, <3>1, Places DEF Valid, Locals, TypeOK, Removing
    <3>3. TypeOK'
      BY <1>0, <3>1, <3>2 DEF Goto, TypeOK
    <3>4. \A c \in Cells : prev'[c] = IF c = after[t] THEN before[t] ELSE prev[c]
      BY <1>0, <3>1, <3>2 DEF TypeOK
    <3>5. pc'[t] = "unlink_p"
      BY <1>0, <3>1 DEF Goto, TypeOK
    <3>6. Locals(t)'
      BY <1>0, <3>1, <3>2, <3>5 DEF Locals, Linking, Removing, Handed
    <3>. QED  BY <1>0, <3>1, <3>2, <3>3, <3>4, <3>6, Places, StoreKept DEF SentinelsHold
  <2>. QED  BY <2>1, <2>2
<1>7. CASE UnlinkPrev(t)
  <2>1. CASE ~Valid(before[t])
    BY <1>7, <2>1, OopsKeepsRace DEF UnlinkPrev
  <2>2. CASE Valid(before[t])
    <3>1. /\ pc[t] = "unlink_p" /\ Goto(t, "dec") /\ "dec" \in Labels
          /\ next' = [next EXCEPT ![before[t]] = after[t]]
          /\ UNCHANGED <<prev, key, live, size, elem, before, after, reg, data, marks>>
      BY <1>7, <2>2 DEF UnlinkPrev, Labels
    <3>2. /\ before[t] \in Cells /\ before[t] # Rear
          /\ after[t] \in Pointers /\ after[t] # Front /\ elem[t] # Rear
      BY <1>0, <2>2, <3>1, Places DEF Valid, Locals, TypeOK, Removing
    <3>3. TypeOK'
      BY <1>0, <3>1, <3>2 DEF Goto, TypeOK
    <3>4. \A c \in Cells : next'[c] = IF c = before[t] THEN after[t] ELSE next[c]
      BY <1>0, <3>1, <3>2 DEF TypeOK
    <3>5. pc'[t] = "dec"
      BY <1>0, <3>1 DEF Goto, TypeOK
    <3>6. Locals(t)'
      BY <1>0, <3>1, <3>2, <3>5 DEF Locals, Linking, Removing, Handed
    <3>. QED  BY <1>0, <3>1, <3>2, <3>3, <3>4, <3>6, Places, StoreKept DEF SentinelsHold
  <2>. QED  BY <2>1, <2>2
<1>8. CASE CopyOut(t)
  <2>1. CASE ~Valid(elem[t])
    BY <1>8, <2>1, OopsKeepsRace DEF CopyOut
  <2>2. CASE Valid(elem[t])
    <3>1. elem[t] \in Nodes
      BY <1>0, <1>8, <2>2 DEF CopyOut, Valid, Locals, Handed, RaceInv, TypeOK
    <3>. QED  BY <1>8, <2>2, <3>1, FreesKeepRace DEF CopyOut
  <2>. QED  BY <2>1, <2>2
<1>. QED  BY <1>1, <1>2, <1>3, <1>4, <1>5, <1>6, <1>7, <1>8

(* Unloading and loading again. *)
LEMMA ReloadKeepsRace ==
    ASSUME RaceInv, Rmmod \/ Insmod
    PROVE  RaceInv'
<1>0. TypeOK /\ SentinelsHold
  BY DEF RaceInv
<1>1. UNCHANGED <<elem, before, after, reg, data, pc, overlap, broken>> /\ loaded' \in BOOLEAN
  BY DEF Rmmod, Insmod, locals
<1>2. CASE Rmmod /\ FreesAll
  <2>1. live' \in SUBSET Nodes
    <3>1. live' = live \/ live' = live \ Queue
      BY <1>2 DEF FreesAll
    <3>. QED  BY <1>0, <3>1 DEF TypeOK
  <2>2. Rear \notin live' /\ Front \notin live'
    BY <2>1, Places
  <2>3. /\ \A c \in Cells : /\ EmptyNext[c] \in {Rear, Null} /\ EmptyPrev[c] \in {Front, Null}
        /\ EmptyNext[Rear] = Rear
    BY Places DEF EmptyNext, EmptyPrev
  <2>4. /\ next' = [c \in Cells |-> IF c \in live' THEN next[c] ELSE EmptyNext[c]]
        /\ prev' = [c \in Cells |-> IF c \in live' THEN prev[c] ELSE EmptyPrev[c]]
        /\ key' = [c \in Cells |-> IF c \in live' THEN key[c] ELSE Null]
        /\ size' = 0 /\ fault' = fault
    BY <1>2 DEF FreesAll
  <2>5. /\ next' \in [Cells -> Pointers] /\ prev' \in [Cells -> Pointers]
        /\ key' \in [Cells -> Messages \cup {Null}]
    BY <1>0, <2>3, <2>4, Places DEF TypeOK
  <2>6. \A c \in Cells : next'[c] # Front /\ prev'[c] # Rear
    BY <1>0, <2>3, <2>4, Places DEF SentinelsHold
  <2>7. next'[Rear] = Rear
    BY <2>2, <2>3, <2>4, Places
  <2>8. TypeOK'
    BY <1>0, <1>1, <2>1, <2>4, <2>5 DEF TypeOK
  <2>. QED  BY <1>1, <2>6, <2>7, <2>8 DEF RaceInv, SentinelsHold, Locals
<1>3. CASE Rmmod /\ FreesFirst
  <2>1. fault' = TRUE /\ size' = size
    BY <1>3 DEF FreesFirst
  <2>2. CASE next[Front] \in live
    <3>1. next[Front] \in Nodes /\ Free(next[Front])
      BY <1>0, <1>3, <2>2 DEF FreesFirst, TypeOK
    <3>2. TypeOK' /\ SentinelsHold'
      BY <1>0, <1>1, <2>1, <3>1, FreeKeeps DEF TypeOK
    <3>. QED  BY <1>1, <3>2 DEF RaceInv, Locals
  <2>3. CASE next[Front] \notin live
    <3>1. UNCHANGED <<next, prev, key, live>>
      BY <1>3, <2>3 DEF FreesFirst
    <3>2. TypeOK' /\ SentinelsHold'
      BY <1>0, <1>1, <2>1, <3>1 DEF TypeOK, SentinelsHold
    <3>. QED  BY <1>1, <3>2 DEF RaceInv, Locals
  <2>. QED  BY <2>2, <2>3
<1>4. CASE Insmod
  <2>1. /\ next' = [c \in Cells |-> IF c \in {Front, Rear} THEN Rear ELSE next[c]]
        /\ prev' = [prev EXCEPT ![Rear] = Front] /\ size' = 0
        /\ UNCHANGED <<key, live, fault>>
    BY <1>4 DEF Insmod
  <2>2. TypeOK'
    BY <1>0, <1>1, <2>1, Places DEF TypeOK
  <2>3. \A c \in Cells : prev'[c] = IF c = Rear THEN Front ELSE prev[c]
    BY <1>0, <2>1 DEF TypeOK
  <2>4. SentinelsHold'
    BY <1>0, <2>1, <2>3, Places DEF SentinelsHold
  <2>. QED  BY <1>1, <2>2, <2>4 DEF RaceInv, Locals
<1>. QED  BY <1>2, <1>3, <1>4 DEF Rmmod

(* Memory of others overwritten, or a load that never ends. *)
Breaks == broken' = TRUE /\ UNCHANGED <<fields, locals, pc, fault, overlap, loaded>>

LEMMA Breaking ==
    /\ InsmodFails => Breaks
    /\ \A t \in Threads : CopyInOverruns(t) => Breaks
BY DEF InsmodFails, CopyInOverruns, Breaks

LEMMA BreaksKeepsRace == RaceInv /\ Breaks => RaceInv'
BY DEF Breaks, fields, locals, RaceInv, TypeOK, SentinelsHold, Locals

LEMMA RaceKept ==
    ASSUME RaceInv, [Next]_vars
    PROVE  RaceInv'
<1>1. CASE UNCHANGED vars
  BY <1>1 DEF vars, fields, locals, marks, RaceInv, TypeOK, SentinelsHold, Locals
<1>2. CASE Rmmod \/ Insmod \/ InsmodFails
  BY <1>2, ReloadKeepsRace, BreaksKeepsRace, Breaking
<1>3. ASSUME NEW t \in Threads, CallWrite(t) \/ CallRead(t) \/ Step(t)
      PROVE  RaceInv'
  BY <1>3, LooksKeepRace, StoresKeepRace, BreaksKeepsRace, Breaking DEF Step
<1>. QED  BY <1>1, <1>2, <1>3 DEF Next

THEOREM RaceInvariance == Spec => []RaceInv
<1>1. RaceInv /\ [Next]_vars => RaceInv'
  BY RaceKept
<1>. QED  BY <1>1, RaceInit, PTL DEF Spec

(* The driver's pointers, keys and places stay within their types, however *)
(* the calls of its clients interleave.                                    *)
THEOREM TypeCorrect == Spec => []TypeOK
BY RaceInvariance, PTL DEF RaceInv

(* However the calls interleave, no next leads to the front sentinel and   *)
(* no prev to the rear one, whatever nodes are freed meanwhile.            *)
THEOREM KeepsSentinels == Spec => []SentinelsHold
BY RaceInvariance, PTL DEF RaceInv

-----------------------------------------------------------------------------
(* Chains that grow at the rear and shrink at the front *)

LEMMA InCells ==
    ASSUME NEW s, IsOrder(s)
    PROVE  /\ Len(s) \in Nat
           /\ \A i \in 1 .. Len(s) : s[i] \in Nodes /\ s[i] \in Cells /\ s[i] # Front /\ s[i] # Rear
<1>1. Len(s) \in Nat /\ \A i \in 1 .. Len(s) : s[i] \in Nodes
  BY DEF IsOrder
<1>. QED  BY <1>1, Places

LEMMA Appended ==
    ASSUME NEW s, IsOrder(s), NEW e \in Nodes, Apart(e, s)
    PROVE  /\ IsOrder(Append(s, e)) /\ Len(Append(s, e)) = Len(s) + 1
           /\ \A i \in 1 .. Len(s) : Append(s, e)[i] = s[i]
           /\ Append(s, e)[Len(s) + 1] = e
<1> DEFINE r == Append(s, e)
<1>1. /\ s \in Seq(Nodes) /\ Len(s) \in Nat
      /\ \A i, j \in 1 .. Len(s) : s[i] = s[j] => i = j
  BY DEF IsOrder
<1>2. /\ r \in Seq(Nodes) /\ Len(r) = Len(s) + 1 /\ r[Len(s) + 1] = e
      /\ \A i \in 1 .. Len(s) : r[i] = s[i]
  BY <1>1
<1> HIDE DEF r
<1>3. ASSUME NEW i \in 1 .. Len(r), NEW j \in 1 .. Len(r), r[i] = r[j] PROVE i = j
  <2>1. (i \in 1 .. Len(s) \/ i = Len(s) + 1) /\ (j \in 1 .. Len(s) \/ j = Len(s) + 1)
    BY <1>1, <1>2
  <2>. QED  BY <1>1, <1>2, <1>3, <2>1 DEF Apart
<1>. QED  BY <1>2, <1>3 DEF IsOrder, r

LEMMA TailOf ==
    ASSUME NEW s, IsOrder(s), Len(s) > 0
    PROVE  /\ IsOrder(Tail(s)) /\ Len(Tail(s)) = Len(s) - 1 /\ Len(s) - 1 \in Nat
           /\ \A i \in 1 .. Len(s) - 1 : Tail(s)[i] = s[i + 1] /\ i + 1 \in 1 .. Len(s)
           /\ Apart(s[1], Tail(s)) /\ 1 \in 1 .. Len(s)
<1> DEFINE r == Tail(s)
<1>1. /\ s \in Seq(Nodes) /\ Len(s) \in Nat /\ s # <<>>
      /\ \A i, j \in 1 .. Len(s) : s[i] = s[j] => i = j
  BY DEF IsOrder
<1>2. /\ r \in Seq(Nodes) /\ Len(r) = Len(s) - 1 /\ Len(s) - 1 \in Nat
      /\ \A i \in 1 .. Len(s) - 1 : r[i] = s[i + 1] /\ i + 1 \in 1 .. Len(s)
  BY <1>1
<1> HIDE DEF r
<1>3. ASSUME NEW i \in 1 .. Len(r), NEW j \in 1 .. Len(r), r[i] = r[j] PROVE i = j
  <2>1. i + 1 = j + 1
    BY <1>1, <1>2, <1>3
  <2>. QED  BY <1>2, <2>1
<1>4. Apart(s[1], r)
  <2>1. ASSUME NEW i \in 1 .. Len(r), r[i] = s[1] PROVE FALSE
    <3>1. s[i + 1] = s[1] /\ i + 1 \in 1 .. Len(s) /\ 1 \in 1 .. Len(s)
      BY <1>1, <1>2, <2>1
    <3>2. i + 1 = 1
      BY <1>1, <3>1
    <3>. QED  BY <1>2, <3>2
  <2>. QED  BY <2>1 DEF Apart
<1>5. 1 \in 1 .. Len(s)
  BY <1>1
<1>. QED  BY <1>2, <1>3, <1>4, <1>5 DEF IsOrder, r

LEMMA ConsTail ==
    ASSUME NEW s, IsOrder(s), Len(s) > 0
    PROVE  <<s[1]>> \o Tail(s) = s
BY DEF IsOrder

LEMMA ConsOf ==
    ASSUME NEW s, IsOrder(s), NEW e \in Nodes
    PROVE  /\ Len(<<e>> \o s) = Len(s) + 1 /\ (<<e>> \o s)[1] = e
           /\ \A i \in 1 .. Len(s) : (<<e>> \o s)[i + 1] = s[i]
BY DEF IsOrder

(* What the two stores at the end of next make of it: the element behind   *)
(* b, the rear behind the element.                                         *)
LinkedBehind(to, link, b, e) ==
    \A c \in Cells : to[c] = IF c = e THEN Rear ELSE IF c = b THEN e ELSE link[c]

IsLast(b, s) == b = (IF Len(s) = 0 THEN Front ELSE s[Len(s)])

(* b->next = element: behind that and the one store to come next carries   *)
(* the longer list.                                                        *)
LEMMA ForthAppended ==
    ASSUME NEW link, NEW to, NEW s, IsOrder(s), NEW e \in Nodes, Apart(e, s),
           Forth(link, s), NEW b, IsLast(b, s), LinkedBehind(to, link, b, e)
    PROVE  Forth(to, Append(s, e))
<1>0. /\ b = IF Len(s) = 0 THEN Front ELSE s[Len(s)]
      /\ \A c \in Cells : to[c] = IF c = e THEN Rear ELSE IF c = b THEN e ELSE link[c]
  BY DEF IsLast, LinkedBehind
<1> DEFINE r == Append(s, e)
<1>1. /\ IsOrder(r) /\ Len(r) = Len(s) + 1 /\ r[Len(s) + 1] = e
      /\ \A i \in 1 .. Len(s) : r[i] = s[i]
  BY Appended
<1> HIDE DEF r
<1>2. /\ Len(s) \in Nat /\ e \in Cells /\ Front \in Cells /\ e # Front
      /\ \A i \in 1 .. Len(s) : s[i] \in Cells /\ s[i] # Front /\ s[i] # e
  BY InCells, Places DEF Apart
<1>3. /\ link[Front] = IF Len(s) = 0 THEN Rear ELSE s[1]
      /\ \A i \in 1 .. Len(s) : link[s[i]] = IF i = Len(s) THEN Rear ELSE s[i + 1]
  BY DEF Forth, Chain
<1>4. to[Front] = IF Len(r) = 0 THEN Rear ELSE r[1]
  <2>1. CASE Len(s) = 0
    <3>1. to[Front] = e /\ r[1] = e /\ Len(r) # 0
      BY <1>0, <1>1, <1>2, <2>1
    <3>. QED  BY <3>1
  <2>2. CASE Len(s) # 0
    <3>1. Len(s) \in 1 .. Len(s) /\ 1 \in 1 .. Len(s)
      BY <1>2, <2>2
    <3>2. b # Front
      BY <1>0, <1>2, <2>2, <3>1
    <3>3. to[Front] = link[Front] /\ r[1] = s[1] /\ Len(r) # 0
      BY <1>0, <1>1, <1>2, <2>2, <3>1, <3>2
    <3>. QED  BY <1>3, <2>2, <3>3
  <2>. QED  BY <2>1, <2>2
<1>5. ASSUME NEW i \in 1 .. Len(r)
      PROVE  to[r[i]] = IF i = Len(r) THEN Rear ELSE r[i + 1]
  <2>1. CASE i = Len(s) + 1
    BY <1>0, <1>1, <1>2, <2>1
  <2>2. CASE i = Len(s)
    <3>1. i \in 1 .. Len(s) /\ i # Len(r) /\ Len(s) # 0
      BY <1>1, <1>2, <2>2
    <3>2. r[i] = b /\ r[i + 1] = e /\ b # e /\ b \in Cells
      BY <1>0, <1>1, <1>2, <2>2, <3>1
    <3>. QED  BY <1>0, <3>1, <3>2
  <2>3. CASE i # Len(s) + 1 /\ i # Len(s)
    <3>1. /\ i \in 1 .. Len(s) /\ i + 1 \in 1 .. Len(s) /\ i # Len(r)
          /\ Len(s) \in 1 .. Len(s) /\ Len(s) # 0
      BY <1>1, <1>2, <2>3
    <3>2. r[i] = s[i] /\ r[i + 1] = s[i + 1] /\ s[i] # b
      BY <1>0, <1>1, <2>3, <3>1 DEF IsOrder
    <3>3. to[s[i]] = link[s[i]]
      BY <1>0, <1>2, <3>1, <3>2
    <3>. QED  BY <1>3, <2>3, <3>1, <3>2, <3>3
  <2>. QED  BY <2>1, <2>2, <2>3
<1>. QED  BY <1>4, <1>5 DEF Forth, Chain, r

(* p->next = n, with p the front. *)
LEMMA ForthRemoved ==
    ASSUME NEW link, NEW to, NEW s, IsOrder(s), NEW e \in Nodes, Forth(link, <<e>> \o s),
           \A c \in Cells : to[c] = IF c = Front THEN link[e] ELSE link[c]
    PROVE  Forth(to, s)
<1> DEFINE r == <<e>> \o s
<1>1. /\ Len(r) = Len(s) + 1 /\ r[1] = e /\ \A i \in 1 .. Len(s) : r[i + 1] = s[i]
  BY ConsOf
<1> HIDE DEF r
<1>2. /\ Len(s) \in Nat /\ Front \in Cells
      /\ \A i \in 1 .. Len(s) : s[i] \in Cells /\ s[i] # Front
  BY InCells, Places
<1>3. \A i \in 1 .. Len(r) : link[r[i]] = IF i = Len(r) THEN Rear ELSE r[i + 1]
  BY DEF Forth, Chain, r
<1>4. to[Front] = IF Len(s) = 0 THEN Rear ELSE s[1]
  <2>1. 1 \in 1 .. Len(r)
    BY <1>1, <1>2
  <2>2. to[Front] = IF 1 = Len(r) THEN Rear ELSE r[1 + 1]
    BY <1>1, <1>2, <1>3, <2>1
  <2>3. 1 = Len(r) <=> Len(s) = 0
    BY <1>1, <1>2
  <2>4. Len(s) # 0 => r[1 + 1] = s[1]
    BY <1>1, <1>2
  <2>. QED  BY <2>2, <2>3, <2>4
<1>5. ASSUME NEW i \in 1 .. Len(s)
      PROVE  to[s[i]] = IF i = Len(s) THEN Rear ELSE s[i + 1]
  <2>1. i + 1 \in 1 .. Len(r) /\ (i + 1 = Len(r) <=> i = Len(s))
    BY <1>1, <1>2
  <2>2. to[s[i]] = link[r[i + 1]]
    BY <1>1, <1>2
  <2>3. i # Len(s) => r[(i + 1) + 1] = s[i + 1]
    <3>1. i # Len(s) => i + 1 \in 1 .. Len(s)
      BY <1>2
    <3>. QED  BY <1>1, <3>1
  <2>. QED  BY <1>3, <2>1, <2>2, <2>3
<1>. QED  BY <1>4, <1>5 DEF Forth, Chain

LEMMA ForthSame ==
    ASSUME NEW link, NEW to, NEW s, Forth(link, s), to[Front] = link[Front],
           \A i \in 1 .. Len(s) : to[s[i]] = link[s[i]]
    PROVE  Forth(to, s)
BY DEF Forth, Chain

LEMMA BackSame ==
    ASSUME NEW link, NEW to, NEW s, NEW end, Back(link, s, end), to[Rear] = link[Rear],
           \A i \in 1 .. Len(s) : to[s[i]] = link[s[i]]
    PROVE  Back(to, s, end)
BY DEF Back

(* n->prev = element, with n the rear: the store that makes the list       *)
(* longer.                                                                 *)
LEMMA BackAppended ==
    ASSUME NEW link, NEW to, NEW s, IsOrder(s), NEW e \in Nodes, Apart(e, s),
           Back(link, s, Front), link[e] = link[Rear],
           \A c \in Cells : to[c] = IF c = Rear THEN e ELSE link[c]
    PROVE  Back(to, Append(s, e), Front)
<1> DEFINE r == Append(s, e)
<1>1. /\ Len(r) = Len(s) + 1 /\ r[Len(s) + 1] = e
      /\ \A i \in 1 .. Len(s) : r[i] = s[i]
  BY Appended
<1> HIDE DEF r
<1>2. /\ Len(s) \in Nat /\ e \in Cells /\ Rear \in Cells /\ e # Rear
      /\ \A i \in 1 .. Len(s) : s[i] \in Cells /\ s[i] # Rear
  BY InCells, Places
<1>3. to[Rear] = e /\ Len(r) # 0 /\ r[Len(r)] = e
  BY <1>1, <1>2
<1>4. ASSUME NEW i \in 1 .. Len(r) PROVE to[r[i]] = IF i = 1 THEN Front ELSE r[i - 1]
  <2>1. CASE i = Len(s) + 1
    <3>1. to[r[i]] = IF Len(s) = 0 THEN Front ELSE s[Len(s)]
      BY <1>1, <1>2, <2>1 DEF Back
    <3>2. Len(s) # 0 => r[i - 1] = s[Len(s)]
      BY <1>1, <1>2, <2>1
    <3>3. i = 1 <=> Len(s) = 0
      BY <1>2, <2>1
    <3>. QED  BY <3>1, <3>2, <3>3
  <2>2. CASE i # Len(s) + 1
    <3>1. i \in 1 .. Len(s) /\ (i # 1 => i - 1 \in 1 .. Len(s))
      BY <1>1, <1>2, <2>2
    <3>2. to[r[i]] = link[s[i]]
      BY <1>1, <1>2, <3>1
    <3>. QED  BY <1>1, <3>1, <3>2 DEF Back
  <2>. QED  BY <2>1, <2>2
<1>. QED  BY <1>3, <1>4 DEF Back, r

(* n->prev = p, with p the front: the store that makes the list shorter.   *)
LEMMA BackRemoved ==
    ASSUME NEW link, NEW to, NEW s, IsOrder(s), Len(s) > 0, Back(link, s, Front),
           NEW n, n = (IF Len(s) = 1 THEN Rear ELSE s[2]),
           \A c \in Cells : to[c] = IF c = n THEN Front ELSE link[c]
    PROVE  Back(to, Tail(s), Front)
<1> DEFINE r == Tail(s)
<1>1. /\ Len(r) = Len(s) - 1 /\ \A i \in 1 .. Len(s) - 1 : r[i] = s[i + 1] /\ i + 1 \in 1 .. Len(s)
  BY TailOf
<1> HIDE DEF r
<1>2. /\ Len(s) \in Nat /\ Rear \in Cells
      /\ \A i \in 1 .. Len(s) : s[i] \in Cells /\ s[i] # Rear
      /\ \A i, j \in 1 .. Len(s) : s[i] = s[j] => i = j
  BY InCells, Places DEF IsOrder
<1>3. to[Rear] = IF Len(r) = 0 THEN Front ELSE r[Len(r)]
  <2>1. CASE Len(s) = 1
    BY <1>1, <1>2, <2>1
  <2>2. CASE Len(s) # 1
    <3>1. Len(s) - 1 \in 1 .. Len(s) - 1 /\ 2 \in 1 .. Len(s) /\ Len(r) # 0 /\ Len(s) # 0
      BY <1>1, <1>2, <2>2
    <3>2. r[Len(r)] = s[(Len(s) - 1) + 1] /\ (Len(s) - 1) + 1 = Len(s)
      BY <1>1, <1>2, <3>1
    <3>3. to[Rear] = link[Rear]
      BY <1>2, <2>2, <3>1
    <3>. QED  BY <3>1, <3>2, <3>3 DEF Back
  <2>. QED  BY <2>1, <2>2
<1>4. ASSUME NEW i \in 1 .. Len(r) PROVE to[r[i]] = IF i = 1 THEN Front ELSE r[i - 1]
  <2>1. /\ i \in 1 .. Len(s) - 1 /\ i + 1 \in 1 .. Len(s) /\ r[i] = s[i + 1]
        /\ 2 \in 1 .. Len(s) /\ Len(s) # 1
    BY <1>1, <1>2
  <2>2. CASE i = 1
    BY <1>2, <2>1, <2>2
  <2>3. CASE i # 1
    <3>1. i - 1 \in 1 .. Len(s) - 1 /\ (i - 1) + 1 = i /\ (i + 1) - 1 = i /\ i + 1 # 2 /\ i + 1 # 1
      BY <1>1, <1>2, <2>1, <2>3
    <3>2. s[i + 1] # s[2]
      BY <1>2, <2>1, <3>1
    <3>3. to[s[i + 1]] = link[s[i + 1]]
      BY <1>2, <2>1, <3>2
    <3>4. link[s[i + 1]] = s[i] /\ r[i - 1] = s[i]
      BY <1>1, <2>1, <3>1 DEF Back
    <3>. QED  BY <2>1, <2>3, <3>3, <3>4
  <2>. QED  BY <2>2, <2>3
<1>. QED  BY <1>3, <1>4 DEF Back, r

LEMMA Mirrored ==
    ASSUME NEW n \in Nat, NEW i \in 1 .. n
    PROVE  /\ n + 1 - i = 1 <=> i = n
           /\ i # n => i + 1 \in 1 .. n /\ n + 1 - (i + 1) = (n + 1 - i) - 1
OBVIOUS

(* A walk from the rear meets s backwards. *)
LEMMA WalkBack ==
    ASSUME NEW link, NEW s, NEW end, end \notin Nodes, IsOrder(s), Back(link, s, end)
    PROVE  Walk(link, Rear) = Backwards(s) /\ Backwards(Backwards(s)) = s
<1> DEFINE r == Backwards(s)
<1>1. s \in [1 .. Len(s) -> Nodes] /\ Len(s) \in Nat /\ DOMAIN s = 1 .. Len(s)
  BY DEF IsOrder
<1>2. \A i \in 1 .. Len(s) : Len(s) + 1 - i \in 1 .. Len(s)
  BY <1>1
<1>3. r = [i \in 1 .. Len(s) |-> s[Len(s) + 1 - i]]
  BY <1>1 DEF Backwards
<1>4. r \in [1 .. Len(s) -> Nodes]
  BY <1>1, <1>2, <1>3
<1>5. \A i \in 1 .. Len(s) : r[i] = s[Len(s) + 1 - i]
  BY <1>3
<1> HIDE DEF r
<1>6. r \in Seq(Nodes) /\ DOMAIN r = 1 .. Len(s)
  BY <1>1, <1>4
<1>7. Len(r) = Len(s)
  BY <1>1, <1>6
<1>8. IsOrder(r)
  <2>1. ASSUME NEW i \in 1 .. Len(s), NEW j \in 1 .. Len(s), r[i] = r[j] PROVE i = j
    <3>1. Len(s) + 1 - i = Len(s) + 1 - j
      BY <1>2, <1>5, <2>1 DEF IsOrder
    <3>. QED  BY <1>1, <3>1
  <2>. QED  BY <1>6, <1>7, <2>1 DEF IsOrder
<1>9. Chain(link, Rear, r, end)
  <2>1. link[Rear] = IF Len(r) = 0 THEN end ELSE r[1]
    <3>1. Len(s) # 0 => r[1] = s[Len(s)]
      BY <1>1, <1>5
    <3>. QED  BY <1>7, <3>1 DEF Back
  <2>2. ASSUME NEW i \in 1 .. Len(r) PROVE link[r[i]] = IF i = Len(r) THEN end ELSE r[i + 1]
    <3>0. i \in 1 .. Len(s) /\ i \in Nat
      BY <1>1, <1>7
    <3>1. /\ i \in 1 .. Len(s) /\ Len(s) + 1 - i \in 1 .. Len(s)
          /\ Len(s) + 1 - i = 1 <=> i = Len(r)
      <4>1. Len(s) + 1 - i \in 1 .. Len(s)
        BY <1>2, <3>0
      <4>2. Len(s) + 1 - i = 1 <=> i = Len(s)
        BY <1>1, <3>0, Mirrored
      <4>. QED  BY <1>7, <3>0, <4>1, <4>2
    <3>2. link[r[i]] = IF Len(s) + 1 - i = 1 THEN end ELSE s[(Len(s) + 1 - i) - 1]
      BY <1>5, <3>1 DEF Back
    <3>3. i # Len(r) => r[i + 1] = s[(Len(s) + 1 - i) - 1]
      <4>1. SUFFICES ASSUME i # Len(r) PROVE r[i + 1] = s[(Len(s) + 1 - i) - 1]
        OBVIOUS
      <4>2. i # Len(s)
        BY <1>7, <4>1
      <4>3. i + 1 \in 1 .. Len(s) /\ Len(s) + 1 - (i + 1) = (Len(s) + 1 - i) - 1
        BY <1>1, <3>0, <4>2, Mirrored
      <4>. QED  BY <1>5, <4>3
    <3>. QED  BY <3>1, <3>2, <3>3
  <2>. QED  BY <2>1, <2>2 DEF Chain
<1>10. Walk(link, Rear) = r
  BY <1>8, <1>9, WalkIs
<1>11. Backwards(r) = s
  <2>1. Backwards(r) = [i \in 1 .. Len(s) |-> r[Len(s) + 1 - i]]
    BY <1>6, <1>7 DEF Backwards
  <2>2. ASSUME NEW i \in 1 .. Len(s) PROVE r[Len(s) + 1 - i] = s[i]
    <3>1. Len(s) + 1 - (Len(s) + 1 - i) = i
      BY <1>1
    <3>. QED  BY <1>2, <1>5, <3>1
  <2>3. s = [i \in 1 .. Len(s) |-> s[i]]
    BY <1>1
  <2>. QED  BY <2>1, <2>2, <2>3
<1>. QED  BY <1>10, <1>11 DEF r

-----------------------------------------------------------------------------
(* One call after the other: every step of a call keeps a shape *)

Alone(t) == \A u \in Threads \ {t} : pc[u] = "idle"

(* A moment of the call of t. *)
During(t, s) == /\ RaceInv /\ ~overlap /\ loaded /\ ~fault
                /\ Alone(t) /\ IsShape(s) /\ pc[t] # "idle"

LEMMA StaysAlone ==
    ASSUME TypeOK, NEW t \in Threads, Alone(t), NEW label, Goto(t, label)
    PROVE  pc'[t] = label /\ Alone(t)' /\ (label = "idle" => Quiet')
<1>1. pc'[t] = label /\ \A u \in Threads \ {t} : pc'[u] = pc[u]
  BY DEF Goto, TypeOK
<1>. QED  BY <1>1 DEF Alone, Quiet

LEMMA ShapeNow ==
    ASSUME NEW t \in Threads, Alone(t)', NEW s, IsOrder(s),
           \A i \in 1 .. Len(s) : s[i] \in live', Back(prev', s, Front),
           pc'[t] = "idle" => Forth(next', s) /\ size' = Len(s),
           pc'[t] # "idle" => Doing(t, s)'
    PROVE  IsShape(s)'
<1>1. Quiet' => pc'[t] = "idle"
  BY DEF Quiet
<1>2. \A u \in Threads : pc'[u] # "idle" => u = t
  BY DEF Alone
<1>. QED  BY <1>1, <1>2 DEF IsShape

(* What is known in the middle of a call. *)
LEMMA InCall ==
    ASSUME NEW t \in Threads, NEW s, During(t, s)
    PROVE  /\ TypeOK /\ SentinelsHold /\ Locals(t) /\ Alone(t) /\ ~fault
           /\ IsOrder(s) /\ (\A i \in 1 .. Len(s) : s[i] \in live) /\ Back(prev, s, Front)
           /\ Writing(t, s) /\ Reading(t, s) /\ NextFollows(t, s) /\ SizeFollows(t, s)
           /\ Len(s) \in Nat /\ pc[t] # "dead"
BY InCells DEF During, RaceInv, IsShape, Doing

(* t returns with the links and size as they should be. *)
LEMMA ReturnsShape ==
    ASSUME NEW t \in Threads, NEW s, During(t, s), Return(t),
           \A i \in 1 .. Len(s) : s[i] \in live', Back(prev', s, Front),
           Forth(next', s), size' = Len(s)
    PROVE  IsShape(s)'
<1>1. Alone(t)' /\ pc'[t] = "idle"
  BY InCall, StaysAlone DEF Return
<1>. QED  BY <1>1, InCall, ShapeNow

(* t moves on inside the call, the links as they are. *)
LEMMA MovesShape ==
    ASSUME NEW t \in Threads, NEW s, During(t, s), NEW label, Goto(t, label),
           label # "idle", UNCHANGED <<prev, live>>, Doing(t, s)'
    PROVE  IsShape(s)'
<1>1. Alone(t)' /\ pc'[t] = label
  BY InCall, StaysAlone
<1>. QED  BY <1>1, InCall, ShapeNow

(* The steps of between() but the one that makes the list longer. *)
LEMMA WriterShape ==
    ASSUME NEW t \in Threads, NEW s, During(t, s),
           \/ BufferFails(t) \/ CopyInFaults(t) \/ (\E m \in Messages : CopyIn(t, m))
           \/ ReadTail(t) \/ AllocFails(t) \/ (\E e \in Nodes : Alloc(t, e))
           \/ SetKey(t) \/ LinkBefore(t) \/ LinkPrev(t) \/ LinkNext(t)
           \/ IncLoad(t) \/ IncStore(t)
    PROVE  IsShape(s)' /\ ~fault'
<1> USE DEF fields, locals, marks
<1>0. /\ TypeOK /\ Locals(t) /\ ~fault /\ IsOrder(s) /\ Back(prev, s, Front)
      /\ Writing(t, s) /\ Reading(t, s) /\ NextFollows(t, s) /\ SizeFollows(t, s)
      /\ \A i \in 1 .. Len(s) : s[i] \in live
      /\ \A label : Goto(t, label) => pc'[t] = label
  BY InCall, StaysAlone
<1>1. CASE ReadTail(t)
  <2>1. /\ pc[t] = "tail" /\ Goto(t, "alloc") /\ pc'[t] = "alloc"
        /\ before' = [before EXCEPT ![t] = prev[Rear]]
        /\ UNCHANGED <<next, prev, key, live, size, elem, after, reg, data, fault>>
    BY <1>0, <1>1 DEF ReadTail
  <2>2. before'[t] = prev'[Rear]
    BY <1>0, <2>1 DEF TypeOK
  <2>3. Writing(t, s)' /\ Reading(t, s)'
    BY <1>0, <2>1, <2>2 DEF Writing, Reading, Linking, Handed
  <2>4. NextFollows(t, s)' /\ SizeFollows(t, s)'
    BY <1>0, <2>1 DEF NextFollows, SizeFollows
  <2>. QED  BY <1>0, <2>1, <2>3, <2>4, MovesShape DEF Doing
<1>2. CASE BufferFails(t) \/ CopyInFaults(t) \/ AllocFails(t)
  <2>1. /\ pc[t] \in {"buffer", "alloc"} /\ Return(t)
        /\ UNCHANGED <<next, prev, key, live, size, fault>>
    BY <1>2 DEF BufferFails, CopyInFaults, AllocFails
  <2>2. Forth(next, s) /\ size = Len(s)
    BY <1>0, <2>1 DEF NextFollows, SizeFollows
  <2>. QED  BY <1>0, <2>1, <2>2, ReturnsShape
<1>3. CASE \E e \in Nodes : Alloc(t, e)
  <2>1. PICK e \in Nodes : Alloc(t, e)
    BY <1>3
  <2>2. /\ pc[t] = "alloc" /\ Goto(t, "check") /\ pc'[t] = "check" /\ e \notin live
        /\ elem' = [elem EXCEPT ![t] = e] /\ live' = live \cup {e}
        /\ UNCHANGED <<next, prev, key, size, before, after, reg, data, fault>>
    BY <1>0, <2>1 DEF Alloc
  <2>3. elem'[t] = e /\ Apart(e, s) /\ e \in live'
    BY <1>0, <2>2 DEF TypeOK, Apart
  <2>4. Writing(t, s)' /\ Reading(t, s)'
    BY <1>0, <2>2, <2>3 DEF Writing, Reading, Linking, Handed
  <2>5. NextFollows(t, s)' /\ SizeFollows(t, s)'
    BY <1>0, <2>2 DEF NextFollows, SizeFollows
  <2>6. Alone(t)' /\ \A i \in 1 .. Len(s) : s[i] \in live'
    BY <1>0, <2>2, StaysAlone, InCall
  <2>. QED  BY <1>0, <2>2, <2>4, <2>5, <2>6, ShapeNow DEF Doing
<1>4. CASE SetKey(t)
  <2>1. /\ pc[t] = "check" /\ Goto(t, "link_b") /\ pc'[t] = "link_b"
        /\ key' = [key EXCEPT ![elem[t]] = data[t]]
        /\ UNCHANGED <<next, prev, live, size, elem, before, after, reg, data, fault>>
    BY <1>0, <1>4 DEF SetKey
  <2>2. key'[elem[t]] = data[t]
    BY <1>0, <2>1, Places DEF TypeOK, Locals, Linking
  <2>3. Writing(t, s)' /\ Reading(t, s)'
    BY <1>0, <2>1, <2>2 DEF Writing, Reading, Linking, Handed
  <2>4. NextFollows(t, s)' /\ SizeFollows(t, s)'
    BY <1>0, <2>1 DEF NextFollows, SizeFollows
  <2>. QED  BY <1>0, <2>1, <2>3, <2>4, MovesShape DEF Doing
<1>5. CASE LinkBefore(t)
  <2>1. pc[t] = "link_b" /\ before[t] = prev[Rear] /\ elem[t] \in Nodes /\ Apart(elem[t], s)
    BY <1>0, <1>5 DEF LinkBefore, Writing, Linking, Locals
  <2>2. before[t] = IF Len(s) = 0 THEN Front ELSE s[Len(s)]
    BY <1>0, <2>1 DEF Back
  <2>3. Valid(before[t]) /\ before[t] \in Cells
    <3>1. Len(s) # 0 => Len(s) \in 1 .. Len(s)
      BY <1>0, InCells
    <3>. QED  BY <1>0, <2>2, <3>1, InCells, Places DEF Valid
  <2>4. /\ Goto(t, "link_prev") /\ pc'[t] = "link_prev"
        /\ next' = [next EXCEPT ![before[t]] = elem[t]]
        /\ UNCHANGED <<prev, key, live, size, elem, before, after, reg, data, fault>>
    BY <1>0, <1>5, <2>3 DEF LinkBefore
  <2>5. Writing(t, s)' /\ Reading(t, s)'
    BY <1>0, <2>1, <2>4 DEF Writing, Reading, Linking, Handed
  <2>6. Forth(next, s) /\ SizeFollows(t, s)'
    BY <1>0, <2>1, <2>4 DEF NextFollows, SizeFollows
  <2>7. \A c \in Cells : [next' EXCEPT ![elem[t]] = Rear][c]
                           = IF c = elem[t] THEN Rear
                             ELSE IF c = before[t] THEN elem[t] ELSE next[c]
    BY <1>0, <2>1, <2>3, <2>4, Places DEF TypeOK
  <2>8. Forth([next' EXCEPT ![elem[t]] = Rear], Append(s, elem[t]))
    <3>1. PICK to, e, b : to = [next' EXCEPT ![elem[t]] = Rear] /\ e = elem[t] /\ b = before[t]
      OBVIOUS
    <3>2. /\ e \in Nodes /\ Apart(e, s) /\ Forth(next, s)
          /\ IsLast(b, s) /\ LinkedBehind(to, next, b, e)
      BY <2>1, <2>2, <2>6, <2>7, <3>1 DEF IsLast, LinkedBehind
    <3>3. Forth(to, Append(s, e))
      BY <1>0, <3>2, ForthAppended
    <3>. QED  BY <3>1, <3>3
  <2>9. NextFollows(t, s)'
    BY <2>4, <2>8 DEF NextFollows
  <2>. QED  BY <1>0, <2>4, <2>5, <2>6, <2>9, MovesShape DEF Doing
<1>6. CASE LinkPrev(t)
  <2>1. /\ pc[t] = "link_prev" /\ elem[t] \in Nodes /\ elem[t] \in live /\ Apart(elem[t], s)
        /\ before[t] = prev[Rear]
    BY <1>0, <1>6 DEF LinkPrev, Writing, Linking, Locals
  <2>2. /\ Goto(t, "link_next") /\ pc'[t] = "link_next"
        /\ prev' = [prev EXCEPT ![elem[t]] = before[t]]
        /\ UNCHANGED <<next, key, live, size, elem, before, after, reg, data, fault>>
    BY <1>0, <1>6, <2>1 DEF LinkPrev, Valid
  <2>3. \A c \in Cells : prev'[c] = IF c = elem[t] THEN before[t] ELSE prev[c]
    BY <1>0, <2>2 DEF TypeOK
  <2>4. prev'[elem[t]] = before[t] /\ prev'[Rear] = prev[Rear]
    BY <2>1, <2>3, Places
  <2>5. Back(prev', s, Front)
    BY <1>0, <2>1, <2>3, <2>4, BackSame, InCells DEF Apart
  <2>6. Writing(t, s)' /\ Reading(t, s)'
    BY <1>0, <2>1, <2>2, <2>4 DEF Writing, Reading, Linking, Handed
  <2>7. NextFollows(t, s)' /\ SizeFollows(t, s)'
    BY <1>0, <2>1, <2>2 DEF NextFollows, SizeFollows
  <2>8. Alone(t)'
    BY <1>0, <2>2, StaysAlone, InCall
  <2>. QED  BY <1>0, <2>2, <2>5, <2>6, <2>7, <2>8, ShapeNow DEF Doing
<1>7. CASE LinkNext(t)
  <2>1. /\ pc[t] = "link_next" /\ elem[t] \in live /\ Apart(elem[t], s)
        /\ before[t] = prev[Rear] /\ prev[elem[t]] = before[t]
    BY <1>0, <1>7 DEF LinkNext, Writing, Linking
  <2>2. /\ Goto(t, "link_n") /\ pc'[t] = "link_n"
        /\ next' = [next EXCEPT ![elem[t]] = Rear]
        /\ UNCHANGED <<prev, key, live, size, elem, before, after, reg, data, fault>>
    BY <1>0, <1>7, <2>1 DEF LinkNext, Valid
  <2>3. Writing(t, s)' /\ Reading(t, s)'
    BY <1>0, <2>1, <2>2 DEF Writing, Reading, Linking, Handed
  <2>4. NextFollows(t, s)' /\ SizeFollows(t, s)'
    BY <1>0, <2>1, <2>2 DEF NextFollows, SizeFollows
  <2>. QED  BY <1>0, <2>2, <2>3, <2>4, MovesShape DEF Doing
<1>8. CASE IncLoad(t)
  <2>1. /\ pc[t] = "inc" /\ Goto(t, "inc_store") /\ pc'[t] = "inc_store"
        /\ reg' = [reg EXCEPT ![t] = size]
        /\ UNCHANGED <<next, prev, key, live, size, elem, before, after, data, fault>>
    BY <1>0, <1>8 DEF IncLoad
  <2>2. reg'[t] = size'
    BY <1>0, <2>1 DEF TypeOK
  <2>3. Writing(t, s)' /\ Reading(t, s)'
    BY <1>0, <2>1, <2>2 DEF Writing, Reading, Linking, Handed
  <2>4. NextFollows(t, s)' /\ SizeFollows(t, s)'
    BY <1>0, <2>1 DEF NextFollows, SizeFollows
  <2>. QED  BY <1>0, <2>1, <2>3, <2>4, MovesShape DEF Doing
<1>9. CASE IncStore(t)
  <2>1. /\ pc[t] = "inc_store" /\ Return(t) /\ size' = reg[t] + 1
        /\ UNCHANGED <<next, prev, key, live, fault>>
    BY <1>9 DEF IncStore
  <2>2. Forth(next, s) /\ size = Len(s) - 1 /\ reg[t] = size
    BY <1>0, <2>1 DEF NextFollows, SizeFollows, Writing
  <2>3. size' = Len(s)
    BY <2>1, <2>2, InCall
  <2>. QED  BY <1>0, <2>1, <2>2, <2>3, ReturnsShape
<1>10. CASE \E m \in Messages : CopyIn(t, m)
  <2>1. PICK m \in Messages : CopyIn(t, m)
    BY <1>10
  <2>2. /\ pc[t] = "buffer" /\ Goto(t, "tail") /\ pc'[t] = "tail"
        /\ data' = [data EXCEPT ![t] = m]
        /\ UNCHANGED <<next, prev, key, live, size, elem, before, after, reg, fault>>
    BY <1>0, <2>1 DEF CopyIn
  <2>3. data'[t] = m
    BY <1>0, <2>2 DEF TypeOK
  <2>4. Writing(t, s)' /\ Reading(t, s)'
    BY <1>0, <2>2, <2>3 DEF Writing, Reading, Linking, Handed
  <2>5. NextFollows(t, s)' /\ SizeFollows(t, s)'
    BY <1>0, <2>2 DEF NextFollows, SizeFollows
  <2>. QED  BY <1>0, <2>2, <2>4, <2>5, MovesShape DEF Doing
<1>. QED  BY <1>1, <1>2, <1>3, <1>4, <1>5, <1>6, <1>7, <1>8, <1>9, <1>10

(* The store that makes the list longer. *)
LEMMA LinkRearShape ==
    ASSUME NEW t \in Threads, NEW s, During(t, s), LinkRear(t)
    PROVE  /\ \E r : r = Append(s, elem[t]) /\ IsShape(r)'
           /\ Apart(elem[t], s) /\ elem[t] \in Nodes
<1> USE DEF fields, locals, marks
<1>0. /\ TypeOK /\ Locals(t) /\ ~fault /\ IsOrder(s) /\ Back(prev, s, Front)
      /\ Writing(t, s) /\ Reading(t, s) /\ NextFollows(t, s) /\ SizeFollows(t, s)
      /\ Len(s) \in Nat /\ \A i \in 1 .. Len(s) : s[i] \in live
  BY InCall
<1>1. /\ pc[t] = "link_n" /\ elem[t] \in live /\ Apart(elem[t], s) /\ elem[t] \in Nodes
      /\ before[t] = prev[Rear] /\ prev[elem[t]] = before[t]
  BY <1>0 DEF LinkRear, Writing, Linking, Locals
<1>2. /\ Goto(t, "inc") /\ prev' = [prev EXCEPT ![Rear] = elem[t]]
      /\ UNCHANGED <<next, key, live, size, elem, before, after, reg, data, fault>>
  BY DEF LinkRear
<1>3. pc'[t] = "inc" /\ Alone(t)'
  BY <1>2, InCall, StaysAlone
<1>4. \A c \in Cells : prev'[c] = IF c = Rear THEN elem[t] ELSE prev[c]
  BY <1>0, <1>2 DEF TypeOK
<1>5. PICK e, r, to : e = elem[t] /\ r = Append(s, e) /\ to = prev'
  OBVIOUS
<1>6. /\ IsOrder(r) /\ Len(r) = Len(s) + 1 /\ r[Len(s) + 1] = e
      /\ \A i \in 1 .. Len(s) : r[i] = s[i]
  BY <1>0, <1>1, <1>5, Appended
<1>7. \A c \in Cells : to[c] = IF c = Rear THEN e ELSE prev[c]
  BY <1>4, <1>5
<1>8. Back(prev', r, Front)
  BY <1>0, <1>1, <1>5, <1>7, BackAppended
<1>9. \A i \in 1 .. Len(r) : r[i] \in live'
  <2>1. ASSUME NEW i \in 1 .. Len(r) PROVE i \in 1 .. Len(s) \/ i = Len(s) + 1
    BY <1>0, <1>6
  <2>. QED  BY <1>0, <1>1, <1>2, <1>5, <1>6, <2>1
<1>10. Writing(t, r)'
  <2>1. Len(s) + 1 \in 1 .. Len(r)
    BY <1>0, <1>6
  <2>2. \E i \in 1 .. Len(r) : elem'[t] = r[i]
    BY <1>2, <1>5, <1>6, <2>1
  <2>. QED  BY <1>3, <2>2 DEF Writing, Linking
<1>11. Reading(t, r)'
  BY <1>3 DEF Reading, Handed
<1>12. NextFollows(t, r)'
  BY <1>0, <1>1, <1>2, <1>3, <1>5 DEF NextFollows
<1>13. SizeFollows(t, r)'
  <2>1. size = Len(s)
    BY <1>0, <1>1 DEF SizeFollows
  <2>2. size' = Len(r) - 1
    BY <1>0, <1>2, <1>6, <2>1
  <2>. QED  BY <1>3, <2>2 DEF SizeFollows
<1>14. IsShape(r)'
  BY <1>3, <1>6, <1>8, <1>9, <1>10, <1>11, <1>12, <1>13, ShapeNow DEF Doing
<1>. QED  BY <1>1, <1>2, <1>5, <1>14

(* The store that makes it shorter. *)
LEMMA UnlinkNextShape ==
    ASSUME NEW t \in Threads, NEW s, During(t, s), UnlinkNext(t)
    PROVE  IsShape(Tail(s))' /\ ~fault' /\ Len(s) > 0 /\ elem[t] = s[1] /\ pc'[t] = "unlink_p"
<1> USE DEF fields, locals, marks
<1>0. /\ TypeOK /\ Locals(t) /\ ~fault /\ IsOrder(s) /\ Back(prev, s, Front)
      /\ Writing(t, s) /\ Reading(t, s) /\ NextFollows(t, s) /\ SizeFollows(t, s)
      /\ Len(s) \in Nat /\ \A i \in 1 .. Len(s) : s[i] \in live
  BY InCall
<1>1. /\ pc[t] = "unlink_n" /\ Len(s) > 0 /\ elem[t] = s[1] /\ before[t] = Front
      /\ after[t] = next[elem[t]]
  BY <1>0 DEF UnlinkNext, Reading
<1>2. PICK r : r = Tail(s)
  OBVIOUS
<1>3. /\ IsOrder(r) /\ Len(r) = Len(s) - 1 /\ 1 \in 1 .. Len(s) /\ Apart(elem[t], r)
      /\ \A i \in 1 .. Len(s) - 1 : r[i] = s[i + 1] /\ i + 1 \in 1 .. Len(s)
  BY <1>0, <1>1, <1>2, TailOf
<1>4. Forth(next, s) /\ size = Len(s)
  BY <1>0, <1>1 DEF NextFollows, SizeFollows
<1>5. after[t] = IF Len(s) = 1 THEN Rear ELSE s[2]
  BY <1>0, <1>1, <1>3, <1>4 DEF Forth, Chain
<1>6. Len(s) # 1 => 2 \in 1 .. Len(s)
  <2>1. PICK n \in Nat : n = Len(s)
    BY <1>0
  <2>2. n > 0
    BY <1>1, <2>1
  <2>3. n # 1 => 2 \in 1 .. n
    BY <2>2
  <2>. QED  BY <2>1, <2>3
<1>7. Valid(after[t]) /\ after[t] \in Cells
  BY <1>0, <1>5, <1>6, InCells, Places DEF Valid
<1>8. /\ Goto(t, "unlink_p") /\ prev' = [prev EXCEPT ![after[t]] = Front]
      /\ UNCHANGED <<next, key, live, size, elem, before, after, reg, data, fault>>
  BY <1>1, <1>7 DEF UnlinkNext
<1>9. pc'[t] = "unlink_p" /\ Alone(t)'
  BY <1>8, InCall, StaysAlone
<1>10. \A c \in Cells : prev'[c] = IF c = after[t] THEN Front ELSE prev[c]
  BY <1>0, <1>8 DEF TypeOK
<1>11. Back(prev', r, Front)
  <2>1. PICK to, n : to = prev' /\ n = after[t]
    OBVIOUS
  <2>2. Back(to, Tail(s), Front)
    BY <1>0, <1>1, <1>5, <1>10, <2>1, BackRemoved
  <2>. QED  BY <1>2, <2>1, <2>2
<1>12. \A i \in 1 .. Len(r) : r[i] \in live'
  BY <1>0, <1>3, <1>8
<1>13. Writing(t, r)' /\ Reading(t, r)'
  BY <1>0, <1>1, <1>3, <1>8, <1>9 DEF Writing, Reading, Linking, Handed
<1>14. NextFollows(t, r)'
  <2>1. <<elem[t]>> \o r = s
    BY <1>0, <1>1, <1>2, ConsTail
  <2>. QED  BY <1>4, <1>8, <1>9, <2>1 DEF NextFollows
<1>15. SizeFollows(t, r)'
  <2>1. size' = Len(r) + 1
    BY <1>0, <1>3, <1>4, <1>8
  <2>. QED  BY <1>9, <2>1 DEF SizeFollows
<1>16. IsShape(r)'
  BY <1>3, <1>9, <1>11, <1>12, <1>13, <1>14, <1>15, ShapeNow DEF Doing
<1>. QED  BY <1>0, <1>1, <1>2, <1>8, <1>9, <1>16

(* The other steps of remove_item(), and the hand-over. *)
LEMMA ReaderShape ==
    ASSUME NEW t \in Threads, NEW s, During(t, s),
           \/ ReadEmpty(t) \/ ReadFirst(t) \/ Guard(t) \/ GetNext(t) \/ GetPrev(t)
           \/ UnlinkPrev(t) \/ DecLoad(t) \/ DecStore(t) \/ CopyOut(t) \/ CopyFaults(t)
    PROVE  IsShape(s)' /\ ~fault'
<1> USE DEF fields, locals, marks
<1>0. /\ TypeOK /\ Locals(t) /\ ~fault /\ IsOrder(s) /\ Back(prev, s, Front)
      /\ Writing(t, s) /\ Reading(t, s) /\ NextFollows(t, s) /\ SizeFollows(t, s)
      /\ Len(s) \in Nat /\ \A i \in 1 .. Len(s) : s[i] \in live
      /\ \A label : Goto(t, label) => pc'[t] = label
  BY InCall, StaysAlone
<1>1. CASE ReadEmpty(t)
  <2>1. /\ pc[t] = "empty" /\ UNCHANGED <<next, prev, key, live, size, fault>>
        /\ Forth(next, s) /\ size = Len(s) /\ elem[t] = Null
    BY <1>0, <1>1 DEF ReadEmpty, NextFollows, SizeFollows, Reading
  <2>2. CASE size = 0
    <3>1. Return(t) /\ \A i \in 1 .. Len(s) : s[i] \in live'
      BY <1>0, <1>1, <2>1, <2>2 DEF ReadEmpty
    <3>. QED  BY <1>0, <2>1, <3>1, ReturnsShape
  <2>3. CASE size # 0
    <3>1. /\ Goto(t, "first") /\ pc'[t] = "first" /\ Len(s) > 0
          /\ UNCHANGED <<elem, before, after, reg, data>>
      BY <1>0, <1>1, <2>1, <2>3 DEF ReadEmpty
    <3>2. Writing(t, s)' /\ Reading(t, s)'
      BY <2>1, <3>1 DEF Writing, Reading, Linking, Handed
    <3>3. NextFollows(t, s)' /\ SizeFollows(t, s)'
      BY <2>1, <3>1 DEF NextFollows, SizeFollows
    <3>. QED  BY <1>0, <2>1, <3>1, <3>2, <3>3, MovesShape DEF Doing
  <2>. QED  BY <2>2, <2>3
<1>2. CASE ReadFirst(t)
  <2>1. /\ pc[t] = "first" /\ Goto(t, "guard") /\ pc'[t] = "guard"
        /\ elem' = [elem EXCEPT ![t] = next[Front]]
        /\ UNCHANGED <<next, prev, key, live, size, before, after, reg, data, fault>>
        /\ Forth(next, s) /\ size = Len(s) /\ Len(s) > 0
    BY <1>0, <1>2 DEF ReadFirst, NextFollows, SizeFollows, Reading
  <2>2. next[Front] = s[1]
    BY <1>0, <2>1 DEF Forth, Chain
  <2>3. elem'[t] = s[1]
    BY <1>0, <2>1, <2>2 DEF TypeOK
  <2>4. Writing(t, s)' /\ Reading(t, s)'
    BY <2>1, <2>3 DEF Writing, Reading, Linking, Handed
  <2>5. NextFollows(t, s)' /\ SizeFollows(t, s)'
    BY <2>1 DEF NextFollows, SizeFollows
  <2>. QED  BY <1>0, <2>1, <2>4, <2>5, MovesShape DEF Doing
<1>3. CASE Guard(t)
  <2>1. /\ pc[t] = "guard" /\ Forth(next, s) /\ size = Len(s) /\ Len(s) > 0 /\ elem[t] = s[1]
    BY <1>0, <1>3 DEF Guard, NextFollows, SizeFollows, Reading
  <2>2. 1 \in 1 .. Len(s) /\ size # 0
    BY <1>0, <2>1
  <2>3. elem[t] \notin {Front, Rear}
    BY <1>0, <2>1, <2>2, InCells
  <2>4. /\ Goto(t, "get_n") /\ pc'[t] = "get_n"
        /\ UNCHANGED <<next, prev, key, live, size, elem, before, after, reg, data, fault>>
    BY <1>0, <1>3, <2>2, <2>3 DEF Guard
  <2>5. Writing(t, s)' /\ Reading(t, s)'
    BY <2>1, <2>4 DEF Writing, Reading, Linking, Handed
  <2>6. NextFollows(t, s)' /\ SizeFollows(t, s)'
    BY <2>1, <2>4 DEF NextFollows, SizeFollows
  <2>. QED  BY <1>0, <2>4, <2>5, <2>6, MovesShape DEF Doing
<1>4. CASE GetNext(t)
  <2>1. /\ pc[t] = "get_n" /\ Forth(next, s) /\ size = Len(s) /\ Len(s) > 0 /\ elem[t] = s[1]
    BY <1>0, <1>4 DEF GetNext, NextFollows, SizeFollows, Reading
  <2>2. Valid(elem[t])
    <3>1. 1 \in 1 .. Len(s)
      BY <1>0, <2>1
    <3>. QED  BY <1>0, <2>1, <3>1 DEF Valid
  <2>3. /\ Goto(t, "get_p") /\ pc'[t] = "get_p"
        /\ after' = [after EXCEPT ![t] = next[elem[t]]]
        /\ UNCHANGED <<next, prev, key, live, size, elem, before, reg, data, fault>>
    BY <1>0, <1>4, <2>2 DEF GetNext
  <2>4. after'[t] = next'[elem'[t]]
    BY <1>0, <2>3 DEF TypeOK
  <2>5. Writing(t, s)' /\ Reading(t, s)'
    BY <2>1, <2>3, <2>4 DEF Writing, Reading, Linking, Handed
  <2>6. NextFollows(t, s)' /\ SizeFollows(t, s)'
    BY <2>1, <2>3 DEF NextFollows, SizeFollows
  <2>. QED  BY <1>0, <2>3, <2>5, <2>6, MovesShape DEF Doing
<1>5. CASE GetPrev(t)
  <2>1. /\ pc[t] = "get_p" /\ Forth(next, s) /\ size = Len(s) /\ Len(s) > 0 /\ elem[t] = s[1]
        /\ after[t] = next[elem[t]]
    BY <1>0, <1>5 DEF GetPrev, NextFollows, SizeFollows, Reading
  <2>2. 1 \in 1 .. Len(s)
    BY <1>0, <2>1
  <2>3. Valid(elem[t]) /\ prev[elem[t]] = Front
    BY <1>0, <2>1, <2>2 DEF Valid, Back
  <2>4. /\ Goto(t, "unlink_n") /\ pc'[t] = "unlink_n"
        /\ before' = [before EXCEPT ![t] = Front]
        /\ UNCHANGED <<next, prev, key, live, size, elem, after, reg, data, fault>>
    BY <1>0, <1>5, <2>3 DEF GetPrev
  <2>5. before'[t] = Front
    BY <1>0, <2>4 DEF TypeOK
  <2>6. Writing(t, s)' /\ Reading(t, s)'
    BY <2>1, <2>4, <2>5 DEF Writing, Reading, Linking, Handed
  <2>7. NextFollows(t, s)' /\ SizeFollows(t, s)'
    BY <2>1, <2>4 DEF NextFollows, SizeFollows
  <2>. QED  BY <1>0, <2>4, <2>6, <2>7, MovesShape DEF Doing
<1>6. CASE UnlinkPrev(t)
  <2>1. /\ pc[t] = "unlink_p" /\ Forth(next, <<elem[t]>> \o s) /\ size = Len(s) + 1
        /\ after[t] = next[elem[t]] /\ before[t] = Front
        /\ elem[t] \in live /\ Apart(elem[t], s)
    BY <1>0, <1>6 DEF UnlinkPrev, NextFollows, SizeFollows, Reading
  <2>2. /\ Goto(t, "dec") /\ pc'[t] = "dec" /\ next' = [next EXCEPT ![Front] = after[t]]
        /\ UNCHANGED <<prev, key, live, size, elem, before, after, reg, data, fault>>
    BY <1>0, <1>6, <2>1 DEF UnlinkPrev, Valid
  <2>3. \A c \in Cells : next'[c] = IF c = Front THEN next[elem[t]] ELSE next[c]
    BY <1>0, <2>1, <2>2 DEF TypeOK
  <2>4. Forth(next', s)
    <3>1. PICK to, e : to = next' /\ e = elem[t]
      OBVIOUS
    <3>2. e \in Nodes /\ Forth(next, <<e>> \o s)
      BY <1>0, <2>1, <3>1 DEF TypeOK
    <3>3. \A c \in Cells : to[c] = IF c = Front THEN next[e] ELSE next[c]
      BY <2>3, <3>1
    <3>4. Forth(to, s)
      BY <1>0, <3>2, <3>3, ForthRemoved
    <3>. QED  BY <3>1, <3>4
  <2>5. Writing(t, s)' /\ Reading(t, s)'
    BY <2>1, <2>2 DEF Writing, Reading, Linking, Handed
  <2>6. NextFollows(t, s)' /\ SizeFollows(t, s)'
    BY <2>1, <2>2, <2>4 DEF NextFollows, SizeFollows
  <2>. QED  BY <1>0, <2>2, <2>5, <2>6, MovesShape DEF Doing
<1>7. CASE DecLoad(t)
  <2>1. /\ pc[t] = "dec" /\ Forth(next, s) /\ size = Len(s) + 1
        /\ elem[t] \in live /\ Apart(elem[t], s)
    BY <1>0, <1>7 DEF DecLoad, NextFollows, SizeFollows, Reading, Handed
  <2>2. /\ Goto(t, "dec_store") /\ pc'[t] = "dec_store" /\ reg' = [reg EXCEPT ![t] = size]
        /\ UNCHANGED <<next, prev, key, live, size, elem, before, after, data, fault>>
    BY <1>0, <1>7 DEF DecLoad
  <2>3. reg'[t] = size'
    BY <1>0, <2>2 DEF TypeOK
  <2>4. Writing(t, s)' /\ Reading(t, s)'
    BY <2>1, <2>2, <2>3 DEF Writing, Reading, Linking, Handed
  <2>5. NextFollows(t, s)' /\ SizeFollows(t, s)'
    BY <2>1, <2>2 DEF NextFollows, SizeFollows
  <2>. QED  BY <1>0, <2>2, <2>4, <2>5, MovesShape DEF Doing
<1>8. CASE DecStore(t)
  <2>1. /\ pc[t] = "dec_store" /\ Forth(next, s) /\ size = Len(s) + 1 /\ reg[t] = size
        /\ elem[t] \in live /\ Apart(elem[t], s)
    BY <1>0, <1>8 DEF DecStore, NextFollows, SizeFollows, Reading, Handed
  <2>2. /\ Goto(t, "copy") /\ pc'[t] = "copy" /\ size' = reg[t] - 1
        /\ UNCHANGED <<next, prev, key, live, elem, before, after, reg, data, fault>>
    BY <1>0, <1>8 DEF DecStore
  <2>3. size' = Len(s)
    BY <1>0, <2>1, <2>2
  <2>4. Writing(t, s)' /\ Reading(t, s)'
    BY <2>1, <2>2 DEF Writing, Reading, Linking, Handed
  <2>5. NextFollows(t, s)' /\ SizeFollows(t, s)'
    BY <2>1, <2>2, <2>3 DEF NextFollows, SizeFollows
  <2>. QED  BY <1>0, <2>2, <2>4, <2>5, MovesShape DEF Doing
<1>9. CASE CopyOut(t) \/ CopyFaults(t)
  <2>1. /\ pc[t] = "copy" /\ Forth(next, s) /\ size = Len(s)
        /\ elem[t] \in live /\ elem[t] \in Nodes /\ Apart(elem[t], s)
    BY <1>0, <1>9 DEF CopyOut, CopyFaults, NextFollows, SizeFollows, Reading, Handed, TypeOK
  <2>2. CASE CopyFaults(t)
    BY <1>0, <2>1, <2>2, ReturnsShape DEF CopyFaults
  <2>3. CASE CopyOut(t)
    <3>1. Free(elem[t]) /\ Return(t) /\ size' = size /\ fault' = fault
      BY <2>1, <2>3 DEF CopyOut, Valid
    <3>2. \A c \in Cells : c # elem[t] => next'[c] = next[c] /\ prev'[c] = prev[c]
      BY <1>0, <3>1 DEF Free, TypeOK
    <3>3. Forth(next', s)
      BY <1>0, <2>1, <3>2, ForthSame, InCells, Places DEF Apart, Forth
    <3>4. Back(prev', s, Front)
      BY <1>0, <2>1, <3>2, BackSame, InCells, Places DEF Apart
    <3>5. \A i \in 1 .. Len(s) : s[i] \in live'
      BY <1>0, <2>1, <3>1 DEF Free, Apart
    <3>. QED  BY <1>0, <2>1, <3>1, <3>3, <3>4, <3>5, ReturnsShape
  <2>. QED  BY <1>9, <2>2, <2>3
<1>. QED  BY <1>1, <1>2, <1>3, <1>4, <1>5, <1>6, <1>7, <1>8, <1>9

-----------------------------------------------------------------------------
(* From call to call *)

(* A step of a call that overwrites no memory of others. *)
Works(t) == Step(t) /\ ~CopyInOverruns(t)

LEMMA Turns ==
    [Next]_vars => \/ UNCHANGED vars
                   \/ Rmmod \/ Insmod \/ Breaks
                   \/ \E t \in Threads : CallWrite(t) \/ CallRead(t) \/ Works(t)
BY Breaking DEF Next, Works

(* Such a step moves its own thread only. *)
LEMMA StepIsOwn ==
    ASSUME TypeOK, NEW t \in Threads, Works(t)
    PROVE  /\ pc[t] # "idle" /\ UNCHANGED <<overlap, loaded>>
           /\ \A u \in Threads \ {t} : pc'[u] = pc[u]
<1> USE DEF fields, locals, marks
<1>1. ASSUME \/ BufferFails(t) \/ CopyInFaults(t) \/ (\E m \in Messages : CopyIn(t, m))
             \/ ReadTail(t) \/ AllocFails(t) \/ (\E e \in Nodes : Alloc(t, e)) \/ TailMoved(t)
             \/ SetKey(t) \/ LinkBefore(t) \/ LinkPrev(t) \/ LinkNext(t) \/ LinkRear(t)
             \/ IncLoad(t) \/ IncStore(t)
      PROVE  (\E label : Goto(t, label)) /\ pc[t] # "idle" /\ UNCHANGED <<overlap, loaded>>
  BY <1>1 DEF BufferFails, CopyInFaults, CopyIn, ReadTail, AllocFails, Alloc, TailMoved, SetKey,
              LinkBefore, LinkPrev, LinkNext, LinkRear, IncLoad, IncStore, Return, Oops
<1>2. ASSUME ReadEmpty(t) \/ ReadFirst(t) \/ Guard(t) \/ GetNext(t) \/ GetPrev(t)
             \/ UnlinkNext(t) \/ UnlinkPrev(t) \/ DecLoad(t) \/ DecStore(t)
             \/ CopyOut(t) \/ CopyFaults(t)
      PROVE  (\E label : Goto(t, label)) /\ pc[t] # "idle" /\ UNCHANGED <<overlap, loaded>>
  BY <1>2 DEF ReadEmpty, ReadFirst, Guard, GetNext, GetPrev, UnlinkNext, UnlinkPrev,
              DecLoad, DecStore, CopyOut, CopyFaults, Return, Oops
<1>3. PICK label : Goto(t, label)
  BY <1>1, <1>2 DEF Works, Step
<1>4. \A u \in Threads \ {t} : pc'[u] = pc[u]
  BY <1>3 DEF Goto, TypeOK
<1>. QED  BY <1>1, <1>2, <1>4 DEF Works, Step

(* A step without overlap is a moment of the one call there is. *)
LEMMA DuringNow ==
    ASSUME RaceInv, Shaped, ~overlap, NEW t \in Threads, pc[t] # "idle"
    PROVE  \E s : During(t, s)
<1>1. loaded /\ ~fault /\ Alone(t)
  BY DEF Shaped, Quiet, Alone, OneAtATime
<1>2. PICK s : IsShape(s)
  BY <1>1 DEF Shaped
<1>. QED  BY <1>1, <1>2 DEF During

(* prev[Rear] is still what t has read: the check in between() never fails. *)
LEMMA TailStays ==
    ASSUME NEW t \in Threads, NEW s, During(t, s)
    PROVE  ~TailMoved(t)
BY InCall DEF TailMoved, Writing, Linking

LEMMA StepShape ==
    ASSUME NEW t \in Threads, NEW s, During(t, s), Works(t)
    PROVE  ~fault' /\ \E r : IsShape(r)'
<1>1. CASE LinkRear(t)
  <2>1. ~fault'
    BY <1>1 DEF LinkRear, During, marks
  <2>. QED  BY <1>1, <2>1, LinkRearShape
<1>2. CASE UnlinkNext(t)
  BY <1>2, UnlinkNextShape
<1>3. CASE \/ BufferFails(t) \/ CopyInFaults(t) \/ (\E m \in Messages : CopyIn(t, m))
           \/ ReadTail(t) \/ AllocFails(t) \/ (\E e \in Nodes : Alloc(t, e))
           \/ SetKey(t) \/ LinkBefore(t) \/ LinkPrev(t) \/ LinkNext(t)
           \/ IncLoad(t) \/ IncStore(t)
  BY <1>3, WriterShape
<1>4. CASE \/ ReadEmpty(t) \/ ReadFirst(t) \/ Guard(t) \/ GetNext(t) \/ GetPrev(t)
           \/ UnlinkPrev(t) \/ DecLoad(t) \/ DecStore(t) \/ CopyOut(t) \/ CopyFaults(t)
  BY <1>4, ReaderShape
<1>. QED  BY <1>1, <1>2, <1>3, <1>4, TailStays DEF Works, Step

(* A call begins on the list as it is. *)
LEMMA CallShape ==
    ASSUME RaceInv, ~overlap, NEW s, IsShape(s), NEW t \in Threads,
           CallWrite(t) \/ CallRead(t)
    PROVE  /\ IsShape(s)' /\ Alone(t)' /\ Quiet /\ loaded /\ ~fault
           /\ UNCHANGED <<fields, elem, marks>> /\ pc'[t] \in {"buffer", "empty"}
<1> USE DEF fields, locals, marks
<1>1. PICK label \in {"buffer", "empty"} : Enter(t, label)
  BY DEF CallWrite, CallRead
<1>2. UNCHANGED <<next, prev, key, live, size, elem, before, after, reg, marks>>
  BY DEF CallWrite, CallRead
<1>3. /\ Quiet /\ loaded /\ ~fault /\ Goto(t, label) /\ pc[t] = "idle"
  BY <1>1 DEF Enter, Quiet
<1>4. pc'[t] = label /\ Alone(t)'
  BY <1>3, StaysAlone DEF RaceInv, Alone, Quiet
<1>5. elem[t] = Null /\ IsOrder(s) /\ Forth(next, s) /\ size = Len(s)
      /\ Back(prev, s, Front) /\ \A i \in 1 .. Len(s) : s[i] \in live
  BY <1>3 DEF RaceInv, Locals, IsShape
<1>6. Writing(t, s)' /\ Reading(t, s)'
  BY <1>2, <1>4, <1>5 DEF Writing, Reading, Linking, Handed
<1>7. NextFollows(t, s)' /\ SizeFollows(t, s)'
  BY <1>2, <1>4, <1>5 DEF NextFollows, SizeFollows
<1>8. IsShape(s)'
  BY <1>2, <1>4, <1>5, <1>6, <1>7, ShapeNow DEF Doing
<1>. QED  BY <1>2, <1>3, <1>4, <1>8

(* The empty list of init_list(). *)
LEMMA EmptyShape ==
    ASSUME NEW s, s \in Seq(Nodes), Len(s) = 0
    PROVE  /\ IsOrder(s) /\ s = <<>> /\ \A i \in 1 .. Len(s) : FALSE
           /\ \A link : /\ link[Front] = Rear => Forth(link, s)
                        /\ link[Rear] = Front => Back(link, s, Front)
BY DEF IsOrder, Forth, Chain, Back


(* The list between two calls. *)
LEMMA AtRest ==
    ASSUME RaceInv, Quiet, NEW s, IsShape(s)
    PROVE  /\ IsOrder(s) /\ Forth(next, s) /\ Back(prev, s, Front) /\ size = Len(s)
           /\ Len(s) \in Nat /\ \A t \in Threads : elem[t] = Null
           /\ Walk(next, Front) = s /\ DOMAIN s = 1 .. Len(s)
<1>1. IsOrder(s) /\ Forth(next, s) /\ Back(prev, s, Front) /\ size = Len(s)
  BY DEF IsShape
<1>2. Walk(next, Front) = s
  BY <1>1, Places, WalkIs DEF Forth
<1>3. DOMAIN s = 1 .. Len(s)
  BY <1>1 DEF IsOrder
<1>. QED  BY <1>1, <1>2, <1>3, InCells DEF RaceInv, Locals, Quiet

LEMMA NoneQueued ==
    ASSUME Quiet', next'[Front] = Rear, prev'[Rear] = Front, size' = 0
    PROVE  IsShape(<<>>)'
<1>1. PICK s : s = <<>>
  OBVIOUS
<1>2. s \in Seq(Nodes) /\ Len(s) = 0
  BY <1>1
<1>3. IsShape(s)'
  BY <1>2, EmptyShape DEF IsShape, Quiet
<1>. QED  BY <1>1, <1>3

LEMMA UnloadShape ==
    ASSUME RaceInv, Rmmod, FreesAll
    PROVE  /\ IsShape(<<>>)' /\ ~fault' /\ Quiet /\ Quiet'
           /\ live' = (IF size = 0 THEN live ELSE live \ Queue)
<1>1. /\ Quiet /\ ~fault /\ UNCHANGED pc /\ fault' = fault /\ size' = 0
      /\ live' = IF size = 0 THEN live ELSE live \ Queue
      /\ next' = [c \in Cells |-> IF c \in live' THEN next[c] ELSE EmptyNext[c]]
      /\ prev' = [c \in Cells |-> IF c \in live' THEN prev[c] ELSE EmptyPrev[c]]
  BY DEF Rmmod, FreesAll, Quiet
<1>2. Quiet'
  BY <1>1 DEF Quiet
<1>3. Front \notin live' /\ Rear \notin live'
  BY <1>1, Places DEF RaceInv, TypeOK
<1>4. next'[Front] = EmptyNext[Front] /\ prev'[Rear] = EmptyPrev[Rear]
  BY <1>1, <1>3, Places
<1>5. next'[Front] = Rear /\ prev'[Rear] = Front
  BY <1>4, Places DEF EmptyNext, EmptyPrev
<1>. QED  BY <1>1, <1>2, <1>5, NoneQueued

LEMMA LoadShape ==
    ASSUME RaceInv, Shaped, ~overlap, Insmod
    PROVE  /\ IsShape(<<>>)' /\ IsShape(<<>>) /\ ~fault' /\ Quiet /\ Quiet'
<1>1. /\ ~fault /\ ~loaded /\ UNCHANGED <<pc, fault>> /\ size' = 0
      /\ next' = [c \in Cells |-> IF c \in {Front, Rear} THEN Rear ELSE next[c]]
      /\ prev' = [prev EXCEPT ![Rear] = Front]
  BY DEF Insmod
<1>2. Quiet /\ Quiet'
  BY <1>1 DEF Shaped, Quiet
<1>3. next'[Front] = Rear /\ prev'[Rear] = Front
  BY <1>1, Places DEF RaceInv, TypeOK
<1>4. PICK s : IsShape(s) /\ Len(s) = 0
  BY <1>1 DEF Shaped
<1>5. s = <<>>
  BY <1>4, EmptyShape DEF IsShape, IsOrder
<1>. QED  BY <1>1, <1>2, <1>3, <1>4, <1>5, NoneQueued

(* With messages queued free_list() may go astray, never with none. *)
LEMMA UnloadFaults ==
    ASSUME RaceInv, Rmmod, FreesFirst, NEW s, IsShape(s)
    PROVE  /\ Quiet /\ Quiet' /\ Len(s) > 0 /\ size' > 0 /\ fault' /\ ~loaded'
           /\ next[Front] = s[1] /\ s[1] \in live /\ 1 \in 1 .. Len(s)
           /\ Free(s[1])
<1>1. /\ Quiet /\ UNCHANGED pc /\ size # 0 /\ size' = size /\ fault' = TRUE /\ loaded' = FALSE
  BY DEF Rmmod, FreesFirst, Quiet
<1>2. Quiet'
  BY <1>1 DEF Quiet
<1>3. Forth(next, s) /\ size = Len(s) /\ Len(s) \in Nat /\ \A i \in 1 .. Len(s) : s[i] \in live
  BY <1>1, AtRest DEF IsShape
<1>4. Len(s) > 0 /\ 1 \in 1 .. Len(s) /\ size' > 0
  BY <1>1, <1>3
<1>5. next[Front] = s[1] /\ s[1] \in live
  BY <1>3, <1>4 DEF Forth, Chain
<1>6. Free(s[1])
  BY <1>5 DEF FreesFirst
<1>. QED  BY <1>1, <1>2, <1>4, <1>5, <1>6

LEMMA ShapedInit == Init => Shaped
<1> SUFFICES ASSUME Init PROVE Shaped
  OBVIOUS
<1>1. PICK s : s = <<>>
  OBVIOUS
<1>2. s \in Seq(Nodes) /\ Len(s) = 0
  BY <1>1
<1>3. Quiet /\ size = 0 /\ next[Front] = Rear /\ prev[Rear] = Front /\ ~fault /\ loaded
  BY Places DEF Init, Quiet, EmptyNext, EmptyPrev
<1>4. IsShape(s)
  BY <1>2, <1>3, EmptyShape DEF IsShape, Quiet
<1>. QED  BY <1>3, <1>4 DEF Shaped, OneAtATime, Quiet

(* What overwrites memory of others leaves the list as it is. *)
LEMMA BreaksKeepsShape ==
    ASSUME Breaks
    PROVE  /\ Shaped => Shaped'
           /\ \A s : IsShape(s) => IsShape(s)'
           /\ UNCHANGED <<elem, live, key, pc, overlap, loaded>>
<1>1. UNCHANGED <<fields, locals, pc, fault, overlap, loaded>>
  BY DEF Breaks
<1>2. Shaped' <=> Shaped
  BY <1>1 DEF fields, locals, Shaped, OneAtATime, Quiet, IsShape, Doing,
              Writing, Reading, NextFollows, SizeFollows
<1>3. \A s : IsShape(s)' <=> IsShape(s)
  BY <1>1 DEF fields, locals, Quiet, IsShape, Doing, Writing, Reading, NextFollows, SizeFollows
<1>. QED  BY <1>1, <1>2, <1>3 DEF fields, locals

LEMMA ShapedKept ==
    ASSUME RaceInv, Shaped, [Next]_vars
    PROVE  Shaped'
<1>1. CASE UNCHANGED vars
  <2>1. Shaped' <=> Shaped
    BY <1>1 DEF vars, fields, locals, marks, Shaped, OneAtATime, Quiet, IsShape, Doing,
                Writing, Reading, NextFollows, SizeFollows
  <2>. QED  BY <2>1
<1>2. CASE overlap
  <2>1. overlap' = overlap
    BY <1>2, Turns, StepIsOwn, BreaksKeepsShape
       DEF RaceInv, vars, marks, Rmmod, Insmod, CallWrite, CallRead
  <2>. QED  BY <1>2, <2>1 DEF Shaped
<1>3. ASSUME ~overlap, NEW t \in Threads, Works(t) PROVE Shaped'
  <2>1. pc[t] # "idle" /\ loaded' = loaded /\ overlap' = overlap
        /\ \A u \in Threads \ {t} : pc'[u] = pc[u]
    BY <1>3, StepIsOwn DEF RaceInv
  <2>2. PICK s : During(t, s)
    BY <1>3, <2>1, DuringNow
  <2>3. ~fault' /\ \E r : IsShape(r)'
    BY <1>3, <2>2, StepShape
  <2>4. OneAtATime' /\ loaded'
    BY <2>1, <2>2 DEF OneAtATime, During, Alone
  <2>. QED  BY <2>3, <2>4 DEF Shaped
<1>4. ASSUME ~overlap, NEW t \in Threads, CallWrite(t) \/ CallRead(t)
      PROVE  Shaped'
  <2>1. ~fault
    BY <1>4 DEF CallWrite, CallRead, Enter
  <2>2. PICK s : IsShape(s)
    BY <1>4, <2>1 DEF Shaped
  <2>3. IsShape(s)' /\ Alone(t)' /\ loaded' /\ ~fault'
    BY <1>4, <2>2, CallShape DEF marks
  <2>4. OneAtATime'
    BY <2>3 DEF OneAtATime, Alone
  <2>. QED  BY <2>3, <2>4 DEF Shaped
<1>5. CASE ~overlap /\ (Rmmod \/ Insmod)
  <2>1. PICK s : IsShape(s)
    BY <1>5 DEF Shaped, Rmmod, Insmod
  <2>2. CASE Rmmod /\ FreesFirst
    BY <2>1, <2>2, UnloadFaults DEF Shaped, OneAtATime, Quiet
  <2>3. CASE Rmmod /\ FreesAll
    <3>1. IsShape(<<>>)' /\ ~fault' /\ Quiet'
      BY <2>3, UnloadShape
    <3>2. Len(<<>>) = 0
      OBVIOUS
    <3>. QED  BY <3>1, <3>2 DEF Shaped, OneAtATime, Quiet
  <2>4. CASE Insmod
    <3>1. IsShape(<<>>)' /\ ~fault' /\ Quiet' /\ loaded'
      BY <1>5, <2>4, LoadShape DEF Insmod
    <3>. QED  BY <3>1 DEF Shaped, OneAtATime, Quiet
  <2>. QED  BY <1>5, <2>2, <2>3, <2>4 DEF Rmmod
<1>. QED  BY <1>1, <1>2, <1>3, <1>4, <1>5, Turns, BreaksKeepsShape

(* Calls that do not overlap find, at each of their steps, a list that is  *)
(* whole but for the stores they have still to make.                       *)
THEOREM ShapeInvariance == Spec => [](RaceInv /\ Shaped)
<1>1. Init => RaceInv /\ Shaped
  BY RaceInit, ShapedInit
<1>2. (RaceInv /\ Shaped) /\ [Next]_vars => (RaceInv /\ Shaped)'
  BY RaceKept, ShapedKept
<1>. QED  BY <1>1, <1>2, PTL DEF Spec

(* Between calls that do not overlap the list is a list, of size live      *)
(* nodes, the same forwards and backwards, whatever memset() of a missing  *)
(* buffer, allocations and copies end a call early; nothing but an unload  *)
(* with messages queued follows a NULL or freed node.                      *)
THEOREM StaysWellFormed == Spec => []WellFormed
<1>1. RaceInv /\ Shaped => WellFormed
  <2> SUFFICES ASSUME RaceInv, Shaped, ~overlap PROVE IsList /\ (fault => ~loaded /\ size > 0)
    BY DEF WellFormed
  <2>1. fault => ~loaded /\ size > 0
    BY DEF Shaped
  <2>2. ASSUME Quiet, loaded
        PROVE  LET there == Walk(next, Front)
               IN  /\ Len(there) = size
                   /\ there = Backwards(Walk(prev, Rear))
                   /\ \A i \in DOMAIN there : there[i] \in live
    <3>1. PICK s : IsShape(s)
      BY <2>1, <2>2 DEF Shaped
    <3>2. /\ Walk(next, Front) = s /\ size = Len(s) /\ DOMAIN s = 1 .. Len(s)
          /\ IsOrder(s) /\ Back(prev, s, Front) /\ \A i \in 1 .. Len(s) : s[i] \in live
      BY <2>2, <3>1, AtRest DEF IsShape
    <3>3. Backwards(Walk(prev, Rear)) = s
      BY <3>2, WalkBack, Places
    <3>. QED  BY <3>2, <3>3
  <2>. QED  BY <2>1, <2>2 DEF IsList
<1>. QED  BY <1>1, ShapeInvariance, PTL

-----------------------------------------------------------------------------
(* Lost nodes *)

(* A walk from the rear meets just the nodes of s. *)
LEMMA Meets ==
    ASSUME NEW link, NEW s, NEW end, end \notin Nodes, IsOrder(s), Back(link, s, end), NEW e
    PROVE  (\A i \in DOMAIN Walk(link, Rear) : Walk(link, Rear)[i] # e) <=> Apart(e, s)
<1>1. PICK r : r = Walk(link, Rear)
  OBVIOUS
<1>2. r = Backwards(s) /\ Len(s) \in Nat /\ DOMAIN s = 1 .. Len(s)
  BY <1>1, WalkBack DEF IsOrder
<1>3. DOMAIN r = 1 .. Len(s) /\ \A i \in 1 .. Len(s) : r[i] = s[Len(s) + 1 - i]
  BY <1>2 DEF Backwards
<1>4. \A i \in 1 .. Len(s) : Len(s) + 1 - i \in 1 .. Len(s) /\ Len(s) + 1 - (Len(s) + 1 - i) = i
  BY <1>2
<1>5. ASSUME \A i \in 1 .. Len(s) : r[i] # e, NEW i \in 1 .. Len(s) PROVE s[i] # e
  BY <1>3, <1>4, <1>5
<1>6. ASSUME \A i \in 1 .. Len(s) : s[i] # e, NEW i \in 1 .. Len(s) PROVE r[i] # e
  BY <1>3, <1>4, <1>6
<1>. QED  BY <1>1, <1>3, <1>5, <1>6 DEF Apart

LostFrom(s) == {e \in live : Apart(e, s) /\ \A t \in Threads : elem[t] # e}

LEMMA LostIs ==
    ASSUME NEW s, IsOrder(s), NEW end, end \notin Nodes
    PROVE  /\ Back(prev, s, end) => Lost = LostFrom(s)
           /\ Back(prev', s, end) => Lost' = LostFrom(s)'
<1>1. ASSUME Back(prev, s, end) PROVE Lost = LostFrom(s)
  <2>1. \A e : (\A i \in DOMAIN Walk(prev, Rear) : Walk(prev, Rear)[i] # e) <=> Apart(e, s)
    BY <1>1, Meets
  <2>. QED  BY <2>1 DEF Lost, LostFrom
<1>2. ASSUME Back(prev', s, end) PROVE Lost' = LostFrom(s)'
  <2>1. \A e : (\A i \in DOMAIN Walk(prev', Rear) : Walk(prev', Rear)[i] # e) <=> Apart(e, s)
    BY <1>2, Meets
  <2>. QED  BY <2>1 DEF Lost, LostFrom
<1>. QED  BY <1>1, <1>2

LEMMA ShapeLost ==
    ASSUME NEW s
    PROVE  (IsShape(s) => Lost = LostFrom(s)) /\ (IsShape(s)' => Lost' = LostFrom(s)')
BY LostIs, Places DEF IsShape

(* The other threads hold nothing. *)
LEMMA OthersHoldNone ==
    ASSUME NEW t \in Threads, NEW s, During(t, s)
    PROVE  \A u \in Threads \ {t} : elem[u] = Null
BY DEF During, RaceInv, Alone, Locals

(* A step that hands t's own node on, or leaves it where it is. *)
LEMMA KeepsLost ==
    ASSUME NEW t \in Threads, NEW s, During(t, s), UNCHANGED live, NEW e,
           elem' = [elem EXCEPT ![t] = e], e \notin live \/ ~Apart(e, s) \/ e = elem[t],
           elem[t] \notin live \/ ~Apart(elem[t], s) \/ elem[t] = e
    PROVE  LostFrom(s)' = LostFrom(s)
<1>1. elem'[t] = e /\ \A u \in Threads \ {t} : elem'[u] = elem[u]
  BY InCall DEF TypeOK
<1>. QED  BY <1>1 DEF LostFrom

LEMMA NullIsNone ==
    ASSUME RaceInv
    PROVE  Null \notin live
BY Places DEF RaceInv, TypeOK

LEMMA WriterLoses ==
    ASSUME NEW t \in Threads, NEW s, During(t, s),
           \/ BufferFails(t) \/ CopyInFaults(t) \/ (\E m \in Messages : CopyIn(t, m))
           \/ ReadTail(t) \/ AllocFails(t) \/ (\E e \in Nodes : Alloc(t, e))
           \/ SetKey(t) \/ LinkBefore(t) \/ LinkPrev(t) \/ LinkNext(t)
           \/ IncLoad(t) \/ IncStore(t)
    PROVE  LostFrom(s)' = LostFrom(s)
<1> USE DEF fields, locals, marks
<1>0. TypeOK /\ Writing(t, s) /\ Null \notin live
  BY InCall, NullIsNone DEF During
<1>1. CASE \/ (\E m \in Messages : CopyIn(t, m)) \/ ReadTail(t)
           \/ SetKey(t) \/ LinkBefore(t) \/ LinkPrev(t) \/ LinkNext(t) \/ IncLoad(t)
  <2>1. UNCHANGED <<live, elem>>
    BY <1>1 DEF CopyIn, ReadTail, SetKey, LinkBefore, LinkPrev, LinkNext, IncLoad, Oops
  <2>. QED  BY <2>1 DEF LostFrom
<1>2. CASE BufferFails(t) \/ CopyInFaults(t) \/ AllocFails(t)
  <2>1. elem' = [elem EXCEPT ![t] = Null] /\ elem[t] = Null /\ UNCHANGED live
    BY <1>0, <1>2 DEF BufferFails, CopyInFaults, AllocFails, Return, Writing
  <2>. QED  BY <1>0, <2>1, KeepsLost
<1>3. CASE \E e \in Nodes : Alloc(t, e)
  <2>1. PICK e \in Nodes : Alloc(t, e)
    BY <1>3
  <2>2. /\ elem' = [elem EXCEPT ![t] = e] /\ live' = live \cup {e} /\ elem[t] = Null
        /\ e \notin live
    BY <1>0, <2>1 DEF Alloc, Writing
  <2>3. elem'[t] = e /\ \A u \in Threads \ {t} : elem'[u] = elem[u] /\ elem[u] = Null
    BY <1>0, <2>2, OthersHoldNone DEF TypeOK
  <2>. QED  BY <1>0, <2>2, <2>3 DEF LostFrom
<1>4. CASE IncStore(t)
  <2>1. elem' = [elem EXCEPT ![t] = Null] /\ UNCHANGED live
    BY <1>4 DEF IncStore, Return
  <2>2. ~Apart(elem[t], s)
    BY <1>0, <1>4 DEF IncStore, Writing, Apart
  <2>. QED  BY <1>0, <2>1, <2>2, KeepsLost
<1>. QED  BY <1>1, <1>2, <1>3, <1>4

LEMMA ReaderLoses ==
    ASSUME NEW t \in Threads, NEW s, During(t, s),
           \/ ReadEmpty(t) \/ ReadFirst(t) \/ Guard(t) \/ GetNext(t) \/ GetPrev(t)
           \/ UnlinkPrev(t) \/ DecLoad(t) \/ DecStore(t) \/ CopyOut(t)
    PROVE  LostFrom(s)' = LostFrom(s)
<1> USE DEF fields, locals, marks
<1>0. TypeOK /\ Reading(t, s) /\ NextFollows(t, s) /\ Null \notin live /\ Len(s) \in Nat
  BY InCall, NullIsNone DEF During
<1>1. CASE \/ Guard(t) \/ GetNext(t) \/ GetPrev(t) \/ UnlinkPrev(t) \/ DecLoad(t)
           \/ DecStore(t)
  <2>1. UNCHANGED <<live, elem>>
    BY <1>1 DEF Guard, GetNext, GetPrev, UnlinkPrev, DecLoad, DecStore, Oops
  <2>. QED  BY <2>1 DEF LostFrom
<1>2. CASE ReadEmpty(t)
  <2>1. CASE UNCHANGED <<live, elem>>
    BY <2>1 DEF LostFrom
  <2>2. CASE ~UNCHANGED <<live, elem>>
    <3>1. elem' = [elem EXCEPT ![t] = Null] /\ elem[t] = Null /\ UNCHANGED live
      BY <1>0, <1>2, <2>2 DEF ReadEmpty, Return, Reading
    <3>. QED  BY <1>0, <3>1, KeepsLost
  <2>. QED  BY <2>1, <2>2
<1>3. CASE ReadFirst(t)
  <2>1. /\ elem' = [elem EXCEPT ![t] = next[Front]] /\ elem[t] = Null /\ UNCHANGED live
        /\ Forth(next, s) /\ Len(s) > 0
    BY <1>0, <1>3 DEF ReadFirst, Reading, NextFollows
  <2>2. next[Front] = s[1] /\ 1 \in 1 .. Len(s)
    BY <1>0, <2>1 DEF Forth, Chain
  <2>3. ~Apart(next[Front], s)
    BY <2>2 DEF Apart
  <2>. QED  BY <1>0, <2>1, <2>3, KeepsLost
<1>4. CASE CopyOut(t)
  <2>1. pc[t] = "copy" /\ elem[t] \in live
    BY <1>0, <1>4 DEF CopyOut, Reading, Handed
  <2>2. elem' = [elem EXCEPT ![t] = Null] /\ live' = live \ {elem[t]}
    BY <1>4, <2>1 DEF CopyOut, Return, Free, Valid
  <2>3. elem'[t] = Null /\ \A u \in Threads \ {t} : elem'[u] = elem[u] /\ elem[u] = Null
    BY <1>0, <2>2, OthersHoldNone DEF TypeOK
  <2>. QED  BY <1>0, <2>2, <2>3 DEF LostFrom
<1>. QED  BY <1>1, <1>2, <1>3, <1>4

(* The steps that change the list, or drop a node out of every hand. *)
LEMMA TurnsLose ==
    ASSUME NEW t \in Threads, NEW s, During(t, s),
           LinkRear(t) \/ UnlinkNext(t) \/ CopyFaults(t)
    PROVE  \/ Lost' = Lost
           \/ pc[t] = "copy" /\ Lost' = Lost \cup {elem[t]}
<1> USE DEF fields, locals, marks
<1>0. TypeOK /\ IsShape(s) /\ IsOrder(s) /\ Lost = LostFrom(s) /\ Null \notin live
  BY InCall, ShapeLost, NullIsNone DEF During
<1>1. CASE LinkRear(t)
  <2>1. PICK r : r = Append(s, elem[t]) /\ IsShape(r)'
    BY <1>1, LinkRearShape
  <2>2. PICK e : e = elem[t] /\ r = Append(s, e) /\ Apart(e, s) /\ e \in Nodes
    BY <1>1, <2>1, LinkRearShape
  <2>3. /\ Len(r) = Len(s) + 1 /\ r[Len(s) + 1] = e /\ Len(s) \in Nat
        /\ \A i \in 1 .. Len(s) : r[i] = s[i]
    BY <1>0, <2>1, <2>2, Appended, InCells
  <2>4. \A d : d # e => (Apart(d, r) <=> Apart(d, s))
    <3>1. \A i \in 1 .. Len(r) : i \in 1 .. Len(s) \/ i = Len(s) + 1
      BY <2>3
    <3>2. \A i \in 1 .. Len(s) : i \in 1 .. Len(r)
      BY <2>3
    <3>. QED  BY <2>3, <3>1, <3>2 DEF Apart
  <2>5. UNCHANGED <<live, elem>>
    BY <1>1 DEF LinkRear
  <2>6. LostFrom(r)' = LostFrom(s)
    BY <2>2, <2>4, <2>5 DEF LostFrom
  <2>. QED  BY <1>0, <2>1, <2>6, ShapeLost
<1>2. CASE UnlinkNext(t)
  <2>1. PICK e, r : e = elem[t] /\ r = Tail(s)
    OBVIOUS
  <2>2. IsShape(r)' /\ Len(s) > 0 /\ e = s[1]
    BY <1>2, <2>1, UnlinkNextShape
  <2>3. /\ Len(r) = Len(s) - 1 /\ Len(s) \in Nat
        /\ \A i \in 1 .. Len(s) - 1 : r[i] = s[i + 1] /\ i + 1 \in 1 .. Len(s)
    BY <1>0, <2>1, <2>2, TailOf, InCells
  <2>4. \A d : d # e => (Apart(d, r) <=> Apart(d, s))
    <3>1. ASSUME NEW d, d # e, Apart(d, r) PROVE Apart(d, s)
      <4>1. \A i \in 1 .. Len(s) : i = 1 \/ (i - 1 \in 1 .. Len(s) - 1 /\ (i - 1) + 1 = i)
        BY <2>3
      <4>2. ASSUME NEW i \in 1 .. Len(s) PROVE s[i] # d
        <5>1. CASE i = 1
          BY <2>2, <3>1, <5>1
        <5>2. CASE i - 1 \in 1 .. Len(s) - 1 /\ (i - 1) + 1 = i
          <6>1. r[i - 1] = s[i] /\ i - 1 \in 1 .. Len(r)
            BY <2>3, <5>2
          <6>. QED  BY <3>1, <6>1 DEF Apart
        <5>. QED  BY <4>1, <5>1, <5>2
      <4>. QED  BY <4>2 DEF Apart
    <3>2. ASSUME NEW d, Apart(d, s) PROVE Apart(d, r)
      BY <2>3, <3>2 DEF Apart
    <3>. QED  BY <3>1, <3>2
  <2>5. UNCHANGED <<live, elem>>
    BY <1>2 DEF UnlinkNext, Oops
  <2>6. LostFrom(r)' = LostFrom(s)
    BY <2>1, <2>4, <2>5 DEF LostFrom
  <2>. QED  BY <1>0, <2>2, <2>6, ShapeLost
<1>3. CASE CopyFaults(t)
  <2>1. /\ pc[t] = "copy" /\ elem' = [elem EXCEPT ![t] = Null] /\ UNCHANGED live
        /\ elem[t] \in live /\ Apart(elem[t], s)
    BY <1>3, InCall DEF CopyFaults, Return, Reading, Handed
  <2>2. elem'[t] = Null /\ \A u \in Threads \ {t} : elem'[u] = elem[u] /\ elem[u] = Null
    BY <1>0, <2>1, OthersHoldNone DEF TypeOK
  <2>3. LostFrom(s)' = LostFrom(s) \cup {elem[t]}
    BY <1>0, <2>1, <2>2 DEF LostFrom
  <2>4. IsShape(s)'
    BY <1>3, ReaderShape
  <2>. QED  BY <1>0, <2>1, <2>3, <2>4, ShapeLost
<1>. QED  BY <1>1, <1>2, <1>3

(* A reload loses nothing, not even when free_list() goes astray. *)
LEMMA ReloadLoses ==
    ASSUME RaceInv, Shaped, ~overlap, Rmmod \/ Insmod
    PROVE  Lost' = Lost
<1>0. UNCHANGED elem
  BY DEF Rmmod, Insmod, locals
<1>1. PICK s : IsShape(s)
  BY DEF Shaped, Rmmod, Insmod
<1>2. IsOrder(s) /\ Lost = LostFrom(s) /\ \A e : Apart(e, <<>>)
  BY <1>1, ShapeLost DEF IsShape, Apart
<1>3. CASE Rmmod /\ FreesAll
  <2>1. IsShape(<<>>)' /\ Quiet /\ live' = IF size = 0 THEN live ELSE live \ Queue
    BY <1>3, UnloadShape
  <2>2. Walk(next, Front) = s /\ DOMAIN s = 1 .. Len(s) /\ size = Len(s)
    BY <1>1, <2>1, AtRest
  <2>3. \A e : e \in Queue <=> ~Apart(e, s)
    BY <2>2 DEF Queue, Apart
  <2>4. size = 0 => \A e : Apart(e, s)
    BY <2>2 DEF Apart
  <2>5. LostFrom(<<>>)' = LostFrom(s)
    BY <1>0, <1>2, <2>1, <2>3, <2>4 DEF LostFrom
  <2>. QED  BY <1>2, <2>1, <2>5, ShapeLost
<1>4. CASE Rmmod /\ FreesFirst
  <2>1. Quiet /\ Len(s) > 0 /\ Free(s[1]) /\ 1 \in 1 .. Len(s)
    BY <1>1, <1>4, UnloadFaults
  <2>2. /\ Back(prev, s, Front) /\ s[1] \in Cells /\ s[1] # Rear /\ Len(s) \in Nat
        /\ \A i \in 1 .. Len(s) : s[i] \in Cells /\ (s[i] = s[1] <=> i = 1)
    BY <1>1, <1>2, <2>1, AtRest, InCells DEF IsOrder
  <2>3. /\ live' = live \ {s[1]}
        /\ \A c \in Cells : prev'[c] = IF c = s[1] THEN Null ELSE prev[c]
    BY <2>1, <2>2 DEF Free, RaceInv, TypeOK
  <2>4. Back(prev', s, Null)
    BY <2>1, <2>2, <2>3, Places DEF Back
  <2>5. Lost' = LostFrom(s)'
    BY <1>2, <2>4, LostIs, Places
  <2>6. ~Apart(s[1], s)
    BY <2>1 DEF Apart
  <2>7. LostFrom(s)' = LostFrom(s)
    BY <1>0, <2>3, <2>6 DEF LostFrom
  <2>. QED  BY <1>2, <2>5, <2>7
<1>5. CASE Insmod
  <2>1. IsShape(<<>>)' /\ IsShape(<<>>) /\ UNCHANGED live
    BY <1>5, LoadShape DEF Insmod
  <2>2. Lost' = LostFrom(<<>>)' /\ Lost = LostFrom(<<>>)
    BY <2>1, ShapeLost
  <2>. QED  BY <1>0, <2>1, <2>2 DEF LostFrom
<1>. QED  BY <1>3, <1>4, <1>5 DEF Rmmod

(* Without overlap a message's memory is lost where copy_to_user() fails   *)
(* and nowhere else, and what is lost stays lost.                          *)
THEOREM LosesOnlyByFault == Spec => LostOnlyByFault
<1> DEFINE A == overlap \/ Lost' = Lost \/ \E t \in Threads : /\ pc[t] = "copy"
                                                   /\ Lost' = Lost \cup {elem[t]}
<1>1. RaceInv /\ Shaped /\ [Next]_vars => [A]_vars
  <2> SUFFICES ASSUME RaceInv, Shaped, [Next]_vars PROVE [A]_vars
    OBVIOUS
  <2>1. CASE UNCHANGED vars
    BY <2>1
  <2>2. CASE overlap
    BY <2>2
  <2>3. CASE ~overlap /\ (Rmmod \/ Insmod)
    BY <2>3, ReloadLoses
  <2>4. ASSUME ~overlap, NEW t \in Threads,
               CallWrite(t) \/ CallRead(t)
        PROVE  A
    <3>1. PICK s : IsShape(s)
      BY <2>4 DEF Shaped, CallWrite, CallRead, Enter
    <3>2. IsShape(s)' /\ UNCHANGED <<live, elem>>
      BY <2>4, <3>1, CallShape DEF fields
    <3>3. Lost' = Lost
      BY <3>1, <3>2, ShapeLost DEF LostFrom
    <3>. QED  BY <3>3
  <2>5. ASSUME ~overlap, NEW t \in Threads, Works(t) PROVE A
    <3>1. PICK s : During(t, s)
      BY <2>5, StepIsOwn, DuringNow DEF RaceInv
    <3>2. CASE LinkRear(t) \/ UnlinkNext(t) \/ CopyFaults(t)
      BY <3>1, <3>2, TurnsLose
    <3>3. CASE ~(LinkRear(t) \/ UnlinkNext(t) \/ CopyFaults(t))
      <4>1. IsShape(s)' /\ LostFrom(s)' = LostFrom(s)
        BY <2>5, <3>1, <3>3, WriterShape, ReaderShape, WriterLoses, ReaderLoses, TailStays
           DEF Works, Step
      <4>2. Lost' = Lost
        BY <3>1, <4>1, ShapeLost DEF During
      <4>. QED  BY <4>2
    <3>. QED  BY <3>2, <3>3
  <2>6. ASSUME ~overlap, Breaks PROVE A
    <3>1. Lost' = Lost
      BY <2>6 DEF Breaks, fields, locals, Lost
    <3>. QED  BY <3>1
  <2>. QED  BY <2>1, <2>2, <2>3, <2>4, <2>5, <2>6, Turns
<1>. QED  BY <1>1, ShapeInvariance, PTL DEF Spec, LostOnlyByFault

-----------------------------------------------------------------------------
(* The promised queue *)

(* What the promise sees. *)
Held == IF overlap \/ ~loaded THEN <<>> ELSE Queued
Out == IF overlap \/ Handing = {} THEN <<>> ELSE <<key[elem[CHOOSE t \in Handing : TRUE]]>>
Up == IF loaded THEN {"driver"} ELSE {}

Keys(s) == [i \in 1 .. Len(s) |-> key[s[i]]]
Giving == {"unlink_p", "dec", "dec_store", "copy"}

LEMMA QueuedIs ==
    ASSUME NEW s
    PROVE  (IsShape(s) => Queued = Keys(s)) /\ (IsShape(s)' => Queued' = Keys(s)')
<1>1. ASSUME IsShape(s) PROVE Queued = Keys(s)
  <2>1. Backwards(Walk(prev, Rear)) = s /\ DOMAIN s = 1 .. Len(s)
    BY <1>1, WalkBack, Places DEF IsShape, IsOrder
  <2>. QED  BY <2>1 DEF Queued, Keys
<1>2. ASSUME IsShape(s)' PROVE Queued' = Keys(s)'
  <2>1. Backwards(Walk(prev', Rear)) = s /\ DOMAIN s = 1 .. Len(s)
    BY <1>2, WalkBack, Places DEF IsShape, IsOrder
  <2>. QED  BY <2>1 DEF Queued, Keys
<1>. QED  BY <1>1, <1>2

LEMMA OutIs ==
    ASSUME NEW t \in Threads
    PROVE  /\ ~overlap /\ Alone(t) => Out = IF pc[t] \in Giving THEN <<key[elem[t]]>> ELSE <<>>
           /\ ~overlap' /\ Alone(t)'
                => Out' = IF pc'[t] \in Giving THEN <<key'[elem'[t]]>> ELSE <<>>
<1>1. ASSUME ~overlap, Alone(t)
      PROVE  Out = IF pc[t] \in Giving THEN <<key[elem[t]]>> ELSE <<>>
  <2>1. Handing = IF pc[t] \in Giving THEN {t} ELSE {}
    BY <1>1 DEF Handing, Giving, Alone
  <2>2. (CHOOSE u \in {t} : TRUE) = t
    OBVIOUS
  <2>. QED  BY <1>1, <2>1, <2>2 DEF Out
<1>2. ASSUME ~overlap', Alone(t)'
      PROVE  Out' = IF pc'[t] \in Giving THEN <<key'[elem'[t]]>> ELSE <<>>
  <2>1. Handing' = IF pc'[t] \in Giving THEN {t} ELSE {}
    BY <1>2 DEF Handing, Giving, Alone
  <2>2. (CHOOSE u \in {t} : TRUE) = t
    OBVIOUS
  <2>. QED  BY <1>2, <2>1, <2>2 DEF Out
<1>. QED  BY <1>1, <1>2

LEMMA QuietOut == (Quiet => Out = <<>>) /\ (Quiet' => Out' = <<>>)
BY DEF Quiet, Out, Handing

LEMMA KeysAre ==
    ASSUME TypeOK, NEW s, IsOrder(s)
    PROVE  Keys(s) \in Seq(Messages \cup {Null}) /\ Len(Keys(s)) = Len(s)
<1>1. Keys(s) \in [1 .. Len(s) -> Messages \cup {Null}] /\ Len(s) \in Nat
  BY InCells DEF Keys, TypeOK
<1>. QED  BY <1>1

(* The values the promise sees around a step, as relations. *)
LEMMA SameKeys ==
    ASSUME NEW s, \A i \in 1 .. Len(s) : key'[s[i]] = key[s[i]]
    PROVE  Keys(s)' = Keys(s)
BY DEF Keys

LEMMA Appends ==
    ASSUME TypeOK, NEW s, IsOrder(s), NEW e \in Nodes, Apart(e, s), NEW r, r = Append(s, e),
           UNCHANGED key
    PROVE  Keys(r)' = Keys(s) \o <<key[e]>>
<1> DEFINE q == Keys(s)
           k == key[e]
<1>1. /\ Len(r) = Len(s) + 1 /\ r[Len(s) + 1] = e /\ Len(s) \in Nat
      /\ \A i \in 1 .. Len(s) : r[i] = s[i]
  BY Appended, InCells
<1>2. q \in Seq(Messages \cup {Null}) /\ Len(q) = Len(s) /\ \A i \in 1 .. Len(s) : q[i] = key[s[i]]
  BY KeysAre DEF Keys
<1>3. k \in Messages \cup {Null}
  BY Places DEF TypeOK
<1>4. Keys(r)' = [i \in 1 .. Len(s) + 1 |-> key[r[i]]]
  BY <1>1 DEF Keys
<1> HIDE DEF q, k
<1>5. /\ q \o <<k>> \in Seq(Messages \cup {Null}) /\ Len(q \o <<k>>) = Len(s) + 1
      /\ \A i \in 1 .. Len(s) : (q \o <<k>>)[i] = q[i]
      /\ (q \o <<k>>)[Len(s) + 1] = k
  BY <1>1, <1>2, <1>3
<1>6. ASSUME NEW i \in 1 .. Len(s) + 1 PROVE (q \o <<k>>)[i] = key[r[i]]
  <2>1. CASE i = Len(s) + 1
    BY <1>1, <1>5, <2>1 DEF k
  <2>2. CASE i # Len(s) + 1
    <3>1. i \in 1 .. Len(s)
      BY <1>1, <2>2
    <3>. QED  BY <1>1, <1>2, <1>5, <3>1
  <2>. QED  BY <2>1, <2>2
<1>7. q \o <<k>> = [i \in 1 .. Len(s) + 1 |-> (q \o <<k>>)[i]]
  BY <1>5
<1>8. q \o <<k>> = [i \in 1 .. Len(s) + 1 |-> key[r[i]]]
  BY <1>6, <1>7
<1>. QED  BY <1>4, <1>8 DEF q, k

LEMMA Takes ==
    ASSUME TypeOK, NEW s, IsOrder(s), Len(s) > 0, NEW r, r = Tail(s), UNCHANGED key
    PROVE  /\ Keys(r)' = SubSeq(Keys(s), 1 + 1, Len(Keys(s)))
           /\ <<key[s[1]]>> = SubSeq(Keys(s), 1, 1)
           /\ 1 \in 1 .. Len(Keys(s))
<1> DEFINE q == Keys(s)
<1>1. /\ Len(r) = Len(s) - 1 /\ Len(s) \in Nat
      /\ \A i \in 1 .. Len(s) - 1 : r[i] = s[i + 1] /\ i + 1 \in 1 .. Len(s)
  BY TailOf, InCells
<1>2. q \in Seq(Messages \cup {Null}) /\ Len(q) = Len(s) /\ \A i \in 1 .. Len(s) : q[i] = key[s[i]]
  BY KeysAre DEF Keys
<1>3. Keys(r)' = [i \in 1 .. Len(s) - 1 |-> key[r[i]]]
  BY <1>1 DEF Keys
<1> HIDE DEF q
<1>4. 1 \in 1 .. Len(q) /\ q[1] = key[s[1]]
  BY <1>1, <1>2
<1>5. <<q[1]>> = SubSeq(q, 1, 1)
  BY <1>2, <1>4
<1>6. SubSeq(q, 2, Len(q)) = [i \in 1 .. Len(s) - 1 |-> q[i + 1]]
  BY <1>1, <1>2
<1>7. SubSeq(q, 2, Len(q)) = [i \in 1 .. Len(s) - 1 |-> key[r[i]]]
  BY <1>1, <1>2, <1>6
<1>8. Keys(r)' = SubSeq(q, 1 + 1, Len(q))
  <2>1. 1 + 1 = 2
    OBVIOUS
  <2>. QED  BY <1>3, <1>7, <2>1, Zenon
<1>9. <<key[s[1]]>> = SubSeq(q, 1, 1) /\ 1 \in 1 .. Len(q)
  BY <1>4, <1>5, Zenon
<1>. QED  BY <1>8, <1>9, Zenon DEF q

LEMMA PromiseInit == Init => Promise!Init
<1> SUFFICES ASSUME Init PROVE Promise!Init
  OBVIOUS
<1>1. RaceInv /\ Shaped /\ Quiet /\ size = 0 /\ ~fault
  BY RaceInit, ShapedInit DEF Init, Quiet
<1>2. Held = <<>>
  <2>1. CASE overlap
    BY <2>1 DEF Held
  <2>2. CASE ~overlap
    <3>1. PICK s : IsShape(s)
      BY <1>1, <2>2 DEF Shaped
    <3>2. Len(s) = 0 /\ Queued = Keys(s)
      BY <1>1, <3>1, AtRest, QueuedIs
    <3>3. Keys(s) = <<>>
      BY <3>2 DEF Keys
    <3>. QED  BY <3>2, <3>3 DEF Held
  <2>. QED  BY <2>1, <2>2
<1>3. Out = <<>>
  BY <1>1, QuietOut
<1>4. Up \in SUBSET {"driver"}
  BY DEF Up
<1>. QED  BY <1>2, <1>3, <1>4 DEF Promise!Init, Held, Out, Up

(* The steps of the promise, in the values it sees. *)
LEMMA PromiseSteps ==
    /\ UNCHANGED <<Held, Out, Up>> => UNCHANGED Promise!vars
    /\ ~loaded /\ loaded' /\ Held' = <<>> /\ UNCHANGED Out => Promise!Next
    /\ loaded /\ ~loaded' /\ Held' = <<>> /\ UNCHANGED Out => Promise!Next
    /\ \A m \in Messages :
           loaded /\ Len(Held) < Cardinality(Nodes) /\ Held' = Held \o <<m>>
           /\ UNCHANGED <<Out, Up>> /\ Len(Held) \in Nat /\ Cardinality(Nodes) \in Nat
              => Promise!Next
    /\ loaded /\ 1 \in 1 .. Len(Held) /\ Out' = SubSeq(Held, 1, 1)
       /\ Held' = SubSeq(Held, 1 + 1, Len(Held)) /\ UNCHANGED Up => Promise!Next
    /\ Out' = <<>> /\ UNCHANGED <<Held, Up>> => Promise!Next
<1>1. UNCHANGED <<Held, Out, Up>> => UNCHANGED Promise!vars
  BY DEF Promise!vars, Held, Out, Up
<1>2. ASSUME ~loaded, loaded', Held' = <<>>, UNCHANGED Out PROVE Promise!Open("driver")
  <2>1. Up = {} /\ Up' = {"driver"}
    BY <1>2 DEF Up
  <2>. QED  BY <1>2, <2>1 DEF Promise!Open, Held, Out, Up
<1>3. ASSUME loaded, ~loaded', Held' = <<>>, UNCHANGED Out PROVE Promise!Close("driver")
  <2>1. Up = {"driver"} /\ Up' = {}
    BY <1>3 DEF Up
  <2>. QED  BY <1>3, <2>1 DEF Promise!Close, Held, Out, Up
<1>4. ASSUME NEW m \in Messages, loaded, Len(Held) < Cardinality(Nodes),
             Held' = Held \o <<m>>, UNCHANGED <<Out, Up>>,
             Len(Held) \in Nat, Cardinality(Nodes) \in Nat
      PROVE  Promise!Accept(<<m>>)
  <2>1. Up # {}
    BY <1>4 DEF Up
  <2>2. Len(<<m>>) = 1
    OBVIOUS
  <2>3. Len(Held) + Len(<<m>>) < Cardinality(Nodes) + 1
    BY <1>4, <2>2
  <2>. QED  BY <1>4, <2>1, <2>3 DEF Promise!Accept, Held, Out, Up
<1>5. ASSUME loaded, 1 \in 1 .. Len(Held), Out' = SubSeq(Held, 1, 1),
             Held' = SubSeq(Held, 1 + 1, Len(Held)), UNCHANGED Up
      PROVE  Promise!Take(1)
  <2>1. Up # {}
    BY <1>5 DEF Up
  <2>. QED  BY <1>5, <2>1 DEF Promise!Take, Held, Out, Up
<1>6. ASSUME Out' = <<>>, UNCHANGED <<Held, Up>> PROVE Promise!Handed
  BY <1>6 DEF Promise!Handed, Held, Out, Up
<1>7. \A m \in Messages : <<m>> \in {<<n>> : n \in Messages}
  OBVIOUS
<1>. QED  BY <1>1, <1>2, <1>3, <1>4, <1>5, <1>6, <1>7 DEF Promise!Next, Held

(* A call's steps between its one turn and its ends are none of the        *)
(* promise's.                                                              *)
LEMMA QuietSteps ==
    ASSUME NEW t \in Threads, NEW s, During(t, s), Works(t),
           ~(LinkRear(t) \/ UnlinkNext(t) \/ CopyOut(t) \/ CopyFaults(t))
    PROVE  UNCHANGED <<Held, Out, Up>>
<1> USE DEF fields, locals, marks
<1>0. /\ TypeOK /\ ~overlap /\ loaded /\ IsShape(s) /\ Alone(t) /\ ~fault
      /\ UNCHANGED <<overlap, loaded>> /\ Writing(t, s)
      /\ \A label : Goto(t, label) => pc'[t] = label /\ Alone(t)'
  BY InCall, StepIsOwn, StaysAlone DEF During
<1>1. \/ BufferFails(t) \/ CopyInFaults(t) \/ (\E m \in Messages : CopyIn(t, m))
      \/ ReadTail(t) \/ AllocFails(t) \/ (\E e \in Nodes : Alloc(t, e))
      \/ SetKey(t) \/ LinkBefore(t) \/ LinkPrev(t) \/ LinkNext(t)
      \/ IncLoad(t) \/ IncStore(t)
      \/ ReadEmpty(t) \/ ReadFirst(t) \/ Guard(t) \/ GetNext(t) \/ GetPrev(t)
      \/ UnlinkPrev(t) \/ DecLoad(t) \/ DecStore(t)
  BY TailStays DEF Works, Step
<1>2. IsShape(s)' /\ ~fault'
  BY <1>1, WriterShape, ReaderShape
<1>3. \A i \in 1 .. Len(s) : key'[s[i]] = key[s[i]]
  <2>1. CASE SetKey(t)
    <3>1. key' = [key EXCEPT ![elem[t]] = data[t]] /\ Apart(elem[t], s)
      BY <1>0, <2>1 DEF SetKey, Writing, Linking
    <3>. QED  BY <1>0, <3>1, InCells DEF TypeOK, IsShape, Apart
  <2>2. CASE ~SetKey(t)
    <3>1. UNCHANGED key
      BY <1>1, <2>2 DEF BufferFails, CopyInFaults, CopyIn, ReadTail, AllocFails, Alloc,
           LinkBefore, LinkPrev, LinkNext, IncLoad, IncStore, ReadEmpty, ReadFirst,
           Guard, GetNext, GetPrev, UnlinkPrev, DecLoad, DecStore, Oops
    <3>. QED  BY <3>1
  <2>. QED  BY <2>1, <2>2
<1>4. UNCHANGED Held
  BY <1>0, <1>2, <1>3, QueuedIs, SameKeys DEF Held
<1>5. UNCHANGED Out
  <2>1. CASE UnlinkPrev(t) \/ DecLoad(t) \/ DecStore(t)
    <3>1. /\ pc[t] \in {"unlink_p", "dec", "dec_store"} /\ UNCHANGED <<key, elem>>
          /\ \E label \in {"dec", "dec_store", "copy", "dead"} :
                Goto(t, label) /\ (label = "dead" => Oops(t))
      BY <2>1 DEF UnlinkPrev, DecLoad, DecStore, Oops
    <3>2. ~Oops(t)
      BY <1>2 DEF Oops
    <3>3. pc[t] \in Giving /\ pc'[t] \in Giving /\ Alone(t)'
      BY <1>0, <3>1, <3>2 DEF Giving
    <3>. QED  BY <1>0, <3>1, <3>3, OutIs
  <2>2. CASE \/ BufferFails(t) \/ CopyInFaults(t) \/ (\E m \in Messages : CopyIn(t, m))
             \/ ReadTail(t) \/ AllocFails(t) \/ (\E e \in Nodes : Alloc(t, e))
             \/ SetKey(t) \/ LinkBefore(t) \/ LinkPrev(t) \/ LinkNext(t)
             \/ IncLoad(t) \/ IncStore(t)
    <3>1. /\ pc[t] \in {"buffer", "tail", "alloc", "check", "link_b", "link_prev", "link_next",
                        "inc", "inc_store"}
          /\ \E label \in {"tail", "alloc", "idle", "check", "link_b", "link_prev", "link_next",
                           "link_n", "inc_store", "dead"} : Goto(t, label)
      BY <2>2 DEF BufferFails, CopyInFaults, CopyIn, ReadTail, AllocFails, Alloc, SetKey,
           LinkBefore, LinkPrev, LinkNext, IncLoad, IncStore, Oops, Return
    <3>2. pc[t] \notin Giving /\ pc'[t] \notin Giving /\ Alone(t)'
      BY <1>0, <3>1 DEF Giving
    <3>. QED  BY <1>0, <3>2, OutIs
  <2>3. CASE ReadEmpty(t) \/ ReadFirst(t) \/ Guard(t) \/ GetNext(t) \/ GetPrev(t)
    <3>1. /\ pc[t] \in {"empty", "first", "guard", "get_n", "get_p"}
          /\ \E label \in {"idle", "first", "guard", "get_n", "get_p", "unlink_n", "dead"} :
                Goto(t, label)
      BY <2>3 DEF ReadEmpty, ReadFirst, Guard, GetNext, GetPrev, Oops, Return
    <3>2. pc[t] \notin Giving /\ pc'[t] \notin Giving /\ Alone(t)'
      BY <1>0, <3>1 DEF Giving
    <3>. QED  BY <1>0, <3>2, OutIs
  <2>. QED  BY <1>1, <2>1, <2>2, <2>3
<1>. QED  BY <1>0, <1>4, <1>5 DEF Up

LEMMA CallSteps ==
    ASSUME NEW t \in Threads, NEW s, During(t, s), Works(t)
    PROVE  [Promise!Next]_(Promise!vars)
<1> USE DEF fields, locals, marks
<1>0. /\ TypeOK /\ ~overlap /\ loaded /\ IsShape(s) /\ IsOrder(s) /\ Alone(t) /\ ~fault
      /\ UNCHANGED <<overlap, loaded, Up>> /\ Writing(t, s) /\ Reading(t, s)
      /\ Held = Keys(s) /\ (\A label : Goto(t, label) => pc'[t] = label /\ Alone(t)')
  BY InCall, StepIsOwn, StaysAlone, QueuedIs DEF During, Held, Up
<1>1. CASE LinkRear(t)
  <2>1. /\ pc[t] = "link_n" /\ pc'[t] = "inc" /\ Alone(t)' /\ UNCHANGED <<key, elem>>
        /\ key[elem[t]] \in Messages
    BY <1>0, <1>1 DEF LinkRear, Writing, Linking
  <2>2. UNCHANGED Out
    BY <1>0, <2>1, OutIs DEF Giving
  <2>3. PICK r : r = Append(s, elem[t]) /\ IsShape(r)'
    BY <1>1, LinkRearShape
  <2>4. PICK e \in Nodes : e = elem[t] /\ Apart(e, s) /\ r = Append(s, e)
    BY <1>1, <2>3, LinkRearShape
  <2>5. Held' = Keys(r)'
    BY <1>0, <2>3, QueuedIs DEF Held
  <2>6. Held' = Held \o <<key[e]>>
    BY <1>0, <2>1, <2>4, <2>5, Appends
  <2>7. /\ Len(Held) = Len(s) /\ Len(r) = Len(s) + 1 /\ Len(r) <= Cardinality(Nodes)
        /\ Len(s) \in Nat /\ Cardinality(Nodes) \in Nat
    <3>1. IsOrder(r)
      BY <2>3 DEF IsShape
    <3>. QED  BY <1>0, <2>4, <3>1, Appended, KeysAre, OrderFits
  <2>8. Len(Held) < Cardinality(Nodes)
    BY <2>7
  <2>. QED  BY <1>0, <2>1, <2>2, <2>4, <2>6, <2>7, <2>8, PromiseSteps
<1>2. CASE UnlinkNext(t)
  <2>1. PICK r : r = Tail(s) /\ IsShape(r)'
    BY <1>2, UnlinkNextShape
  <2>2. Len(s) > 0 /\ elem[t] = s[1] /\ pc'[t] = "unlink_p" /\ ~fault'
    BY <1>2, UnlinkNextShape
  <2>3. UNCHANGED <<key, elem>> /\ Alone(t)'
    BY <1>0, <1>2, <2>2 DEF UnlinkNext, Oops
  <2>4. Held' = Keys(r)'
    BY <1>0, <2>1, QueuedIs DEF Held
  <2>5. Out' = <<key[s[1]]>>
    BY <1>0, <2>2, <2>3, OutIs DEF Giving
  <2>. QED  BY <1>0, <2>1, <2>2, <2>3, <2>4, <2>5, Takes, PromiseSteps
<1>3. CASE CopyOut(t) \/ CopyFaults(t)
  <2>1. pc[t] = "copy" /\ Apart(elem[t], s) /\ elem[t] \in live /\ Return(t)
    BY <1>0, <1>3 DEF CopyOut, CopyFaults, Reading, Handed, Valid
  <2>2. IsShape(s)' /\ pc'[t] = "idle" /\ Alone(t)'
    BY <1>0, <1>3, <2>1, ReaderShape DEF Return
  <2>3. Out' = <<>>
    BY <1>0, <2>2, OutIs DEF Giving
  <2>4. \A i \in 1 .. Len(s) : key'[s[i]] = key[s[i]]
    <3>1. UNCHANGED key \/ key' = [key EXCEPT ![elem[t]] = Null]
      BY <1>3, <2>1 DEF CopyOut, CopyFaults, Free, Valid
    <3>. QED  BY <1>0, <2>1, <3>1, InCells DEF TypeOK, Apart
  <2>5. UNCHANGED Held
    BY <1>0, <2>2, <2>4, QueuedIs, SameKeys DEF Held
  <2>. QED  BY <1>0, <2>3, <2>5, PromiseSteps
<1>4. CASE ~(LinkRear(t) \/ UnlinkNext(t) \/ CopyOut(t) \/ CopyFaults(t))
  BY <1>4, QuietSteps, PromiseSteps
<1>. QED  BY <1>1, <1>2, <1>3, <1>4

LEMMA PromiseStep ==
    ASSUME RaceInv, Shaped, [Next]_vars
    PROVE  [Promise!Next]_(Promise!vars)
<1> USE DEF fields, locals, marks
<1>1. CASE UNCHANGED vars
  <2>1. UNCHANGED <<Held, Out, Up>>
    BY <1>1 DEF vars, Held, Out, Up, Queued, Handing
  <2>. QED  BY <2>1, PromiseSteps
<1>2. CASE Rmmod
  <2>1. /\ loaded /\ ~loaded' /\ Quiet /\ Quiet' /\ UNCHANGED <<pc, overlap>>
    BY <1>2 DEF Rmmod, Quiet
  <2>2. Held' = <<>> /\ UNCHANGED Out
    BY <2>1, QuietOut DEF Held
  <2>. QED  BY <2>1, <2>2, PromiseSteps
<1>3. CASE Insmod
  <2>1. ~loaded /\ loaded' /\ ~fault /\ UNCHANGED <<pc, overlap>>
    BY <1>3 DEF Insmod
  <2>2. CASE overlap
    <3>1. Held' = <<>> /\ UNCHANGED Out
      BY <2>1, <2>2 DEF Held, Out
    <3>. QED  BY <2>1, <3>1, PromiseSteps
  <2>3. CASE ~overlap
    <3>1. IsShape(<<>>)' /\ Quiet /\ Quiet'
      BY <1>3, <2>3, LoadShape
    <3>2. Queued' = Keys(<<>>)'
      BY <3>1, QueuedIs
    <3>3. Keys(<<>>)' = <<>>
      BY DEF Keys
    <3>4. Held' = <<>> /\ UNCHANGED Out
      BY <2>1, <2>3, <3>1, <3>2, <3>3, QuietOut DEF Held
    <3>. QED  BY <2>1, <3>4, PromiseSteps
  <2>. QED  BY <2>2, <2>3
<1>4. ASSUME NEW t \in Threads, CallWrite(t) \/ CallRead(t)
      PROVE  [Promise!Next]_(Promise!vars)
  <2>1. loaded /\ ~fault /\ UNCHANGED <<overlap, loaded>>
    BY <1>4 DEF CallWrite, CallRead, Enter
  <2>2. CASE overlap
    <3>1. UNCHANGED <<Held, Out, Up>>
      BY <2>1, <2>2 DEF Held, Out, Up
    <3>. QED  BY <3>1, PromiseSteps
  <2>3. CASE ~overlap
    <3>1. PICK s : IsShape(s)
      BY <2>1, <2>3 DEF Shaped
    <3>2. /\ IsShape(s)' /\ Alone(t)' /\ Quiet /\ UNCHANGED key /\ pc'[t] \in {"buffer", "empty"}
      BY <1>4, <2>3, <3>1, CallShape
    <3>3. UNCHANGED Held
      BY <2>1, <2>3, <3>1, <3>2, QueuedIs, SameKeys DEF Held
    <3>4. UNCHANGED Out
      <4>1. ~overlap' /\ pc'[t] \notin Giving
        BY <2>1, <2>3, <3>2 DEF Giving
      <4>. QED  BY <3>2, <4>1, OutIs, QuietOut
    <3>. QED  BY <2>1, <3>3, <3>4, PromiseSteps DEF Up
  <2>. QED  BY <2>2, <2>3
<1>5. ASSUME NEW t \in Threads, Works(t) PROVE [Promise!Next]_(Promise!vars)
  <2>1. pc[t] # "idle" /\ UNCHANGED <<overlap, loaded>>
    BY <1>5, StepIsOwn DEF RaceInv
  <2>2. CASE overlap
    <3>1. UNCHANGED <<Held, Out, Up>>
      BY <2>1, <2>2 DEF Held, Out, Up
    <3>. QED  BY <3>1, PromiseSteps
  <2>3. CASE ~overlap
    <3>1. PICK s : During(t, s)
      BY <2>1, <2>3, DuringNow
    <3>. QED  BY <1>5, <3>1, CallSteps
  <2>. QED  BY <2>2, <2>3
<1>6. CASE Breaks
  <2>1. UNCHANGED <<Held, Out, Up>>
    BY <1>6 DEF Breaks, Held, Out, Up, Queued, Handing
  <2>. QED  BY <2>1, PromiseSteps
<1>. QED  BY <1>1, <1>2, <1>3, <1>4, <1>5, <1>6, Turns

(* Without overlap the driver keeps the promised queue, whatever copies    *)
(* and allocations fail and whenever it is loaded again.                   *)
THEOREM Refines == Spec => KeepsPromise
<1>1. RaceInv /\ Shaped /\ [Next]_vars => [Promise!Next]_(Promise!vars)
  BY PromiseStep
<1>. QED  BY <1>1, PromiseInit, ShapeInvariance, PTL DEF Spec, KeepsPromise, Promise!Spec

=============================================================================
