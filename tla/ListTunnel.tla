----------------------------- MODULE ListTunnel -----------------------------
(***************************************************************************)
(* car/tunnel: the tunnel driver that queues whole messages in a doubly    *)
(* linked list (driver.c over between.c, remove.c, size.c, init_list.c),   *)
(* one device with its list.  Nothing in the driver locks anything, so     *)
(* every read and write of a shared field is a step of its own.  What the  *)
(* driver is worth depends on its clients, so a behaviour fixes at its     *)
(* start whether their calls may overlap.                                  *)
(***************************************************************************)
EXTENDS Integers, Sequences, FiniteSets

CONSTANTS Threads,      \* the client processes
          Messages,     \* what they write
          Nodes,        \* memory for list nodes; no node left: kmalloc() fails
          Front, Rear,  \* the two sentinels of init_list()
          Null,         \* a pointer or key nobody has set
          SizeBound     \* bound: no call starts while lst->size is outside 0 .. SizeBound

ASSUME SentinelAssumption == Front # Rear /\ {Front, Rear} \cap Nodes = {}
ASSUME NullAssumption == Null \notin Nodes \cup {Front, Rear} \cup Messages
ASSUME BoundAssumption == /\ IsFiniteSet(Nodes)
                          /\ SizeBound \in Nat /\ SizeBound >= Cardinality(Nodes)

VARIABLES next, prev, key,  \* the fields of every node
          live,             \* the kmalloc()ed and not yet kfree()d nodes
          size,             \* lst->size
          pc,               \* the next statement of each thread
          elem,             \* its local element
          before, after,    \* its locals b and n, or p and n
          reg,              \* lst->size in a register, between load and store
          data,             \* kernelBuf
          fault,            \* a NULL or freed node was dereferenced
          overlap,          \* may calls of different clients overlap
          loaded,           \* the module is in
          broken            \* memory of others overwritten, or a load that never ends

fields == <<next, prev, key, live, size>>
locals == <<elem, before, after, reg, data>>
marks == <<fault, overlap, loaded, broken>>
vars == <<fields, locals, pc, marks>>

Cells == Nodes \cup {Front, Rear}
Pointers == Cells \cup {Null}

Labels == {"idle", "buffer", "tail", "alloc", "check", "link_b", "link_prev", "link_next",
           "link_n", "empty", "first", "guard", "get_n", "get_p", "unlink_n",
           "unlink_p", "copy", "inc", "inc_store", "dec", "dec_store", "dead"}

TypeOK ==
    /\ next \in [Cells -> Pointers] /\ prev \in [Cells -> Pointers]
    /\ key \in [Cells -> Messages \cup {Null}]
    /\ live \in SUBSET Nodes
    /\ size \in Int
    /\ pc \in [Threads -> Labels]
    /\ elem \in [Threads -> Pointers]
    /\ before \in [Threads -> Pointers] /\ after \in [Threads -> Pointers]
    /\ reg \in [Threads -> Int]
    /\ data \in [Threads -> Messages \cup {Null}]
    /\ fault \in BOOLEAN /\ overlap \in BOOLEAN
    /\ loaded \in BOOLEAN /\ broken \in BOOLEAN

(* init_list() *)
EmptyNext == [c \in Cells |-> IF c \in {Front, Rear} THEN Rear ELSE Null]
EmptyPrev == [c \in Cells |-> IF c = Rear THEN Front ELSE Null]

Init ==
    /\ next = EmptyNext /\ prev = EmptyPrev
    /\ key = [c \in Cells |-> Null]
    /\ live = {}
    /\ size = 0
    /\ pc = [t \in Threads |-> "idle"]
    /\ elem = [t \in Threads |-> Null]
    /\ before = [t \in Threads |-> Null] /\ after = [t \in Threads |-> Null]
    /\ reg = [t \in Threads |-> 0]
    /\ data = [t \in Threads |-> Null]
    /\ fault = FALSE /\ overlap \in BOOLEAN /\ loaded = TRUE /\ broken = FALSE

Goto(t, label) == pc' = [pc EXCEPT ![t] = label]

(* t is back in user space; its locals are gone. *)
Return(t) ==
    /\ Goto(t, "idle")
    /\ elem' = [elem EXCEPT ![t] = Null]
    /\ before' = [before EXCEPT ![t] = Null]
    /\ after' = [after EXCEPT ![t] = Null]
    /\ reg' = [reg EXCEPT ![t] = 0]
    /\ data' = [data EXCEPT ![t] = Null]

(* May t follow pointer p?  The sentinels are never freed. *)
Valid(p) == p \in live \cup {Front, Rear}

(* kfree(): what the memory holds afterwards is anybody's. *)
Free(e) ==
    /\ live' = live \ {e}
    /\ next' = [next EXCEPT ![e] = Null]
    /\ prev' = [prev EXCEPT ![e] = Null]
    /\ key' = [key EXCEPT ![e] = Null]

(* t follows a bad pointer: the kernel stops it. *)
Oops(t) ==
    /\ Goto(t, "dead")
    /\ fault' = TRUE
    /\ UNCHANGED <<fields, locals, overlap, loaded, broken>>

(* Bounds: a behaviour is followed no further than the calls in progress   *)
(* at its first fault, or when races have moved size out of bounds.        *)
Enter(t, label) ==
    /\ pc[t] = "idle"
    /\ overlap \/ \A u \in Threads : pc[u] = "idle"
    /\ loaded /\ ~fault /\ size \in 0 .. SizeBound
    /\ Goto(t, label)

-----------------------------------------------------------------------------
(* DeviceWrite -> enqueue -> between *)

CallWrite(t) ==
    /\ Enter(t, "buffer")
    /\ UNCHANGED <<fields, locals, marks>>

(* No memory for kernelBuf: memset() follows the NULL, and the kernel ends *)
(* the client.  The driver has touched nothing yet; a new client may take  *)
(* its place.                                                              *)
BufferFails(t) ==
    /\ pc[t] = "buffer"
    /\ Return(t)
    /\ UNCHANGED <<fields, marks>>

(* copy_from_user() fails: -EFAULT. *)
CopyInFaults(t) ==
    /\ pc[t] = "buffer"
    /\ Return(t)
    /\ UNCHANGED <<fields, marks>>

(* A len beyond the PREFIX bytes of kernelBuf: what lies behind them is    *)
(* overwritten, and the behaviour is followed no further.                  *)
CopyInOverruns(t) ==
    /\ pc[t] = "buffer"
    /\ broken' = TRUE
    /\ UNCHANGED <<fields, locals, pc, fault, overlap, loaded>>

(* kernelBuf holds the caller's bytes. *)
CopyIn(t, m) ==
    /\ pc[t] = "buffer"
    /\ data' = [data EXCEPT ![t] = m]
    /\ Goto(t, "tail")
    /\ UNCHANGED <<fields, elem, before, after, reg, marks>>

(* The argument lst->rear->prev of between(). *)
ReadTail(t) ==
    /\ pc[t] = "tail"
    /\ before' = [before EXCEPT ![t] = prev[Rear]]
    /\ Goto(t, "alloc")
    /\ UNCHANGED <<fields, elem, after, reg, data, marks>>

(* No node: between() returns 1, which DeviceWrite takes for success. *)
AllocFails(t) ==
    /\ pc[t] = "alloc"
    /\ Return(t)
    /\ UNCHANGED <<fields, marks>>

Alloc(t, e) ==
    /\ pc[t] = "alloc" /\ e \in Nodes \ live
    /\ live' = live \cup {e}
    /\ elem' = [elem EXCEPT ![t] = e]
    /\ Goto(t, "check")
    /\ UNCHANGED <<next, prev, key, size, before, after, reg, data, marks>>

(* if (b != n->prev) ... return -1 *)
TailMoved(t) ==
    /\ pc[t] = "check" /\ before[t] # prev[Rear]
    /\ Free(elem[t])
    /\ Return(t)
    /\ UNCHANGED <<size, marks>>

(* Mutant: item and b swapped in the call of between(). *)
SetKeyToNode(t) ==
    /\ pc[t] = "check" /\ before[t] = prev[Rear]
    /\ key' = [key EXCEPT ![elem[t]] = before[t]]
    /\ Goto(t, "link_b")
    /\ UNCHANGED <<next, prev, live, size, locals, marks>>

SetKey(t) ==
    /\ pc[t] = "check" /\ before[t] = prev[Rear]
    /\ key' = [key EXCEPT ![elem[t]] = data[t]]
    /\ Goto(t, "link_b")
    /\ UNCHANGED <<next, prev, live, size, locals, marks>>

(* b->next = element *)
LinkBefore(t) ==
    /\ pc[t] = "link_b"
    /\ IF Valid(before[t])
       THEN /\ next' = [next EXCEPT ![before[t]] = elem[t]]
            /\ Goto(t, "link_prev")
            /\ UNCHANGED <<prev, key, live, size, locals, marks>>
       ELSE Oops(t)

(* element->prev = b *)
LinkPrev(t) ==
    /\ pc[t] = "link_prev"
    /\ IF Valid(elem[t])
       THEN /\ prev' = [prev EXCEPT ![elem[t]] = before[t]]
            /\ Goto(t, "link_next")
            /\ UNCHANGED <<next, key, live, size, locals, marks>>
       ELSE Oops(t)

(* element->next = n *)
LinkNext(t) ==
    /\ pc[t] = "link_next"
    /\ IF Valid(elem[t])
       THEN /\ next' = [next EXCEPT ![elem[t]] = Rear]
            /\ Goto(t, "link_n")
            /\ UNCHANGED <<prev, key, live, size, locals, marks>>
       ELSE Oops(t)

(* Mutant: n->prev = element is missing. *)
LinkRearSkipped(t) ==
    /\ pc[t] = "link_n"
    /\ Goto(t, "inc")
    /\ UNCHANGED <<fields, locals, marks>>

(* n->prev = element *)
LinkRear(t) ==
    /\ pc[t] = "link_n"
    /\ prev' = [prev EXCEPT ![Rear] = elem[t]]
    /\ Goto(t, "inc")
    /\ UNCHANGED <<next, key, live, size, locals, marks>>

(* lst->size ++, a load and a store *)
IncLoad(t) ==
    /\ pc[t] = "inc"
    /\ reg' = [reg EXCEPT ![t] = size]
    /\ Goto(t, "inc_store")
    /\ UNCHANGED <<fields, elem, before, after, data, marks>>

IncStore(t) ==
    /\ pc[t] = "inc_store"
    /\ size' = reg[t] + 1
    /\ Return(t)
    /\ UNCHANGED <<next, prev, key, live, marks>>

-----------------------------------------------------------------------------
(* DeviceRead -> dequeue -> remove_item *)

CallRead(t) ==
    /\ Enter(t, "empty")
    /\ UNCHANGED <<fields, locals, marks>>

ReadEmpty(t) ==
    /\ pc[t] = "empty"
    /\ IF size = 0 THEN Return(t) ELSE Goto(t, "first") /\ UNCHANGED locals
    /\ UNCHANGED <<fields, marks>>

(* Mutant: dequeue() takes the newest node, as pop_back() would. *)
ReadLast(t) ==
    /\ pc[t] = "first"
    /\ elem' = [elem EXCEPT ![t] = prev[Rear]]
    /\ Goto(t, "guard")
    /\ UNCHANGED <<fields, before, after, reg, data, marks>>

(* The argument lst->front->next of remove_item(). *)
ReadFirst(t) ==
    /\ pc[t] = "first"
    /\ elem' = [elem EXCEPT ![t] = next[Front]]
    /\ Goto(t, "guard")
    /\ UNCHANGED <<fields, before, after, reg, data, marks>>

(* Mutant: remove_item() does not test for the sentinels. *)
GuardSizeOnly(t) ==
    /\ pc[t] = "guard"
    /\ IF size = 0 THEN Oops(t)
       ELSE Goto(t, "get_n") /\ UNCHANGED <<fields, locals, marks>>

(* remove_item() returns NULL for a sentinel and for an empty list, and    *)
(* DeviceRead follows the NULL to its key.                                 *)
Guard(t) ==
    /\ pc[t] = "guard"
    /\ IF elem[t] \in {Front, Rear} \/ size = 0
       THEN Oops(t)
       ELSE Goto(t, "get_n") /\ UNCHANGED <<fields, locals, marks>>

(* n = element->next *)
GetNext(t) ==
    /\ pc[t] = "get_n"
    /\ IF Valid(elem[t])
       THEN /\ after' = [after EXCEPT ![t] = next[elem[t]]]
            /\ Goto(t, "get_p")
            /\ UNCHANGED <<fields, elem, before, reg, data, marks>>
       ELSE Oops(t)

(* p = element->prev *)
GetPrev(t) ==
    /\ pc[t] = "get_p"
    /\ IF Valid(elem[t])
       THEN /\ before' = [before EXCEPT ![t] = prev[elem[t]]]
            /\ Goto(t, "unlink_n")
            /\ UNCHANGED <<fields, elem, after, reg, data, marks>>
       ELSE Oops(t)

(* n->prev = p *)
UnlinkNext(t) ==
    /\ pc[t] = "unlink_n"
    /\ IF Valid(after[t])
       THEN /\ prev' = [prev EXCEPT ![after[t]] = before[t]]
            /\ Goto(t, "unlink_p")
            /\ UNCHANGED <<next, key, live, size, locals, marks>>
       ELSE Oops(t)

(* p->next = n *)
UnlinkPrev(t) ==
    /\ pc[t] = "unlink_p"
    /\ IF Valid(before[t])
       THEN /\ next' = [next EXCEPT ![before[t]] = after[t]]
            /\ Goto(t, "dec")
            /\ UNCHANGED <<prev, key, live, size, locals, marks>>
       ELSE Oops(t)

(* lst->size -- *)
DecLoad(t) ==
    /\ pc[t] = "dec"
    /\ reg' = [reg EXCEPT ![t] = size]
    /\ Goto(t, "dec_store")
    /\ UNCHANGED <<fields, elem, before, after, data, marks>>

DecStore(t) ==
    /\ pc[t] = "dec_store"
    /\ size' = reg[t] - 1
    /\ Goto(t, "copy")
    /\ UNCHANGED <<next, prev, key, live, locals, marks>>

(* copy_to_user() of the key, then kfree() of the node (never of the key) *)
CopyOut(t) ==
    /\ pc[t] = "copy"
    /\ IF Valid(elem[t])
       THEN /\ Free(elem[t])
            /\ Return(t)
            /\ UNCHANGED <<size, marks>>
       ELSE Oops(t)

(* copy_to_user() fails: the node is neither queued nor freed. *)
CopyFaults(t) ==
    /\ pc[t] = "copy" /\ Valid(elem[t])
    /\ Return(t)
    /\ UNCHANGED <<fields, marks>>

-----------------------------------------------------------------------------
(* Unloading and loading again: DeviceExit, free_list(), DeviceInit         *)

(* The nodes met from a sentinel along link, up to the first that is not a *)
(* node of the list.                                                       *)
Walk(link, from) ==
    LET at[i \in 0 .. Cardinality(Nodes)] ==
            IF i = 0 THEN link[from]
            ELSE IF at[i - 1] \in Nodes THEN link[at[i - 1]] ELSE at[i - 1]
        steps == Cardinality({i \in DOMAIN at : at[i] \in Nodes})
    IN  [i \in 1 .. steps |-> at[i - 1]]

Queue == {Walk(next, Front)[i] : i \in DOMAIN Walk(next, Front)}

(* empty_list() frees a node and then follows the next pointer it held.    *)
(* If the memory still holds it all nodes go, or none when size is 0.      *)
FreesAll ==
    /\ size # 0 => /\ Cardinality(Queue) = Len(Walk(next, Front)) /\ Queue \subseteq live
                   /\ \E e \in Queue \cup {Front} : next[e] = Rear
    /\ live' = IF size = 0 THEN live ELSE live \ Queue
    /\ next' = [c \in Cells |-> IF c \in live' THEN next[c] ELSE EmptyNext[c]]
    /\ prev' = [c \in Cells |-> IF c \in live' THEN prev[c] ELSE EmptyPrev[c]]
    /\ key' = [c \in Cells |-> IF c \in live' THEN key[c] ELSE Null]
    /\ size' = 0
    /\ UNCHANGED fault

(* If it does not, the first step behind a free goes astray.               *)
FreesFirst ==
    /\ size # 0 /\ next[Front] # Rear
    /\ fault' = TRUE
    /\ IF next[Front] \in live THEN Free(next[Front]) ELSE UNCHANGED <<next, prev, key, live>>
    /\ UNCHANGED size

(* Open files keep the module. *)
Rmmod ==
    /\ loaded /\ ~fault /\ \A t \in Threads : pc[t] = "idle"
    /\ loaded' = FALSE
    /\ FreesAll \/ FreesFirst
    /\ UNCHANGED <<locals, pc, overlap, broken>>

Insmod ==
    /\ ~loaded /\ ~fault
    /\ loaded' = TRUE
    /\ next' = [c \in Cells |-> IF c \in {Front, Rear} THEN Rear ELSE next[c]]
    /\ prev' = [prev EXCEPT ![Rear] = Front]
    /\ size' = 0
    /\ UNCHANGED <<key, live, locals, pc, fault, overlap, broken>>

(* No memory for a sentinel: init_list() follows the NULL, and the load    *)
(* neither ends nor can be undone.                                         *)
InsmodFails ==
    /\ ~loaded /\ ~fault
    /\ broken' = TRUE
    /\ UNCHANGED <<fields, locals, pc, fault, overlap, loaded>>

-----------------------------------------------------------------------------
Step(t) ==
    \/ BufferFails(t) \/ CopyInFaults(t) \/ CopyInOverruns(t)
    \/ (\E m \in Messages : CopyIn(t, m))
    \/ ReadTail(t) \/ AllocFails(t) \/ (\E e \in Nodes : Alloc(t, e))
    \/ TailMoved(t) \/ SetKey(t) \/ LinkBefore(t) \/ LinkPrev(t)
    \/ LinkNext(t) \/ LinkRear(t) \/ IncLoad(t) \/ IncStore(t)
    \/ ReadEmpty(t) \/ ReadFirst(t) \/ Guard(t) \/ GetNext(t) \/ GetPrev(t)
    \/ UnlinkNext(t) \/ UnlinkPrev(t) \/ DecLoad(t) \/ DecStore(t)
    \/ CopyOut(t) \/ CopyFaults(t)

Next == /\ ~broken
        /\ \/ Rmmod \/ Insmod \/ InsmodFails
           \/ \E t \in Threads : CallWrite(t) \/ CallRead(t) \/ Step(t)

Spec == Init /\ [][Next]_vars

-----------------------------------------------------------------------------
Backwards(s) == [i \in DOMAIN s |-> s[Len(s) + 1 - i]]

Quiet == \A t \in Threads : pc[t] = "idle"

(* Between calls the list is a list: it has size nodes, each of them live, *)
(* met in the same order forwards and backwards.                           *)
IsList ==
    Quiet /\ loaded => LET there == Walk(next, Front)
             IN  /\ Len(there) = size
                 /\ there = Backwards(Walk(prev, Rear))
                 /\ \A i \in DOMAIN there : there[i] \in live

(* Calls that do not overlap keep the list a list, through allocations and *)
(* copies that fail, clients that memset() ends and a reload, and follow   *)
(* no NULL or freed node; only an unload with messages queued may do that. *)
WellFormed == ~overlap => IsList /\ (fault => ~loaded /\ size > 0)

(* buffer.h says the device is locked while open (l.55-56: "mutex_lock     *)
(* when opened", "mutex_unlock when closed"), so that no two clients can   *)
(* break the list or make the driver follow a dangling pointer.            *)
Intact == loaded => IsList /\ ~fault

(* Whatever the races, a walk keeps its direction: no next leads to the    *)
(* front and no prev to the rear, so no dequeue takes the front sentinel   *)
(* out and no enqueue links behind the rear.                               *)
SentinelsHold ==
    /\ \A c \in Cells : next[c] # Front /\ prev[c] # Rear
    /\ next[Rear] = Rear

(* A node that is neither in the list nor in the hands of a call.          *)
Lost == {e \in live : /\ \A i \in DOMAIN Walk(prev, Rear) : Walk(prev, Rear)[i] # e
                      /\ \A t \in Threads : elem[t] # e}

(* Without overlap, nodes leak from a read whose copy_to_user() fails      *)
(* (driver.c:119) and from nowhere else, and a lost node stays lost.       *)
LostOnlyByFault ==
    [][ overlap \/ Lost' = Lost \/ \E t \in Threads : /\ pc[t] = "copy"
                                           /\ Lost' = Lost \cup {elem[t]} ]_vars

(* Without overlap the driver implements the promised queue: the prev      *)
(* links carry its value, changed by the one assignment at the rear end    *)
(* that links or unlinks, and a message is handed over from its unlinking  *)
(* to the return.                                                          *)
Handing == {t \in Threads : pc[t] \in {"unlink_p", "dec", "dec_store", "copy"}}
Queued == LET s == Backwards(Walk(prev, Rear)) IN [i \in DOMAIN s |-> key[s[i]]]
Promise == INSTANCE TunnelPromise
             WITH Messages <- {<<m>> : m \in Messages},
                  Capacity <- Cardinality(Nodes) + 1,
                  queue <- IF overlap \/ ~loaded THEN <<>> ELSE Queued,
                  Clients <- {"driver"}, files <- IF loaded THEN {"driver"} ELSE {},
                  delivered <- IF overlap \/ Handing = {} THEN <<>>
                               ELSE <<key[elem[CHOOSE t \in Handing : TRUE]]>>
KeepsPromise == Promise!Spec
=============================================================================
