--------------------------- MODULE TunnelPromise ---------------------------
(***************************************************************************)
(* What a tunnel device of the pod promises its clients, with no pointers, *)
(* no semaphore and no waiting: a first-in first-out queue of bytes of     *)
(* bounded length.  A message is appended in one piece and a read takes a  *)
(* prefix.  Unread bytes disappear when somebody opens the device (the     *)
(* drivers reset rp and wp on every open) and when the last file on it is  *)
(* closed, and at no other time.                                           *)
(***************************************************************************)
EXTENDS Naturals, Sequences

CONSTANTS Messages,     \* the byte sequences one accepted call may append
          Capacity,     \* the queue is always shorter than this
          Clients       \* who may open the device

VARIABLES queue,        \* the unread bytes, oldest first
          delivered,    \* the bytes a read is handing to its caller, <<>> between reads
          files         \* the clients that have the device open

vars == <<queue, delivered, files>>

Init == /\ queue = <<>>
        /\ delivered = <<>>
        /\ files \in SUBSET Clients

Open(c) == /\ c \in Clients \ files
           /\ files' = files \cup {c}
           /\ queue' = <<>>
           /\ UNCHANGED delivered

Close(c) == /\ c \in files
            /\ files' = files \ {c}
            /\ queue' = IF files' = {} THEN <<>> ELSE queue
            /\ UNCHANGED delivered

Accept(m) == /\ files # {}
             /\ Len(queue) + Len(m) < Capacity
             /\ queue' = queue \o m
             /\ UNCHANGED <<delivered, files>>

Take(n) == /\ files # {}
           /\ delivered' = SubSeq(queue, 1, n)
           /\ queue' = SubSeq(queue, n + 1, Len(queue))
           /\ UNCHANGED files

Handed == /\ delivered' = <<>>
          /\ UNCHANGED <<queue, files>>

Next == \/ \E c \in Clients : Open(c) \/ Close(c)
        \/ \E m \in Messages : Accept(m)
        \/ \E n \in 1 .. Len(queue) : Take(n)
        \/ Handed

Spec == Init /\ [][Next]_vars
=============================================================================
