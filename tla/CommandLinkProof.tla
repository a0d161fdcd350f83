-------------------------- MODULE CommandLinkProof --------------------------
(***************************************************************************)
(* The theorems about the way of a motor command.  The argument: a command *)
(* gets its number when the tunnel accepts it, and the numbers grow from   *)
(* the wheels back to the tunnel, through cmd, the stream, the relay's byt *)
(* and the ring; a line begins with a number no line before it had.        *)
(***************************************************************************)
EXTENDS CommandLink, SequenceTheorems, TLAPS

Units == [of : {NoCommand} \cup Commands, part : 1 .. 4]

(* The number of m is the one under which the tunnel accepted its name. *)
Known(m) == m.no \in 1 .. Len(issued) /\ issued[m.no] = m.name

AllKnown ==
    /\ \A i \in 1 .. Len(ring) : Known(ring[i])
    /\ byt # <<>> => Known(byt[1])
    /\ \A i \in 1 .. Len(stream) : stream[i].of = NoCommand \/ Known(stream[i].of)
    /\ sent = NoCommand \/ Known(sent)

(* Behind sent come byt and the ring. *)
TunnelOrdered ==
    /\ \A i, j \in 1 .. Len(ring) : i < j => ring[i].no < ring[j].no
    /\ \A i \in 1 .. Len(ring) : sent.no < ring[i].no
    /\ byt # <<>> => /\ sent.no < byt[1].no
                     /\ \A i \in 1 .. Len(ring) : byt[1].no < ring[i].no

(* cmd and the stream come before sent, and a line's first unit brings a   *)
(* new number, unless it is the line without a command.                    *)
Begins(u) == u.part = 1 /\ u.of.no # 0
LineOrdered ==
    /\ cmd.no <= sent.no
    /\ \A i \in 1 .. Len(stream) :
          /\ stream[i].of.no <= sent.no /\ cmd.no <= stream[i].of.no
          /\ Begins(stream[i]) => cmd.no < stream[i].of.no
    /\ \A i, j \in 1 .. Len(stream) : i < j =>
          /\ stream[i].of.no <= stream[j].of.no
          /\ Begins(stream[j]) => stream[i].of.no < stream[j].of.no

(* A relay whose open has failed never sends a command, and one whose open *)
(* has succeeded sends nothing else.                                       *)
RelayHonest ==
    /\ relay # "send" => byt = <<>>
    /\ relay \in {"dial", "open"} => "relay" \notin files /\ sent.no = 0
    /\ relay \in {"read", "send"} /\ "relay" \notin files => sent.no = 0
    /\ relay = "send" => (byt = <<>> <=> "relay" \notin files)

LinkInv ==
    /\ TypeOK
    /\ AllKnown
    /\ TunnelOrdered
    /\ LineOrdered
    /\ RelayHonest
    /\ cmd.no = 0 => cmd.name = Other
    /\ NothingInvented

(* The initial state satisfies the invariant. *)
LEMMA InitHolds == Init => LinkInv
<1> SUFFICES ASSUME Init PROVE LinkInv
  OBVIOUS
<1> USE DEF Init
<1>1. TypeOK
  <2>1. /\ ring \in Seq(Commands) /\ Len(ring) < RingSlots
        /\ issued \in Seq(Names)
        /\ stream \in Seq(Units) /\ Len(stream) <= SocketUnits
    BY BoundsAssumption
  <2>2. cmd \in [no : 0 .. MaxCommands, name : Names \cup {Other}]
    BY BoundsAssumption DEF NoCommand
  <2>3. motor \in Names /\ misses \in 0 .. MaxMisses
    BY BoundsAssumption DEF Names
  <2>. QED  BY <2>1, <2>2, <2>3 DEF TypeOK, Units
<1>2. NothingInvented
  BY DirectionsAssumption DEF NothingInvented, Effect, NoCommand
<1>. QED
  BY <1>1, <1>2 DEF LinkInv, AllKnown, TunnelOrdered, LineOrdered, RelayHonest, NoCommand

-----------------------------------------------------------------------------
(* Lemmas *)

LEMMA NoCommandIsNone == NoCommand.no = 0 /\ NoCommand.name = Other /\ NoCommand \notin Commands
BY DEF NoCommand, Commands

(* A unit without a number is one of the line without a command.           *)
LEMMA UnnumberedIsNone ==
    ASSUME NEW u \in Units, u.of.no = 0
    PROVE  u.of = NoCommand
BY DEF Units, Commands

LEMMA OneCommand ==
    ASSUME NEW m \in Commands
    PROVE  /\ <<m>> \in Seq(Commands)
           /\ Len(<<m>>) = 1 /\ <<m>>[1] = m /\ <<m>> # <<>>
OBVIOUS

LEMMA StreamTyped ==
    ASSUME TypeOK
    PROVE  stream \in Seq(Units) /\ Len(stream) \in Nat
<1>1. stream \in Seq(Units)
  BY DEF TypeOK, Units
<1>. QED  BY <1>1, LenProperties

(* The oldest element of a queue, taken alone. *)
LEMMA FirstAlone ==
    ASSUME NEW S, NEW s \in Seq(S), s # <<>>
    PROVE  SubSeq(s, 1, 1) = <<s[1]>>
<1>1. Len(s) \in Nat \ {0}
  BY EmptySeq
<1>2. s[1] \in S
  BY <1>1, ElementOfSeq
<1>3. \A i \in 1 .. 1 : s[i] \in S
  BY <1>2
<1>4. /\ SubSeq(s, 1, 1) \in Seq(S) /\ Len(SubSeq(s, 1, 1)) = 1
      /\ SubSeq(s, 1, 1)[1] = s[1]
  BY <1>3, SubSeqProperties
<1> DEFINE t == SubSeq(s, 1, 1)
           u == <<s[1]>>
<1>5. u \in Seq(S) /\ Len(u) = 1 /\ u[1] = s[1]
  BY <1>2
<1>6. t \in Seq(S) /\ Len(t) = Len(u) /\ \A i \in 1 .. Len(t) : t[i] = u[i]
  BY <1>4, <1>5
<1> HIDE DEF t, u
<1>7. t = u
  BY <1>5, <1>6, SeqEqual
<1>. QED  BY <1>7 DEF t, u

(* Every number is one. *)
LEMMA NumbersTyped ==
    ASSUME TypeOK
    PROVE  /\ \A i \in 1 .. Len(ring) : ring[i] \in Commands /\ ring[i].no \in Nat
           /\ byt # <<>> => byt[1] \in Commands /\ byt[1].no \in Nat
           /\ sent.no \in Nat
           /\ \A i \in 1 .. Len(stream) : stream[i] \in Units /\ stream[i].of.no \in Nat
           /\ cmd.no \in Nat
<1>1. \A m \in Commands : m.no \in Nat
  BY DEF Commands
<1>2. \A i \in 1 .. Len(ring) : ring[i] \in Commands
  BY DEF TypeOK
<1>3. byt # <<>> => byt[1] \in Commands
  <2>1. ASSUME NEW m \in Commands, byt = <<m>> PROVE byt[1] \in Commands
    BY <2>1
  <2>. QED  BY <2>1 DEF TypeOK
<1>4. sent.no \in Nat
  BY <1>1, NoCommandIsNone DEF TypeOK
<1>5. \A i \in 1 .. Len(stream) : stream[i] \in Units
  BY StreamTyped, ElementOfSeq
<1>6. \A u \in Units : u.of.no \in Nat
  BY <1>1, NoCommandIsNone DEF Units
<1>7. cmd.no \in Nat
  BY DEF TypeOK
<1>. QED  BY <1>1, <1>2, <1>3, <1>4, <1>5, <1>6, <1>7

-----------------------------------------------------------------------------
(* The clients of the tunnel *)

(* The device is opened or closed by a client other than the relay, or     *)
(* jammed: at most the ring is emptied.                                    *)
Sweeps ==
    /\ ring' \in {ring, <<>>}
    /\ files' \in {files, files \cup {"carcon"}, files \cup {"operator"},
                   files \ {"carcon"}, files \ {"operator"}}
    /\ jammed' \in BOOLEAN
    /\ operator' \in {"away", "ioctl", "close"}
    /\ UNCHANGED <<byt, issued, relay, lineVars, carVars>>

LEMMA SweepsKeep ==
    ASSUME LinkInv, Sweeps
    PROVE  LinkInv'
<1> USE DEF LinkInv, Sweeps, lineVars, carVars, wheelVars
<1>1. TypeOK'
  <2>1. ring' \in Seq(Commands) /\ Len(ring') < RingSlots
    <3>1. CASE ring' = ring
      BY <3>1 DEF TypeOK
    <3>2. CASE ring' = <<>>
      BY <3>2, EmptySeq, BoundsAssumption
    <3>. QED  BY <3>1, <3>2
  <2>2. files' \in SUBSET {"carcon", "operator", "relay"}
    BY DEF TypeOK
  <2>. QED  BY <2>1, <2>2 DEF TypeOK
<1>2. AllKnown' /\ TunnelOrdered'
  BY DEF AllKnown, Known, TunnelOrdered
<1>3. LineOrdered' /\ RelayHonest'
  BY DEF LineOrdered, Begins, RelayHonest
<1>4. NothingInvented'
  BY DEF NothingInvented, Effect
<1>. QED  BY <1>1, <1>2, <1>3, <1>4

(* An accepted command gets a number above all others. *)
Accepts(d) ==
    /\ Len(issued) < MaxCommands
    /\ Len(ring) + 1 < RingSlots
    /\ ring' = ring \o << [no |-> Len(issued) + 1, name |-> d] >>
    /\ issued' = Append(issued, d)
    /\ operator' \in {"away", "ioctl", "close"}
    /\ UNCHANGED <<byt, files, jammed, relay, lineVars, carVars>>

LEMMA AcceptsKeep ==
    ASSUME LinkInv, NEW d \in Names, Accepts(d)
    PROVE  LinkInv'
<1> DEFINE m == [no |-> Len(issued) + 1, name |-> d]
<1> USE DEF LinkInv, Accepts, lineVars, carVars, wheelVars
<1>1. m \in Commands /\ Len(issued) \in Nat
  BY BoundsAssumption DEF TypeOK, Commands
<1>2. /\ ring \in Seq(Commands)
      /\ ring' \in Seq(Commands)
      /\ Len(ring') = Len(ring) + 1
      /\ \A i \in 1 .. Len(ring) : ring'[i] = ring[i]
      /\ ring'[Len(ring) + 1] = m
  BY <1>1, OneCommand, ConcatProperties DEF TypeOK
<1>3. /\ issued' \in Seq(Names)
      /\ Len(issued') = Len(issued) + 1
      /\ \A i \in 1 .. Len(issued) : issued'[i] = issued[i]
      /\ issued'[Len(issued) + 1] = d
  BY DEF TypeOK
<1>4. TypeOK'
  BY <1>2, <1>3, BoundsAssumption DEF TypeOK
<1>5. \A k : Known(k) => k.no \in 1 .. Len(issued') /\ issued'[k.no] = k.name
  BY <1>1, <1>3 DEF Known
<1>6. AllKnown'
  <2>1. \A i \in 1 .. Len(ring') :
            ring'[i].no \in 1 .. Len(issued') /\ issued'[ring'[i].no] = ring'[i].name
    <3>1. ASSUME NEW i \in 1 .. Len(ring)
          PROVE  ring'[i].no \in 1 .. Len(issued') /\ issued'[ring'[i].no] = ring'[i].name
      BY <1>2, <1>5 DEF AllKnown
    <3>2. m.no \in 1 .. Len(issued') /\ issued'[m.no] = m.name
      BY <1>1, <1>3
    <3>. QED  BY <1>2, <3>1, <3>2 DEF TypeOK
  <2>. QED  BY <1>5, <2>1 DEF AllKnown, Known
<1>7. TunnelOrdered'
  <2>1. \A i \in 1 .. Len(ring) : ring[i].no <= Len(issued)
    BY <1>2 DEF AllKnown, Known
  <2>2. byt # <<>> => byt[1].no <= Len(issued)
    BY DEF AllKnown, Known
  <2>3. sent.no <= Len(issued)
    BY <1>1, NoCommandIsNone DEF AllKnown, Known
  <2>4. \A i \in 1 .. Len(ring') : ring'[i] = IF i <= Len(ring) THEN ring[i] ELSE m
    BY <1>2
  <2>5. /\ \A i \in 1 .. Len(ring) : ring[i].no \in Nat
        /\ byt # <<>> => byt[1].no \in Nat
        /\ sent.no \in Nat
    BY NumbersTyped
  <2>6. \A i, j \in 1 .. Len(ring') : i < j => ring'[i].no < ring'[j].no
    BY <1>1, <1>2, <2>1, <2>4, <2>5 DEF TunnelOrdered
  <2>7. \A i \in 1 .. Len(ring') : sent.no < ring'[i].no
    BY <1>1, <1>2, <2>3, <2>4, <2>5 DEF TunnelOrdered
  <2>8. byt # <<>> => /\ sent.no < byt[1].no
                      /\ \A i \in 1 .. Len(ring') : byt[1].no < ring'[i].no
    BY <1>1, <1>2, <2>2, <2>4, <2>5 DEF TunnelOrdered
  <2>. QED  BY <2>6, <2>7, <2>8 DEF TunnelOrdered
<1>8. LineOrdered' /\ RelayHonest'
  BY DEF LineOrdered, Begins, RelayHonest
<1>9. NothingInvented'
  BY <1>1, <1>3 DEF NothingInvented, Effect, TypeOK
<1>. QED  BY <1>4, <1>6, <1>7, <1>8, <1>9

(* Every step of a client other than the relay is one of the two. *)
LEMMA ClientsKeep ==
    ASSUME LinkInv,
           \/ CarconOpens \/ (\E d \in Names : CarconIoctl(d)) \/ CarconDies
           \/ OperatorOpens \/ (\E d \in Names : OperatorIoctl(d)) \/ OperatorCloses
    PROVE  LinkInv'
<1> USE DEF LinkInv, TypeOK
<1>1. CASE CarconOpens \/ CarconDies \/ OperatorOpens \/ OperatorCloses
  <2>1. Sweeps
    BY <1>1 DEF CarconOpens, CarconDies, OperatorOpens, OperatorCloses, Opens, Closes,
                Tunnel!Open, Tunnel!Close, Sweeps
  <2>. QED  BY <2>1, SweepsKeep
<1>2. ASSUME NEW d \in Names, CarconIoctl(d) \/ OperatorIoctl(d) PROVE LinkInv'
  <2>1. CASE Full
    <3>1. Sweeps
      BY <1>2, <2>1 DEF CarconIoctl, OperatorIoctl, Ioctl, Sweeps
    <3>. QED  BY <3>1, SweepsKeep
  <2>2. CASE ~Full
    <3>1. Accepts(d)
      BY <1>2, <2>2, EmptySeq, BoundsAssumption
      DEF CarconIoctl, OperatorIoctl, Ioctl, Full, Tunnel!Accept, Accepts
    <3>. QED  BY <3>1, AcceptsKeep
  <2>. QED  BY <2>1, <2>2
<1>. QED  BY <1>1, <1>2

-----------------------------------------------------------------------------
(* The relay *)

(* Dialling, opening, giving up a command, dying: nothing is passed on. *)
LEMMA RelayIdleKeeps ==
    ASSUME LinkInv,
           RelayDials \/ RelayOpens \/ RelayReadFails \/ RelayWriteFails \/ RelayDies
    PROVE  LinkInv'
<1> USE DEF LinkInv
<1>1. /\ UNCHANGED <<issued, lineVars, cmd, motor, missed>>
      /\ ring' \in {ring, <<>>} /\ byt' \in {byt, <<>>}
  BY DEF RelayDials, RelayOpens, RelayReadFails, RelayWriteFails, RelayDies, Opens,
         Tunnel!Open, Tunnel!Handed, tunnelVars, carVars, wheelVars, lineVars
<1>2. TypeOK'
  <2>1. ring' \in Seq(Commands) /\ Len(ring') < RingSlots
    <3>1. CASE ring' = ring
      BY <3>1 DEF TypeOK
    <3>2. CASE ring' = <<>>
      BY <3>2, EmptySeq, BoundsAssumption
    <3>. QED  BY <1>1, <3>1, <3>2
  <2>2. byt' \in {<<>>} \cup {<<m>> : m \in Commands}
    BY <1>1 DEF TypeOK
  <2>3. /\ files' \in SUBSET {"carcon", "operator", "relay"}
        /\ relay' \in {"dial", "open", "read", "send", "dead"}
        /\ UNCHANGED <<jammed, operator, car, opened, misses>>
    BY DEF TypeOK, RelayDials, RelayOpens, RelayReadFails, RelayWriteFails, RelayDies, Opens,
           Tunnel!Open, Tunnel!Handed, tunnelVars, carVars, wheelVars
  <2>. QED  BY <1>1, <2>1, <2>2, <2>3 DEF TypeOK, lineVars
<1>3. AllKnown' /\ TunnelOrdered'
  BY <1>1 DEF AllKnown, Known, TunnelOrdered, lineVars
<1>4. LineOrdered' /\ NothingInvented'
  BY <1>1 DEF LineOrdered, Begins, NothingInvented, Effect, lineVars
<1>5. RelayHonest'
  BY DEF RelayHonest, RelayDials, RelayOpens, RelayReadFails, RelayWriteFails, RelayDies,
         Opens, Tunnel!Open, Tunnel!Handed, tunnelVars, lineVars
<1>. QED  BY <1>1, <1>2, <1>3, <1>4, <1>5

(* The oldest command leaves the ring. *)
LEMMA RelayReadsKeeps ==
    ASSUME LinkInv, RelayReads
    PROVE  LinkInv'
<1> USE DEF LinkInv, RelayReads, Tunnel!Take, lineVars, carVars, wheelVars
<1>1. /\ ring \in Seq(Commands) /\ Len(ring) \in Nat /\ Len(ring) >= 1
      /\ \A i \in 1 .. Len(ring) : ring[i] \in Commands /\ ring[i].no \in Nat
  BY EmptySeq, NumbersTyped DEF TypeOK
<1>2. /\ ring' \in Seq(Commands)
      /\ Len(ring') = Len(ring) - 1
      /\ \A i \in 1 .. Len(ring') : ring'[i] = ring[i + 1]
  BY <1>1, SubSeqProperties
<1>3. byt' = <<ring[1]>> /\ byt'[1] = ring[1] /\ byt' # <<>>
  BY <1>1, FirstAlone, OneCommand
<1>4. TypeOK'
  <2>1. byt' \in {<<>>} \cup {<<m>> : m \in Commands}
    <3>1. ring[1] \in Commands
      BY <1>1
    <3>. QED  BY <1>3, <3>1
  <2>2. Len(ring') < RingSlots
    BY <1>1, <1>2, BoundsAssumption DEF TypeOK
  <2>. QED  BY <1>2, <2>1, <2>2 DEF TypeOK
<1>5. AllKnown'
  BY <1>1, <1>2, <1>3 DEF AllKnown, Known
<1>6. TunnelOrdered'
  BY <1>1, <1>2, <1>3 DEF TunnelOrdered
<1>7. LineOrdered' /\ NothingInvented'
  BY DEF LineOrdered, Begins, NothingInvented, Effect
<1>8. RelayHonest'
  BY <1>3 DEF RelayHonest
<1>. QED  BY <1>4, <1>5, <1>6, <1>7, <1>8

(* The stream behind which a line is written. *)
LEMMA LineAppended ==
    ASSUME NEW s \in Seq(Units), NEW m \in {NoCommand} \cup Commands
    PROVE  /\ s \o Packet(m) \in Seq(Units)
           /\ Len(s \o Packet(m)) = Len(s) + 4
           /\ \A i \in 1 .. Len(s) : (s \o Packet(m))[i] = s[i]
           /\ \A i \in Len(s) + 1 .. Len(s) + 4 :
                 /\ (s \o Packet(m))[i].of = m
                 /\ (s \o Packet(m))[i].part = i - Len(s)
<1> DEFINE p == Packet(m)
<1>1. /\ p \in Seq(Units) /\ Len(p) = 4
      /\ \A i \in 1 .. 4 : p[i].of = m /\ p[i].part = i
  BY DEF Packet, Units
<1>2. Len(s) \in Nat
  BY LenProperties
<1> HIDE DEF p
<1>3. /\ s \o p \in Seq(Units) /\ Len(s \o p) = Len(s) + Len(p)
      /\ \A i \in 1 .. Len(s) + Len(p) :
            (s \o p)[i] = IF i <= Len(s) THEN s[i] ELSE p[i - Len(s)]
  BY <1>1, ConcatProperties
<1>4. \A i \in Len(s) + 1 .. Len(s) + 4 : i - Len(s) \in 1 .. 4 /\ (s \o p)[i] = p[i - Len(s)]
  BY <1>1, <1>2, <1>3
<1>. QED  BY <1>1, <1>2, <1>3, <1>4 DEF p

(* A line whose first unit has a number has one above all before it. *)
LEMMA RelaySendsKeeps ==
    ASSUME LinkInv, RelaySends
    PROVE  LinkInv'
<1> DEFINE m == MotorBytes
<1> USE DEF LinkInv, RelaySends, Tunnel!Handed, carVars, wheelVars
<1>1. /\ m \in {NoCommand} \cup Commands /\ m.no \in Nat
      /\ m = NoCommand \/ Known(m)
  BY NumbersTyped, NoCommandIsNone DEF MotorBytes, AllKnown
<1>2. /\ sent.no <= m.no
      /\ m.no # 0 => sent.no < m.no
  BY NumbersTyped, NoCommandIsNone DEF MotorBytes, TunnelOrdered, RelayHonest
<1>3. stream \in Seq(Units) /\ Len(stream) \in Nat
  BY StreamTyped
<1>4. /\ stream' \in Seq(Units)
      /\ Len(stream') = Len(stream) + 4
      /\ \A i \in 1 .. Len(stream) : stream'[i] = stream[i]
      /\ \A i \in Len(stream) + 1 .. Len(stream) + 4 :
            stream'[i].of = m /\ stream'[i].part = i - Len(stream)
  BY <1>1, <1>3, LineAppended
<1>5. TypeOK'
  BY <1>1, <1>4 DEF TypeOK, Units
<1>6. AllKnown'
  <2>1. \A i \in 1 .. Len(stream) : stream'[i].of = NoCommand \/ Known(stream'[i].of)
    BY <1>4 DEF AllKnown
  <2>2. \A i \in Len(stream) + 1 .. Len(stream) + 4 :
            stream'[i].of = NoCommand \/ Known(stream'[i].of)
    BY <1>1, <1>4
  <2>3. \A i \in 1 .. Len(stream') : stream'[i].of = NoCommand \/ Known(stream'[i].of)
    BY <1>3, <1>4, <2>1, <2>2
  <2>. QED  BY <1>1, <2>3 DEF AllKnown, Known
<1>7. TunnelOrdered'
  BY NumbersTyped, NoCommandIsNone DEF TunnelOrdered, MotorBytes, RelayHonest
<1>8. LineOrdered'
  <2>1. cmd.no <= sent'.no
    BY <1>1, <1>2, NumbersTyped DEF LineOrdered
  <2>2. ASSUME NEW i \in 1 .. Len(stream')
        PROVE  /\ stream'[i].of.no <= sent'.no /\ cmd.no <= stream'[i].of.no
               /\ Begins(stream'[i]) => cmd.no < stream'[i].of.no
    <3>1. CASE i <= Len(stream)
      <4>1. i \in 1 .. Len(stream) /\ stream'[i] = stream[i]
        BY <1>3, <1>4, <3>1
      <4>. QED  BY <1>1, <1>2, <4>1, NumbersTyped DEF LineOrdered
    <3>2. CASE i > Len(stream)
      <4>1. stream'[i].of = m
        BY <1>3, <1>4, <3>2
      <4>. QED  BY <1>1, <1>2, <4>1, NumbersTyped DEF LineOrdered, Begins
    <3>. QED  BY <1>3, <1>4, <3>1, <3>2
  <2>3. ASSUME NEW i \in 1 .. Len(stream'), NEW j \in 1 .. Len(stream'), i < j
        PROVE  /\ stream'[i].of.no <= stream'[j].of.no
               /\ Begins(stream'[j]) => stream'[i].of.no < stream'[j].of.no
    <3>1. CASE j <= Len(stream)
      <4>1. /\ i \in 1 .. Len(stream) /\ stream'[i] = stream[i]
            /\ j \in 1 .. Len(stream) /\ stream'[j] = stream[j]
        BY <1>3, <1>4, <2>3, <3>1
      <4>. QED  BY <2>3, <4>1 DEF LineOrdered
    <3>2. CASE i <= Len(stream) /\ j > Len(stream)
      <4>1. /\ i \in 1 .. Len(stream) /\ stream'[i] = stream[i]
            /\ stream'[j].of = m
        BY <1>3, <1>4, <3>2
      <4>. QED  BY <1>1, <1>2, <4>1, NumbersTyped DEF LineOrdered, Begins
    <3>3. CASE i > Len(stream)
      <4>1. stream'[i].of = m /\ stream'[j].of = m /\ stream'[j].part # 1
        BY <1>3, <1>4, <2>3, <3>3
      <4>. QED  BY <1>1, <4>1 DEF Begins
    <3>. QED  BY <1>3, <1>4, <3>1, <3>2, <3>3
  <2>. QED  BY <2>1, <2>2, <2>3 DEF LineOrdered, Begins
<1>9. RelayHonest' /\ NothingInvented'
  BY NoCommandIsNone DEF RelayHonest, NothingInvented, Effect, MotorBytes
<1>. QED  BY <1>5, <1>6, <1>7, <1>8, <1>9

-----------------------------------------------------------------------------
(* The car *)

(* What a read of n units leaves. *)
LEMMA RestOfStream ==
    ASSUME LinkInv, NEW n \in 1 .. BufUnits, CarReads(n)
    PROVE  /\ stream' \in Seq(Units)
           /\ Len(stream) >= 1 /\ Len(stream') = Len(stream) - n
           /\ \A i \in 1 .. Len(stream') : stream'[i] = stream[n + i]
<1>1. stream \in Seq(Units) /\ Len(stream) \in Nat /\ n \in Nat /\ 1 <= n /\ n <= Len(stream)
  BY StreamTyped, BoundsAssumption DEF LinkInv, CarReads
<1>2. \A i \in n + 1 .. Len(stream) : stream[i] \in Units
  BY <1>1, ElementOfSeq
<1>3. stream' = SubSeq(stream, n + 1, Len(stream))
  BY DEF CarReads
<1>. QED  BY <1>1, <1>2, <1>3, SubSeqProperties

(* sscanf() leaves cmd, or finds the number of the first unit, with its    *)
(* name or with a name that is none.                                       *)
LEMMA ScannedFirst ==
    ASSUME LinkInv, NEW n \in 1 .. BufUnits, CarReads(n)
    PROVE  \/ cmd' = cmd
           \/ /\ stream[1].part = 1
              /\ cmd' \in [no : {stream[1].of.no}, name : {Other, stream[1].of.name}]
<1>1. stream \in Seq(Units) /\ Len(stream) \in Nat /\ n \in Nat /\ 1 <= n /\ n <= Len(stream)
  BY StreamTyped, BoundsAssumption DEF LinkInv, CarReads
<1>2. \A i \in 1 .. n : stream[i] \in Units
  BY <1>1, ElementOfSeq
<1> DEFINE chunk == SubSeq(stream, 1, n)
<1>3. chunk[1] = stream[1]
  BY <1>1, <1>2, SubSeqProperties
<1>4. cmd' = Scanned(chunk)
  BY DEF CarReads
<1> HIDE DEF chunk
<1>. QED  BY <1>3, <1>4 DEF Scanned

(* A scanned number is new, or cmd is as good as unchanged. *)
LEMMA ScannedIsNew ==
    ASSUME LinkInv, NEW n \in 1 .. BufUnits, CarReads(n)
    PROVE  /\ cmd'.no >= cmd.no
           /\ cmd'.no > cmd.no \/ cmd' = cmd
           /\ cmd' \in [no : 0 .. MaxCommands, name : Names \cup {Other}]
           /\ cmd'.no = 0 => cmd'.name = Other
           /\ cmd'.name # Other => Known(cmd')
<1> DEFINE u == stream[1]
<1>1. 1 \in 1 .. Len(stream) /\ u \in Units /\ u.of.no \in Nat /\ cmd.no \in Nat
  <2>1. TypeOK /\ Len(stream) >= 1 /\ Len(stream) \in Nat
    BY RestOfStream, StreamTyped DEF LinkInv
  <2>2. 1 \in 1 .. Len(stream)
    BY <2>1
  <2>. QED  BY <2>1, <2>2, NumbersTyped
<1>2. cmd.no <= u.of.no /\ (Begins(u) => cmd.no < u.of.no)
  BY <1>1 DEF LinkInv, LineOrdered
<1>3. u.of = NoCommand \/ Known(u.of)
  BY <1>1 DEF LinkInv, AllKnown
<1>4. CASE cmd' = cmd
  <2>1. cmd.name # Other => Known(cmd)
    BY DEF LinkInv, NothingInvented, Known, TypeOK
  <2>. QED  BY <1>1, <1>4, <2>1 DEF LinkInv, TypeOK, Known
<1>5. CASE u.part = 1 /\ cmd' \in [no : {u.of.no}, name : {Other, u.of.name}] /\ cmd' # cmd
  <2>1. cmd'.no = u.of.no /\ cmd'.name \in {Other, u.of.name}
    BY <1>5
  <2>2. CASE u.of.no = 0
    <3>1. cmd'.name = Other /\ cmd'.no = 0
      BY <1>1, <2>1, <2>2, UnnumberedIsNone, NoCommandIsNone
    <3>2. cmd.no = 0 /\ cmd.name = Other
      BY <1>1, <1>2, <2>2 DEF LinkInv
    <3>3. cmd' = cmd
      BY <1>5, <3>1, <3>2 DEF LinkInv, TypeOK
    <3>. QED  BY <1>5, <3>3
  <2>3. CASE u.of.no # 0
    <3>1. cmd.no < u.of.no
      BY <1>2, <1>5, <2>3 DEF Begins
    <3>2. u.of \in Commands
      BY <1>1, <2>3, NoCommandIsNone DEF Units
    <3>3. cmd' \in [no : 0 .. MaxCommands, name : Names \cup {Other}]
      BY <1>5, <3>2 DEF Commands
    <3>4. cmd'.name # Other => Known(cmd')
      BY <1>3, <2>1, <2>3, NoCommandIsNone DEF Known
    <3>. QED  BY <1>1, <2>1, <2>3, <3>1, <3>3, <3>4
  <2>. QED  BY <2>2, <2>3
<1>. QED  BY <1>4, <1>5, ScannedFirst

(* One turn of the car's loop. *)
LEMMA CarReadsKeeps ==
    ASSUME LinkInv, NEW n \in 1 .. BufUnits, CarReads(n)
    PROVE  LinkInv'
<1>1. /\ stream' \in Seq(Units)
      /\ Len(stream') = Len(stream) - n /\ Len(stream) \in Nat /\ n \in Nat /\ n >= 1
      /\ Len(stream) >= 1
      /\ \A i \in 1 .. Len(stream') : stream'[i] = stream[n + i]
  BY RestOfStream, StreamTyped, BoundsAssumption DEF LinkInv
<1>2. UNCHANGED <<ring, byt, files, jammed, issued, operator, relay, sent, car, opened>>
  BY DEF CarReads, tunnelVars
<1>3. Effect(cmd') \in Names
  BY DEF Effect, Names
<1>4. TypeOK'
  <2>1. Len(stream') <= SocketUnits
    BY <1>1, BoundsAssumption DEF LinkInv, TypeOK
  <2>2. motor' \in Names /\ missed' \in BOOLEAN /\ misses' \in 0 .. MaxMisses
    <3>1. motor \in Names /\ missed \in BOOLEAN /\ misses \in 0 .. MaxMisses
      BY DEF LinkInv, TypeOK
    <3>2. Drives(Effect(cmd'))
      BY DEF CarReads
    <3>3. motor' \in Names
      BY <1>3, <3>1, <3>2 DEF Drives
    <3>4. missed' \in BOOLEAN
      BY <3>1, <3>2 DEF Drives
    <3>5. misses' \in 0 .. MaxMisses
      BY <3>1, <3>2, BoundsAssumption DEF Drives
    <3>. QED  BY <3>3, <3>4, <3>5
  <2>. QED  BY <1>1, <1>2, <2>1, <2>2, ScannedIsNew DEF LinkInv, TypeOK, Units
<1>5. \A i \in 1 .. Len(stream') : n + i \in 1 .. Len(stream) /\ 1 < n + i
  BY <1>1
<1>6. AllKnown' /\ TunnelOrdered' /\ RelayHonest'
  <2>1. TunnelOrdered' /\ RelayHonest'
    BY <1>2 DEF LinkInv, TunnelOrdered, RelayHonest
  <2>2. \A i \in 1 .. Len(stream') : stream'[i].of = NoCommand \/ Known(stream'[i].of)
    BY <1>1, <1>5 DEF LinkInv, AllKnown
  <2>. QED  BY <1>2, <2>1, <2>2 DEF LinkInv, AllKnown, Known
<1>7. /\ \A i \in 1 .. Len(stream) : stream[i].of.no \in Nat
      /\ sent.no \in Nat /\ cmd.no \in Nat /\ cmd'.no \in Nat
  BY NumbersTyped, ScannedIsNew DEF LinkInv
<1>8. /\ cmd'.no = cmd.no \/ (stream[1].part = 1 /\ cmd'.no = stream[1].of.no)
      /\ 1 \in 1 .. Len(stream)
  BY <1>1, ScannedFirst
<1>9. LineOrdered'
  <2>1. cmd'.no <= sent'.no
    BY <1>2, <1>8 DEF LinkInv, LineOrdered
  <2>2. ASSUME NEW i \in 1 .. Len(stream')
        PROVE  /\ stream'[i].of.no <= sent'.no /\ cmd'.no <= stream'[i].of.no
               /\ Begins(stream'[i]) => cmd'.no < stream'[i].of.no
    <3>1. stream'[i] = stream[n + i] /\ n + i \in 1 .. Len(stream) /\ 1 < n + i
      BY <1>1, <1>5
    <3>2. /\ stream[n + i].of.no <= sent.no /\ cmd.no <= stream[n + i].of.no
          /\ Begins(stream[n + i]) => cmd.no < stream[n + i].of.no
          /\ stream[1].of.no <= stream[n + i].of.no
          /\ Begins(stream[n + i]) => stream[1].of.no < stream[n + i].of.no
      BY <1>8, <3>1 DEF LinkInv, LineOrdered
    <3>. QED  BY <1>2, <1>7, <1>8, <3>1, <3>2
  <2>3. ASSUME NEW i \in 1 .. Len(stream'), NEW j \in 1 .. Len(stream'), i < j
        PROVE  /\ stream'[i].of.no <= stream'[j].of.no
               /\ Begins(stream'[j]) => stream'[i].of.no < stream'[j].of.no
    <3>1. /\ stream'[i] = stream[n + i] /\ n + i \in 1 .. Len(stream)
          /\ stream'[j] = stream[n + j] /\ n + j \in 1 .. Len(stream)
          /\ n + i < n + j
      BY <1>1, <1>5, <2>3
    <3>. QED  BY <3>1 DEF LinkInv, LineOrdered
  <2>. QED  BY <2>1, <2>2, <2>3 DEF LineOrdered, Begins
<1>10. NothingInvented'
  <2>1. ~missed' => motor' = Effect(cmd')
    BY DEF CarReads, Drives
  <2>2. issued \in Seq(Names)
    BY DEF LinkInv, TypeOK
  <2>. QED  BY <1>2, <2>1, <2>2, ScannedIsNew DEF NothingInvented, Effect, Known
<1>. QED  BY <1>4, <1>6, <1>9, <1>10, ScannedIsNew DEF LinkInv

(* Accepting, ending and dying drive nothing. *)
LEMMA CarIdleKeeps ==
    ASSUME LinkInv, CarAccepts \/ CarEnds \/ CarDies
    PROVE  LinkInv'
<1> USE DEF LinkInv
<1>1. /\ UNCHANGED <<tunnelVars, operator, relay, sent, cmd, motor, missed, misses>>
      /\ stream' \in {stream, <<>>}
      /\ car' \in {"accept", "read", "exited"} /\ opened' \in BOOLEAN
  BY DEF CarAccepts, CarEnds, CarDies, lineVars, wheelVars, TypeOK
<1>2. stream' \in Seq(Units) /\ Len(stream') <= SocketUnits
  <2>1. CASE stream' = stream
    BY <2>1, StreamTyped DEF TypeOK
  <2>2. CASE stream' = <<>>
    BY <2>2, EmptySeq, BoundsAssumption
  <2>. QED  BY <1>1, <2>1, <2>2
<1>3. TypeOK'
  BY <1>1, <1>2 DEF TypeOK, Units, tunnelVars
<1>4. AllKnown' /\ TunnelOrdered' /\ RelayHonest'
  BY <1>1 DEF AllKnown, Known, TunnelOrdered, RelayHonest, tunnelVars
<1>5. LineOrdered' /\ NothingInvented'
  BY <1>1 DEF LineOrdered, Begins, NothingInvented, Effect, tunnelVars
<1>. QED  BY <1>1, <1>3, <1>4, <1>5

-----------------------------------------------------------------------------
(* Every step preserves the invariant. *)
LEMMA NextKeeps ==
    ASSUME LinkInv, [Next]_vars
    PROVE  LinkInv'
<1>1. CASE UNCHANGED vars
  BY <1>1 DEF LinkInv, TypeOK, AllKnown, Known, TunnelOrdered, LineOrdered, Begins,
              RelayHonest, NothingInvented, Effect, vars, tunnelVars, lineVars, carVars,
              wheelVars
<1>2. CASE Next
  BY <1>2, ClientsKeep, RelayIdleKeeps, RelayReadsKeeps, RelaySendsKeeps, CarReadsKeeps,
     CarIdleKeeps
  DEF Next, Relay, Car
<1>. QED  BY <1>1, <1>2

(* The inductive invariant of the command link. *)
THEOREM Invariance == Spec => []LinkInv
BY InitHolds, NextKeeps, PTL DEF Spec

(* Every variable of the command link keeps its type, for any names, ring, *)
(* buffers and bounds.                                                     *)
THEOREM LinkTyped == Spec => []TypeOK
<1>1. LinkInv => TypeOK
  BY DEF LinkInv
<1>. QED  BY <1>1, Invariance, PTL

(* However the stream is cut, the car obeys no name but one the tunnel has *)
(* accepted, under the number it was accepted with, and its motors follow  *)
(* the name, unless the message to them was lost.                          *)
THEOREM InventsNothing == Spec => []NothingInvented
<1>1. LinkInv => NothingInvented
  BY DEF LinkInv
<1>. QED  BY <1>1, Invariance, PTL

(* The car never goes back to an older command, and the motors change only *)
(* at a newer one or when a lost message is made up for.                   *)
THEOREM KeepsOrder == Spec => InOrder
<1> DEFINE Forward == /\ cmd'.no >= cmd.no
                      /\ motor' # motor => cmd'.no > cmd.no \/ missed
<1>1. ASSUME LinkInv, [Next]_vars PROVE Forward \/ UNCHANGED vars
  <2>1. cmd.no \in Nat
    BY <1>1, NumbersTyped DEF LinkInv
  <2>2. ASSUME NEW n \in 1 .. BufUnits, CarReads(n) PROVE Forward
    <3>1. CASE cmd' = cmd
      <4>1. motor' # motor => missed
        BY <1>1, <2>2, <3>1 DEF LinkInv, NothingInvented, CarReads, Drives, Effect
      <4>. QED  BY <2>1, <3>1, <4>1
    <3>2. CASE cmd'.no > cmd.no
      BY <1>1, <2>2, <3>2, ScannedIsNew
    <3>. QED  BY <1>1, <2>2, <3>1, <3>2, ScannedIsNew
  <2>3. CASE Next /\ ~\E n \in 1 .. BufUnits : CarReads(n)
    <3>1. UNCHANGED <<cmd, motor>>
      BY <2>3 DEF Next, Relay, Car, CarconOpens, CarconIoctl, CarconDies, OperatorOpens,
         OperatorIoctl, OperatorCloses, RelayDials, RelayOpens, RelayReads, RelayReadFails,
         RelaySends, RelayWriteFails, RelayDies, CarAccepts, CarEnds, CarDies, carVars,
         wheelVars
    <3>. QED  BY <2>1, <3>1
  <2>. QED  BY <1>1, <2>2, <2>3
<1>2. LinkInv /\ [Next]_vars => [Forward]_vars
  BY <1>1
<1>. QED  BY <1>2, Invariance, PTL DEF Spec, InOrder
=============================================================================
