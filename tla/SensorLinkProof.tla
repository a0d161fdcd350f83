-------------------------- MODULE SensorLinkProof --------------------------
(***************************************************************************)
(* The theorems about the way of the sensor values.                        *)
(***************************************************************************)
EXTENDS SensorLink, SequenceTheorems, TLAPS

Hows == {"echo", "rest", "old"}
Samples == [dist : Dists, how : Hows, left : {0, 1}, right : {0, 1}]

(* A value that is not the echo of its own sample is one that fitted the   *)
(* buffer of the sensor server without a rest, or such a rest.             *)
Small(v) == v.how # "echo" => v.dist <= WordLen

SamplesSmall == \A k \in 1 .. Len(log) : Small(log[k])

(* The sensor server sends a value again only if its buffer is empty.      *)
DevByteSmall == /\ Small(devByte)
                /\ buffered = 0 => devByte.dist <= WordLen

(* Bytes of the samples sent so far. *)
Ids == (0 .. Len(log)) \X (1 .. WordLen)

Units == (1 .. Len(log)) \X {"head", "tail"}

ServerInv == ServerTypes /\ SamplesSmall /\ DevByteSmall /\ stream \in Seq(Units)

(* The tunnels hold nothing but bytes of samples sent. *)
TunnelInv ==
    /\ ring \in [Sensors -> Seq(Ids)] /\ got \in [Sensors -> Seq(Ids)]
    /\ \A s \in Sensors : Len(ring[s]) < RingBytes
    /\ wp \in [Sensors -> 0 .. RingBytes - 1]
    /\ files \in [Sensors -> SUBSET {"relay", "runner"}]
    /\ failing \in Unopened

Words == {w \in Seq(Ids) : Len(w) = WordLen}

RunnerInv ==
    /\ runner \in Sensors \cup {"open motor", "open left", "open right", "open sr04",
                                "command", "dead"}
    /\ seen \in [Sensors -> Words] /\ basis \in [Sensors -> Words]
    /\ command \in Directions \cup {"none"}
    /\ restarts \in 0 .. MaxRestarts
    /\ motor \in {"room", "full", "jammed"}

LinkInv == ServerInv /\ RelayTypes /\ TunnelInv /\ RunnerInv /\ AheadOnlyOnEcho

LEMMA LengthsAssumed ==
    WordLen \in Nat \ {0} /\ RingBytes \in Nat \ {0} /\ WordLen < RingBytes
BY SensorAssumption

(* A position in a buffer stays one. *)
LEMMA Wraps == ASSUME NEW a \in Int PROVE a % RingBytes \in 0 .. RingBytes - 1
BY LengthsAssumed

LEMMA WordTyped ==
    ASSUME NEW k \in Nat
    PROVE  /\ Word(k) \in Seq({k} \X (1 .. WordLen))
           /\ Len(Word(k)) = WordLen
           /\ Word(k)[1] = <<k, 1>>
<1>1. Word(k) = [i \in 1 .. WordLen |-> <<k, i>>]
  BY DEF Word
<1>2. \A i \in 1 .. WordLen : <<k, i>> \in {k} \X (1 .. WordLen)
  OBVIOUS
<1>. QED  BY <1>1, <1>2, SensorAssumption

LEMMA WordsReadSmall ==
    ASSUME NEW d \in Nat \ {0}
    PROVE  /\ WordsRead(d) - 1 \in Nat
           /\ WordsRead(d) - 1 = 0 => d <= WordLen
<1>. DEFINE q == (d + WordLen - 1) \div WordLen
<1>1. q \in Int /\ q * WordLen <= d + WordLen - 1 /\ d + WordLen - 1 < (q + 1) * WordLen
  BY SensorAssumption
<1>. QED  BY <1>1, SensorAssumption DEF WordsRead

LEMMA FieldOfSr04 == ASSUME NEW k
    PROVE  Field(k, "sr04") = IF k = 0 THEN 0 ELSE log[k].dist
BY DEF Field, Node

LEMMA AheadIsFar ==
    ASSUME NEW d \in Nat, NEW l, NEW r, d < BackDist
    PROVE  Decide(d, l, r) = "BACKWARD"
BY DistancesAssumption DEF Decide, Near, Far

(* What the car program's values hold before the first read.               *)
LEMMA ZeroTyped ==
    ASSUME 0 \in 0 .. Len(log)
    PROVE  Zero \in [Sensors -> Words]
<1>1. {0} \X (1 .. WordLen) \subseteq Ids
  BY DEF Ids
<1>2. Word(0) \in Words
  BY <1>1, WordTyped, SeqMonotonic DEF Words
<1>. QED  BY <1>2 DEF Zero

LEMMA InitKeeps == Init => LinkInv
<1>. SUFFICES ASSUME Init PROVE LinkInv
  OBVIOUS
<1>1. /\ log = <<>> /\ server = "run" /\ buffered = 0
      /\ devByte = [dist |-> 0, how |-> "old"] /\ stream = <<>>
  BY Zenon DEF Init
<1>2. /\ line = 0 /\ ring = [s \in Sensors |-> <<>>] /\ got = ring
      /\ wp = [s \in Sensors |-> 0] /\ files = [s \in Sensors |-> {}]
      /\ failing \in Unopened
  BY Zenon DEF Init
<1>3. /\ runner = "open motor" /\ seen = Zero /\ basis = Zero
      /\ command = "none" /\ restarts = 0 /\ motor = "room"
  BY Zenon DEF Init
<1>4. Len(log) = 0 /\ log \in Seq(Samples)
  BY <1>1
<1>5. ServerInv
  <2>1. ServerTypes /\ stream \in Seq(Units)
    BY <1>1, <1>4, SensorAssumption DEF ServerTypes, Samples, Hows
  <2>2. SamplesSmall /\ DevByteSmall
    BY <1>1, <1>4, SensorAssumption DEF SamplesSmall, DevByteSmall, Small
  <2>. QED  BY <2>1, <2>2 DEF ServerInv
<1>6. RelayTypes
  <2>1. line \in 0 .. Len(log)
    BY <1>2, <1>4
  <2>. QED  BY <2>1, Zenon DEF Init, RelayTypes
<1>7. TunnelInv
  <2>1. \A s \in Sensors : ring[s] = <<>>
    BY <1>2, Zenon
  <2>2. \A s \in Sensors : Len(ring[s]) < RingBytes
    BY <2>1, SensorAssumption
  <2>3. ring \in [Sensors -> Seq(Ids)]
    <3>1. <<>> \in Seq(Ids)
      BY EmptySeq
    <3>. QED  BY <1>2, <3>1, Zenon
  <2>4. wp \in [Sensors -> 0 .. RingBytes - 1]
    <3>1. 0 \in 0 .. RingBytes - 1
      BY SensorAssumption
    <3>. QED  BY <1>2, <3>1, Zenon
  <2>5. files \in [Sensors -> SUBSET {"relay", "runner"}]
    BY <1>2
  <2>. QED  BY <1>2, <2>2, <2>3, <2>4, <2>5, Zenon DEF TunnelInv
<1>8. RunnerInv
  <2>1. 0 \in 0 .. Len(log)
    BY <1>4
  <2>2. Zero \in [Sensors -> Words]
    BY <2>1, ZeroTyped
  <2>3. 0 \in 0 .. MaxRestarts
    BY SensorAssumption
  <2>. QED  BY <1>3, <2>2, <2>3, Zenon DEF RunnerInv
<1>9. AheadOnlyOnEcho
  BY <1>3 DEF AheadOnlyOnEcho
<1>. QED  BY <1>5, <1>6, <1>7, <1>8, <1>9 DEF LinkInv

(* The bytes of a sample sent are bytes of one of MaxSamples.              *)
LEMMA InvTypes == LinkInv => TypeOK
<1>. SUFFICES ASSUME LinkInv PROVE TypeOK
  OBVIOUS
<1>1. Ids \subseteq Bytes
  <2>1. Len(log) \in Nat /\ Len(log) <= MaxSamples
    BY DEF LinkInv, ServerInv, ServerTypes
  <2>. QED  BY <2>1, SensorAssumption DEF Ids, Bytes
<1>2. Seq(Ids) \subseteq Seq(Bytes) /\ Words \subseteq Seq(Bytes)
  BY <1>1, SeqMonotonic DEF Words
<1>3. TunnelTypes
  BY <1>2 DEF LinkInv, TunnelInv, TunnelTypes
<1>4. RunnerTypes
  BY <1>2 DEF LinkInv, RunnerInv, RunnerTypes
<1>. QED  BY <1>3, <1>4, Zenon DEF LinkInv, ServerInv, TypeOK

(* The history only grows, and what was sent stays sent. *)
LEMMA SentStaysSent ==
    ASSUME Len(log) \in Nat, Len(log') \in Nat, Len(log) <= Len(log')
    PROVE  /\ Seq(Ids) \subseteq Seq(Ids') /\ Words \subseteq Words'
           /\ Seq(Units) \subseteq Seq(Units')
<1>1. Ids \subseteq Ids' /\ Units \subseteq Units'
  BY DEF Ids, Units
<1>2. Seq(Ids) \subseteq Seq(Ids') /\ Seq(Units) \subseteq Seq(Units')
  BY <1>1, SeqMonotonic
<1>. QED  BY <1>2 DEF Words

LEMMA ReadSr04Keeps ==
    ASSUME ServerInv, NEW d \in Dists, ReadSr04(d)
    PROVE  /\ devByte' \in [dist : Dists, how : Hows] /\ buffered' \in Nat
           /\ DevByteSmall'
<1>1. devByte \in [dist : Dists, how : Hows] /\ buffered \in Nat /\ DevByteSmall
  BY DEF ServerInv, ServerTypes, Hows
<1>2. CASE buffered > 0
  BY <1>1, <1>2, SensorAssumption DEF ReadSr04, Hows, DevByteSmall, Small
<1>3. CASE buffered = 0 /\ d = 0
  <2>1. devByte' = [devByte EXCEPT !.how = "old"] /\ buffered' = 0
    BY <1>3 DEF ReadSr04
  <2>. QED  BY <1>1, <1>3, <2>1, SensorAssumption DEF Hows, DevByteSmall, Small
<1>4. CASE buffered = 0 /\ d # 0
  <2>1. devByte' = [dist |-> d, how |-> "echo"] /\ buffered' = WordsRead(d) - 1
    BY <1>4 DEF ReadSr04
  <2>2. d \in Nat \ {0}
    BY <1>4, SensorAssumption
  <2>. QED  BY <2>1, <2>2, WordsReadSmall DEF Hows, DevByteSmall, Small
<1>. QED  BY <1>1, <1>2, <1>3, <1>4

(* The values of a decision are of a sample that was sent.                 *)
LEMMA SampleSent ==
    ASSUME NEW w \in Words
    PROVE  SampleOf(w) \in 0 .. Len(log)
<1>1. w[1] \in Ids
  BY SensorAssumption DEF Words
<1>. QED  BY <1>1 DEF Ids, SampleOf

LEMMA ServerSendsKeeps ==
    ASSUME LinkInv, NEW d \in Dists, NEW l \in {0, 1}, NEW r \in {0, 1},
           ServerSends(d, l, r)
    PROVE  LinkInv'
<1>. DEFINE v == [dist |-> devByte'.dist, how |-> devByte'.how, left |-> l, right |-> r]
            u == << <<Len(log'), "head">>, <<Len(log'), "tail">> >>
<1>1. /\ devByte' \in [dist : Dists, how : Hows] /\ buffered' \in Nat
      /\ DevByteSmall'
  BY ReadSr04Keeps DEF LinkInv, ServerSends
<1>2. v \in Samples /\ Small(v)
  BY <1>1 DEF Samples, DevByteSmall, Small
<1>3. log \in Seq(Samples) /\ Len(log) \in Nat
  BY DEF LinkInv, ServerInv, ServerTypes, Samples, Hows
<1>4. log' = Append(log, v) /\ stream' = stream \o u
  BY DEF ServerSends
<1>5. /\ log' \in Seq(Samples) /\ Len(log') = Len(log) + 1
      /\ \A k \in 1 .. Len(log) : log'[k] = log[k]
      /\ log'[Len(log')] = v
  <2>. HIDE DEF v
  <2>. QED  BY <1>2, <1>3, <1>4
<1>6. SamplesSmall'
  <2>. SUFFICES ASSUME NEW k \in 1 .. Len(log')  PROVE Small(log'[k])
    BY DEF SamplesSmall, Small
  <2>1. CASE k = Len(log')
    BY <1>2, <1>5, <2>1
  <2>2. CASE k # Len(log')
    <3>1. k \in 1 .. Len(log)
      BY <1>3, <1>5, <2>2
    <3>. QED  BY <1>5, <3>1 DEF LinkInv, ServerInv, SamplesSmall
  <2>. QED  BY <2>1, <2>2
<1>7. stream' \in Seq(Units') /\ Len(stream') = Len(stream) + 2
  <2>1. stream \in Seq(Units')
    BY <1>3, <1>5, SentStaysSent DEF LinkInv, ServerInv
  <2>2. <<Len(log'), "head">> \in Units' /\ <<Len(log'), "tail">> \in Units'
    BY <1>3, <1>5 DEF Units
  <2>3. u \in Seq(Units') /\ Len(u) = 2
    BY <2>2
  <2>. QED  BY <1>4, <2>1, <2>3, ConcatProperties
<1>8. ServerInv'
  <2>1. Len(log') <= MaxSamples
    BY <1>3, <1>5, SensorAssumption DEF ServerSends
  <2>2. Units' \subseteq (1 .. MaxSamples) \X {"head", "tail"}
    BY <1>3, <1>5, <2>1, SensorAssumption DEF Units
  <2>3. stream' \in Seq((1 .. MaxSamples) \X {"head", "tail"})
    BY <1>7, <2>2, SeqMonotonic
  <2>4. server' \in {"run", "dead"} /\ Len(stream') <= SocketUnits
    BY <1>7 DEF LinkInv, ServerInv, ServerTypes, ServerSends
  <2>5. ServerTypes'
    BY <1>1, <1>5, <2>1, <2>3, <2>4 DEF ServerTypes, Samples, Hows
  <2>. QED  BY <1>1, <1>6, <1>7, <2>5 DEF ServerInv
<1>9. RelayTypes'
  <2>1. line \in 0 .. Len(log) /\ line' = line
    BY Zenon DEF LinkInv, RelayTypes, ServerSends, relayVars
  <2>2. line' \in 0 .. Len(log')
    BY <1>3, <1>5, <2>1
  <2>. QED  BY <2>2, Zenon DEF LinkInv, RelayTypes, ServerSends, relayVars
<1>10. TunnelInv'
  BY <1>3, <1>5, SentStaysSent DEF LinkInv, TunnelInv, ServerSends, tunnelVars
<1>11. RunnerInv'
  <2>1. /\ runner' = runner /\ seen' = seen /\ basis' = basis
        /\ command' = command /\ restarts' = restarts /\ motor' = motor
    BY Zenon DEF ServerSends, runnerVars
  <2>2. Words \subseteq Words'
    BY <1>3, <1>5, SentStaysSent
  <2>3. seen' \in [Sensors -> Words'] /\ basis' \in [Sensors -> Words']
    BY <2>1, <2>2 DEF LinkInv, RunnerInv
  <2>. QED  BY <2>1, <2>3, Zenon DEF LinkInv, RunnerInv
<1>12. AheadOnlyOnEcho'
  <2>1. basis' = basis /\ command' = command
    BY DEF ServerSends, runnerVars
  <2>2. SampleOf(basis["sr04"]) \in 0 .. Len(log)
    BY SampleSent DEF LinkInv, RunnerInv, Sensors
  <2>3. SampleOf(basis["sr04"]) # 0 =>
            log'[SampleOf(basis["sr04"])] = log[SampleOf(basis["sr04"])]
    BY <1>3, <1>5, <2>2
  <2>. QED  BY <2>1, <2>3 DEF LinkInv, AheadOnlyOnEcho, Whole, SampleOf
<1>. QED  BY <1>8, <1>9, <1>10, <1>11, <1>12 DEF LinkInv

(* What a step leaves alone keeps its part of the invariant.               *)
LEMMA LogAlone ==
    ASSUME LinkInv, UNCHANGED serverVars
    PROVE  log' = log /\ Ids' = Ids /\ Units' = Units /\ Words' = Words
BY DEF serverVars, Ids, Units, Words

LEMMA ServerAlone ==
    ASSUME LinkInv, UNCHANGED <<log, devByte, buffered>>, server' \in {"run", "dead"},
           stream' \in Seq(Units), Len(stream') <= SocketUnits
    PROVE  ServerInv'
<1>1. log' = log /\ devByte' = devByte /\ buffered' = buffered /\ Units' = Units
  BY DEF Units
<1>2. SamplesSmall' /\ DevByteSmall'
  BY <1>1 DEF LinkInv, ServerInv, SamplesSmall, DevByteSmall, Small
<1>3. stream' \in Seq((1 .. MaxSamples) \X {"head", "tail"})
  <2>1. Len(log) \in Nat /\ Len(log) <= MaxSamples
    BY DEF LinkInv, ServerInv, ServerTypes
  <2>2. Units \subseteq (1 .. MaxSamples) \X {"head", "tail"}
    BY <2>1, SensorAssumption DEF Units
  <2>. QED  BY <2>2, SeqMonotonic
<1>4. ServerTypes'
  BY <1>1, <1>3 DEF LinkInv, ServerInv, ServerTypes
<1>. QED  BY <1>1, <1>2, <1>4 DEF ServerInv

LEMMA StreamAlone ==
    ASSUME LinkInv, UNCHANGED <<serverVars, stream>>
    PROVE  ServerInv'
<1>1. server' \in {"run", "dead"} /\ stream' \in Seq(Units) /\ Len(stream') <= SocketUnits
  BY DEF LinkInv, ServerInv, ServerTypes, serverVars
<1>. QED  BY <1>1, ServerAlone DEF serverVars

LEMMA RelayAlone ==
    ASSUME LinkInv, UNCHANGED serverVars, UNCHANGED relayVars
    PROVE  RelayTypes'
BY Zenon DEF LinkInv, RelayTypes, serverVars, relayVars

LEMMA TunnelsAlone ==
    ASSUME LinkInv, UNCHANGED serverVars, UNCHANGED tunnelVars
    PROVE  TunnelInv'
BY LogAlone DEF LinkInv, TunnelInv, tunnelVars

LEMMA DecisionAlone ==
    ASSUME LinkInv, UNCHANGED serverVars, UNCHANGED <<basis, command>>
    PROVE  AheadOnlyOnEcho'
BY Zenon DEF LinkInv, AheadOnlyOnEcho, Whole, SampleOf, serverVars

LEMMA RunnerAlone ==
    ASSUME LinkInv, UNCHANGED serverVars, UNCHANGED runnerVars
    PROVE  RunnerInv' /\ AheadOnlyOnEcho'
<1>1. /\ runner' = runner /\ seen' = seen /\ basis' = basis
      /\ command' = command /\ restarts' = restarts /\ motor' = motor
  BY Zenon DEF runnerVars
<1>2. RunnerInv'
  BY <1>1, LogAlone, Zenon DEF LinkInv, RunnerInv
<1>. QED  BY <1>1, <1>2, DecisionAlone

(* The steps that concern one program only.                                *)
LEMMA ServerDiesKeeps == LinkInv /\ ServerDies => LinkInv'
<1>. SUFFICES ASSUME LinkInv, ServerDies PROVE LinkInv'
  OBVIOUS
<1>1. /\ server' = "dead" /\ log' = log /\ devByte' = devByte /\ buffered' = buffered
      /\ stream' = stream /\ UNCHANGED relayVars /\ UNCHANGED tunnelVars
      /\ UNCHANGED runnerVars
  BY Zenon DEF ServerDies
<1>2. ServerInv'
  <2>1. stream' \in Seq(Units) /\ Len(stream') <= SocketUnits
    BY <1>1 DEF LinkInv, ServerInv, ServerTypes
  <2>. QED  BY <1>1, <2>1, ServerAlone
<1>3. Ids' = Ids /\ Words' = Words
  BY <1>1 DEF Ids, Words
<1>4. RelayTypes'
  BY <1>1, Zenon DEF LinkInv, RelayTypes, relayVars
<1>5. TunnelInv'
  BY <1>1, <1>3 DEF LinkInv, TunnelInv, tunnelVars
<1>6. RunnerInv' /\ AheadOnlyOnEcho'
  <2>1. /\ runner' = runner /\ seen' = seen /\ basis' = basis
        /\ command' = command /\ restarts' = restarts /\ motor' = motor
    BY <1>1, Zenon DEF runnerVars
  <2>2. RunnerInv'
    BY <1>3, <2>1, Zenon DEF LinkInv, RunnerInv
  <2>3. AheadOnlyOnEcho'
    BY <1>1, <2>1, Zenon DEF LinkInv, AheadOnlyOnEcho, Whole, SampleOf
  <2>. QED  BY <2>2, <2>3
<1>. QED  BY <1>2, <1>4, <1>5, <1>6 DEF LinkInv

LEMMA RelayDialsKeeps == LinkInv /\ RelayDials => LinkInv'
<1>. SUFFICES ASSUME LinkInv, RelayDials PROVE LinkInv'
  OBVIOUS
<1>1. /\ relay = "dial" /\ relay' = "open sr04" /\ line' = line /\ asleep' = asleep
      /\ UNCHANGED serverVars /\ stream' = stream /\ UNCHANGED tunnelVars
      /\ UNCHANGED runnerVars
  BY Zenon DEF RelayDials
<1>2. RelayTypes'
  <2>1. ~asleep
    BY <1>1, Zenon DEF LinkInv, RelayTypes, Sensors
  <2>. QED  BY <1>1, <2>1, LogAlone, Zenon DEF LinkInv, RelayTypes
<1>. QED  BY <1>1, <1>2, StreamAlone, TunnelsAlone, RunnerAlone DEF LinkInv

LEMMA RelaySleepsKeeps == LinkInv /\ RelaySleeps => LinkInv'
<1>. SUFFICES ASSUME LinkInv, RelaySleeps PROVE LinkInv'
  OBVIOUS
<1>1. /\ relay \in Sensors /\ relay' = relay /\ line' = line /\ asleep' = TRUE
      /\ UNCHANGED serverVars /\ stream' = stream /\ UNCHANGED tunnelVars
      /\ UNCHANGED runnerVars
  BY Zenon DEF RelaySleeps
<1>2. RelayTypes'
  BY <1>1, LogAlone, Zenon DEF LinkInv, RelayTypes
<1>. QED  BY <1>1, <1>2, StreamAlone, TunnelsAlone, RunnerAlone DEF LinkInv

LEMMA RelayReceivesKeeps ==
    ASSUME LinkInv, NEW n \in 1 .. SocketUnits, RelayReceives(n)
    PROVE  LinkInv'
<1>1. /\ relay = "receive" /\ n \in DOMAIN stream /\ stream' = SubSeq(stream, n + 1, Len(stream))
      /\ asleep' = asleep /\ UNCHANGED serverVars /\ UNCHANGED tunnelVars
      /\ UNCHANGED runnerVars
      /\ \/ relay' = "sr04" /\ line' = stream[1][1]
         \/ relay' = relay /\ line' = line
  BY Zenon DEF RelayReceives
<1>2. stream \in Seq(Units) /\ Len(stream) <= SocketUnits
  BY DEF LinkInv, ServerInv, ServerTypes
<1>3. stream' \in Seq(Units) /\ Len(stream') <= SocketUnits
  <2>1. n \in 1 .. Len(stream) /\ stream' = SubSeq(stream, n + 1, Len(stream))
    BY <1>1, <1>2
  <2>. QED  BY <1>2, <2>1, SubSeqProperties, SensorAssumption
<1>4. stream[1][1] \in 0 .. Len(log)
  <2>1. stream[1] \in Units
    BY <1>1, <1>2
  <2>. QED  BY <2>1 DEF Units
<1>5. ServerInv'
  BY <1>1, <1>3, ServerAlone DEF serverVars, LinkInv, ServerInv, ServerTypes
<1>6. RelayTypes'
  <2>1. ~asleep
    BY <1>1, Zenon DEF LinkInv, RelayTypes, Sensors
  <2>2. "sr04" \in Sensors
    BY DEF Sensors
  <2>. QED  BY <1>1, <1>4, <2>1, <2>2, LogAlone, Zenon DEF LinkInv, RelayTypes
<1>. QED  BY <1>1, <1>5, <1>6, TunnelsAlone, RunnerAlone DEF LinkInv

(* The tunnels under an open, an exit, a write and a read.                 *)
LEMMA OpensKeeps ==
    ASSUME LinkInv, NEW c \in {"relay", "runner"}, NEW s \in Sensors, Opens(c, s),
           UNCHANGED serverVars, UNCHANGED <<got, failing>>
    PROVE  TunnelInv'
<1>1. CASE UNCHANGED <<ring, wp, files>>
  BY <1>1, TunnelsAlone DEF tunnelVars
<1>2. CASE /\ files' = [files EXCEPT ![s] = @ \cup {c}]
           /\ wp' = [wp EXCEPT ![s] = 0]
           /\ ring' = [ring EXCEPT ![s] = <<>>]
  <2>1. files' \in [Sensors -> SUBSET {"relay", "runner"}]
    BY <1>2 DEF LinkInv, TunnelInv
  <2>2. wp' \in [Sensors -> 0 .. RingBytes - 1]
    BY <1>2, SensorAssumption DEF LinkInv, TunnelInv
  <2>3. ring' \in [Sensors -> Seq(Ids)]
    <3>1. <<>> \in Seq(Ids)
      BY EmptySeq
    <3>. QED  BY <1>2, <3>1, Zenon DEF LinkInv, TunnelInv
  <2>4. \A t \in Sensors : Len(ring'[t]) < RingBytes
    <3>. SUFFICES ASSUME NEW t \in Sensors PROVE Len(ring'[t]) < RingBytes
      OBVIOUS
    <3>1. ring'[t] = <<>> \/ ring'[t] = ring[t]
      BY <1>2, Zenon DEF LinkInv, TunnelInv
    <3>2. Len(ring[t]) < RingBytes
      BY DEF LinkInv, TunnelInv
    <3>. QED  BY <3>1, <3>2, SensorAssumption
  <2>. QED  BY <2>1, <2>2, <2>3, <2>4, LogAlone DEF LinkInv, TunnelInv
<1>. QED  BY <1>1, <1>2, Zenon DEF Opens

LEMMA ExitsKeeps ==
    ASSUME LinkInv, NEW c \in {"relay", "runner"}, Exits(c),
           UNCHANGED serverVars, UNCHANGED <<got, failing>>
    PROVE  TunnelInv'
<1>1. files' \in [Sensors -> SUBSET {"relay", "runner"}]
  BY DEF Exits, LinkInv, TunnelInv
<1>2. wp' \in [Sensors -> 0 .. RingBytes - 1]
  BY SensorAssumption DEF Exits, LinkInv, TunnelInv
<1>3. \A t \in Sensors : ring'[t] = <<>> \/ ring'[t] = ring[t]
  BY Zenon DEF Exits
<1>4. ring' \in [Sensors -> Seq(Ids)]
  <2>1. <<>> \in Seq(Ids)
    BY EmptySeq
  <2>2. DOMAIN ring' = Sensors /\ ring' = [t \in Sensors |-> ring'[t]]
    BY Zenon DEF Exits
  <2>3. \A t \in Sensors : ring'[t] \in Seq(Ids)
    BY <1>3, <2>1, Zenon DEF LinkInv, TunnelInv
  <2>. QED  BY <2>2, <2>3, Zenon
<1>5. \A t \in Sensors : Len(ring'[t]) < RingBytes
  BY <1>3, SensorAssumption DEF LinkInv, TunnelInv
<1>. QED  BY <1>1, <1>2, <1>4, <1>5, LogAlone DEF LinkInv, TunnelInv

LEMMA RelayOpensKeeps == LinkInv /\ RelayOpensAll => LinkInv'
<1>. SUFFICES ASSUME LinkInv, RelayOpensAll PROVE LinkInv'
  OBVIOUS
<1>1. PICK s \in Sensors :
         /\ relay \in {"open sr04", "open left", "open right"}
         /\ relay' \in {"open left", "open right", "receive"}
         /\ Opens("relay", Node(s)) /\ line' = line /\ asleep' = asleep
         /\ UNCHANGED serverVars /\ stream' = stream
         /\ UNCHANGED <<got, failing>> /\ UNCHANGED runnerVars
  BY Zenon DEF RelayOpensAll, RelayOpens, Sensors
<1>2. Node(s) \in Sensors
  BY DEF Node, Sensors
<1>3. TunnelInv'
  BY <1>1, <1>2, OpensKeeps
<1>4. RelayTypes'
  <2>1. relay \notin Sensors
    BY <1>1 DEF Sensors
  <2>2. ~asleep
    BY <2>1, Zenon DEF LinkInv, RelayTypes
  <2>. QED  BY <1>1, <2>2, LogAlone, Zenon DEF LinkInv, RelayTypes
<1>. QED  BY <1>1, <1>3, <1>4, StreamAlone, RunnerAlone DEF LinkInv

LEMMA RelayEndsKeeps == LinkInv /\ RelayEnds => LinkInv'
<1>. SUFFICES ASSUME LinkInv, RelayEnds PROVE LinkInv'
  OBVIOUS
<1>1. /\ Exits("relay") /\ relay' = "dead" /\ line' = 0 /\ asleep' = FALSE
      /\ stream' = <<>> /\ UNCHANGED serverVars /\ UNCHANGED <<got, failing>>
      /\ UNCHANGED runnerVars
  BY Zenon DEF RelayEnds
<1>2. ServerInv'
  <2>1. stream' \in Seq(Units) /\ Len(stream') <= SocketUnits
    <3>1. stream' = <<>>
      BY <1>1, Zenon
    <3>. QED  BY <3>1, SensorAssumption
  <2>2. log' = log /\ devByte' = devByte /\ buffered' = buffered /\ server' = server
    BY <1>1, Zenon DEF serverVars
  <2>. QED  BY <2>1, <2>2, ServerAlone DEF LinkInv, ServerInv, ServerTypes
<1>3. RelayTypes'
  <2>1. 0 \in 0 .. Len(log')
    <3>1. Len(log) \in Nat /\ log' = log
      BY <1>1, LogAlone DEF LinkInv, ServerInv, ServerTypes
    <3>. QED  BY <3>1
  <2>. QED  BY <1>1, <2>1, Zenon DEF RelayTypes
<1>. QED  BY <1>1, <1>2, <1>3, ExitsKeeps, RunnerAlone DEF LinkInv

(* A write adds bytes of the sample it is from, and never the last byte.   *)
LEMMA FittingTyped ==
    ASSUME LinkInv, NEW s \in Sensors, Room(s) > 0
    PROVE  /\ Fitting(s) \in Seq(Ids)
           /\ Len(Fitting(s)) \in Nat /\ Len(Fitting(s)) <= Room(s)
<1>. DEFINE n == Least(Room(s), Least(WordLen, RingBytes - wp[s]))
<1>1. wp[s] \in 0 .. RingBytes - 1 /\ Len(ring[s]) \in Nat /\ Len(ring[s]) < RingBytes
  BY DEF LinkInv, TunnelInv
<1>2. n \in Nat /\ n <= WordLen /\ n <= Room(s)
  <2>1. Room(s) \in Nat /\ RingBytes - wp[s] \in Nat
    BY <1>1, LengthsAssumed DEF Room
  <2>. QED  BY <2>1, LengthsAssumed DEF Least
<1>3. line \in 0 .. Len(log) /\ Len(log) \in Nat
  <2>1. line \in 0 .. Len(log)
    BY Zenon DEF LinkInv, RelayTypes
  <2>. QED  BY <2>1 DEF LinkInv, ServerInv, ServerTypes
<1>4. Word(line) \in Seq(Ids) /\ Len(Word(line)) = WordLen
  <2>1. {line} \X (1 .. WordLen) \subseteq Ids
    BY <1>3 DEF Ids
  <2>2. Word(line) \in Seq({line} \X (1 .. WordLen)) /\ Len(Word(line)) = WordLen
    BY <1>3, WordTyped
  <2>3. Seq({line} \X (1 .. WordLen)) \subseteq Seq(Ids)
    BY <2>1, SeqMonotonic
  <2>. QED  BY <2>2, <2>3
<1>5. Fitting(s) = SubSeq(Word(line), 1, n)
  BY DEF Fitting
<1>. HIDE DEF n
<1>6. SubSeq(Word(line), 1, n) \in Seq(Ids) /\ Len(SubSeq(Word(line), 1, n)) = n
  BY <1>2, <1>4, SubSeqProperties, SensorAssumption
<1>. QED  BY <1>2, <1>5, <1>6

LEMMA RelayWritesKeeps == LinkInv /\ RelayWrites => LinkInv'
<1>. SUFFICES ASSUME LinkInv, RelayWrites PROVE LinkInv'
  OBVIOUS
<1>. DEFINE s == Node(relay)
<1>1. /\ relay \in Sensors /\ ~asleep
      /\ relay' = After(relay) /\ (line' = 0 \/ line' = line) /\ asleep' = asleep
      /\ UNCHANGED serverVars /\ stream' = stream
      /\ UNCHANGED <<got, files, failing>> /\ UNCHANGED runnerVars
      /\ \/ UNCHANGED <<ring, wp>>
         \/ /\ Room(s) > 0 /\ ring' = [ring EXCEPT ![s] = @ \o Fitting(s)]
            /\ wp' = [wp EXCEPT ![s] = (@ + Len(Fitting(s))) % RingBytes]
  BY Zenon DEF RelayWrites
<1>2. s \in Sensors
  BY <1>1 DEF Node, Sensors
<1>3. RelayTypes'
  <2>1. relay' \in {"left", "right", "receive"}
    BY <1>1 DEF After, Sensors
  <2>2. 0 \in 0 .. Len(log)
    BY DEF LinkInv, ServerInv, ServerTypes
  <2>. QED  BY <1>1, <2>1, <2>2, LogAlone, Zenon DEF LinkInv, RelayTypes, Sensors
<1>. HIDE DEF s
<1>4. TunnelInv'
  <2>1. CASE UNCHANGED <<ring, wp>>
    BY <1>1, <2>1, TunnelsAlone DEF tunnelVars
  <2>2. CASE /\ Room(s) > 0 /\ ring' = [ring EXCEPT ![s] = @ \o Fitting(s)]
             /\ wp' = [wp EXCEPT ![s] = (@ + Len(Fitting(s))) % RingBytes]
    <3>1. /\ Fitting(s) \in Seq(Ids) /\ Len(Fitting(s)) \in Nat
          /\ Len(Fitting(s)) <= RingBytes - 1 - Len(ring[s])
      BY <1>2, <2>2, FittingTyped DEF Room
    <3>2. ring[s] \in Seq(Ids) /\ wp[s] \in 0 .. RingBytes - 1
      BY <1>2 DEF LinkInv, TunnelInv
    <3>3. /\ ring[s] \o Fitting(s) \in Seq(Ids)
          /\ Len(ring[s] \o Fitting(s)) < RingBytes
      BY <3>1, <3>2, ConcatProperties, SensorAssumption
    <3>4. (wp[s] + Len(Fitting(s))) % RingBytes \in 0 .. RingBytes - 1
      <4>1. wp[s] + Len(Fitting(s)) \in Int
        BY <3>1, <3>2, LengthsAssumed
      <4>. QED  BY <4>1, Wraps
    <3>5. ring' \in [Sensors -> Seq(Ids)] /\ wp' \in [Sensors -> 0 .. RingBytes - 1]
      BY <2>2, <3>3, <3>4, Zenon DEF LinkInv, TunnelInv
    <3>6. \A t \in Sensors : Len(ring'[t]) < RingBytes
      <4>. SUFFICES ASSUME NEW t \in Sensors PROVE Len(ring'[t]) < RingBytes
        OBVIOUS
      <4>1. \/ t = s /\ ring'[t] = ring[s] \o Fitting(s)
            \/ ring'[t] = ring[t]
        BY <2>2, Zenon DEF LinkInv, TunnelInv
      <4>2. Len(ring[t]) < RingBytes
        BY DEF LinkInv, TunnelInv
      <4>. QED  BY <3>3, <4>1, <4>2
    <3>7. files' = files /\ got' = got /\ failing' = failing
      BY <1>1, Zenon
    <3>. QED  BY <1>1, <3>5, <3>6, <3>7, LogAlone DEF LinkInv, TunnelInv
  <2>. QED  BY <1>1, <2>1, <2>2, Zenon
<1>. QED  BY <1>1, <1>3, <1>4, StreamAlone, RunnerAlone DEF LinkInv

(* A read gets bytes of the tunnel, and a value of WordLen bytes stays one *)
(* of WordLen bytes.                                                       *)
LEMMA FirstTyped ==
    ASSUME LinkInv, NEW s \in Sensors, ring[s] # <<>>
    PROVE  /\ First(s) \in Seq(Ids) /\ Len(First(s)) \in 1 .. Len(ring[s])
           /\ First(s) \o SubSeq(seen[s], Len(First(s)) + 1, WordLen) \in Words
<1>. DEFINE n == Least(Len(ring[s]), Least(WordLen, RingBytes - rp(s)))
<1>1. /\ ring[s] \in Seq(Ids) /\ Len(ring[s]) \in Nat /\ Len(ring[s]) > 0
      /\ wp[s] \in 0 .. RingBytes - 1
  BY DEF LinkInv, TunnelInv
<1>2. rp(s) \in 0 .. RingBytes - 1
  <2>1. wp[s] - Len(ring[s]) \in Int
    BY <1>1, LengthsAssumed
  <2>. QED  BY <2>1, Wraps DEF rp
<1>3. n \in 1 .. Len(ring[s]) /\ n <= WordLen
  <2>1. RingBytes - rp(s) \in Nat /\ RingBytes - rp(s) > 0
    BY <1>2, LengthsAssumed
  <2>. QED  BY <1>1, <2>1, LengthsAssumed DEF Least
<1>4. First(s) = SubSeq(ring[s], 1, n)
  BY DEF First
<1>. HIDE DEF n
<1>5. First(s) \in Seq(Ids) /\ Len(First(s)) = n
  BY <1>1, <1>3, <1>4, SubSeqProperties
<1>6. seen[s] \in Seq(Ids) /\ Len(seen[s]) = WordLen
  BY DEF LinkInv, RunnerInv, Words
<1>7. /\ SubSeq(seen[s], n + 1, WordLen) \in Seq(Ids)
      /\ Len(SubSeq(seen[s], n + 1, WordLen)) = WordLen - n
  BY <1>3, <1>6, SubSeqProperties, LengthsAssumed
<1>8. First(s) \o SubSeq(seen[s], n + 1, WordLen) \in Words
  <2>. DEFINE a == First(s)
              b == SubSeq(seen[s], n + 1, WordLen)
  <2>1. a \in Seq(Ids) /\ b \in Seq(Ids) /\ Len(a) + Len(b) = WordLen
    BY <1>3, <1>5, <1>7, LengthsAssumed
  <2>. HIDE DEF a, b
  <2>2. a \o b \in Seq(Ids) /\ Len(a \o b) = WordLen
    BY <2>1, ConcatProperties
  <2>. QED  BY <2>2 DEF Words, a, b
<1>. QED  BY <1>3, <1>5, <1>8

LEMMA ReadsKeeps ==
    ASSUME LinkInv, NEW s \in Sensors, Reads(s), UNCHANGED serverVars,
           UNCHANGED <<wp, files, failing>>, relay' = relay, line' = line
    PROVE  TunnelInv' /\ RelayTypes' /\ seen' \in [Sensors -> Words]
<1>1. RelayTypes'
  <2>1. asleep' \in BOOLEAN /\ (asleep' => asleep)
    BY Zenon DEF Reads, LinkInv, RelayTypes
  <2>. QED  BY <2>1, LogAlone, Zenon DEF LinkInv, RelayTypes
<1>2. CASE UNCHANGED <<ring, got, seen>>
  <2>1. TunnelInv'
    BY <1>2, TunnelsAlone DEF tunnelVars
  <2>. QED  BY <1>1, <1>2, <2>1 DEF LinkInv, RunnerInv
<1>3. CASE /\ ring[s] # <<>>
           /\ got' = [got EXCEPT ![s] = First(s)]
           /\ seen' = [seen EXCEPT ![s] = First(s) \o SubSeq(@, Len(First(s)) + 1, WordLen)]
           /\ ring' = [ring EXCEPT ![s] = SubSeq(@, Len(First(s)) + 1, Len(@))]
  <2>1. /\ First(s) \in Seq(Ids) /\ Len(First(s)) \in 1 .. Len(ring[s])
        /\ First(s) \o SubSeq(seen[s], Len(First(s)) + 1, WordLen) \in Words
    BY <1>3, FirstTyped
  <2>2. seen' \in [Sensors -> Words] /\ got' \in [Sensors -> Seq(Ids)]
    BY <1>3, <2>1, Zenon DEF LinkInv, TunnelInv, RunnerInv
  <2>. DEFINE rest == SubSeq(ring[s], Len(First(s)) + 1, Len(ring[s]))
  <2>3. rest \in Seq(Ids) /\ Len(rest) <= Len(ring[s])
    <3>1. ring[s] \in Seq(Ids) /\ Len(ring[s]) \in Nat
      BY DEF LinkInv, TunnelInv
    <3>. QED  BY <2>1, <3>1, SubSeqProperties
  <2>4. ring' = [ring EXCEPT ![s] = rest]
    BY <1>3, Zenon
  <2>. HIDE DEF rest
  <2>5. ring' \in [Sensors -> Seq(Ids)]
    BY <2>3, <2>4, Zenon DEF LinkInv, TunnelInv
  <2>6. \A t \in Sensors : Len(ring'[t]) < RingBytes
    <3>. SUFFICES ASSUME NEW t \in Sensors PROVE Len(ring'[t]) < RingBytes
      OBVIOUS
    <3>1. (t = s /\ ring'[t] = rest) \/ ring'[t] = ring[t]
      BY <2>4, Zenon DEF LinkInv, TunnelInv
    <3>2. Len(ring[t]) < RingBytes /\ ring[t] \in Seq(Ids)
      BY DEF LinkInv, TunnelInv
    <3>. QED  BY <2>3, <3>1, <3>2, LengthsAssumed
  <2>7. TunnelInv'
    BY <2>2, <2>5, <2>6, LogAlone DEF LinkInv, TunnelInv
  <2>. QED  BY <1>1, <2>2, <2>7
<1>. QED  BY <1>2, <1>3, Zenon DEF Reads

LEMMA RunnerReadsKeeps == LinkInv /\ (RunnerReadsSr04 \/ RunnerReadsLeft) => LinkInv'
<1>. SUFFICES ASSUME LinkInv, RunnerReadsSr04 \/ RunnerReadsLeft PROVE LinkInv'
  OBVIOUS
<1>1. PICK s \in Sensors :
         /\ Reads(s) /\ runner' \in {"left", "right"}
         /\ UNCHANGED serverVars /\ stream' = stream
         /\ relay' = relay /\ line' = line /\ UNCHANGED <<wp, files, failing>>
         /\ basis' = basis /\ command' = command /\ restarts' = restarts
         /\ motor' = motor
  BY Zenon DEF RunnerReadsSr04, RunnerReadsLeft, Sensors
<1>2. TunnelInv' /\ RelayTypes' /\ seen' \in [Sensors -> Words]
  BY <1>1, ReadsKeeps
<1>3. RunnerInv'
  BY <1>1, <1>2, LogAlone, Zenon DEF LinkInv, RunnerInv, Sensors
<1>. QED  BY <1>1, <1>2, <1>3, StreamAlone, DecisionAlone DEF LinkInv

(* What is not the echo of its own sample is too near to go ahead.         *)
LEMMA AheadIsEcho ==
    ASSUME LinkInv, NEW w \in Words, NEW l, NEW r,
           Whole(w), NEW d \in Numbers(w, "sr04"),
           Decide(d, l, r) # "BACKWARD"
    PROVE  SampleOf(w) # 0 /\ log[SampleOf(w)].how = "echo"
<1>1. d = Field(SampleOf(w), "sr04")
  BY Zenon DEF Numbers
<1>2. SampleOf(w) \in 0 .. Len(log)
  BY SampleSent
<1>3. log \in Seq(Samples) /\ Len(log) \in Nat /\ SamplesSmall
  BY DEF LinkInv, ServerInv, ServerTypes, Samples, Hows
<1>4. SampleOf(w) # 0
  <2>. SUFFICES ASSUME SampleOf(w) = 0 PROVE FALSE
    OBVIOUS
  <2>1. d = 0
    BY <1>1, FieldOfSr04
  <2>. QED  BY <2>1, AheadIsFar, DistancesAssumption
<1>. DEFINE v == log[SampleOf(w)]
<1>5. v \in Samples /\ Small(v) /\ d = v.dist
  BY <1>1, <1>2, <1>3, <1>4, FieldOfSr04 DEF SamplesSmall
<1>. HIDE DEF v
<1>6. d \in Nat
  BY <1>5, SensorAssumption DEF Samples
<1>7. d >= BackDist
  BY <1>6, AheadIsFar, DistancesAssumption
<1>8. ~(d <= WordLen)
  BY <1>6, <1>7, EchoAssumption, DistancesAssumption, LengthsAssumed
<1>9. v.how = "echo"
  BY <1>5, <1>8 DEF Small
<1>. QED  BY <1>4, <1>9 DEF v

LEMMA RunnerDecidesKeeps == LinkInv /\ RunnerDecides => LinkInv'
<1>. SUFFICES ASSUME LinkInv, RunnerDecides PROVE LinkInv'
  OBVIOUS
<1>1. /\ Reads("right") /\ basis' = seen' /\ runner' = "command"
      /\ UNCHANGED serverVars /\ stream' = stream
      /\ relay' = relay /\ line' = line /\ UNCHANGED <<wp, files, failing>>
      /\ restarts' = restarts /\ motor' = motor
  BY Zenon DEF RunnerDecides
<1>2. PICK d \in Numbers(seen'["sr04"], "sr04"), l \in Numbers(seen'["left"], "left"),
           r \in Numbers(seen'["right"], "right") : command' = Decide(d, l, r)
  BY Zenon DEF RunnerDecides
<1>3. TunnelInv' /\ RelayTypes' /\ seen' \in [Sensors -> Words]
  BY <1>1, ReadsKeeps DEF Sensors
<1>4. command' \in Directions
  BY <1>2 DEF Decide, Near, Far, Directions
<1>5. RunnerInv'
  BY <1>1, <1>3, <1>4, LogAlone, Zenon DEF LinkInv, RunnerInv, Sensors
<1>6. AheadOnlyOnEcho'
  <2>. DEFINE w == seen'["sr04"]
  <2>1. w \in Words
    BY <1>3 DEF Sensors
  <2>2. ASSUME command' # "BACKWARD", Whole(w)
        PROVE  SampleOf(w) # 0 /\ log[SampleOf(w)].how = "echo"
    BY <1>2, <2>1, <2>2, AheadIsEcho
  <2>3. log' = log /\ basis'["sr04"] = w
    BY <1>1, LogAlone
  <2>. HIDE DEF w
  <2>. QED  BY <2>2, <2>3 DEF AheadOnlyOnEcho, Whole, SampleOf, Word
<1>. QED  BY <1>1, <1>3, <1>5, <1>6, StreamAlone DEF LinkInv

LEMMA RunnerOpensKeeps == LinkInv /\ RunnerOpensAll => LinkInv'
<1>. SUFFICES ASSUME LinkInv, RunnerOpensAll PROVE LinkInv'
  OBVIOUS
<1>1. PICK s \in Sensors :
         /\ Opens("runner", s) /\ runner' \in {"open right", "open sr04", "sr04"}
         /\ UNCHANGED serverVars /\ stream' = stream /\ UNCHANGED relayVars
         /\ UNCHANGED <<got, failing>> /\ seen' = seen
         /\ basis' = basis /\ command' = command /\ restarts' = restarts
         /\ motor' = motor
  BY Zenon DEF RunnerOpensAll, RunnerOpens, Sensors
<1>2. RunnerInv'
  BY <1>1, LogAlone, Zenon DEF LinkInv, RunnerInv, Sensors
<1>. QED  BY <1>1, <1>2, StreamAlone, RelayAlone, OpensKeeps, DecisionAlone DEF LinkInv

LEMMA RunnerDiesKeeps == LinkInv /\ RunnerDies => LinkInv'
<1>. SUFFICES ASSUME LinkInv, RunnerDies PROVE LinkInv'
  OBVIOUS
<1>1. /\ Exits("runner") /\ runner' = "dead"
      /\ seen' = Zero /\ restarts' = restarts /\ motor' = motor
      /\ UNCHANGED serverVars /\ stream' = stream /\ UNCHANGED relayVars
      /\ UNCHANGED <<got, failing>> /\ basis' = basis /\ command' = command
  BY Zenon DEF RunnerDies
<1>2. seen' \in [Sensors -> Words]
  <2>1. 0 \in 0 .. Len(log)
    BY DEF LinkInv, ServerInv, ServerTypes
  <2>2. Zero \in [Sensors -> Words]
    BY <2>1, ZeroTyped
  <2>. QED  BY <1>1, <2>2
<1>3. RunnerInv'
  BY <1>1, <1>2, LogAlone, Zenon DEF LinkInv, RunnerInv
<1>. QED  BY <1>1, <1>3, StreamAlone, RelayAlone, ExitsKeeps, DecisionAlone DEF LinkInv

(* What neither opens, reads nor closes a sensor tunnel. *)
Turns == Motor \/ RunnerOpensMotor \/ RunnerCommands \/ RunnerStarts

LEMMA TurnsDo ==
    ASSUME Turns
    PROVE  /\ UNCHANGED serverVars /\ stream' = stream /\ UNCHANGED relayVars
           /\ UNCHANGED tunnelVars /\ UNCHANGED <<seen, basis, command>>
           /\ \/ runner' = runner
              \/ runner = "open motor" /\ runner' = "open left"
              \/ runner = "command" /\ runner' = "sr04"
              \/ runner = "dead" /\ runner' = "open motor"
BY Zenon DEF Turns, Motor, RunnerOpensMotor, RunnerCommands, RunnerStarts

LEMMA TurnsKeep == LinkInv /\ Turns => LinkInv'
<1>. SUFFICES ASSUME LinkInv, Turns PROVE LinkInv'
  OBVIOUS
<1>1. restarts' \in 0 .. MaxRestarts
  <2>1. restarts \in 0 .. MaxRestarts
    BY DEF LinkInv, RunnerInv
  <2>2. restarts' = restarts \/ (restarts < MaxRestarts /\ restarts' = restarts + 1)
    BY Zenon DEF Turns, Motor, RunnerOpensMotor, RunnerCommands, RunnerStarts
  <2>. QED  BY <2>1, <2>2, SensorAssumption
<1>2. motor' \in {"room", "full", "jammed"}
  BY Zenon DEF Turns, Motor, MotorFills, MotorDrains, MotorJams, RunnerOpensMotor,
               RunnerCommands, RunnerStarts, LinkInv, RunnerInv
<1>3. RunnerInv'
  BY <1>1, <1>2, TurnsDo, LogAlone, Zenon DEF LinkInv, RunnerInv, Sensors
<1>. QED  BY <1>3, TurnsDo, StreamAlone, RelayAlone, TunnelsAlone, DecisionAlone DEF LinkInv

LEMMA NextKeeps == LinkInv /\ [Next]_vars => LinkInv'
<1>. SUFFICES ASSUME LinkInv, [Next]_vars PROVE LinkInv'
  OBVIOUS
<1>1. CASE Server
  <2>1. PICK d \in Dists, ir \in Infrared : ServerSends(d, ir[1], ir[2])
    BY <1>1 DEF Server
  <2>2. ir[1] \in {0, 1} /\ ir[2] \in {0, 1}
    BY SensorAssumption
  <2>. QED  BY <2>1, <2>2, ServerSendsKeeps
<1>2. CASE Relay
  <2>1. RelayExits => RelayEnds
    BY DEF RelayExits
  <2>. QED  BY <1>2, <2>1, RelayDialsKeeps, RelayOpensKeeps, RelayReceivesKeeps,
               RelaySleepsKeeps, RelayWritesKeeps, RelayEndsKeeps DEF Relay
<1>3. CASE ServerDies
  BY <1>3, ServerDiesKeeps
<1>4. CASE RelayDies
  BY <1>4, RelayEndsKeeps DEF RelayDies
<1>5. CASE Runs \/ RunnerStarts \/ Motor
  BY <1>5, RunnerOpensKeeps, RunnerReadsKeeps, RunnerDecidesKeeps, TurnsKeep DEF Runs, Turns
<1>6. CASE RunnerDies
  BY <1>6, RunnerDiesKeeps
<1>7. CASE UNCHANGED vars
  <2>1. /\ UNCHANGED serverVars /\ stream' = stream /\ UNCHANGED relayVars
        /\ UNCHANGED tunnelVars /\ UNCHANGED runnerVars
    BY <1>7, Zenon DEF vars
  <2>. QED  BY <2>1, StreamAlone, RelayAlone, TunnelsAlone, RunnerAlone DEF LinkInv
<1>. QED  BY <1>1, <1>2, <1>3, <1>4, <1>5, <1>6, <1>7 DEF Next

LEMMA LinkInvHolds == Spec => []LinkInv
BY InitKeeps, NextKeeps, PTL DEF Spec

-----------------------------------------------------------------------------
(* Every variable keeps its type: what the relay, the tunnels and the car  *)
(* program pass on is bytes of samples that the sensor server has sent,    *)
(* and no tunnel ever holds as much as its buffer.                         *)
THEOREM LinkTyped == Spec => []TypeOK
BY LinkInvHolds, InvTypes, PTL

(* The car program moves ahead only on a distance measured for the very    *)
(* sample it decides on, whatever dies, is dropped or fails to open, and   *)
(* however the two loops interleave.                                       *)
THEOREM AheadIsOnEcho == Spec => []AheadOnlyOnEcho
<1>1. LinkInv => AheadOnlyOnEcho
  BY DEF LinkInv
<1>. QED  BY <1>1, LinkInvHolds, PTL

LEMMA StrandedStays ==
    ASSUME LinkInv, [Next]_vars, Stranded
    PROVE  Stranded' \/ relay' = "dead"
<1>. DEFINE n == Node(relay)
<1>1. asleep /\ relay \in Sensors /\ ring[n] = <<>>
  BY Zenon DEF Stranded, LinkInv, RelayTypes
<1>2. n \in Sensors
  BY <1>1 DEF Node, Sensors
<1>3. relay \notin {"dial", "open sr04", "open left", "open right", "receive"}
  BY <1>1 DEF Sensors
<1>4. DOMAIN ring = Sensors
  BY DEF LinkInv, TunnelInv
<1>5. ASSUME UNCHANGED relayVars, ring'[n] = ring[n] \/ ring'[n] = <<>>
      PROVE  Stranded'
  BY <1>1, <1>5, Zenon DEF Stranded, relayVars, Node
<1>6. CASE Server \/ ServerDies \/ Turns \/ UNCHANGED vars
  <2>1. UNCHANGED relayVars /\ ring' = ring
    BY <1>6, TurnsDo, Zenon DEF Server, ServerSends, ServerDies, vars, tunnelVars
  <2>. QED  BY <1>5, <2>1
<1>7. CASE Relay \/ RelayDies
  <2>1. RelayEnds
    BY <1>1, <1>3, <1>7, Zenon DEF Relay, RelayDies, RelayDials, RelayOpensAll, RelayOpens,
          RelayReceives, RelaySleeps, RelayWrites, RelayExits
  <2>. QED  BY <2>1, Zenon DEF RelayEnds
<1>8. ASSUME NEW s \in Sensors, Reads(s), relay' = relay
      PROVE  Stranded'
  <2>1. CASE UNCHANGED <<ring, asleep>>
    BY <1>1, <1>8, <2>1, Zenon DEF Stranded, Node
  <2>2. CASE /\ ring[s] # <<>> /\ asleep' = (asleep /\ n # s)
             /\ ring' = [ring EXCEPT ![s] = SubSeq(@, Len(First(s)) + 1, Len(@))]
    <3>1. s # n
      BY <1>1, <2>2, Zenon
    <3>2. ring'[n] = <<>> /\ asleep'
      BY <1>1, <1>2, <1>4, <2>2, <3>1, Zenon
    <3>. QED  BY <1>8, <3>2, Zenon DEF Stranded, Node
  <2>. QED  BY <1>8, <2>1, <2>2, Zenon DEF Reads
<1>9. CASE RunnerReadsSr04 \/ RunnerReadsLeft \/ RunnerDecides
  <2>1. relay' = relay /\ \E s \in Sensors : Reads(s)
    BY <1>9, Zenon DEF RunnerReadsSr04, RunnerReadsLeft, RunnerDecides, Sensors
  <2>. QED  BY <1>8, <2>1
<1>10. CASE RunnerOpensAll
  <2>1. UNCHANGED relayVars /\ \E s \in Sensors : Opens("runner", s)
    BY <1>10, Zenon DEF RunnerOpensAll, RunnerOpens, Sensors
  <2>2. ring'[n] = ring[n] \/ ring'[n] = <<>>
    BY <1>2, <1>4, <2>1, Zenon DEF Opens
  <2>. QED  BY <1>5, <2>1, <2>2
<1>11. CASE RunnerDies
  <2>1. UNCHANGED relayVars /\ Exits("runner")
    BY <1>11, Zenon DEF RunnerDies
  <2>2. ring'[n] = ring[n] \/ ring'[n] = <<>>
    BY <1>2, <2>1, Zenon DEF Exits
  <2>. QED  BY <1>5, <2>1, <2>2
<1>. QED  BY <1>6, <1>7, <1>9, <1>10, <1>11, Zenon DEF Next, Runs, Turns

(* A relay asleep on a tunnel that an open has emptied stays asleep until  *)
(* it is killed: no step of the car program, a new start included, and no  *)
(* step of the sensor server wakes it.                                     *)
THEOREM StrandedIsForGood == Spec => StrandedForGood
<1>1. LinkInv /\ [Next]_vars => [Stranded => Stranded' \/ relay' = "dead"]_vars
  BY StrandedStays
<1>. QED  BY <1>1, LinkInvHolds, PTL DEF Spec, StrandedForGood

-----------------------------------------------------------------------------
(* The tunnels are used as their driver promises *)

(* The nodes a program has still to open. *)
RelayAhead ==
    IF relay \in {"dial", "open sr04", "dead"} THEN Sensors
    ELSE IF relay = "open left" THEN {"left", "right"}
    ELSE IF relay = "open right" THEN {"left"} ELSE {}

RunnerAhead ==
    IF runner \in {"dead", "open motor", "open left"} THEN Sensors
    ELSE IF runner = "open right" THEN {"right", "sr04"}
    ELSE IF runner = "open sr04" THEN {"sr04"} ELSE {}

(* A program opens no node twice, a node that nobody has open holds no     *)
(* byte, the relay writes a sample that was sent, and the tunnels hold     *)
(* bytes of nothing else.                                                  *)
OpensAhead == /\ \A s \in RelayAhead : "relay" \notin files[s]
              /\ \A s \in RunnerAhead : "runner" \notin files[s]
Unheld == \A s \in Sensors : files[s] = {} => ring[s] = <<>>
Carries == relay \in Sensors => line # 0
Sent == (Nat \ {0}) \X (1 .. WordLen)
HoldsSent == \A s \in Sensors : ring[s] \in Seq(Sent)

UseInv == OpensAhead /\ Unheld /\ Carries /\ HoldsSent

LEMMA NodeIsSensor ==
    ASSUME NEW s \in Sensors
    PROVE  Node(s) \in Sensors
BY DEF Node, Sensors

(* What an open, an exit, a write and a read do to the tunnels.            *)
LEMMA OpensDoes ==
    ASSUME LinkInv, NEW c, NEW s \in Sensors, Opens(c, s)
    PROVE  /\ \A u \in Sensors \ {s} : files'[u] = files[u] /\ ring'[u] = ring[u]
           /\ \/ files'[s] = files[s] /\ ring'[s] = ring[s]
              \/ files'[s] = files[s] \cup {c} /\ ring'[s] = <<>>
<1>1. DOMAIN files = Sensors /\ DOMAIN ring = Sensors
  BY DEF LinkInv, TunnelInv
<1>2. \/ ring' = ring /\ files' = files
      \/ /\ files' = [files EXCEPT ![s] = @ \cup {c}]
         /\ ring' = [ring EXCEPT ![s] = <<>>]
  BY Zenon DEF Opens
<1>. QED  BY <1>1, <1>2, Zenon

LEMMA OpensUse ==
    ASSUME LinkInv, UseInv, NEW c, NEW s \in Sensors, Opens(c, s)
    PROVE  Unheld' /\ HoldsSent'
<1>1. \A u \in Sensors : \/ files'[u] = files[u] /\ ring'[u] = ring[u]
                         \/ files'[u] # {} /\ ring'[u] = <<>>
  <2>1. files[s] \cup {c} # {}
    OBVIOUS
  <2>. QED  BY <2>1, OpensDoes, Zenon
<1>2. <<>> \in Seq(Sent)
  BY EmptySeq
<1>. QED  BY <1>1, <1>2, Zenon DEF UseInv, Unheld, HoldsSent

LEMMA ExitsUse ==
    ASSUME LinkInv, UseInv, NEW c, Exits(c)
    PROVE  /\ Unheld' /\ HoldsSent'
           /\ \A s \in Sensors : files'[s] = files[s] \ {c}
           /\ \A s \in Sensors : ring'[s] = IF files'[s] = {} THEN <<>> ELSE ring[s]
<1>1. /\ \A s \in Sensors : files'[s] = files[s] \ {c}
      /\ \A s \in Sensors : ring'[s] = IF files'[s] = {} THEN <<>> ELSE ring[s]
  BY Zenon DEF Exits
<1>2. <<>> \in Seq(Sent)
  BY EmptySeq
<1>. QED  BY <1>1, <1>2, Zenon DEF UseInv, Unheld, HoldsSent

(* The part of a value that a write appends. *)
LEMMA FittingIs ==
    ASSUME LinkInv, UseInv, relay \in Sensors, NEW s \in Sensors, Room(s) > 0
    PROVE  \E n \in 1 .. WordLen :
              /\ Fitting(s) = SubSeq(Word(line), 1, n) /\ Len(Fitting(s)) = n
              /\ n <= Room(s) /\ Fitting(s) \in Seq(Sent)
              /\ \A i \in 1 .. n : Fitting(s)[i] = <<line, i>>
<1>. DEFINE n == Least(Room(s), Least(WordLen, RingBytes - wp[s]))
            w == Word(line)
<1>1. wp[s] \in 0 .. RingBytes - 1 /\ Len(ring[s]) \in Nat /\ Len(ring[s]) < RingBytes
  BY DEF LinkInv, TunnelInv
<1>2. n \in 1 .. WordLen /\ n <= Room(s)
  <2>1. Room(s) \in Nat /\ RingBytes - wp[s] \in Nat /\ RingBytes - wp[s] > 0
    BY <1>1, LengthsAssumed DEF Room
  <2>. QED  BY <2>1, LengthsAssumed DEF Least
<1>3. Fitting(s) = SubSeq(w, 1, n)
  BY DEF Fitting
<1>. HIDE DEF n
<1>4. line \in Nat \ {0}
  <2>1. line \in 0 .. Len(log) /\ line # 0
    BY Zenon DEF LinkInv, RelayTypes, UseInv, Carries
  <2>2. Len(log) \in Nat
    BY DEF LinkInv, ServerInv, ServerTypes
  <2>. QED  BY <2>1, <2>2
<1>5. w \in Seq(Sent) /\ Len(w) = WordLen /\ \A i \in 1 .. WordLen : w[i] = <<line, i>>
  <2>1. w = [i \in 1 .. WordLen |-> <<line, i>>]
    BY DEF Word
  <2>2. \A i \in 1 .. WordLen : <<line, i>> \in Sent
    BY <1>4 DEF Sent
  <2>. HIDE DEF w
  <2>. QED  BY <2>1, <2>2, LengthsAssumed
<1>. HIDE DEF w
<1>6. /\ SubSeq(w, 1, n) \in Seq(Sent) /\ Len(SubSeq(w, 1, n)) = n
      /\ \A i \in 1 .. n : SubSeq(w, 1, n)[i] = w[i]
  BY <1>2, <1>5, LengthsAssumed
<1>7. \A i \in 1 .. n : SubSeq(w, 1, n)[i] = <<line, i>>
  <2>1. \A i \in 1 .. n : i \in 1 .. WordLen
    BY <1>2, LengthsAssumed
  <2>. QED  BY <1>5, <1>6, <2>1
<1>. QED  BY <1>2, <1>3, <1>6, <1>7 DEF w

LEMMA WritesDoes ==
    ASSUME LinkInv, UseInv, RelayWrites
    PROVE  /\ relay \in Sensors /\ files' = files /\ got' = got
           /\ \A u \in Sensors \ {Node(relay)} : ring'[u] = ring[u]
           /\ \/ ring' = ring
              \/ /\ Room(Node(relay)) > 0 /\ files[Node(relay)] # {}
                 /\ ring'[Node(relay)] = ring[Node(relay)] \o Fitting(Node(relay))
<1>1. DOMAIN ring = Sensors
  BY DEF LinkInv, TunnelInv
<1>2. relay \in Sensors /\ files' = files /\ got' = got
      /\ \/ ring' = ring
         \/ /\ Room(Node(relay)) > 0 /\ "relay" \in files[Node(relay)]
            /\ ring' = [ring EXCEPT ![Node(relay)] = @ \o Fitting(Node(relay))]
  BY Zenon DEF RelayWrites
<1>3. Node(relay) \in Sensors
  BY <1>2, NodeIsSensor
<1>. QED  BY <1>1, <1>2, <1>3, Zenon

(* The part of the ring that a read takes. *)
LEMMA FirstIs ==
    ASSUME LinkInv, NEW s \in Sensors, ring[s] # <<>>
    PROVE  /\ Len(First(s)) \in 1 .. Len(ring[s]) /\ Len(First(s)) <= WordLen
           /\ First(s) = SubSeq(ring[s], 1, Len(First(s)))
           /\ First(s)[1] = ring[s][1]
<1>. DEFINE n == Least(Len(ring[s]), Least(WordLen, RingBytes - rp(s)))
            q == ring[s]
<1>1. /\ q \in Seq(Ids) /\ Len(q) \in Nat /\ Len(q) > 0
      /\ wp[s] \in 0 .. RingBytes - 1
  BY DEF LinkInv, TunnelInv
<1>2. rp(s) \in 0 .. RingBytes - 1
  <2>1. wp[s] - Len(q) \in Int
    BY <1>1, LengthsAssumed
  <2>. QED  BY <2>1, Wraps DEF rp
<1>3. n \in 1 .. Len(q) /\ n <= WordLen
  <2>1. RingBytes - rp(s) \in Nat /\ RingBytes - rp(s) > 0
    BY <1>2, LengthsAssumed
  <2>. QED  BY <1>1, <2>1, LengthsAssumed DEF Least
<1>4. First(s) = SubSeq(q, 1, n)
  BY DEF First
<1>. HIDE DEF n, q
<1>5. Len(First(s)) = n /\ First(s)[1] = q[1]
  BY <1>1, <1>3, <1>4
<1>. QED  BY <1>3, <1>4, <1>5 DEF q

LEMMA ReadsDoes ==
    ASSUME LinkInv, NEW s \in Sensors, Reads(s)
    PROVE  \/ UNCHANGED <<ring, got, seen>> /\ "runner" \notin files[s]
           \/ /\ "runner" \in files[s] /\ ring[s] # <<>>
              /\ \A u \in Sensors \ {s} : ring'[u] = ring[u] /\ got'[u] = got[u] /\ seen'[u] = seen[u]
              /\ got'[s] = First(s)
              /\ seen'[s] = First(s) \o SubSeq(seen[s], Len(First(s)) + 1, WordLen)
              /\ ring'[s] = SubSeq(ring[s], Len(First(s)) + 1, Len(ring[s]))
<1>1. DOMAIN ring = Sensors /\ DOMAIN got = Sensors /\ DOMAIN seen = Sensors
  BY DEF LinkInv, TunnelInv, RunnerInv
<1>. QED  BY <1>1, Zenon DEF Reads

LEMMA ReadsUse ==
    ASSUME LinkInv, UseInv, NEW s \in Sensors, Reads(s), files' = files
    PROVE  Unheld' /\ HoldsSent'
<1>1. CASE UNCHANGED <<ring, got, seen>>
  BY <1>1, Zenon DEF UseInv, Unheld, HoldsSent
<1>2. CASE ~UNCHANGED <<ring, got, seen>>
  <2>1. /\ "runner" \in files[s] /\ ring[s] # <<>>
        /\ \A u \in Sensors \ {s} : ring'[u] = ring[u]
        /\ ring'[s] = SubSeq(ring[s], Len(First(s)) + 1, Len(ring[s]))
    BY <1>2, ReadsDoes, Zenon
  <2>2. ring[s] \in Seq(Sent) /\ Len(First(s)) \in 1 .. Len(ring[s])
    BY <2>1, FirstIs, Zenon DEF UseInv, HoldsSent
  <2>3. ring'[s] \in Seq(Sent)
    BY <2>1, <2>2, SubSeqProperties, LenProperties
  <2>4. HoldsSent'
    BY <2>1, <2>3, Zenon DEF UseInv, HoldsSent
  <2>5. Unheld'
    BY <2>1, Zenon DEF UseInv, Unheld
  <2>. QED  BY <2>4, <2>5
<1>. QED  BY <1>1, <1>2

LEMMA WritesUse ==
    ASSUME LinkInv, UseInv, RelayWrites
    PROVE  Unheld' /\ HoldsSent'
<1>1. CASE ring' = ring
  BY <1>1, WritesDoes, Zenon DEF UseInv, Unheld, HoldsSent
<1>2. CASE ring' # ring
  <2>1. PICK s \in Sensors : s = Node(relay)
    BY WritesDoes, NodeIsSensor
  <2>2. /\ relay \in Sensors /\ files' = files /\ Room(s) > 0 /\ files[s] # {}
        /\ \A u \in Sensors \ {s} : ring'[u] = ring[u]
        /\ ring'[s] = ring[s] \o Fitting(s)
    BY <1>2, <2>1, WritesDoes, Zenon
  <2>3. ring[s] \in Seq(Sent) /\ Fitting(s) \in Seq(Sent)
    <3>1. PICK n \in 1 .. WordLen : Fitting(s) \in Seq(Sent)
      BY <2>2, FittingIs
    <3>. QED  BY <3>1 DEF UseInv, HoldsSent
  <2>4. ring'[s] \in Seq(Sent)
    BY <2>2, <2>3, ConcatProperties
  <2>5. HoldsSent'
    BY <2>2, <2>4, Zenon DEF UseInv, HoldsSent
  <2>6. Unheld'
    BY <2>2, Zenon DEF UseInv, Unheld
  <2>. QED  BY <2>5, <2>6
<1>. QED  BY <1>1, <1>2

LEMMA InitUse == Init => UseInv
<1>. SUFFICES ASSUME Init PROVE UseInv
  OBVIOUS
<1>1. /\ relay = "dial" /\ runner = "open motor" /\ ring = [s \in Sensors |-> <<>>]
      /\ files = [s \in Sensors |-> {}]
  BY Zenon DEF Init
<1>2. \A s \in Sensors : ring[s] = <<>> /\ files[s] = {}
  BY <1>1, Zenon
<1>3. OpensAhead
  BY <1>1, <1>2 DEF OpensAhead, RelayAhead, RunnerAhead
<1>4. HoldsSent
  <2>1. <<>> \in Seq(Sent)
    BY EmptySeq
  <2>. QED  BY <1>2, <2>1 DEF HoldsSent
<1>5. Carries /\ Unheld
  BY <1>1, <1>2 DEF Carries, Unheld, Sensors
<1>. QED  BY <1>3, <1>4, <1>5 DEF UseInv

(* Where the two programs stand decides what they have still to open.      *)
LEMMA AheadAlone ==
    ASSUME OpensAhead, \A s \in Sensors : files'[s] \subseteq files[s],
           relay' = relay \/ (relay # "dead" /\ relay' \notin {"dial", "open left", "open right"}
                                 /\ (relay' \in {"open sr04", "dead"} => RelayAhead = Sensors)),
           runner' = runner \/ runner' \in Sensors \cup {"command"}
              \/ (runner \in {"dead", "open motor"} /\ RunnerAhead = Sensors)
    PROVE  OpensAhead'
<1>1. RelayAhead' \subseteq RelayAhead
  BY DEF RelayAhead, Sensors
<1>2. RunnerAhead' \subseteq RunnerAhead
  BY DEF RunnerAhead, Sensors
<1>3. RelayAhead \subseteq Sensors /\ RunnerAhead \subseteq Sensors
  BY DEF RelayAhead, RunnerAhead, Sensors
<1>. QED  BY <1>1, <1>2, <1>3 DEF OpensAhead

LEMMA UseKeeps ==
    ASSUME LinkInv, UseInv, [Next]_vars
    PROVE  UseInv'
<1>. USE DEF UseInv
<1>1. ASSUME UNCHANGED <<ring, files>> PROVE Unheld' /\ HoldsSent'
  BY <1>1, Zenon DEF Unheld, HoldsSent
<1>10. CASE Turns
  <2>1. /\ UNCHANGED <<ring, files>> /\ relay' = relay /\ line' = line
        /\ \/ runner' = runner \/ runner' = "sr04"
           \/ runner \in {"dead", "open motor"}
    BY <1>10, TurnsDo, Zenon DEF tunnelVars, relayVars
  <2>2. OpensAhead'
    <3>1. runner \in {"dead", "open motor"} => RunnerAhead = Sensors
      BY DEF RunnerAhead
    <3>2. "sr04" \in Sensors
      BY DEF Sensors
    <3>. QED  BY <2>1, <3>1, <3>2, AheadAlone
  <2>3. Carries'
    BY <2>1 DEF Carries
  <2>. QED  BY <1>1, <2>1, <2>2, <2>3
<1>2. CASE Server \/ ServerDies \/ UNCHANGED vars \/ RelaySleeps \/ RelayDials
  <2>1. /\ UNCHANGED <<ring, files>> /\ runner' = runner /\ line' = line
        /\ relay' = relay \/ (relay = "dial" /\ relay' = "open sr04")
    BY <1>2, Zenon DEF Server, ServerSends, ServerDies, RelaySleeps, RelayDials,
                       vars, tunnelVars, relayVars, runnerVars
  <2>2. OpensAhead'
    <3>1. relay = "dial" => RelayAhead = Sensors
      BY DEF RelayAhead
    <3>. QED  BY <2>1, <3>1, AheadAlone
  <2>3. Carries'
    BY <2>1 DEF Carries, Sensors
  <2>. QED  BY <1>1, <2>1, <2>2, <2>3
<1>3. CASE RelayOpensAll
  <2>1. PICK s \in Sensors :
          /\ Opens("relay", Node(s)) /\ runner' = runner
          /\ \/ s = "sr04" /\ relay = "open sr04" /\ relay' = "open left"
             \/ s = "left" /\ relay = "open left" /\ relay' = "open right"
             \/ s = "right" /\ relay = "open right" /\ relay' = "receive"
    BY <1>3, Zenon DEF RelayOpensAll, RelayOpens, Sensors, runnerVars
  <2>2. Node(s) \in Sensors
    BY NodeIsSensor
  <2>3. Unheld' /\ HoldsSent'
    BY <2>1, <2>2, OpensUse
  <2>4. /\ \A u \in Sensors \ {Node(s)} : files'[u] = files[u]
        /\ files'[Node(s)] = files[Node(s)] \/ files'[Node(s)] = files[Node(s)] \cup {"relay"}
    BY <2>1, <2>2, OpensDoes
  <2>5. RelayAhead' \subseteq RelayAhead \ {Node(s)} /\ RunnerAhead' = RunnerAhead
    BY <2>1 DEF RelayAhead, RunnerAhead, Node, Sensors
  <2>6. RelayAhead \subseteq Sensors /\ RunnerAhead \subseteq Sensors
    BY DEF RelayAhead, RunnerAhead, Sensors
  <2>7. OpensAhead'
    BY <2>4, <2>5, <2>6 DEF OpensAhead
  <2>8. Carries'
    BY <2>1 DEF Carries, Sensors
  <2>. QED  BY <2>3, <2>7, <2>8
<1>4. ASSUME NEW n \in 1 .. SocketUnits, RelayReceives(n) PROVE UseInv'
  <2>1. /\ UNCHANGED <<ring, files>> /\ runner' = runner /\ relay = "receive"
        /\ n \in DOMAIN stream
        /\ \/ relay' = "sr04" /\ line' = stream[1][1]
           \/ relay' = relay /\ line' = line
    BY <1>4, Zenon DEF RelayReceives, tunnelVars, runnerVars
  <2>2. stream[1][1] # 0
    <3>1. stream \in Seq(Units) /\ 1 \in 1 .. Len(stream)
      <4>1. stream \in Seq(Units) /\ n \in 1 .. Len(stream)
        BY <2>1 DEF LinkInv, ServerInv
      <4>. QED  BY <4>1, LengthsAssumed
    <3>2. stream[1] \in Units
      BY <3>1, ElementOfSeq
    <3>. QED  BY <3>2 DEF Units
  <2>3. OpensAhead'
    BY <2>1, AheadAlone
  <2>4. Carries'
    BY <2>1, <2>2 DEF Carries, Sensors
  <2>. QED  BY <1>1, <2>1, <2>3, <2>4
<1>5. CASE RelayWrites
  <2>1. /\ runner' = runner /\ relay' = After(relay) /\ files' = files /\ relay \in Sensors
        /\ line' = IF relay' = "receive" THEN 0 ELSE line
    BY <1>5, Zenon DEF RelayWrites, runnerVars
  <2>2. relay' \in {"left", "right", "receive"}
    BY <2>1 DEF After, Sensors
  <2>3. OpensAhead'
    BY <2>1, <2>2, AheadAlone DEF Sensors
  <2>4. Carries'
    BY <2>1, <2>2 DEF Carries, Sensors
  <2>. QED  BY <1>5, <2>3, <2>4, WritesUse
<1>6. CASE RelayExits \/ RelayDies
  <2>1. Exits("relay") /\ relay' = "dead" /\ runner' = runner
    BY <1>6, Zenon DEF RelayExits, RelayDies, RelayEnds, runnerVars
  <2>2. Unheld' /\ HoldsSent' /\ \A s \in Sensors : files'[s] = files[s] \ {"relay"}
    BY <2>1, ExitsUse
  <2>3. RunnerAhead' = RunnerAhead /\ RunnerAhead \subseteq Sensors /\ RelayAhead' \subseteq Sensors
    BY <2>1 DEF RunnerAhead, RelayAhead, Sensors
  <2>4. OpensAhead'
    BY <2>2, <2>3 DEF OpensAhead
  <2>5. Carries'
    BY <2>1 DEF Carries, Sensors
  <2>. QED  BY <2>2, <2>4, <2>5
<1>7. CASE RunnerReadsSr04 \/ RunnerReadsLeft \/ RunnerDecides
  <2>1. PICK s \in Sensors : Reads(s) /\ files' = files /\ relay' = relay /\ line' = line
                             /\ runner' \in Sensors \cup {"command"}
    BY <1>7, Zenon DEF RunnerReadsSr04, RunnerReadsLeft, RunnerDecides, Sensors
  <2>2. OpensAhead'
    BY <2>1, AheadAlone
  <2>3. Carries'
    BY <2>1 DEF Carries
  <2>. QED  BY <2>1, <2>2, <2>3, ReadsUse
<1>8. CASE RunnerOpensAll
  <2>1. PICK s \in Sensors :
          /\ Opens("runner", s) /\ relay' = relay /\ line' = line
          /\ \/ s = "left" /\ runner = "open left" /\ runner' = "open right"
             \/ s = "right" /\ runner = "open right" /\ runner' = "open sr04"
             \/ s = "sr04" /\ runner = "open sr04" /\ runner' = "sr04"
    BY <1>8, Zenon DEF RunnerOpensAll, RunnerOpens, Sensors, relayVars
  <2>2. Unheld' /\ HoldsSent'
    BY <2>1, OpensUse
  <2>3. /\ \A u \in Sensors \ {s} : files'[u] = files[u]
        /\ files'[s] = files[s] \/ files'[s] = files[s] \cup {"runner"}
    BY <2>1, OpensDoes
  <2>4. RunnerAhead' \subseteq RunnerAhead \ {s} /\ RelayAhead' = RelayAhead
    BY <2>1 DEF RelayAhead, RunnerAhead, Sensors
  <2>5. RelayAhead \subseteq Sensors /\ RunnerAhead \subseteq Sensors
    BY DEF RelayAhead, RunnerAhead, Sensors
  <2>6. OpensAhead'
    BY <2>3, <2>4, <2>5 DEF OpensAhead
  <2>7. Carries'
    BY <2>1 DEF Carries
  <2>. QED  BY <2>2, <2>6, <2>7
<1>9. CASE RunnerDies
  <2>1. Exits("runner") /\ relay' = relay /\ line' = line /\ runner' = "dead"
    BY <1>9, Zenon DEF RunnerDies, relayVars
  <2>2. Unheld' /\ HoldsSent' /\ \A s \in Sensors : files'[s] = files[s] \ {"runner"}
    BY <2>1, ExitsUse
  <2>3. RelayAhead' = RelayAhead /\ RelayAhead \subseteq Sensors /\ RunnerAhead' \subseteq Sensors
    BY <2>1 DEF RunnerAhead, RelayAhead, Sensors
  <2>4. OpensAhead'
    BY <2>2, <2>3 DEF OpensAhead
  <2>5. Carries'
    BY <2>1 DEF Carries
  <2>. QED  BY <2>2, <2>4, <2>5
<1>. QED  BY <1>2, <1>3, <1>4, <1>5, <1>6, <1>7, <1>8, <1>9, <1>10, Zenon
             DEF Next, Relay, Runs, Turns

(* Every step is, at each tunnel, one of the promised queue or none.       *)
LEMMA UseSteps ==
    ASSUME LinkInv, UseInv, [Next]_vars, NEW s \in Sensors
    PROVE  Tunnel(s)!Next \/ UNCHANGED Tunnel(s)!vars
<1>1. ASSUME ring'[s] = ring[s], got'[s] = got[s], files'[s] = files[s]
      PROVE  UNCHANGED Tunnel(s)!vars
  BY <1>1 DEF Tunnel!vars
<1>2. ASSUME NEW c \in {"relay", "runner"}, c \notin files[s], got' = got,
             files'[s] = files[s] \cup {c}, ring'[s] = <<>>
      PROVE  Tunnel(s)!Next
  <2>1. Tunnel(s)!Open(c)
    BY <1>2 DEF Tunnel!Open
  <2>. QED  BY <2>1 DEF Tunnel!Next
<1>3. ASSUME NEW c \in {"relay", "runner"}, Exits(c), got' = got
      PROVE  Tunnel(s)!Next \/ UNCHANGED Tunnel(s)!vars
  <2>1. files'[s] = files[s] \ {c} /\ ring'[s] = IF files'[s] = {} THEN <<>> ELSE ring[s]
    BY <1>3, ExitsUse
  <2>2. CASE c \in files[s]
    <3>1. Tunnel(s)!Close(c)
      BY <1>3, <2>1, <2>2 DEF Tunnel!Close
    <3>. QED  BY <3>1 DEF Tunnel!Next
  <2>3. CASE c \notin files[s]
    <3>1. files'[s] = files[s]
      BY <2>1, <2>3
    <3>2. ring'[s] = ring[s]
      BY <2>1, <3>1 DEF UseInv, Unheld
    <3>. QED  BY <1>1, <1>3, <3>1, <3>2
  <2>. QED  BY <2>2, <2>3
<1>4. CASE \/ Server \/ ServerDies \/ UNCHANGED vars \/ RelaySleeps \/ RelayDials
           \/ Turns \/ \E n \in 1 .. SocketUnits : RelayReceives(n)
  <2>1. ring' = ring /\ got' = got /\ files' = files
    BY <1>4, TurnsDo, Zenon DEF Server, ServerSends, ServerDies, RelaySleeps, RelayDials,
                       RelayReceives, vars, tunnelVars
  <2>. QED  BY <1>1, <2>1
<1>5. CASE RelayOpensAll \/ RunnerOpensAll
  <2>1. PICK c \in {"relay", "runner"}, u \in Sensors :
          Opens(c, u) /\ got' = got /\ c \notin files[u]
    <3>1. CASE RelayOpensAll
      <4>1. PICK v \in Sensors :
              /\ Opens("relay", Node(v)) /\ got' = got
              /\ \/ v = "sr04" /\ relay = "open sr04"
                 \/ v = "left" /\ relay = "open left"
                 \/ v = "right" /\ relay = "open right"
        BY <3>1, Zenon DEF RelayOpensAll, RelayOpens, Sensors
      <4>2. Node(v) \in RelayAhead
        BY <4>1, NodeIsSensor DEF RelayAhead, Node, Sensors
      <4>3. Node(v) \in Sensors /\ "relay" \notin files[Node(v)]
        BY <4>2, NodeIsSensor DEF UseInv, OpensAhead
      <4>. QED  BY <4>1, <4>3
    <3>2. CASE RunnerOpensAll
      <4>1. PICK v \in Sensors :
              /\ Opens("runner", v) /\ got' = got
              /\ \/ v = "left" /\ runner = "open left"
                 \/ v = "right" /\ runner = "open right"
                 \/ v = "sr04" /\ runner = "open sr04"
        BY <3>2, Zenon DEF RunnerOpensAll, RunnerOpens, Sensors
      <4>2. v \in RunnerAhead
        BY <4>1 DEF RunnerAhead, Sensors
      <4>3. "runner" \notin files[v]
        BY <4>2 DEF UseInv, OpensAhead
      <4>. QED  BY <4>1, <4>3
    <3>. QED  BY <1>5, <3>1, <3>2
  <2>2. CASE s # u
    <3>1. ring'[s] = ring[s] /\ files'[s] = files[s]
      BY <2>1, <2>2, OpensDoes
    <3>. QED  BY <1>1, <2>1, <3>1
  <2>3. CASE s = u
    <3>1. \/ files'[s] = files[s] /\ ring'[s] = ring[s]
          \/ files'[s] = files[s] \cup {c} /\ ring'[s] = <<>>
      BY <2>1, <2>3, OpensDoes
    <3>. QED  BY <1>1, <1>2, <2>1, <2>3, <3>1
  <2>. QED  BY <2>2, <2>3
<1>6. CASE RelayWrites
  <2>1. CASE ring'[s] = ring[s]
    BY <1>1, <1>6, <2>1, WritesDoes
  <2>2. CASE ring'[s] # ring[s]
    <3>1. /\ relay \in Sensors /\ s = Node(relay) /\ files' = files /\ got' = got
          /\ Room(s) > 0 /\ files[s] # {} /\ ring'[s] = ring[s] \o Fitting(s)
      BY <1>6, <2>2, WritesDoes, Zenon
    <3>2. PICK n \in 1 .. WordLen :
            /\ Fitting(s) = SubSeq(Word(line), 1, n) /\ Len(Fitting(s)) = n
            /\ n <= Room(s)
      BY <3>1, FittingIs
    <3>3. line \in 1 .. MaxSamples
      <4>1. line \in 0 .. Len(log) /\ line # 0
        BY <3>1, Zenon DEF LinkInv, RelayTypes, UseInv, Carries
      <4>2. Len(log) \in Nat /\ Len(log) <= MaxSamples
        BY DEF LinkInv, ServerInv, ServerTypes
      <4>. QED  BY <4>1, <4>2, SensorAssumption
    <3>4. Len(ring[s]) + Len(Fitting(s)) < RingBytes
      <4>1. Len(ring[s]) \in Nat
        BY DEF LinkInv, TunnelInv
      <4>. QED  BY <3>2, <4>1, LengthsAssumed DEF Room
    <3>5. Tunnel(s)!Accept(Fitting(s))
      BY <3>1, <3>4 DEF Tunnel!Accept
    <3>6. Fitting(s) \in {SubSeq(Word(k), 1, i) : k \in 1 .. MaxSamples, i \in 1 .. WordLen}
      BY <3>2, <3>3
    <3>. QED  BY <3>5, <3>6 DEF Tunnel!Next
  <2>. QED  BY <2>1, <2>2
<1>7. CASE RelayExits \/ RelayDies
  <2>1. Exits("relay") /\ got' = got
    BY <1>7, Zenon DEF RelayExits, RelayDies, RelayEnds
  <2>. QED  BY <1>3, <2>1
<1>8. CASE RunnerReadsSr04 \/ RunnerReadsLeft \/ RunnerDecides
  <2>1. PICK u \in Sensors : Reads(u) /\ files' = files
    BY <1>8, Zenon DEF RunnerReadsSr04, RunnerReadsLeft, RunnerDecides, Sensors
  <2>2. CASE ring'[s] = ring[s] /\ got'[s] = got[s]
    BY <1>1, <2>1, <2>2
  <2>3. CASE ~(ring'[s] = ring[s] /\ got'[s] = got[s])
    <3>1. /\ s = u /\ "runner" \in files[s] /\ ring[s] # <<>> /\ got'[s] = First(s)
          /\ ring'[s] = SubSeq(ring[s], Len(First(s)) + 1, Len(ring[s]))
      BY <2>1, <2>3, ReadsDoes, Zenon
    <3>2. PICK n \in 1 .. Len(ring[s]) : n = Len(First(s)) /\ First(s) = SubSeq(ring[s], 1, n)
      BY <3>1, FirstIs
    <3>3. Tunnel(s)!Take(n)
      BY <2>1, <3>1, <3>2 DEF Tunnel!Take
    <3>. QED  BY <3>3 DEF Tunnel!Next
  <2>. QED  BY <2>2, <2>3
<1>9. CASE RunnerDies
  <2>1. Exits("runner") /\ got' = got
    BY <1>9, Zenon DEF RunnerDies
  <2>. QED  BY <1>3, <2>1
<1>. QED  BY <1>4, <1>5, <1>6, <1>7, <1>8, <1>9, Zenon DEF Next, Relay, Runs, Turns

(* Each of the three tunnels is used as sensor_tun.c promises it, for any  *)
(* samples, buffers and failing opens: the relay writes beginnings of the  *)
(* values sent and only into the room there is, the car program takes what *)
(* is there, and nobody opens a node twice.                                *)
THEOREM UsesPromise == Spec => UsesTunnels
<1>1. Init => \A s \in Sensors : Tunnel(s)!Init
  BY DEF Init, Tunnel!Init
<1>2. LinkInv /\ UseInv /\ [Next]_vars =>
          [\A s \in Sensors : Tunnel(s)!Next \/ UNCHANGED Tunnel(s)!vars]_vars
  BY UseSteps
<1>3. LinkInv /\ UseInv /\ [Next]_vars => UseInv'
  BY UseKeeps
<1>. QED  BY <1>1, <1>2, <1>3, InitUse, LinkInvHolds, PTL DEF Spec, UsesTunnels

-----------------------------------------------------------------------------
(* The order of the distances *)

(* What is left behind the first n elements, and a sequence with another   *)
(* behind it, element by element.                                          *)
LEMMA RestIs ==
    ASSUME NEW S, NEW q \in Seq(S), NEW n \in 0 .. Len(q)
    PROVE  /\ SubSeq(q, n + 1, Len(q)) \in Seq(S)
           /\ Len(SubSeq(q, n + 1, Len(q))) = Len(q) - n
           /\ \A i \in 1 .. Len(q) - n : /\ n + i \in 1 .. Len(q)
                                         /\ SubSeq(q, n + 1, Len(q))[i] = q[n + i]
<1>1. PICK m \in Nat : m = Len(q)
  BY LenProperties
<1>2. PICK a \in Int : a = n + 1 /\ \A i \in a .. m : q[i] \in S
  <2>1. \A i \in 1 .. m : q[i] \in S
    BY <1>1, ElementOfSeq
  <2>. QED  BY <1>1, <2>1
<1>3. /\ SubSeq(q, a, m) \in Seq(S)
      /\ Len(SubSeq(q, a, m)) = IF a <= m THEN m - a + 1 ELSE 0
      /\ \A i \in 1 .. m - a + 1 : SubSeq(q, a, m)[i] = q[a + i - 1]
  BY <1>1, <1>2, SubSeqProperties
<1>4. (IF a <= m THEN m - a + 1 ELSE 0) = m - n /\ m - a + 1 = m - n
  BY <1>1, <1>2
<1>5. \A i \in 1 .. m - n : a + i - 1 = n + i /\ n + i \in 1 .. m
  BY <1>1, <1>2
<1>6. SubSeq(q, n + 1, Len(q)) = SubSeq(q, a, m)
  BY <1>1, <1>2
<1>. QED  BY <1>1, <1>3, <1>4, <1>5, <1>6

LEMMA JoinIs ==
    ASSUME NEW S, NEW q \in Seq(S), NEW u \in Seq(S)
    PROVE  /\ q \o u \in Seq(S) /\ Len(q \o u) = Len(q) + Len(u)
           /\ \A i \in 1 .. Len(q) : (q \o u)[i] = q[i]
           /\ \A i \in 1 .. Len(u) : (q \o u)[Len(q) + i] = u[i]
<1>1. Len(q) \in Nat /\ Len(u) \in Nat
  BY LenProperties
<1>2. /\ q \o u \in Seq(S) /\ Len(q \o u) = Len(q) + Len(u)
      /\ \A i \in 1 .. Len(q) + Len(u) : (q \o u)[i] = IF i <= Len(q) THEN q[i] ELSE u[i - Len(q)]
  BY <1>1, ConcatProperties
<1>3. \A i \in 1 .. Len(u) : /\ Len(q) + i \in 1 .. Len(q) + Len(u) /\ ~(Len(q) + i <= Len(q))
                             /\ (Len(q) + i) - Len(q) = i
  BY <1>1
<1>4. \A i \in 1 .. Len(q) : i \in 1 .. Len(q) + Len(u) /\ i <= Len(q)
  BY <1>1
<1>. QED  BY <1>2, <1>3, <1>4

LEMMA TwoAppended ==
    ASSUME NEW S, NEW q \in Seq(S), NEW a \in S, NEW b \in S
    PROVE  /\ Len(q \o <<a, b>>) = Len(q) + 2
           /\ \A i \in 1 .. Len(q) : (q \o <<a, b>>)[i] = q[i]
           /\ (q \o <<a, b>>)[Len(q) + 1] = a /\ (q \o <<a, b>>)[Len(q) + 2] = b
<1>1. PICK u \in Seq(S) : u = <<a, b>> /\ Len(u) = 2 /\ u[1] = a /\ u[2] = b
  <2>1. <<a, b>> \in Seq(S) /\ Len(<<a, b>>) = 2 /\ <<a, b>>[1] = a /\ <<a, b>>[2] = b
    OBVIOUS
  <2>. QED  BY <2>1, Zenon
<1>2. /\ Len(q \o u) = Len(q) + Len(u)
      /\ \A i \in 1 .. Len(q) : (q \o u)[i] = q[i]
      /\ \A i \in 1 .. Len(u) : (q \o u)[Len(q) + i] = u[i]
  BY JoinIs
<1>3. 1 \in 1 .. Len(u) /\ 2 \in 1 .. Len(u)
  BY <1>1
<1>. QED  BY <1>1, <1>2, <1>3

(* One byte was written earlier than another. *)
Before(a, b) == a[1] < b[1] \/ (a[1] = b[1] /\ a[2] < b[2])

Held == ring["sr04"]
Heads == {i \in 1 .. Len(stream) : stream[i][2] = "head"}

(* Nothing of sample k or of a later one has got into the tunnel of the    *)
(* distances or beyond.                                                    *)
Past(k) == /\ \A i \in 1 .. Len(Held) : Held[i][1] < k
           /\ basis["sr04"][1][1] < k /\ seen["sr04"][1][1] < k

(* The beginnings of lines are in order on the connection and later than   *)
(* what the relay holds, which is later than what is in the tunnel, where  *)
(* the bytes are in order and later than what the car program has read.    *)
LinesInOrder ==
    /\ \A i, j \in Heads : i < j => stream[i][1] < stream[j][1]
    /\ \A i \in Heads : line < stream[i][1] /\ Past(stream[i][1])
RelayInOrder == relay = "sr04" => Past(line)
RingInOrder == \A i, j \in 1 .. Len(Held) : i < j => Before(Held[i], Held[j])
ReadInOrder ==
    /\ \A i \in 1 .. Len(Held) : Before(basis["sr04"][1], Held[i]) /\ Before(seen["sr04"][1], Held[i])
    /\ runner \in {"left", "right"} /\ "runner" \in files["sr04"]
           => Before(basis["sr04"][1], seen["sr04"][1])

OrderInv == LinesInOrder /\ RelayInOrder /\ RingInOrder /\ ReadInOrder

(* Parts of the invariant that the order rests on. *)
LEMMA OrderTypes ==
    ASSUME LinkInv, UseInv
    PROVE  /\ Len(log) \in Nat /\ line \in 0 .. Len(log)
           /\ stream \in Seq(Units) /\ Len(stream) \in Nat
           /\ \A i \in 1 .. Len(stream) : stream[i][1] \in 1 .. Len(log)
           /\ Held \in Seq(Sent) /\ Len(Held) \in Nat
           /\ \A i \in 1 .. Len(Held) : Held[i] \in Sent /\ Held[i][1] \in 1 .. Len(log)
                                        /\ Held[i][2] \in 1 .. WordLen
           /\ basis["sr04"][1][1] \in 0 .. Len(log) /\ basis["sr04"][1][2] \in 1 .. WordLen
           /\ seen["sr04"][1][1] \in 0 .. Len(log) /\ seen["sr04"][1][2] \in 1 .. WordLen
<1>1. Len(log) \in Nat /\ line \in 0 .. Len(log)
  <2>1. line \in 0 .. Len(log)
    BY Zenon DEF LinkInv, RelayTypes
  <2>2. Len(log) \in Nat
    BY DEF LinkInv, ServerInv, ServerTypes
  <2>. QED  BY <2>1, <2>2
<1>2. stream \in Seq(Units) /\ Len(stream) \in Nat
  BY DEF LinkInv, ServerInv
<1>3. \A i \in 1 .. Len(stream) : stream[i][1] \in 1 .. Len(log)
  <2>1. \A i \in 1 .. Len(stream) : stream[i] \in Units
    BY <1>2, ElementOfSeq
  <2>. QED  BY <2>1 DEF Units
<1>4. Held \in Seq(Sent) /\ Held \in Seq(Ids) /\ Len(Held) \in Nat
  BY DEF LinkInv, TunnelInv, UseInv, HoldsSent, Sensors, Held
<1>5. \A i \in 1 .. Len(Held) : Held[i] \in Sent /\ Held[i] \in Ids
  BY <1>4, ElementOfSeq
<1>6. \A i \in 1 .. Len(Held) : Held[i][1] \in 1 .. Len(log) /\ Held[i][2] \in 1 .. WordLen
  BY <1>1, <1>5 DEF Sent, Ids
<1>7. basis["sr04"][1] \in Ids /\ seen["sr04"][1] \in Ids
  <2>1. \A w \in Words : w[1] \in Ids
    BY LengthsAssumed DEF Words
  <2>. QED  BY <2>1 DEF LinkInv, RunnerInv, Sensors
<1>. QED  BY <1>1, <1>2, <1>3, <1>4, <1>5, <1>6, <1>7 DEF Ids

LEMMA InitOrder == Init => OrderInv
<1>. SUFFICES ASSUME Init PROVE OrderInv
  OBVIOUS
<1>1. /\ stream = <<>> /\ relay = "dial" /\ ring = [s \in Sensors |-> <<>>]
      /\ runner = "open motor"
  BY Zenon DEF Init
<1>2. Held = <<>>
  BY <1>1 DEF Held, Sensors
<1>3. Len(Held) = 0 /\ Len(stream) = 0
  BY <1>1, <1>2
<1>4. LinesInOrder
  BY <1>3 DEF LinesInOrder, Heads
<1>5. RelayInOrder
  BY <1>1 DEF RelayInOrder
<1>6. RingInOrder
  BY <1>3 DEF RingInOrder
<1>7. ReadInOrder
  <2>1. \A i \in 1 .. Len(Held) : FALSE
    BY <1>3
  <2>2. runner \notin {"left", "right"}
    BY <1>1
  <2>. QED  BY <2>1, <2>2, Zenon DEF ReadInOrder
<1>. QED  BY <1>4, <1>5, <1>6, <1>7 DEF OrderInv

(* A sample newly sent is later than everything under way. *)
LEMMA SendsOrder ==
    ASSUME LinkInv, UseInv, OrderInv, NEW d, NEW l, NEW r, ServerSends(d, l, r)
    PROVE  OrderInv'
<1>1. /\ relay' = relay /\ line' = line /\ ring' = ring /\ files' = files
      /\ runner' = runner /\ seen' = seen /\ basis' = basis
  BY Zenon DEF ServerSends, relayVars, tunnelVars, runnerVars
<1>2. Held' = Held /\ \A k : Past(k)' <=> Past(k)
  BY <1>1 DEF Held, Past
<1>. DEFINE n == Len(log) + 1
            u == << <<n, "head">>, <<n, "tail">> >>
<1>3. Len(log') = n /\ stream' = stream \o u
  <2>1. log \in Seq(Samples)
    BY DEF LinkInv, ServerInv, ServerTypes, Samples, Hows
  <2>2. Len(log') = n
    <3>1. \E v : log' = Append(log, v)
      BY DEF ServerSends
    <3>. QED  BY <2>1, <3>1
  <2>. QED  BY <2>2 DEF ServerSends
<1>4. /\ Len(log) \in Nat /\ stream \in Seq(Units) /\ Len(stream) \in Nat
      /\ \A i \in 1 .. Len(stream) : stream[i][1] \in 1 .. Len(log)
  BY OrderTypes
<1>5. /\ Len(stream') = Len(stream) + 2
      /\ \A i \in 1 .. Len(stream) : stream'[i] = stream[i]
      /\ stream'[Len(stream) + 1] = <<n, "head">> /\ stream'[Len(stream) + 2] = <<n, "tail">>
  <2>. HIDE DEF n
  <2>. DEFINE U == Nat \X {"head", "tail"}
  <2>1. <<n, "head">> \in U /\ <<n, "tail">> \in U
    BY <1>4 DEF n
  <2>2. stream \in Seq(U)
    <3>1. Units \subseteq U
      BY <1>4 DEF Units
    <3>. QED  BY <1>4, <3>1, SeqMonotonic
  <2>. HIDE DEF U
  <2>. QED  BY <1>3, <2>1, <2>2, TwoAppended
<1>6. Heads' = Heads \cup {Len(stream) + 1}
  <2>1. ASSUME NEW i \in 1 .. Len(stream') PROVE stream'[i][2] = "head" <=> i \in Heads \cup {Len(stream) + 1}
    <3>1. CASE i \in 1 .. Len(stream)
      BY <1>4, <1>5, <3>1 DEF Heads
    <3>2. CASE i = Len(stream) + 1
      BY <1>5, <3>2
    <3>3. CASE i = Len(stream) + 2
      BY <1>4, <1>5, <3>3 DEF Heads
    <3>. QED  BY <1>4, <1>5, <3>1, <3>2, <3>3
  <2>. QED  BY <1>4, <1>5, <2>1 DEF Heads
<1>7. Past(n) /\ line < n
  BY OrderTypes DEF Past
<1>8. LinesInOrder'
  <2>1. \A i \in Heads : i \in 1 .. Len(stream) /\ stream'[i] = stream[i]
    BY <1>5 DEF Heads
  <2>2. stream'[Len(stream) + 1][1] = n
    BY <1>5
  <2>3. \A i, j \in Heads' : i < j => stream'[i][1] < stream'[j][1]
    BY <1>4, <1>6, <2>1, <2>2 DEF OrderInv, LinesInOrder
  <2>4. \A i \in Heads' : line < stream'[i][1] /\ Past(stream'[i][1])
    BY <1>4, <1>6, <1>7, <2>1, <2>2 DEF OrderInv, LinesInOrder
  <2>. QED  BY <1>1, <1>2, <2>3, <2>4 DEF LinesInOrder
<1>9. RelayInOrder' /\ RingInOrder' /\ ReadInOrder'
  BY <1>1, <1>2 DEF OrderInv, RelayInOrder, RingInOrder, ReadInOrder
<1>. QED  BY <1>8, <1>9 DEF OrderInv

(* A line received is the oldest. *)
LEMMA ReceivesOrder ==
    ASSUME LinkInv, UseInv, OrderInv, NEW n, RelayReceives(n)
    PROVE  OrderInv'
<1>1. /\ ring' = ring /\ files' = files /\ runner' = runner /\ seen' = seen /\ basis' = basis
      /\ n \in DOMAIN stream /\ stream' = SubSeq(stream, n + 1, Len(stream))
      /\ \/ stream[1][2] = "head" /\ relay' = "sr04" /\ line' = stream[1][1]
         \/ relay' = relay /\ line' = line
  BY Zenon DEF RelayReceives, tunnelVars, runnerVars
<1>2. Held' = Held /\ \A k : Past(k)' <=> Past(k)
  BY <1>1 DEF Held, Past
<1>3. stream \in Seq(Units) /\ Len(stream) \in Nat /\ n \in 1 .. Len(stream)
  BY <1>1, OrderTypes
<1>4. /\ Len(stream') = Len(stream) - n
      /\ \A i \in 1 .. Len(stream) - n : stream'[i] = stream[n + i]
  BY <1>1, <1>3, RestIs
<1>5. \A i \in Heads' : n + i \in Heads /\ stream'[i] = stream[n + i] /\ i \in Nat
  BY <1>3, <1>4 DEF Heads
<1>6. \A i, j \in Heads' : i < j => stream'[i][1] < stream'[j][1]
  <2>1. \A i, j \in Heads' : i < j => n + i < n + j
    BY <1>3, <1>5
  <2>. QED  BY <1>5, <2>1 DEF OrderInv, LinesInOrder
<1>7. CASE relay' = relay /\ line' = line
  <2>1. \A i \in Heads' : line' < stream'[i][1] /\ Past(stream'[i][1])
    BY <1>5, <1>7 DEF OrderInv, LinesInOrder
  <2>2. LinesInOrder'
    BY <1>2, <1>6, <2>1 DEF LinesInOrder
  <2>. QED  BY <1>1, <1>2, <1>7, <2>2
            DEF OrderInv, RelayInOrder, RingInOrder, ReadInOrder
<1>8. CASE stream[1][2] = "head" /\ relay' = "sr04" /\ line' = stream[1][1]
  <2>1. 1 \in Heads
    BY <1>3, <1>8 DEF Heads
  <2>2. Past(line')
    BY <1>8, <2>1 DEF OrderInv, LinesInOrder
  <2>3. \A i \in Heads' : 1 < n + i
    BY <1>3, <1>4 DEF Heads
  <2>4. \A i \in Heads' : line' < stream'[i][1] /\ Past(stream'[i][1])
    BY <1>5, <1>8, <2>1, <2>3 DEF OrderInv, LinesInOrder
  <2>5. LinesInOrder'
    BY <1>2, <1>6, <2>4 DEF LinesInOrder
  <2>. QED  BY <1>1, <1>2, <2>2, <2>5
            DEF OrderInv, RelayInOrder, RingInOrder, ReadInOrder
<1>. QED  BY <1>1, <1>7, <1>8

(* Whatever takes bytes from the tunnel of the distances leaves those that *)
(* remain in order.                                                        *)
LEMMA FewerInOrder ==
    ASSUME LinkInv, UseInv, OrderInv,
           stream' = stream \/ stream' = <<>>, line' = line \/ line' = 0,
           relay' = relay \/ relay' # "sr04", relay' = "sr04" => line' = line,
           Held' = Held \/ Held' = <<>>, basis' = basis,
           seen'["sr04"] = seen["sr04"],
           runner' = runner \/ runner' \notin {"left", "right"},
           runner' \in {"left", "right"} /\ "runner" \in files'["sr04"] => "runner" \in files["sr04"]
    PROVE  OrderInv'
<1>1. /\ Len(Held') \in Nat /\ Len(Held') <= Len(Held) /\ Len(Held) \in Nat
      /\ \A i \in 1 .. Len(Held') : Held'[i] = Held[i] /\ i \in 1 .. Len(Held)
  BY OrderTypes
<1>2. \A k : Past(k) => Past(k)'
  BY <1>1 DEF Past
<1>3. \A i \in Heads' : i \in Heads /\ stream'[i] = stream[i]
  <2>1. CASE stream' = stream
    BY <2>1 DEF Heads
  <2>2. CASE stream' = <<>>
    <3>1. Len(stream') = 0
      BY <2>2
    <3>. QED  BY <3>1 DEF Heads
  <2>. QED  BY <2>1, <2>2
<1>4. \A i \in Heads : stream[i][1] \in Nat \ {0}
  BY OrderTypes DEF Heads
<1>5. LinesInOrder'
  BY <1>2, <1>3, <1>4 DEF OrderInv, LinesInOrder
<1>6. RelayInOrder'
  BY <1>2 DEF OrderInv, RelayInOrder
<1>7. RingInOrder' /\ ReadInOrder'
  BY <1>1 DEF OrderInv, RingInOrder, ReadInOrder
<1>. QED  BY <1>5, <1>6, <1>7 DEF OrderInv

(* The relay appends a value later than those in the tunnel. *)
LEMMA WritesOrder ==
    ASSUME LinkInv, UseInv, OrderInv, RelayWrites
    PROVE  OrderInv'
<1>1. /\ stream' = stream /\ files' = files /\ runner' = runner /\ seen' = seen
      /\ basis' = basis /\ relay \in Sensors /\ relay' = After(relay)
      /\ line' = IF relay' = "receive" THEN 0 ELSE line
  BY Zenon DEF RelayWrites, runnerVars
<1>2. relay' \in {"left", "right", "receive"}
  BY <1>1 DEF After, Sensors
<1>3. CASE Held' = Held
  BY <1>1, <1>2, <1>3, FewerInOrder
<1>4. CASE Held' # Held
  <2>1. "sr04" \in Sensors
    BY DEF Sensors
  <2>2. /\ Node(relay) = "sr04" /\ Room("sr04") > 0 /\ Held' = Held \o Fitting("sr04")
    BY <1>4, <2>1, WritesDoes, Zenon DEF Held
  <2>3. relay = "sr04"
    BY <1>1, <2>2 DEF Node, Sensors
  <2>4. PICK n \in 1 .. WordLen :
          /\ Fitting("sr04") \in Seq(Sent) /\ Len(Fitting("sr04")) = n
          /\ \A i \in 1 .. n : Fitting("sr04")[i] = <<line, i>>
    BY <1>1, <2>1, <2>2, FittingIs
  <2>5. PICK m \in Nat : m = Len(Held)
    BY OrderTypes
  <2>6. /\ Len(Held') = m + n
        /\ \A i \in 1 .. m : Held'[i] = Held[i]
        /\ \A i \in 1 .. m + n : i > m => Held'[i] = <<line, i - m>>
    <3>1. /\ Len(Held') = m + n
          /\ \A i \in 1 .. m + n : Held'[i] = IF i <= m THEN Held[i] ELSE Fitting("sr04")[i - m]
      BY <2>2, <2>4, <2>5, OrderTypes, ConcatProperties
    <3>2. \A i \in 1 .. m + n : i > m => i - m \in 1 .. n
      BY <2>5, LengthsAssumed
    <3>3. \A i \in 1 .. m : i \in 1 .. m + n
      BY LengthsAssumed
    <3>. QED  BY <2>4, <3>1, <3>2, <3>3
  <2>7. Past(line)
    BY <2>3 DEF OrderInv, RelayInOrder
  <2>8. \A i \in 1 .. m : Held[i][1] < line
    BY <2>5, <2>7 DEF Past
  <2>9. line \in Nat /\ \A i \in Heads : stream[i][1] \in Nat /\ line < stream[i][1]
    BY OrderTypes DEF OrderInv, LinesInOrder, Heads
  <2>10. \A i \in 1 .. m + n : i \in 1 .. m \/ (i > m /\ Held'[i] = <<line, i - m>>)
    BY <2>6
  <2>11. LinesInOrder'
    <3>1. \A i \in Heads : Past(stream[i][1])'
      <4>1. ASSUME NEW i \in Heads, NEW j \in 1 .. m + n PROVE Held'[j][1] < stream[i][1]
        <5>1. CASE j \in 1 .. m
          <6>1. Past(stream[i][1])
            BY DEF OrderInv, LinesInOrder
          <6>. QED  BY <2>5, <2>6, <5>1, <6>1 DEF Past
        <5>2. CASE Held'[j] = <<line, j - m>>
          BY <2>9, <5>2
        <5>. QED  BY <2>10, <5>1, <5>2
      <4>2. \A i \in Heads : basis["sr04"][1][1] < stream[i][1] /\ seen["sr04"][1][1] < stream[i][1]
        BY DEF OrderInv, LinesInOrder, Past
      <4>. QED  BY <1>1, <2>6, <4>1, <4>2 DEF Past
    <3>2. \A i \in Heads : line' < stream[i][1]
      BY <1>1, <2>9, OrderTypes DEF Heads
    <3>3. Heads' = Heads
      BY <1>1 DEF Heads
    <3>. QED  BY <1>1, <3>1, <3>2, <3>3 DEF OrderInv, LinesInOrder
  <2>12. RelayInOrder'
    BY <1>2 DEF RelayInOrder
  <2>13. RingInOrder'
    <3>1. ASSUME NEW i \in 1 .. m + n, NEW j \in 1 .. m + n, i < j
          PROVE  Before(Held'[i], Held'[j])
      <4>1. CASE j \in 1 .. m
        <5>1. i \in 1 .. m
          BY <3>1, <4>1
        <5>. QED  BY <2>5, <2>6, <3>1, <4>1, <5>1 DEF OrderInv, RingInOrder
      <4>2. CASE Held'[j] = <<line, j - m>> /\ i \in 1 .. m
        BY <2>6, <2>8, <4>2 DEF Before
      <4>3. CASE Held'[j] = <<line, j - m>> /\ Held'[i] = <<line, i - m>>
        BY <3>1, <4>3 DEF Before
      <4>. QED  BY <2>10, <4>1, <4>2, <4>3
    <3>. QED  BY <2>6, <3>1 DEF RingInOrder
  <2>14. ReadInOrder'
    <3>1. ASSUME NEW i \in 1 .. m + n
          PROVE  Before(basis["sr04"][1], Held'[i]) /\ Before(seen["sr04"][1], Held'[i])
      <4>1. CASE i \in 1 .. m
        BY <2>5, <2>6, <4>1 DEF OrderInv, ReadInOrder
      <4>2. CASE Held'[i] = <<line, i - m>>
        BY <2>7, <4>2 DEF Past, Before
      <4>. QED  BY <2>10, <4>1, <4>2
    <3>. QED  BY <1>1, <2>6, <3>1 DEF OrderInv, ReadInOrder
  <2>. QED  BY <2>11, <2>12, <2>13, <2>14 DEF OrderInv
<1>. QED  BY <1>3, <1>4

(* The oldest bytes are those that are read. *)
LEMMA ReadsOrder ==
    ASSUME LinkInv, UseInv, OrderInv, Reads("sr04"), runner = "sr04",
           UNCHANGED <<stream, relay, line, files, basis>>
    PROVE  OrderInv'
<1>. "sr04" \in Sensors
  BY DEF Sensors
<1>1. CASE UNCHANGED <<ring, seen>> /\ "runner" \notin files["sr04"]
  <2>1. Held' = Held /\ Heads' = Heads /\ \A k : Past(k)' <=> Past(k)
    BY <1>1 DEF Held, Heads, Past
  <2>2. LinesInOrder' /\ RelayInOrder'
    BY <2>1 DEF OrderInv, LinesInOrder, RelayInOrder
  <2>3. RingInOrder' /\ ReadInOrder'
    BY <1>1, <2>1 DEF OrderInv, RingInOrder, ReadInOrder
  <2>. QED  BY <2>2, <2>3 DEF OrderInv
<1>2. CASE ~(UNCHANGED <<ring, seen>> /\ "runner" \notin files["sr04"])
  <2>1. /\ "runner" \in files["sr04"] /\ ring["sr04"] # <<>>
        /\ seen'["sr04"] = First("sr04") \o SubSeq(seen["sr04"], Len(First("sr04")) + 1, WordLen)
        /\ ring'["sr04"] = SubSeq(ring["sr04"], Len(First("sr04")) + 1, Len(ring["sr04"]))
    BY <1>2, ReadsDoes, Zenon
  <2>2. PICK n \in 1 .. Len(Held) :
          /\ n = Len(First("sr04")) /\ n <= WordLen /\ First("sr04")[1] = Held[1]
          /\ First("sr04") = SubSeq(Held, 1, n)
    BY <2>1, FirstIs DEF Held
  <2>3. /\ Held \in Seq(Sent) /\ Len(Held) \in Nat /\ 1 \in 1 .. Len(Held)
        /\ n \in 0 .. Len(Held)
    BY <2>2, OrderTypes
  <2>4. Held' = SubSeq(Held, n + 1, Len(Held))
    BY <2>1, <2>2 DEF Held
  <2>5. /\ Len(Held') = Len(Held) - n
        /\ \A i \in 1 .. Len(Held) - n : n + i \in 1 .. Len(Held) /\ Held'[i] = Held[n + i]
    BY <2>3, <2>4, RestIs
  <2>6. seen'["sr04"][1] = Held[1]
    <3>1. First("sr04") \in Seq(Ids)
      BY <2>1, FirstTyped
    <3>2. SubSeq(seen["sr04"], Len(First("sr04")) + 1, WordLen) \in Seq(Ids)
      <4>1. seen["sr04"] \in Seq(Ids) /\ Len(seen["sr04"]) = WordLen
        BY DEF LinkInv, RunnerInv, Words
      <4>2. n \in 0 .. WordLen
        BY <2>2, LengthsAssumed
      <4>. QED  BY <2>2, <4>1, <4>2, RestIs
    <3>3. 1 \in 1 .. Len(First("sr04"))
      BY <2>2
    <3>. QED  BY <2>1, <2>2, <3>1, <3>2, <3>3, JoinIs
  <2>7. PICK p \in Nat : p = Len(Held) - n
    BY <2>3
  <2>8. \A i \in 1 .. p : n + i \in 1 .. Len(Held) /\ Held'[i] = Held[n + i] /\ 1 < n + i
    <3>1. \A i \in 1 .. p : 1 < n + i
      BY <2>3
    <3>. QED  BY <2>5, <2>7, <3>1, Zenon
  <2>9. Len(Held') = p
    BY <2>5, <2>7
  <2>10. \A k : Past(k) => Past(k)'
    BY <2>3, <2>6, <2>8, <2>9 DEF Past
  <2>11. LinesInOrder' /\ RelayInOrder'
    BY <2>10 DEF OrderInv, LinesInOrder, RelayInOrder, Heads
  <2>12. RingInOrder'
    <3>1. ASSUME NEW i \in 1 .. p, NEW j \in 1 .. p, i < j PROVE Before(Held'[i], Held'[j])
      <4>1. n + i < n + j
        BY <2>3, <3>1
      <4>. QED  BY <2>8, <4>1 DEF OrderInv, RingInOrder
    <3>. QED  BY <2>9, <3>1 DEF RingInOrder
  <2>13. ReadInOrder'
    <3>1. Before(basis["sr04"][1], Held[1])
      BY <2>3 DEF OrderInv, ReadInOrder
    <3>2. \A i \in 1 .. p : Before(basis["sr04"][1], Held[n + i]) /\ Before(Held[1], Held[n + i])
      BY <2>3, <2>8 DEF OrderInv, ReadInOrder, RingInOrder
    <3>. QED  BY <2>6, <2>8, <2>9, <3>1, <3>2 DEF ReadInOrder
  <2>. QED  BY <2>11, <2>12, <2>13 DEF OrderInv
<1>. QED  BY <1>1, <1>2

(* A decision makes what was read the latest that was decided on.          *)
LEMMA DecidesOrder ==
    ASSUME LinkInv, UseInv, OrderInv, RunnerDecides
    PROVE  OrderInv' /\ basis'["sr04"] = seen["sr04"] /\ runner = "right"
<1>1. /\ UNCHANGED <<stream, relay, line>> /\ runner = "right" /\ runner' = "command"
      /\ basis' = seen' /\ Reads("right")
  BY Zenon DEF RunnerDecides
<1>2. ring'["sr04"] = ring["sr04"] /\ seen'["sr04"] = seen["sr04"]
  <2>1. "right" \in Sensors /\ "sr04" \in Sensors \ {"right"}
    BY DEF Sensors
  <2>. QED  BY <1>1, <2>1, ReadsDoes, Zenon
<1>3. basis'["sr04"] = seen["sr04"] /\ Held' = Held
  BY <1>1, <1>2 DEF Held
<1>4. \A k : Past(k) => Past(k)'
  BY <1>2, <1>3 DEF Past
<1>5. LinesInOrder' /\ RelayInOrder'
  BY <1>1, <1>4 DEF OrderInv, LinesInOrder, RelayInOrder, Heads
<1>6. RingInOrder' /\ ReadInOrder'
  BY <1>1, <1>2, <1>3 DEF OrderInv, RingInOrder, ReadInOrder
<1>. QED  BY <1>1, <1>3, <1>5, <1>6 DEF OrderInv

(* The next car program has read nothing. *)
LEMMA DiesOrder ==
    ASSUME LinkInv, UseInv, OrderInv, RunnerDies
    PROVE  OrderInv'
<1>. "sr04" \in Sensors
  BY DEF Sensors
<1>1. /\ UNCHANGED <<stream, relay, line, basis>> /\ runner' = "dead"
      /\ Exits("runner") /\ seen' = Zero
  BY Zenon DEF RunnerDies, relayVars
<1>2. Held' = Held \/ Held' = <<>>
  BY <1>1, ExitsUse DEF Held
<1>3. seen'["sr04"][1] = <<0, 1>>
  <2>1. seen'["sr04"] = Word(0)
    BY <1>1 DEF Zero
  <2>2. Word(0)[1] = <<0, 1>>
    BY WordTyped
  <2>. QED  BY <2>1, <2>2
<1>4. /\ Len(Held') \in Nat /\ Len(Held') <= Len(Held) /\ Len(Held) \in Nat
      /\ \A i \in 1 .. Len(Held') : Held'[i] = Held[i] /\ i \in 1 .. Len(Held)
                                     /\ Held[i][1] \in Nat /\ Held[i][1] > 0
  BY <1>2, OrderTypes
<1>5. ASSUME NEW k \in Nat, Past(k) PROVE Past(k)'
  <2>1. 0 < k
    <3>1. basis["sr04"][1][1] \in Nat /\ basis["sr04"][1][1] < k
      BY <1>5, OrderTypes DEF Past
    <3>. QED  BY <3>1
  <2>2. \A i \in 1 .. Len(Held') : Held'[i][1] < k
    BY <1>4, <1>5 DEF Past
  <2>3. basis'["sr04"][1][1] < k
    BY <1>1, <1>5 DEF Past
  <2>4. seen'["sr04"][1][1] < k
    BY <1>3, <2>1
  <2>. QED  BY <2>2, <2>3, <2>4 DEF Past
<1>6. LinesInOrder' /\ RelayInOrder'
  <2>1. line \in Nat /\ \A i \in Heads : stream[i][1] \in Nat
    BY OrderTypes DEF Heads
  <2>. QED  BY <1>1, <1>5, <2>1 DEF OrderInv, LinesInOrder, RelayInOrder, Heads
<1>7. RingInOrder'
  BY <1>4 DEF OrderInv, RingInOrder
<1>8. ReadInOrder'
  <2>1. \A i \in 1 .. Len(Held') : Before(basis'["sr04"][1], Held'[i])
    BY <1>1, <1>4 DEF OrderInv, ReadInOrder
  <2>2. \A i \in 1 .. Len(Held') : Before(seen'["sr04"][1], Held'[i])
    <3>1. \A i \in 1 .. Len(Held') : 0 < Held'[i][1]
      BY <1>4
    <3>. QED  BY <1>3, <3>1 DEF Before
  <2>. QED  BY <1>1, <2>1, <2>2 DEF ReadInOrder
<1>. QED  BY <1>6, <1>7, <1>8 DEF OrderInv

LEMMA OrderKeeps ==
    ASSUME LinkInv, UseInv, OrderInv, [Next]_vars
    PROVE  OrderInv'
<1>. "sr04" \in Sensors
  BY DEF Sensors
<1>1. CASE Server
  <2>1. PICK d \in Dists, ir \in Infrared : ServerSends(d, ir[1], ir[2])
    BY <1>1 DEF Server
  <2>. QED  BY <2>1, SendsOrder
<1>2. CASE \/ ServerDies \/ RelayDials \/ RelaySleeps \/ Turns \/ UNCHANGED vars
  <2>1. /\ UNCHANGED <<stream, line, ring, files, seen, basis>>
        /\ relay' = relay \/ relay' = "open sr04"
        /\ runner' = runner \/ runner' \notin {"left", "right"}
    BY <1>2, TurnsDo, Zenon DEF ServerDies, RelayDials, RelaySleeps, vars,
                                tunnelVars, relayVars, runnerVars
  <2>2. Held' = Held
    BY <2>1 DEF Held
  <2>. QED  BY <2>1, <2>2, FewerInOrder
<1>3. CASE RelayOpensAll \/ RunnerOpensAll
  <2>1. PICK c \in {"relay", "runner"}, u \in Sensors :
          /\ Opens(c, u) /\ UNCHANGED <<stream, line, seen, basis>>
          /\ \/ c = "relay" /\ relay' # "sr04" /\ runner' = runner
             \/ c = "runner" /\ relay' = relay /\ runner' \notin {"left", "right"}
    <3>1. CASE RelayOpensAll
      <4>1. \A s \in Sensors : Node(s) \in Sensors
        BY NodeIsSensor
      <4>. QED  BY <3>1, <4>1, Zenon DEF RelayOpensAll, RelayOpens, Sensors, runnerVars
    <3>2. CASE RunnerOpensAll
      BY <3>2, Zenon DEF RunnerOpensAll, RunnerOpens, Sensors, relayVars
    <3>. QED  BY <1>3, <3>1, <3>2
  <2>2. Held' = Held \/ Held' = <<>>
    BY <2>1, OpensDoes DEF Held
  <2>3. c = "relay" => ("runner" \in files'["sr04"] => "runner" \in files["sr04"])
    BY <2>1, OpensDoes
  <2>. QED  BY <2>1, <2>2, <2>3, FewerInOrder
<1>4. ASSUME NEW n \in 1 .. SocketUnits, RelayReceives(n) PROVE OrderInv'
  BY <1>4, ReceivesOrder
<1>5. CASE RelayExits \/ RelayDies
  <2>1. /\ Exits("relay") /\ relay' = "dead" /\ line' = 0 /\ stream' = <<>>
        /\ UNCHANGED <<runner, seen, basis>>
    BY <1>5, Zenon DEF RelayExits, RelayDies, RelayEnds, runnerVars
  <2>2. Held' = Held \/ Held' = <<>>
    BY <2>1, ExitsUse DEF Held
  <2>3. "runner" \in files'["sr04"] => "runner" \in files["sr04"]
    BY <2>1, ExitsUse
  <2>. QED  BY <2>1, <2>2, <2>3, FewerInOrder
<1>6. CASE RunnerReadsSr04
  <2>1. /\ Reads("sr04") /\ runner = "sr04" /\ UNCHANGED <<stream, relay, line, files, basis>>
    BY <1>6, Zenon DEF RunnerReadsSr04
  <2>. QED  BY <2>1, ReadsOrder
<1>7. CASE RunnerReadsLeft
  <2>1. /\ Reads("left") /\ runner = "left" /\ runner' = "right"
        /\ UNCHANGED <<stream, relay, line, files, basis>>
    BY <1>7, Zenon DEF RunnerReadsLeft
  <2>2. ring'["sr04"] = ring["sr04"] /\ seen'["sr04"] = seen["sr04"]
    <3>1. "left" \in Sensors /\ "sr04" \in Sensors \ {"left"}
      BY DEF Sensors
    <3>. QED  BY <2>1, <3>1, ReadsDoes, Zenon
  <2>3. Held' = Held /\ Heads' = Heads /\ \A k : Past(k)' <=> Past(k)
    BY <2>1, <2>2 DEF Held, Heads, Past
  <2>4. LinesInOrder' /\ RelayInOrder'
    BY <2>1, <2>3 DEF OrderInv, LinesInOrder, RelayInOrder
  <2>5. RingInOrder' /\ ReadInOrder'
    BY <2>1, <2>2, <2>3 DEF OrderInv, RingInOrder, ReadInOrder
  <2>. QED  BY <2>4, <2>5 DEF OrderInv
<1>. QED  BY <1>1, <1>2, <1>3, <1>4, <1>5, <1>6, <1>7, WritesOrder, DecidesOrder, DiesOrder,
             Zenon DEF Next, Relay, Runs, Turns

(* Between two decisions on whole distances the sample's number grows.     *)
LEMMA DecisionsGrow ==
    ASSUME LinkInv, UseInv, OrderInv, RunnerDecides,
           Whole(basis["sr04"]), Whole(basis'["sr04"]), "runner" \in files["sr04"]
    PROVE  SampleOf(basis'["sr04"]) > SampleOf(basis["sr04"])
<1>1. Before(basis["sr04"][1], basis'["sr04"][1])
  BY DecidesOrder DEF OrderInv, ReadInOrder
<1>2. PICK j \in 0 .. MaxSamples, k \in 0 .. MaxSamples :
        basis["sr04"] = Word(j) /\ basis'["sr04"] = Word(k)
  BY DEF Whole
<1>3. j \in Nat /\ k \in Nat
  BY SensorAssumption
<1>4. basis["sr04"][1] = <<j, 1>> /\ basis'["sr04"][1] = <<k, 1>>
  BY <1>2, <1>3, WordTyped
<1>. QED  BY <1>1, <1>3, <1>4 DEF Before, SampleOf

(* Whatever the relay drops, however the tunnels split the values and      *)
(* whoever dies and starts anew: a car program that reads distances never  *)
(* decides on an older one than before, nor twice on the same.             *)
THEOREM DecidesInOrder == Spec => InOrder
<1> DEFINE A == RunnerDecides /\ Whole(basis["sr04"]) /\ Whole(basis'["sr04"]) =>
                    \/ SampleOf(basis'["sr04"]) > SampleOf(basis["sr04"])
                    \/ "runner" \notin files["sr04"]
<1>1. LinkInv /\ UseInv /\ OrderInv /\ [Next]_vars => UseInv' /\ OrderInv'
  BY UseKeeps, OrderKeeps
<1>2. LinkInv /\ UseInv /\ OrderInv /\ [Next]_vars => [A]_vars
  BY DecisionsGrow
<1>. QED  BY <1>1, <1>2, InitUse, InitOrder, LinkInvHolds, PTL DEF Spec, InOrder

-----------------------------------------------------------------------------
(* The three tunnels in step *)

(* Multiples of the length of a value; a buffer holds whole values, so     *)
(* that a pointer at a multiple stays at one over a wrap.                  *)
LEMMA WholesDivide ==
    ASSUME NEW n \in Nat, n % WordLen = 0
    PROVE  n \div WordLen \in Nat /\ n = (n \div WordLen) * WordLen
BY LengthsAssumed, SMT

LEMMA WholesAre ==
    ASSUME NEW m \in Nat
    PROVE  m * WordLen \in Nat /\ (m * WordLen) % WordLen = 0 /\ (m * WordLen) \div WordLen = m
BY LengthsAssumed, SMT

LEMMA MultiplesAre == ASSUME NEW m \in Int PROVE (m * WordLen) % WordLen = 0
BY LengthsAssumed, SMT

LEMMA RoomForWhole ==
    ASSUME NEW a \in Nat, a % WordLen = 0, a < RingBytes
    PROVE  a + WordLen <= RingBytes
<1>1. PICK k \in Nat, l \in Nat : a = k * WordLen /\ RingBytes = l * WordLen
  BY SensorAssumption, LengthsAssumed, WholesDivide
<1>2. k < l
  BY <1>1, LengthsAssumed, SMT
<1>3. k * WordLen + WordLen = (k + 1) * WordLen /\ (k + 1) * WordLen <= l * WordLen
  BY <1>1, <1>2, LengthsAssumed, SMT
<1>. QED  BY <1>1, <1>3

LEMMA WpStaysWhole ==
    ASSUME NEW a \in Nat, a % WordLen = 0, a < RingBytes
    PROVE  ((a + WordLen) % RingBytes) % WordLen = 0
<1>1. a + WordLen <= RingBytes
  BY RoomForWhole
<1>2. (a + WordLen) % RingBytes = IF a + WordLen = RingBytes THEN 0 ELSE a + WordLen
  <2>1. CASE a + WordLen = RingBytes
    <3>1. RingBytes % RingBytes = 0
      BY LengthsAssumed, SMT
    <3>. QED  BY <2>1, <3>1
  <2>2. CASE a + WordLen # RingBytes
    <3>1. PICK b \in Nat : b = a + WordLen /\ b < RingBytes
      BY <1>1, <2>2, LengthsAssumed
    <3>2. b % RingBytes = b
      BY <3>1, LengthsAssumed, SMT
    <3>. QED  BY <2>2, <3>1, <3>2
  <2>. QED  BY <2>1, <2>2
<1>3. (a + WordLen) % WordLen = 0
  <2>1. PICK k \in Nat : a = k * WordLen
    BY WholesDivide
  <2>2. (k + 1) \in Nat /\ (k + 1) * WordLen = a + WordLen
    BY <2>1, LengthsAssumed, SMT
  <2>3. ((k + 1) * WordLen) % WordLen = 0
    BY <2>2, WholesAre
  <2>. QED  BY <2>2, <2>3
<1>4. 0 % WordLen = 0
  BY LengthsAssumed, SMT
<1>. QED  BY <1>2, <1>3, <1>4

LEMMA RpIsWhole ==
    ASSUME NEW a \in Nat, a % WordLen = 0, a < RingBytes,
           NEW n \in Nat, n % WordLen = 0, n < RingBytes
    PROVE  ((a - n) % RingBytes) % WordLen = 0
<1>1. PICK k \in Nat, l \in Nat, m \in Nat :
        a = k * WordLen /\ RingBytes = l * WordLen /\ n = m * WordLen
  BY SensorAssumption, LengthsAssumed, WholesDivide
<1>2. (a - n) % RingBytes = IF a >= n THEN a - n ELSE a - n + RingBytes
  BY LengthsAssumed, SMT
<1>3. a - n = (k - m) * WordLen /\ a - n + RingBytes = (k - m + l) * WordLen
  BY <1>1, LengthsAssumed, SMT
<1>4. k - m \in Int /\ k - m + l \in Int
  BY <1>1
<1>5. ((k - m) * WordLen) % WordLen = 0 /\ ((k - m + l) * WordLen) % WordLen = 0
  BY <1>4, MultiplesAre
<1>. QED  BY <1>2, <1>3, <1>5

(* Where byte i of value j stands. *)
At(j, i) == (j - 1) * WordLen + i

LEMMA AtIs ==
    ASSUME NEW m \in Nat, NEW i \in 1 .. WordLen
    PROVE  /\ At(m + 1, i) = m * WordLen + i /\ At(1, i) = i
           /\ \A j \in 1 .. m : /\ At(j, i) \in 1 .. m * WordLen
                                /\ At(j + 1, i) = WordLen + At(j, i)
<1>1. At(m + 1, i) = m * WordLen + i /\ At(1, i) = i
  <2>1. (m + 1) - 1 = m /\ 1 - 1 = 0 /\ 0 * WordLen = 0
    BY LengthsAssumed
  <2>. QED  BY <2>1, LengthsAssumed DEF At
<1>2. ASSUME NEW j \in 1 .. m
      PROVE  At(j, i) \in 1 .. m * WordLen /\ At(j + 1, i) = WordLen + At(j, i)
  <2>1. (j - 1) * WordLen \in Nat /\ (j - 1) * WordLen + WordLen = j * WordLen
    BY LengthsAssumed, SMT
  <2>2. j * WordLen <= m * WordLen
    BY LengthsAssumed, SMT
  <2>3. j * WordLen \in Nat /\ m * WordLen \in Nat /\ (j + 1) - 1 = j
    BY LengthsAssumed, SMT
  <2>. QED  BY <2>1, <2>2, <2>3, LengthsAssumed DEF At
<1>. QED  BY <1>1, <1>2

(* The bytes u are the value of sample k, which makes them Word(k).        *)
IsOf(u, k) == Len(u) = WordLen /\ \A i \in 1 .. WordLen : u[i] = <<k, i>>

LEMMA WordIsOf == ASSUME NEW k PROVE Word(k) \in Seq({k} \X (1 .. WordLen)) /\ IsOf(Word(k), k)
<1>. DEFINE w == Word(k)
            B == {k} \X (1 .. WordLen)
<1>1. w = [i \in 1 .. WordLen |-> <<k, i>>] /\ \A i \in 1 .. WordLen : <<k, i>> \in B
  BY DEF Word
<1>. HIDE DEF w, B
<1>2. w \in Seq(B) /\ Len(w) = WordLen /\ \A i \in 1 .. WordLen : w[i] = <<k, i>>
  BY <1>1, LengthsAssumed
<1>. QED  BY <1>2 DEF IsOf, w, B

LEMMA OfIsWord ==
    ASSUME NEW S, NEW u \in Seq(S), NEW k, IsOf(u, k)
    PROVE  u = Word(k)
<1>. DEFINE B == {k} \X (1 .. WordLen)
            w == Word(k)
<1>1. w \in Seq(B) /\ IsOf(w, k)
  BY WordIsOf
<1>2. \A i \in 1 .. WordLen : <<k, i>> \in B
  OBVIOUS
<1>. HIDE DEF B, w
<1>3. Len(w) = WordLen /\ Len(u) = WordLen /\ \A i \in 1 .. WordLen : u[i] = w[i] /\ u[i] \in B
  BY <1>1, <1>2, Zenon DEF IsOf
<1>4. u \in Seq(B)
  <2>1. u \in [1 .. WordLen -> B]
    <3>1. u = [i \in 1 .. WordLen |-> u[i]]
      BY <1>3, LenProperties
    <3>. QED  BY <1>3, <3>1, Zenon
  <2>. QED  BY <2>1, LengthsAssumed
<1>5. u = w
  <2>1. Len(u) = Len(w) /\ \A i \in 1 .. Len(u) : u[i] = w[i]
    BY <1>3, Zenon
  <2>. QED  BY <1>1, <1>4, <2>1, SeqEqual, Zenon
<1>. QED  BY <1>5 DEF w

(* The bytes r are m values, of the samples that follow the first a of p.  *)
OfSamples(r, p, a, m) ==
    /\ Len(r) = m * WordLen
    /\ \A j \in 1 .. m, i \in 1 .. WordLen : r[At(j, i)] = <<p[a + j], i>>

(* A value is taken from the front ... *)
LEMMA SampleTaken ==
    ASSUME NEW S, NEW r \in Seq(S), NEW p, NEW a \in Nat, NEW m \in Nat \ {0}, OfSamples(r, p, a, m)
    PROVE  /\ SubSeq(r, 1, WordLen) = Word(p[a + 1])
           /\ OfSamples(SubSeq(r, WordLen + 1, Len(r)), p, a + 1, m - 1)
<1>1. /\ (m - 1) * WordLen = m * WordLen - WordLen /\ (m - 1) * WordLen \in Nat
      /\ Len(r) = m * WordLen /\ Len(r) \in Nat
  BY LengthsAssumed, SMT DEF OfSamples
<1>2. WordLen \in 0 .. Len(r) /\ Len(r) - WordLen = (m - 1) * WordLen
  BY <1>1, LengthsAssumed
<1>. DEFINE t == SubSeq(r, WordLen + 1, Len(r))
<1>3. /\ Len(t) = (m - 1) * WordLen
      /\ \A x \in 1 .. (m - 1) * WordLen : t[x] = r[WordLen + x]
  BY <1>2, RestIs
<1>. HIDE DEF t
<1>4. ASSUME NEW j \in 1 .. m - 1, NEW i \in 1 .. WordLen
      PROVE  t[At(j, i)] = <<p[(a + 1) + j], i>>
  <2>1. At(j, i) \in 1 .. (m - 1) * WordLen /\ At(j + 1, i) = WordLen + At(j, i)
    <3>1. m - 1 \in Nat
      OBVIOUS
    <3>. QED  BY <3>1, AtIs
  <2>2. j + 1 \in 1 .. m /\ a + (j + 1) = (a + 1) + j
    OBVIOUS
  <2>3. r[At(j + 1, i)] = <<p[a + (j + 1)], i>>
    BY <2>2 DEF OfSamples
  <2>. QED  BY <1>3, <2>1, <2>2, <2>3
<1>5. OfSamples(t, p, a + 1, m - 1)
  BY <1>3, <1>4 DEF OfSamples
<1>6. SubSeq(r, 1, WordLen) = Word(p[a + 1])
  <2>. DEFINE h == SubSeq(r, 1, WordLen)
  <2>1. \A i \in 1 .. WordLen : r[i] = <<p[a + 1], i>>
    <3>1. \A i \in 1 .. WordLen : At(1, i) = i
      BY AtIs
    <3>2. 1 \in 1 .. m
      OBVIOUS
    <3>. QED  BY <3>1, <3>2 DEF OfSamples
  <2>2. h \in Seq(S) /\ Len(h) = WordLen /\ \A i \in 1 .. WordLen : h[i] = r[i]
    <3>1. \A i \in 1 .. WordLen : r[i] \in S
      <4>1. \A i \in 1 .. Len(r) : r[i] \in S
        BY ElementOfSeq
      <4>2. \A i \in 1 .. WordLen : i \in 1 .. Len(r)
        BY <1>2, LengthsAssumed
      <4>. QED  BY <4>1, <4>2
    <3>2. /\ SubSeq(r, 1, WordLen) \in Seq(S)
          /\ Len(SubSeq(r, 1, WordLen)) = IF 1 <= WordLen THEN WordLen - 1 + 1 ELSE 0
          /\ \A i \in 1 .. WordLen - 1 + 1 : SubSeq(r, 1, WordLen)[i] = r[1 + i - 1]
      BY <3>1, LengthsAssumed, SubSeqProperties
    <3>3. WordLen - 1 + 1 = WordLen /\ 1 <= WordLen /\ \A i \in 1 .. WordLen : 1 + i - 1 = i
      BY LengthsAssumed
    <3>. QED  BY <3>2, <3>3
  <2>. HIDE DEF h
  <2>3. IsOf(h, p[a + 1])
    BY <2>1, <2>2, Zenon DEF IsOf
  <2>4. h = Word(p[a + 1])
    BY <2>2, <2>3, OfIsWord
  <2>. QED  BY <2>4 DEF h
<1>. QED  BY <1>5, <1>6 DEF t

(* ... and another put behind the others. *)
LEMMA SamplePut ==
    ASSUME NEW S, NEW r \in Seq(S), NEW p, NEW a \in Nat, NEW m \in Nat, OfSamples(r, p, a, m),
           NEW u \in Seq(S), IsOf(u, p[a + (m + 1)])
    PROVE  OfSamples(r \o u, p, a, m + 1)
<1>1. m * WordLen \in Nat /\ (m + 1) * WordLen = m * WordLen + WordLen /\ Len(r) = m * WordLen
  BY LengthsAssumed, SMT DEF OfSamples
<1>2. /\ Len(r \o u) = Len(r) + WordLen
      /\ \A x \in 1 .. Len(r) : (r \o u)[x] = r[x]
      /\ \A i \in 1 .. WordLen : (r \o u)[Len(r) + i] = u[i]
  <2>1. /\ Len(r \o u) = Len(r) + Len(u)
        /\ \A x \in 1 .. Len(r) : (r \o u)[x] = r[x]
        /\ \A i \in 1 .. Len(u) : (r \o u)[Len(r) + i] = u[i]
    BY JoinIs
  <2>. QED  BY <2>1 DEF IsOf
<1>3. ASSUME NEW j \in 1 .. m + 1, NEW i \in 1 .. WordLen
      PROVE  (r \o u)[At(j, i)] = <<p[a + j], i>>
  <2>1. CASE j \in 1 .. m
    <3>1. At(j, i) \in 1 .. Len(r)
      BY <1>1, <2>1, AtIs
    <3>. QED  BY <1>2, <2>1, <3>1 DEF OfSamples
  <2>2. CASE j = m + 1
    <3>1. At(m + 1, i) = Len(r) + i
      BY <1>1, AtIs
    <3>2. (r \o u)[At(m + 1, i)] = <<p[a + (m + 1)], i>>
      BY <1>2, <3>1 DEF IsOf
    <3>. QED  BY <2>2, <3>2, Zenon
  <2>3. j \in 1 .. m \/ j = m + 1
    OBVIOUS
  <2>. QED  BY <2>1, <2>2, <2>3, Zenon
<1>. QED  BY <1>1, <1>2, <1>3 DEF OfSamples

LEMMA SamplesShift ==
    ASSUME NEW r, NEW T, NEW p \in Seq(T), NEW a \in Nat, NEW m \in Nat,
           OfSamples(r, p, a + 1, m), a + 1 + m <= Len(p)
    PROVE  OfSamples(r, Tail(p), a, m)
<1>1. \A j \in 1 .. m : a + j \in 1 .. Len(p) - 1 /\ (a + 1) + j = (a + j) + 1
  BY LenProperties
<1>2. p # <<>> /\ \A x \in 1 .. Len(p) - 1 : Tail(p)[x] = p[x + 1]
  <2>1. Len(p) \in Nat /\ Len(p) > 0
    BY LenProperties
  <2>2. p # <<>>
    BY <2>1
  <2>. QED  BY <2>2, HeadTailProperties
<1>3. \A j \in 1 .. m : Tail(p)[a + j] = p[(a + 1) + j]
  BY <1>1, <1>2
<1>. QED  BY <1>3 DEF OfSamples

LEMMA SamplesGrow ==
    ASSUME NEW r, NEW T, NEW p \in Seq(T), NEW k \in T, NEW a \in Nat, NEW m \in Nat,
           OfSamples(r, p, a, m), a + m <= Len(p)
    PROVE  OfSamples(r, Append(p, k), a, m)
<1>1. \A j \in 1 .. m : a + j \in 1 .. Len(p)
  BY LenProperties
<1>2. \A x \in 1 .. Len(p) : Append(p, k)[x] = p[x]
  BY AppendProperties
<1>3. \A j \in 1 .. m : Append(p, k)[a + j] = p[a + j]
  BY <1>1, <1>2
<1>. QED  BY <1>3 DEF OfSamples

(* Value j of a tunnel that holds m of them. *)
LEMMA ChunkIs ==
    ASSUME NEW S, NEW r \in Seq(S), NEW m \in Nat, Len(r) = m * WordLen, NEW j \in 1 .. m
    PROVE  LET c == SubSeq(r, (j - 1) * WordLen + 1, j * WordLen)
           IN  /\ c \in Seq(S) /\ Len(c) = WordLen
               /\ \A i \in 1 .. WordLen : c[i] = r[At(j, i)]
<1>1. /\ (j - 1) * WordLen \in Nat /\ (j - 1) * WordLen + WordLen = j * WordLen
      /\ j * WordLen \in Nat /\ j * WordLen <= m * WordLen /\ m * WordLen \in Nat
  BY LengthsAssumed, SMT
<1>2. PICK f \in Nat, l \in Nat : /\ f = (j - 1) * WordLen /\ l = j * WordLen /\ l = f + WordLen
                                  /\ l <= Len(r)
  BY <1>1 DEF At
<1>3. f + 1 \in Int /\ l \in Int /\ \A i \in f + 1 .. l : r[i] \in S
  <2>1. \A i \in 1 .. Len(r) : r[i] \in S
    BY ElementOfSeq
  <2>2. \A i \in f + 1 .. l : i \in 1 .. Len(r)
    BY <1>2, LenProperties
  <2>. QED  BY <2>1, <2>2
<1>4. /\ SubSeq(r, f + 1, l) \in Seq(S)
      /\ Len(SubSeq(r, f + 1, l)) = IF f + 1 <= l THEN l - (f + 1) + 1 ELSE 0
      /\ \A i \in 1 .. l - (f + 1) + 1 : SubSeq(r, f + 1, l)[i] = r[(f + 1) + i - 1]
  BY <1>3, SubSeqProperties
<1>5. /\ (IF f + 1 <= l THEN l - (f + 1) + 1 ELSE 0) = WordLen /\ l - (f + 1) + 1 = WordLen
      /\ \A i \in 1 .. WordLen : (f + 1) + i - 1 = f + i
  BY <1>2, LengthsAssumed
<1>6. ASSUME NEW i \in 1 .. WordLen PROVE SubSeq(r, f + 1, l)[i] = r[At(j, i)]
  <2>1. SubSeq(r, f + 1, l)[i] = r[(f + 1) + i - 1]
    BY <1>4, <1>5
  <2>2. (f + 1) + i - 1 = At(j, i)
    BY <1>2 DEF At
  <2>. QED  BY <2>1, <2>2, Zenon
<1>. QED  BY <1>2, <1>4, <1>5, <1>6

LEMMA ThreeJoined ==
    ASSUME NEW S, NEW x \in Seq(S), NEW y \in Seq(S), NEW z \in Seq(S)
    PROVE  /\ x \o y \o z \in Seq(S) /\ Len(x \o y \o z) = Len(x) + Len(y) + Len(z)
           /\ \A i \in 1 .. Len(x) : (x \o y \o z)[i] = x[i]
           /\ \A i \in 1 .. Len(y) : (x \o y \o z)[Len(x) + i] = y[i]
           /\ \A i \in 1 .. Len(z) : (x \o y \o z)[Len(x) + Len(y) + i] = z[i]
<1>1. Len(x) \in Nat /\ Len(y) \in Nat /\ Len(z) \in Nat
  BY LenProperties
<1>2. PICK q \in Seq(S) :
        /\ q = x \o y /\ Len(q) = Len(x) + Len(y)
        /\ \A i \in 1 .. Len(x) : q[i] = x[i]
        /\ \A i \in 1 .. Len(y) : q[Len(x) + i] = y[i]
  <2>1. /\ x \o y \in Seq(S) /\ Len(x \o y) = Len(x) + Len(y)
        /\ \A i \in 1 .. Len(x) : (x \o y)[i] = x[i]
        /\ \A i \in 1 .. Len(y) : (x \o y)[Len(x) + i] = y[i]
    BY JoinIs
  <2>. QED  BY <2>1, Zenon
<1>3. /\ q \o z \in Seq(S) /\ Len(q \o z) = Len(q) + Len(z)
      /\ \A i \in 1 .. Len(q) : (q \o z)[i] = q[i]
      /\ \A i \in 1 .. Len(z) : (q \o z)[Len(q) + i] = z[i]
  BY JoinIs
<1>4. /\ \A i \in 1 .. Len(x) : i \in 1 .. Len(q)
      /\ \A i \in 1 .. Len(y) : Len(x) + i \in 1 .. Len(q)
  BY <1>1, <1>2
<1>. QED  BY <1>2, <1>3, <1>4

(* Tunnel s holds the samples of p but for the one in front that has been  *)
(* read from it and the last one that is not yet written to it.            *)
InHand(s) == IF ReadThisRound(s) THEN 1 ELSE 0
ToCome(s) == IF ToBeWritten(s) THEN 1 ELSE 0

Row(s, p) ==
    /\ \E m \in Nat : Len(p) = InHand(s) + m + ToCome(s) /\ OfSamples(ring[s], p, InHand(s), m)
    /\ ReadThisRound(s) => seen[s] = Word(p[1])
    /\ ToBeWritten(s) => p[Len(p)] = line

Aligned == \A s \in Sensors : {"relay", "runner"} \subseteq files[s] /\ wp[s] % WordLen = 0

Numbered == Seq(0 .. MaxSamples)
Abreast(p) == p \in Numbered /\ \A s \in Sensors : Row(s, p)

(* What is in step is so by one row of samples, ...                        *)
LEMMA PendingRow ==
    ASSUME LinkInv, InStep, NEW s \in Sensors
    PROVE  Pending(s) \in Numbered /\ Row(s, Pending(s))
<1>. DEFINE T == 0 .. MaxSamples
            m == Len(ring[s]) \div WordLen
            x == IF ReadThisRound(s) THEN <<SampleOf(seen[s])>> ELSE <<>>
            y == [j \in 1 .. Len(ring[s]) \div WordLen |-> SampleOf(Chunk(s, j))]
            z == IF ToBeWritten(s) THEN <<line>> ELSE <<>>
            p == Pending(s)
<1>1. p = x \o y \o z
  BY DEF Pending
<1>2. ring[s] \in Seq(Ids) /\ Len(ring[s]) \in Nat
  BY DEF LinkInv, TunnelInv
<1>3. m \in Nat /\ Len(ring[s]) = m * WordLen
  <2>1. Len(ring[s]) % WordLen = 0
    BY DEF InStep
  <2>. QED  BY <1>2, <2>1, WholesDivide
<1>4. \A k \in T : SampleOf(Word(k)) = k
  <2>1. T \subseteq Nat
    BY SensorAssumption
  <2>2. \A k \in Nat : Word(k)[1] = <<k, 1>>
    BY WordTyped
  <2>. HIDE DEF T
  <2>. QED  BY <2>1, <2>2 DEF SampleOf
<1>5. ASSUME NEW j \in 1 .. m
      PROVE  /\ SampleOf(Chunk(s, j)) \in T
             /\ \A i \in 1 .. WordLen : ring[s][At(j, i)] = <<SampleOf(Chunk(s, j)), i>>
  <2>1. PICK k \in T : Chunk(s, j) = Word(k)
    BY DEF InStep, Whole
  <2>2. \A i \in 1 .. WordLen : Chunk(s, j)[i] = ring[s][At(j, i)]
    BY <1>2, <1>3, ChunkIs DEF Chunk
  <2>3. \A i \in 1 .. WordLen : Word(k)[i] = <<k, i>>
    BY WordIsOf DEF IsOf
  <2>4. SampleOf(Chunk(s, j)) = k
    BY <1>4, <2>1
  <2>. QED  BY <2>1, <2>2, <2>3, <2>4, Zenon
<1>6. ReadThisRound(s) => SampleOf(seen[s]) \in T /\ seen[s] = Word(SampleOf(seen[s]))
  <2>1. ReadThisRound(s) => \E k \in T : seen[s] = Word(k)
    BY Zenon DEF InStep, Whole
  <2>. QED  BY <1>4, <2>1, Zenon
<1>7. line \in T
  <2>1. line \in 0 .. Len(log)
    BY Zenon DEF LinkInv, RelayTypes
  <2>2. Len(log) \in Nat /\ Len(log) <= MaxSamples /\ MaxSamples \in Nat
    BY SensorAssumption DEF LinkInv, ServerInv, ServerTypes
  <2>. QED  BY <2>1, <2>2
<1>. HIDE DEF T, m
<1>8. x \in Seq(T) /\ Len(x) = InHand(s) /\ (ReadThisRound(s) => x[1] = SampleOf(seen[s]))
  <2>1. CASE ReadThisRound(s)
    BY <1>6, <2>1 DEF InHand
  <2>2. CASE ~ReadThisRound(s)
    BY <2>2 DEF InHand
  <2>. QED  BY <2>1, <2>2
<1>9. y \in Seq(T) /\ Len(y) = m /\ \A j \in 1 .. m : y[j] = SampleOf(Chunk(s, j))
  <2>1. y = [j \in 1 .. m |-> SampleOf(Chunk(s, j))] /\ \A j \in 1 .. m : SampleOf(Chunk(s, j)) \in T
    BY <1>5 DEF m
  <2>. HIDE DEF y
  <2>. QED  BY <1>3, <2>1
<1>10. z \in Seq(T) /\ Len(z) = ToCome(s) /\ (ToBeWritten(s) => z[1] = line)
  <2>1. CASE ToBeWritten(s)
    BY <1>7, <2>1 DEF ToCome
  <2>2. CASE ~ToBeWritten(s)
    BY <2>2 DEF ToCome
  <2>. QED  BY <2>1, <2>2
<1>. HIDE DEF x, y, z, p
<1>11. /\ x \o y \o z \in Seq(T) /\ Len(x \o y \o z) = Len(x) + Len(y) + Len(z)
       /\ \A i \in 1 .. Len(x) : (x \o y \o z)[i] = x[i]
       /\ \A i \in 1 .. Len(y) : (x \o y \o z)[Len(x) + i] = y[i]
       /\ \A i \in 1 .. Len(z) : (x \o y \o z)[Len(x) + Len(y) + i] = z[i]
  <2>1. x \in Seq(T) /\ y \in Seq(T) /\ z \in Seq(T)
    BY <1>8, <1>9, <1>10, Zenon
  <2>. QED  BY <2>1, ThreeJoined
<1>12. InHand(s) \in {0, 1} /\ ToCome(s) \in {0, 1} /\ (ReadThisRound(s) <=> InHand(s) = 1)
       /\ (ToBeWritten(s) <=> ToCome(s) = 1)
  BY DEF InHand, ToCome
<1>13. p \in Seq(T) /\ Len(p) = InHand(s) + m + ToCome(s)
  BY <1>1, <1>8, <1>9, <1>10, <1>11
<1>14. OfSamples(ring[s], p, InHand(s), m)
  <2>1. \A j \in 1 .. m : p[InHand(s) + j] = SampleOf(Chunk(s, j))
    BY <1>1, <1>8, <1>9, <1>11
  <2>. QED  BY <1>3, <1>5, <2>1 DEF OfSamples
<1>15. ReadThisRound(s) => p[1] = SampleOf(seen[s])
  BY <1>1, <1>8, <1>11, <1>12
<1>16. ToBeWritten(s) => p[Len(p)] = line
  <2>1. ToCome(s) = 1 => Len(p) = InHand(s) + m + 1 /\ 1 \in 1 .. ToCome(s)
    BY <1>13
  <2>. QED  BY <1>1, <1>8, <1>9, <1>10, <1>11, <1>12, <2>1
<1>17. Row(s, p)
  <2>1. ReadThisRound(s) => seen[s] = Word(p[1])
    BY <1>6, <1>15, Zenon
  <2>. QED  BY <1>3, <1>13, <1>14, <1>16, <2>1, Zenon DEF Row
<1>. QED  BY <1>13, <1>17 DEF T, p, Numbered

LEMMA StepIsAbreast ==
    ASSUME LinkInv, InStep
    PROVE  Aligned /\ \E p : Abreast(p)
<1>1. \A s \in Sensors : Pending(s) = Pending("sr04")
  BY DEF InStep, Sensors
<1>2. \A s \in Sensors : Pending(s) \in Numbered /\ Row(s, Pending(s))
  BY PendingRow
<1>3. "sr04" \in Sensors
  BY DEF Sensors
<1>4. Abreast(Pending("sr04"))
  BY <1>1, <1>2, <1>3, Zenon DEF Abreast
<1>5. Aligned
  BY DEF InStep, Aligned
<1>. QED  BY <1>4, <1>5

(* ... and what one row describes is in step.                              *)
LEMMA RowPending ==
    ASSUME LinkInv, NEW p \in Numbered, NEW s \in Sensors, Row(s, p)
    PROVE  /\ Pending(s) = p
           /\ Len(ring[s]) % WordLen = 0
           /\ \A j \in 1 .. Len(ring[s]) \div WordLen : Whole(Chunk(s, j))
           /\ ReadThisRound(s) => Whole(seen[s])
<1>. DEFINE T == 0 .. MaxSamples
            x == IF ReadThisRound(s) THEN <<SampleOf(seen[s])>> ELSE <<>>
            y == [j \in 1 .. Len(ring[s]) \div WordLen |-> SampleOf(Chunk(s, j))]
            z == IF ToBeWritten(s) THEN <<line>> ELSE <<>>
            q == x \o y \o z
<1>1. Pending(s) = q
  BY DEF Pending
<1>2. PICK m \in Nat : Len(p) = InHand(s) + m + ToCome(s) /\ OfSamples(ring[s], p, InHand(s), m)
  BY DEF Row
<1>3. ring[s] \in Seq(Ids) /\ Len(ring[s]) = m * WordLen
  BY <1>2 DEF LinkInv, TunnelInv, OfSamples
<1>4. Len(ring[s]) % WordLen = 0 /\ Len(ring[s]) \div WordLen = m
  BY <1>3, WholesAre
<1>5. InHand(s) \in {0, 1} /\ ToCome(s) \in {0, 1} /\ (ReadThisRound(s) <=> InHand(s) = 1)
      /\ (ToBeWritten(s) <=> ToCome(s) = 1)
  BY DEF InHand, ToCome
<1>6. p \in Seq(T) /\ \A i \in 1 .. Len(p) : p[i] \in T
  BY ElementOfSeq DEF Numbered
<1>7. \A k \in T : SampleOf(Word(k)) = k
  <2>1. T \subseteq Nat
    BY SensorAssumption
  <2>2. \A k \in Nat : Word(k)[1] = <<k, 1>>
    BY WordTyped
  <2>. HIDE DEF T
  <2>. QED  BY <2>1, <2>2 DEF SampleOf
<1>. HIDE DEF T
<1>8. ASSUME NEW j \in 1 .. m
      PROVE  p[InHand(s) + j] \in T /\ Chunk(s, j) = Word(p[InHand(s) + j])
  <2>. DEFINE c == Chunk(s, j)
  <2>1. InHand(s) + j \in 1 .. Len(p)
    BY <1>2, <1>5
  <2>2. c \in Seq(Ids) /\ Len(c) = WordLen /\ \A i \in 1 .. WordLen : c[i] = ring[s][At(j, i)]
    BY <1>3, ChunkIs DEF Chunk
  <2>. HIDE DEF c
  <2>3. IsOf(c, p[InHand(s) + j])
    BY <1>2, <2>2, Zenon DEF OfSamples, IsOf
  <2>4. c = Word(p[InHand(s) + j])
    BY <2>2, <2>3, OfIsWord
  <2>. QED  BY <1>6, <2>1, <2>4 DEF c
<1>9. ReadThisRound(s) => p[1] \in T /\ seen[s] = Word(p[1])
  <2>1. ReadThisRound(s) => 1 \in 1 .. Len(p)
    BY <1>2, <1>5
  <2>2. ReadThisRound(s) => seen[s] = Word(p[1])
    BY Zenon DEF Row
  <2>. QED  BY <1>6, <2>1, <2>2, Zenon
<1>10. ToBeWritten(s) => p[Len(p)] \in T /\ p[Len(p)] = line
  <2>1. ToBeWritten(s) => Len(p) \in 1 .. Len(p)
    BY <1>2, <1>5
  <2>2. ToBeWritten(s) => p[Len(p)] = line
    BY Zenon DEF Row
  <2>. QED  BY <1>6, <2>1, <2>2, Zenon
<1>11. x \in Seq(T) /\ Len(x) = InHand(s) /\ (ReadThisRound(s) => x[1] = p[1])
  <2>1. CASE ReadThisRound(s)
    <3>1. SampleOf(seen[s]) = p[1] /\ p[1] \in T
      BY <1>7, <1>9, <2>1, Zenon
    <3>. QED  BY <2>1, <3>1 DEF InHand
  <2>2. CASE ~ReadThisRound(s)
    BY <2>2 DEF InHand
  <2>. QED  BY <2>1, <2>2
<1>12. y \in Seq(T) /\ Len(y) = m /\ \A j \in 1 .. m : y[j] = p[InHand(s) + j]
  <2>1. \A j \in 1 .. m : SampleOf(Chunk(s, j)) = p[InHand(s) + j] /\ p[InHand(s) + j] \in T
    BY <1>7, <1>8, Zenon
  <2>2. y = [j \in 1 .. m |-> SampleOf(Chunk(s, j))]
    BY <1>4
  <2>. HIDE DEF y
  <2>. QED  BY <2>1, <2>2
<1>13. z \in Seq(T) /\ Len(z) = ToCome(s) /\ (ToBeWritten(s) => z[1] = line)
  <2>1. CASE ToBeWritten(s)
    BY <1>10, <2>1 DEF ToCome
  <2>2. CASE ~ToBeWritten(s)
    BY <2>2 DEF ToCome
  <2>. QED  BY <2>1, <2>2
<1>. HIDE DEF x, y, z
<1>14. /\ q \in Seq(T) /\ Len(q) = Len(x) + Len(y) + Len(z)
       /\ \A i \in 1 .. Len(x) : q[i] = x[i]
       /\ \A i \in 1 .. Len(y) : q[Len(x) + i] = y[i]
       /\ \A i \in 1 .. Len(z) : q[Len(x) + Len(y) + i] = z[i]
  <2>1. x \in Seq(T) /\ y \in Seq(T) /\ z \in Seq(T)
    BY <1>11, <1>12, <1>13, Zenon
  <2>. QED  BY <2>1, ThreeJoined
<1>. HIDE DEF q
<1>15. Len(q) = Len(p)
  BY <1>2, <1>11, <1>12, <1>13, <1>14
<1>16. ASSUME NEW i \in 1 .. Len(p) PROVE q[i] = p[i]
  <2>1. \/ i \in 1 .. InHand(s)
        \/ \E j \in 1 .. m : i = InHand(s) + j
        \/ ToCome(s) = 1 /\ i = InHand(s) + m + 1
    <3>1. CASE i <= InHand(s)
      BY <1>5, <3>1
    <3>2. CASE i > InHand(s) /\ i <= InHand(s) + m
      <4>1. i - InHand(s) \in 1 .. m /\ i = InHand(s) + (i - InHand(s))
        BY <1>5, <3>2
      <4>. QED  BY <4>1
    <3>3. CASE i > InHand(s) + m
      BY <1>2, <1>5, <3>3
    <3>. QED  BY <1>5, <3>1, <3>2, <3>3
  <2>2. CASE i \in 1 .. InHand(s)
    <3>1. i = 1 /\ ReadThisRound(s) /\ 1 \in 1 .. Len(x)
      BY <1>5, <1>11, <2>2
    <3>. QED  BY <1>11, <1>14, <3>1
  <2>3. ASSUME NEW j \in 1 .. m, i = InHand(s) + j PROVE q[i] = p[i]
    BY <1>11, <1>12, <1>14, <2>3
  <2>4. CASE ToCome(s) = 1 /\ i = InHand(s) + m + 1
    <3>1. 1 \in 1 .. Len(z) /\ i = Len(x) + Len(y) + 1 /\ i = Len(p)
      BY <1>2, <1>5, <1>11, <1>12, <1>13, <2>4
    <3>2. q[i] = z[1] /\ z[1] = line /\ p[Len(p)] = line
      BY <1>5, <1>10, <1>13, <1>14, <2>4, <3>1
    <3>. QED  BY <3>1, <3>2, Zenon
  <2>. QED  BY <2>1, <2>2, <2>3, <2>4
<1>17. q = p
  BY <1>6, <1>14, <1>15, <1>16, SeqEqual
<1>18. \A j \in 1 .. m : Whole(Chunk(s, j))
  BY <1>8, Zenon DEF Whole, T
<1>19. ReadThisRound(s) => Whole(seen[s])
  BY <1>9, Zenon DEF Whole, T
<1>. QED  BY <1>1, <1>4, <1>17, <1>18, <1>19

LEMMA AbreastIsStep ==
    ASSUME LinkInv, Aligned, NEW p, Abreast(p)
    PROVE  InStep
<1>1. p \in Numbered /\ \A s \in Sensors : Row(s, p)
  BY DEF Abreast
<1>2. \A s \in Sensors :
        /\ Pending(s) = p /\ Len(ring[s]) % WordLen = 0
        /\ \A j \in 1 .. Len(ring[s]) \div WordLen : Whole(Chunk(s, j))
        /\ ReadThisRound(s) => Whole(seen[s])
  BY <1>1, RowPending
<1>3. "sr04" \in Sensors /\ "left" \in Sensors /\ "right" \in Sensors
  BY DEF Sensors
<1>. QED  BY <1>2, <1>3, Zenon DEF InStep, Aligned

InHandIs == \A s \in Sensors : InHand(s) \in {0, 1} /\ (ReadThisRound(s) <=> InHand(s) = 1)
ToComeIs == \A s \in Sensors : ToCome(s) \in {0, 1} /\ (ToBeWritten(s) <=> ToCome(s) = 1)

LEMMA ShareIs == InHandIs /\ ToComeIs
BY DEF InHandIs, ToComeIs, InHand, ToCome

(* A tunnel nobody touches.                                                *)
LEMMA RowStays ==
    ASSUME NEW s \in Sensors, NEW p, Row(s, p), ring'[s] = ring[s], seen'[s] = seen[s],
           ReadThisRound(s)' <=> ReadThisRound(s), ToBeWritten(s)' <=> ToBeWritten(s),
           ToBeWritten(s) => line' = line
    PROVE  Row(s, p)'
<1>1. InHand(s)' = InHand(s) /\ ToCome(s)' = ToCome(s)
  BY Zenon DEF InHand, ToCome
<1>. QED  BY <1>1, Zenon DEF Row

LEMMA AbreastStays ==
    ASSUME NEW p, Abreast(p), UNCHANGED <<ring, seen, line>>,
           relay' = relay \/ (relay \notin Sensors /\ relay' \notin Sensors),
           runner' = runner \/ {runner, runner'} \cap {"left", "right"} = {}
    PROVE  Abreast(p)'
<1>1. ASSUME NEW s \in Sensors PROVE Row(s, p)'
  <2>1. ReadThisRound(s)' <=> ReadThisRound(s)
    BY DEF ReadThisRound
  <2>2. ToBeWritten(s)' <=> ToBeWritten(s)
    BY DEF ToBeWritten
  <2>. QED  BY <2>1, <2>2, RowStays, Zenon DEF Abreast
<1>. QED  BY <1>1, Zenon DEF Abreast

(* A line received is one more sample for all three.                       *)
LEMMA ReceivesAbreast ==
    ASSUME NEW p, Abreast(p), UNCHANGED <<ring, seen, runner>>,
           relay = "receive", relay' = "sr04", NEW k \in 0 .. MaxSamples, line' = k
    PROVE  Abreast(Append(p, k))'
<1>. DEFINE q == Append(p, k)
<1>1. p \in Numbered /\ Len(p) \in Nat
  BY LenProperties DEF Abreast, Numbered
<1>2. /\ q \in Numbered /\ Len(q) = Len(p) + 1 /\ q[Len(p) + 1] = k
      /\ \A i \in 1 .. Len(p) : q[i] = p[i]
  BY <1>1, AppendProperties DEF Numbered
<1>3. ASSUME NEW s \in Sensors PROVE Row(s, q)'
  <2>1. InHand(s)' = InHand(s) /\ (ReadThisRound(s)' <=> ReadThisRound(s))
    BY Zenon DEF ReadThisRound, InHand
  <2>2. ~ToBeWritten(s) /\ ToBeWritten(s)'
    BY DEF ToBeWritten, Sensors, Node
  <2>3. ToCome(s) = 0 /\ ToCome(s)' = 1
    BY <2>2, Zenon DEF ToCome
  <2>4. InHand(s) \in {0, 1} /\ (ReadThisRound(s) <=> InHand(s) = 1)
    BY ShareIs DEF InHandIs
  <2>5. PICK m \in Nat : Len(p) = InHand(s) + m + ToCome(s) /\ OfSamples(ring[s], p, InHand(s), m)
    BY DEF Abreast, Row
  <2>6. OfSamples(ring[s], q, InHand(s), m)
    <3>1. InHand(s) \in Nat /\ InHand(s) + m <= Len(p)
      BY <2>3, <2>4, <2>5
    <3>2. p \in Seq(0 .. MaxSamples)
      BY <1>1 DEF Numbered
    <3>. QED  BY <2>5, <3>1, <3>2, SamplesGrow
  <2>. HIDE DEF q
  <2>7. Len(q) = InHand(s) + m + 1
    BY <1>2, <2>3, <2>4, <2>5
  <2>8. ReadThisRound(s) => seen[s] = Word(q[1])
    <3>1. ReadThisRound(s) => seen[s] = Word(p[1])
      BY Zenon DEF Abreast, Row
    <3>2. ReadThisRound(s) => 1 \in 1 .. Len(p)
      BY <1>1, <2>3, <2>4, <2>5
    <3>. QED  BY <1>2, <3>1, <3>2, Zenon
  <2>9. q[Len(q)] = line'
    BY <1>2
  <2>10. (\E n \in Nat : Len(q) = InHand(s)' + n + ToCome(s)' /\ OfSamples(ring'[s], q, InHand(s)', n))
    BY <2>1, <2>3, <2>6, <2>7, Zenon
  <2>. QED  BY <2>1, <2>8, <2>9, <2>10, Zenon DEF Row
<1>. HIDE DEF q
<1>4. Abreast(q)'
  BY <1>2, <1>3, Zenon DEF Abreast
<1>. QED  BY <1>4 DEF q

(* A write of all of the value moves the relay's sample into the tunnel.   *)
LEMMA WritesAbreast ==
    ASSUME LinkInv, UseInv, Aligned, NEW p, Abreast(p), RelayWrites, ~ShortWrite
    PROVE  Aligned' /\ Abreast(p)'
<1>0. PICK u : u = Node(relay)
  OBVIOUS
<1>1. /\ relay \in Sensors /\ u \in Sensors /\ relay' = After(relay) /\ relay' # relay
      /\ UNCHANGED <<files, seen, runner>>
      /\ line' = IF relay' = "receive" THEN 0 ELSE line
  <2>1. /\ relay \in Sensors /\ relay' = After(relay) /\ UNCHANGED <<files, seen, runner>>
        /\ line' = IF relay' = "receive" THEN 0 ELSE line
    BY Zenon DEF RelayWrites, runnerVars
  <2>2. u \in Sensors
    BY <1>0, <2>1, NodeIsSensor
  <2>3. relay' # relay
    BY <2>1 DEF After, Sensors
  <2>. QED  BY <2>1, <2>2, <2>3
<1>2. \A s \in Sensors : /\ ToBeWritten(s)' <=> ToBeWritten(s) /\ s # u
                         /\ ToBeWritten(s)' => line' = line
  BY <1>0, <1>1 DEF ToBeWritten, Node, After, Sensors
<1>3. ToBeWritten(u)
  BY <1>0, <1>1 DEF ToBeWritten, Node, Sensors
<1>4. /\ Room(u) > 0 /\ ring' = [ring EXCEPT ![u] = @ \o Fitting(u)]
      /\ wp' = [wp EXCEPT ![u] = (@ + Len(Fitting(u))) % RingBytes]
  BY <1>0, <1>1, Zenon DEF Aligned, RelayWrites
<1>5. /\ ring'[u] = ring[u] \o Fitting(u) /\ \A s \in Sensors \ {u} : ring'[s] = ring[s]
      /\ wp'[u] = (wp[u] + Len(Fitting(u))) % RingBytes /\ \A s \in Sensors \ {u} : wp'[s] = wp[s]
  <2>1. DOMAIN ring = Sensors /\ DOMAIN wp = Sensors
    BY DEF LinkInv, TunnelInv
  <2>. QED  BY <1>1, <1>4, <2>1, Zenon
<1>6. PICK n \in 1 .. WordLen :
        /\ Fitting(u) \in Seq(Sent) /\ Len(Fitting(u)) = n
        /\ \A i \in 1 .. n : Fitting(u)[i] = <<line, i>>
  BY <1>1, <1>4, FittingIs
<1>7. ring[u] \in Seq(Sent) /\ Len(ring[u]) \in Nat
  BY <1>1, LenProperties DEF UseInv, HoldsSent
<1>8. Len(ring'[u]) = Len(ring[u]) + n
  <2>1. Len(ring[u] \o Fitting(u)) = Len(ring[u]) + Len(Fitting(u))
    BY <1>6, <1>7, JoinIs
  <2>. QED  BY <1>5, <1>6, <2>1
<1>9. n = WordLen
  <2>1. ring' # ring
    <3>1. Len(ring'[u]) # Len(ring[u])
      BY <1>7, <1>8
    <3>. QED  BY <3>1
  <2>2. ~(Len(ring'[u]) < Len(ring[u]) + WordLen)
    BY <1>0, <1>1, <2>1, Zenon DEF ShortWrite
  <2>. QED  BY <1>7, <1>8, <2>2, LengthsAssumed
<1>10. IsOf(Fitting(u), line)
  BY <1>6, <1>9 DEF IsOf
<1>11. Aligned'
  <2>1. wp[u] \in 0 .. RingBytes - 1 /\ wp[u] % WordLen = 0
    BY <1>1 DEF Aligned, LinkInv, TunnelInv
  <2>2. wp'[u] % WordLen = 0
    <3>1. wp[u] \in Nat /\ wp[u] < RingBytes
      BY <2>1, LengthsAssumed
    <3>2. ((wp[u] + WordLen) % RingBytes) % WordLen = 0
      BY <2>1, <3>1, WpStaysWhole
    <3>. QED  BY <1>5, <1>6, <1>9, <3>2
  <2>3. \A s \in Sensors : wp'[s] % WordLen = 0
    BY <1>5, <2>2 DEF Aligned
  <2>. QED  BY <1>1, <2>3 DEF Aligned
<1>12. ASSUME NEW s \in Sensors, s # u PROVE Row(s, p)'
  <2>1. ReadThisRound(s)' <=> ReadThisRound(s)
    BY <1>1, Zenon DEF ReadThisRound
  <2>2. ToBeWritten(s)' <=> ToBeWritten(s)
    BY <1>2, <1>12
  <2>3. ToBeWritten(s) => line' = line
    BY <1>2, <2>2
  <2>. QED  BY <1>1, <1>5, <1>12, <2>1, <2>2, <2>3, RowStays, Zenon DEF Abreast
<1>13. Row(u, p)'
  <2>1. InHand(u)' = InHand(u) /\ (ReadThisRound(u)' <=> ReadThisRound(u))
    BY <1>1, Zenon DEF ReadThisRound, InHand
  <2>2. ~ToBeWritten(u)' /\ ToCome(u)' = 0 /\ ToCome(u) = 1
    BY <1>1, <1>2, <1>3, Zenon DEF ToCome
  <2>3. PICK m \in Nat : Len(p) = InHand(u) + m + ToCome(u) /\ OfSamples(ring[u], p, InHand(u), m)
    BY <1>1 DEF Abreast, Row
  <2>4. InHand(u) \in {0, 1}
    BY <1>1, ShareIs DEF InHandIs
  <2>5. Len(p) = InHand(u) + (m + 1) + 0 /\ p[InHand(u) + (m + 1)] = line
    <3>1. Len(p) = InHand(u) + (m + 1)
      BY <2>2, <2>3, <2>4
    <3>2. p[Len(p)] = line
      BY <1>1, <1>3, Zenon DEF Abreast, Row
    <3>. QED  BY <2>4, <3>1, <3>2
  <2>6. OfSamples(ring'[u], p, InHand(u), m + 1)
    <3>1. IsOf(Fitting(u), p[InHand(u) + (m + 1)])
      BY <1>10, <2>5, Zenon
    <3>2. InHand(u) \in Nat
      BY <2>4
    <3>3. OfSamples(ring[u] \o Fitting(u), p, InHand(u), m + 1)
      BY <1>6, <1>7, <2>3, <3>1, <3>2, SamplePut
    <3>. QED  BY <1>5, <3>3, Zenon
  <2>7. m + 1 \in Nat
    OBVIOUS
  <2>8. \E x \in Nat : Len(p) = InHand(u)' + x + ToCome(u)' /\ OfSamples(ring'[u], p, InHand(u)', x)
    BY <2>1, <2>2, <2>5, <2>6, <2>7, Zenon
  <2>9. ReadThisRound(u)' => seen'[u] = Word(p[1])
    BY <1>1, <2>1, Zenon DEF Abreast, Row
  <2>. QED  BY <2>2, <2>8, <2>9, Zenon DEF Row
<1>14. \A s \in Sensors : Row(s, p)'
  BY <1>12, <1>13
<1>. QED  BY <1>11, <1>14, Zenon DEF Abreast

(* A read of a tunnel that begins with a whole value takes that value.     *)
LEMMA TakesWhole ==
    ASSUME LinkInv, UseInv, Aligned, NEW s \in Sensors, ring[s] # <<>>, Len(ring[s]) % WordLen = 0
    PROVE  Len(First(s)) = WordLen
<1>1. PICK n \in Nat : n = Len(ring[s]) /\ n % WordLen = 0 /\ n > 0 /\ n < RingBytes
  <2>1. ring[s] \in Seq(Ids) /\ Len(ring[s]) < RingBytes
    BY DEF LinkInv, TunnelInv
  <2>2. Len(ring[s]) \in Nat /\ Len(ring[s]) > 0
    BY <2>1
  <2>. QED  BY <2>1, <2>2
<1>2. WordLen <= n
  <2>1. PICK m \in Nat : n = m * WordLen
    BY <1>1, WholesDivide
  <2>2. m # 0
    BY <1>1, <2>1, LengthsAssumed
  <2>3. m * WordLen = (m - 1) * WordLen + WordLen /\ (m - 1) * WordLen >= 0
    BY <2>2, LengthsAssumed, SMT
  <2>. QED  BY <2>1, <2>3, LengthsAssumed
<1>3. wp[s] \in Nat /\ wp[s] < RingBytes /\ wp[s] % WordLen = 0
  <2>1. wp[s] \in 0 .. RingBytes - 1
    BY DEF LinkInv, TunnelInv
  <2>. QED  BY <2>1, LengthsAssumed DEF Aligned
<1>4. PICK x \in Nat : x = rp(s) /\ x < RingBytes /\ x % WordLen = 0
  <2>1. rp(s) = (wp[s] - n) % RingBytes
    BY <1>1 DEF rp
  <2>2. wp[s] - n \in Int
    BY <1>3
  <2>3. (wp[s] - n) % RingBytes \in 0 .. RingBytes - 1
    BY <2>2, Wraps
  <2>4. ((wp[s] - n) % RingBytes) % WordLen = 0
    BY <1>1, <1>3, RpIsWhole
  <2>. QED  BY <2>1, <2>3, <2>4, LengthsAssumed
<1>5. x + WordLen <= RingBytes
  BY <1>4, RoomForWhole
<1>6. Least(n, Least(WordLen, RingBytes - x)) = WordLen
  BY <1>1, <1>2, <1>4, <1>5, LengthsAssumed DEF Least
<1>7. First(s) = SubSeq(ring[s], 1, WordLen)
  BY <1>1, <1>4, <1>6, Zenon DEF First
<1>8. Len(SubSeq(ring[s], 1, WordLen)) = WordLen
  <2>1. ring[s] \in Seq(Ids)
    BY DEF LinkInv, TunnelInv
  <2>. QED  BY <1>1, <1>2, <2>1, LengthsAssumed
<1>. QED  BY <1>7, <1>8

LEMMA TakesSample ==
    ASSUME LinkInv, UseInv, Aligned, NEW p, Abreast(p),
           NEW s \in Sensors, Reads(s), ~ReadThisRound(s)
    PROVE  /\ \A v \in Sensors \ {s} : ring'[v] = ring[v] /\ seen'[v] = seen[v]
           /\ seen'[s] = Word(p[1]) /\ p[1] \in 1 .. MaxSamples
           /\ \E m \in Nat : Len(p) = 1 + m + ToCome(s) /\ OfSamples(ring'[s], p, 1, m)
<1>1. /\ \A v \in Sensors \ {s} : ring'[v] = ring[v] /\ seen'[v] = seen[v]
      /\ ring[s] # <<>>
      /\ seen'[s] = First(s) \o SubSeq(seen[s], Len(First(s)) + 1, WordLen)
      /\ ring'[s] = SubSeq(ring[s], Len(First(s)) + 1, Len(ring[s]))
  <2>1. "runner" \in files[s]
    BY DEF Aligned
  <2>. QED  BY <2>1, ReadsDoes, Zenon
<1>2. InHand(s) = 0 /\ ToCome(s) \in {0, 1}
  BY ShareIs DEF InHand, ToComeIs
<1>3. PICK m \in Nat : Len(p) = m + ToCome(s) /\ OfSamples(ring[s], p, 0, m)
  <2>1. PICK m \in Nat : Len(p) = InHand(s) + m + ToCome(s) /\ OfSamples(ring[s], p, InHand(s), m)
    BY DEF Abreast, Row
  <2>. QED  BY <1>2, <2>1
<1>4. /\ ring[s] \in Seq(Sent) /\ Len(ring[s]) \in Nat /\ Len(ring[s]) > 0
      /\ Len(ring[s]) = m * WordLen
  BY <1>1, <1>3 DEF UseInv, HoldsSent, OfSamples
<1>5. m \in Nat \ {0} /\ Len(ring[s]) % WordLen = 0
  <2>1. m # 0
    BY <1>4, LengthsAssumed
  <2>. QED  BY <1>4, <2>1, WholesAre
<1>6. Len(First(s)) = WordLen
  BY <1>1, <1>5, TakesWhole
<1>7. First(s) = SubSeq(ring[s], 1, WordLen) /\ First(s)[1] = ring[s][1]
  BY <1>1, <1>6, FirstIs
<1>8. /\ SubSeq(ring[s], 1, WordLen) = Word(p[0 + 1])
      /\ OfSamples(SubSeq(ring[s], WordLen + 1, Len(ring[s])), p, 0 + 1, m - 1)
  <2>1. 0 \in Nat
    OBVIOUS
  <2>. QED  BY <1>3, <1>4, <1>5, <2>1, SampleTaken
<1>9. First(s) = Word(p[1]) /\ OfSamples(ring'[s], p, 1, m - 1)
  BY <1>1, <1>6, <1>7, <1>8
<1>10. seen'[s] = First(s)
  <2>1. SubSeq(seen[s], WordLen + 1, WordLen) = <<>>
    BY LengthsAssumed, SubSeqEmpty
  <2>2. First(s) \in Seq(Ids)
    BY <1>1, FirstTyped
  <2>3. First(s) \o <<>> = First(s)
    BY <2>2, ConcatEmptySeq
  <2>. QED  BY <1>1, <1>6, <2>1, <2>3
<1>11. p[1] \in 1 .. MaxSamples
  <2>1. p \in Seq(0 .. MaxSamples) /\ 1 \in 1 .. Len(p)
    BY <1>2, <1>3, <1>5, LenProperties DEF Abreast, Numbered
  <2>2. p[1] \in 0 .. MaxSamples
    BY <2>1, ElementOfSeq
  <2>3. ring[s][1] \in Sent
    BY <1>4, ElementOfSeq
  <2>4. Word(p[1])[1] = <<p[1], 1>>
    <3>1. p[1] \in Nat
      BY <2>2, SensorAssumption
    <3>. QED  BY <3>1, WordTyped
  <2>5. p[1] # 0
    <3>1. <<p[1], 1>> \in Sent
      BY <1>7, <1>9, <2>3, <2>4, Zenon
    <3>. QED  BY <3>1 DEF Sent
  <2>. QED  BY <2>2, <2>5, SensorAssumption
<1>12. m - 1 \in Nat /\ Len(p) = 1 + (m - 1) + ToCome(s)
  BY <1>2, <1>3, <1>5
<1>. QED  BY <1>1, <1>9, <1>10, <1>11, <1>12

(* Reads of the distance and of the left value.                            *)
LEMMA ReadsAbreast ==
    ASSUME LinkInv, UseInv, Aligned, NEW p, Abreast(p), RunnerReadsSr04 \/ RunnerReadsLeft
    PROVE  Aligned' /\ Abreast(p)'
<1>1. PICK s \in Sensors :
        /\ Reads(s) /\ UNCHANGED <<relay, line, wp, files>>
        /\ \/ s = "sr04" /\ runner = "sr04" /\ runner' = "left"
           \/ s = "left" /\ runner = "left" /\ runner' = "right"
  BY Zenon DEF RunnerReadsSr04, RunnerReadsLeft, Sensors
<1>2. Aligned'
  BY <1>1, Zenon DEF Aligned
<1>3. /\ ~ReadThisRound(s) /\ ReadThisRound(s)'
      /\ \A v \in Sensors \ {s} : ReadThisRound(v)' <=> ReadThisRound(v)
  BY <1>1 DEF ReadThisRound
<1>4. \A v \in Sensors : ToBeWritten(v)' <=> ToBeWritten(v)
  BY <1>1, Zenon DEF ToBeWritten
<1>5. /\ \A v \in Sensors \ {s} : ring'[v] = ring[v] /\ seen'[v] = seen[v]
      /\ seen'[s] = Word(p[1])
      /\ \E m \in Nat : Len(p) = 1 + m + ToCome(s) /\ OfSamples(ring'[s], p, 1, m)
  BY <1>1, <1>3, TakesSample
<1>6. Row(s, p)'
  <2>1. InHand(s)' = 1 /\ ToCome(s)' = ToCome(s)
    BY <1>3, <1>4, Zenon DEF InHand, ToCome
  <2>2. ToBeWritten(s)' => p[Len(p)] = line'
    BY <1>1, <1>4, Zenon DEF Abreast, Row
  <2>. QED  BY <1>5, <2>1, <2>2, Zenon DEF Row
<1>7. ASSUME NEW v \in Sensors, v # s PROVE Row(v, p)'
  BY <1>1, <1>3, <1>4, <1>5, <1>7, RowStays, Zenon DEF Abreast
<1>. QED  BY <1>2, <1>6, <1>7, Zenon DEF Abreast

(* A round's last read completes a sample, and all three tunnels are       *)
(* behind it.                                                              *)
LEMMA DecidesAbreast ==
    ASSUME LinkInv, UseInv, Aligned, NEW p, Abreast(p), RunnerDecides
    PROVE  /\ Aligned' /\ \E q : Abreast(q)'
           /\ \E k \in 1 .. MaxSamples : \A s \in Sensors : basis'[s] = Word(k)
<1>. DEFINE q == Tail(p)
<1>1. /\ Reads("right") /\ UNCHANGED <<relay, line, wp, files>>
      /\ runner = "right" /\ runner' = "command" /\ basis' = seen'
  BY Zenon DEF RunnerDecides
<1>2. Aligned'
  BY <1>1, Zenon DEF Aligned
<1>3. /\ ~ReadThisRound("right") /\ \A s \in Sensors : ~ReadThisRound(s)'
      /\ \A s \in Sensors \ {"right"} : ReadThisRound(s)
  BY <1>1 DEF ReadThisRound, Sensors
<1>4. \A s \in Sensors : ToBeWritten(s)' <=> ToBeWritten(s)
  BY <1>1, Zenon DEF ToBeWritten
<1>5. "right" \in Sensors
  BY DEF Sensors
<1>6. /\ \A s \in Sensors \ {"right"} : ring'[s] = ring[s] /\ seen'[s] = seen[s]
      /\ seen'["right"] = Word(p[1]) /\ p[1] \in 1 .. MaxSamples
      /\ \E m \in Nat : Len(p) = 1 + m + ToCome("right") /\ OfSamples(ring'["right"], p, 1, m)
  BY <1>1, <1>3, <1>5, TakesSample
<1>7. \A s \in Sensors : seen'[s] = Word(p[1])
  <2>1. \A s \in Sensors \ {"right"} : seen[s] = Word(p[1])
    BY <1>3, Zenon DEF Abreast, Row
  <2>. QED  BY <1>6, <2>1, Zenon
<1>8. \A s \in Sensors :
        \E m \in Nat : Len(p) = 1 + m + ToCome(s) /\ OfSamples(ring'[s], p, 1, m)
  <2>1. \A s \in Sensors \ {"right"} : InHand(s) = 1
    BY <1>3, Zenon DEF InHand
  <2>2. \A s \in Sensors \ {"right"} :
          \E m \in Nat : Len(p) = 1 + m + ToCome(s) /\ OfSamples(ring[s], p, 1, m)
    BY <2>1, Zenon DEF Abreast, Row
  <2>. QED  BY <1>6, <2>2, Zenon
<1>9. p \in Seq(0 .. MaxSamples) /\ Len(p) \in Nat
  BY LenProperties DEF Abreast, Numbered
<1>10. Len(p) >= 1
  <2>1. PICK m \in Nat : Len(p) = 1 + m + ToCome("right")
    BY <1>6
  <2>2. ToCome("right") \in {0, 1}
    BY <1>5, ShareIs DEF ToComeIs
  <2>. QED  BY <2>1, <2>2
<1>11. /\ q \in Seq(0 .. MaxSamples) /\ Len(q) = Len(p) - 1
       /\ \A x \in 1 .. Len(p) - 1 : q[x] = p[x + 1]
  <2>1. p # <<>>
    BY <1>10
  <2>. QED  BY <1>9, <2>1, HeadTailProperties
<1>12. ASSUME NEW s \in Sensors PROVE Row(s, q)'
  <2>1. PICK m \in Nat : Len(p) = 1 + m + ToCome(s) /\ OfSamples(ring'[s], p, 1, m)
    BY <1>8
  <2>2. ToCome(s) \in {0, 1} /\ (ToBeWritten(s) <=> ToCome(s) = 1)
    BY ShareIs DEF ToComeIs
  <2>3. InHand(s)' = 0 /\ ToCome(s)' = ToCome(s)
    BY <1>3, <1>4, Zenon DEF InHand, ToCome
  <2>4. OfSamples(ring'[s], q, 0, m)
    <3>1. OfSamples(ring'[s], p, 0 + 1, m) /\ 0 + 1 + m <= Len(p) /\ 0 \in Nat
      BY <2>1, <2>2
    <3>. QED  BY <1>9, <3>1, SamplesShift
  <2>. HIDE DEF q
  <2>5. Len(q) = 0 + m + ToCome(s)
    BY <1>11, <2>1, <2>2
  <2>6. ToBeWritten(s) => q[Len(q)] = line
    <3>1. ToBeWritten(s) => p[Len(p)] = line
      BY Zenon DEF Abreast, Row
    <3>2. ToBeWritten(s) => Len(q) \in 1 .. Len(p) - 1 /\ Len(q) + 1 = Len(p)
      BY <1>9, <1>11, <2>1, <2>2, <2>5
    <3>. QED  BY <1>11, <3>1, <3>2, Zenon
  <2>7. ToBeWritten(s)' => q[Len(q)] = line'
    BY <1>1, <1>4, <2>6, Zenon
  <2>8. \E x \in Nat : Len(q) = InHand(s)' + x + ToCome(s)' /\ OfSamples(ring'[s], q, InHand(s)', x)
    BY <2>3, <2>4, <2>5, Zenon
  <2>. QED  BY <1>3, <2>7, <2>8, Zenon DEF Row
<1>. HIDE DEF q
<1>13. Abreast(q)'
  BY <1>11, <1>12, Zenon DEF Abreast, Numbered
<1>14. \A s \in Sensors : basis'[s] = Word(p[1])
  BY <1>1, <1>7, Zenon
<1>. QED  BY <1>2, <1>6, <1>13, <1>14

(* An open is of a device its program has not open.                        *)
LEMMA OpensUnopened ==
    ASSUME LinkInv, UseInv, RelayOpensAll \/ RunnerOpensAll
    PROVE  ~Aligned
<1>1. CASE RelayOpensAll
  <2>1. PICK v \in Sensors : \/ v = "sr04" /\ relay = "open sr04"
                             \/ v = "left" /\ relay = "open left"
                             \/ v = "right" /\ relay = "open right"
    BY <1>1, Zenon DEF RelayOpensAll, RelayOpens, Sensors
  <2>2. Node(v) \in RelayAhead
    BY <2>1, NodeIsSensor DEF RelayAhead, Node, Sensors
  <2>3. Node(v) \in Sensors /\ "relay" \notin files[Node(v)]
    BY <2>2, NodeIsSensor DEF UseInv, OpensAhead
  <2>. QED  BY <2>3 DEF Aligned
<1>2. CASE RunnerOpensAll
  <2>1. PICK v \in Sensors : \/ v = "sr04" /\ runner = "open sr04"
                             \/ v = "left" /\ runner = "open left"
                             \/ v = "right" /\ runner = "open right"
    BY <1>2, Zenon DEF RunnerOpensAll, RunnerOpens, Sensors
  <2>2. v \in RunnerAhead
    BY <2>1 DEF RunnerAhead, Sensors
  <2>3. "runner" \notin files[v]
    BY <2>2 DEF UseInv, OpensAhead
  <2>. QED  BY <2>3 DEF Aligned
<1>. QED  BY <1>1, <1>2

Rows == Aligned /\ \E p : Abreast(p)

(* A program that ends closes what it had open.                            *)
LEMMA EndsCloseFiles ==
    ASSUME LinkInv, Aligned, NEW c \in {"relay", "runner"}, Exits(c)
    PROVE  files' # files
<1>1. PICK s : s \in Sensors
  BY DEF Sensors
<1>2. c \in files[s] /\ c \notin files'[s]
  BY <1>1 DEF Aligned, Exits
<1>. QED  BY <1>2

LEMMA RowsKept ==
    ASSUME LinkInv, UseInv, Rows, [Next]_vars
    PROVE  Rows' \/ files' # files \/ ShortWrite
<1>1. PICK p : Abreast(p)
  BY DEF Rows
<1>2. Aligned
  BY DEF Rows
<1>3. ASSUME Abreast(p)', UNCHANGED <<wp, files>> PROVE Rows'
  <2>1. Aligned'
    BY <1>2, <1>3, Zenon DEF Aligned
  <2>. QED  BY <1>3, <2>1, Zenon DEF Rows
<1>4. CASE Server \/ ServerDies \/ Turns \/ UNCHANGED vars \/ RelaySleeps \/ RelayDials
  <2>1. /\ UNCHANGED <<ring, wp, files, seen, line>>
        /\ relay' = relay \/ (relay = "dial" /\ relay' = "open sr04")
        /\ \/ runner' = runner
           \/ runner \notin {"left", "right"} /\ runner' \notin {"left", "right"}
    BY <1>4, TurnsDo, Zenon DEF Server, ServerSends, ServerDies, RelaySleeps, RelayDials,
                                vars, tunnelVars, relayVars, runnerVars
  <2>2. /\ relay' = relay \/ (relay \notin Sensors /\ relay' \notin Sensors)
        /\ runner' = runner \/ {runner, runner'} \cap {"left", "right"} = {}
    BY <2>1 DEF Sensors
  <2>3. Abreast(p)'
    BY <1>1, <2>1, <2>2, AbreastStays, Zenon
  <2>. QED  BY <1>3, <2>1, <2>3
<1>5. ASSUME NEW n \in 1 .. SocketUnits, RelayReceives(n) PROVE Rows'
  <2>1. /\ UNCHANGED <<ring, wp, files, seen, runner>> /\ relay = "receive"
        /\ n \in DOMAIN stream
        /\ \/ relay' = "sr04" /\ line' = stream[1][1]
           \/ relay' = relay /\ line' = line
    BY <1>5, Zenon DEF RelayReceives, tunnelVars, runnerVars
  <2>2. CASE relay' = relay /\ line' = line
    <3>1. Abreast(p)'
      BY <1>1, <2>1, <2>2, AbreastStays, Zenon
    <3>. QED  BY <1>3, <2>1, <3>1
  <2>3. CASE relay' = "sr04" /\ line' = stream[1][1]
    <3>1. PICK k \in 0 .. MaxSamples : line' = k
      <4>1. stream \in Seq(Units) /\ n \in 1 .. Len(stream)
        BY <2>1 DEF LinkInv, ServerInv
      <4>2. 1 \in 1 .. Len(stream)
        BY <4>1, LengthsAssumed
      <4>3. stream[1] \in Units
        BY <4>1, <4>2, ElementOfSeq
      <4>4. Len(log) \in Nat /\ Len(log) <= MaxSamples /\ MaxSamples \in Nat
        BY SensorAssumption DEF LinkInv, ServerInv, ServerTypes
      <4>5. stream[1][1] \in 0 .. MaxSamples
        BY <4>3, <4>4 DEF Units
      <4>. QED  BY <2>3, <4>5
    <3>2. Abreast(Append(p, k))'
      BY <1>1, <2>1, <2>3, <3>1, ReceivesAbreast, Zenon
    <3>3. Aligned'
      BY <1>2, <2>1, Zenon DEF Aligned
    <3>. QED  BY <3>2, <3>3, Zenon DEF Rows
  <2>. QED  BY <2>1, <2>2, <2>3
<1>6. CASE RelayWrites
  <2>1. CASE ShortWrite
    BY <2>1
  <2>2. CASE ~ShortWrite
    <3>1. Aligned' /\ Abreast(p)'
      BY <1>1, <1>2, <1>6, <2>2, WritesAbreast
    <3>. QED  BY <3>1, Zenon DEF Rows
  <2>. QED  BY <2>1, <2>2
<1>7. CASE RelayExits \/ RelayDies \/ RunnerDies
  <2>1. PICK c \in {"relay", "runner"} : Exits(c)
    BY <1>7, Zenon DEF RelayExits, RelayDies, RelayEnds, RunnerDies
  <2>. QED  BY <1>2, <2>1, EndsCloseFiles
<1>8. CASE RunnerReadsSr04 \/ RunnerReadsLeft
  <2>1. Aligned' /\ Abreast(p)'
    BY <1>1, <1>2, <1>8, ReadsAbreast
  <2>. QED  BY <2>1, Zenon DEF Rows
<1>9. CASE RunnerDecides
  <2>1. Aligned' /\ \E q : Abreast(q)'
    BY <1>1, <1>2, <1>9, DecidesAbreast
  <2>. QED  BY <2>1, Zenon DEF Rows
<1>10. CASE RelayOpensAll \/ RunnerOpensAll
  BY <1>2, <1>10, OpensUnopened
<1>. QED  BY <1>4, <1>5, <1>6, <1>7, <1>8, <1>9, <1>10, Zenon
             DEF Next, Relay, Runs, Turns

(* While the three tunnels are in step they stay so but for an open, a     *)
(* close or a write of part of a value, and every decision is made on one  *)
(* sample: for any samples, buffers, deaths and failing opens.             *)
THEOREM KeepsStep == Spec => StepLostOnlyByOpen
<1> DEFINE Kept == files' # files \/ ShortWrite
           OnOne == RunnerDecides => \E k \in 1 .. MaxSamples : \A s \in Sensors : basis'[s] = Word(k)
           A == InStep => (InStep' \/ Kept) /\ OnOne
<1>1. LinkInv /\ UseInv /\ [Next]_vars => UseInv'
  BY UseKeeps
<1>2. LinkInv /\ InStep => Rows
  BY StepIsAbreast DEF Rows
<1>3. LinkInv /\ Rows => InStep
  BY AbreastIsStep DEF Rows
<1>4. LinkInv /\ UseInv /\ Rows /\ [Next]_vars => Rows' \/ Kept
  BY RowsKept
<1>5. LinkInv /\ UseInv /\ Rows /\ [Next]_vars => OnOne
  BY DecidesAbreast DEF Rows
<1>6. [][A]_vars => StepLostOnlyByOpen
  <2>1. [A]_vars => [ InStep => /\ InStep' \/ files' # files \/ ShortWrite
                                /\ RunnerDecides => \E k \in 1 .. MaxSamples :
                                                       \A s \in Sensors : basis'[s] = Word(k) ]_vars
    OBVIOUS
  <2>. QED  BY <2>1, PTL DEF StepLostOnlyByOpen
<1>. HIDE DEF Kept, OnOne
<1>. QED  BY <1>1, <1>2, <1>3, <1>4, <1>5, <1>6, InitUse, LinkInvHolds, PTL DEF Spec
=============================================================================
