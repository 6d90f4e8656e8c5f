---------------------------- MODULE RabbitBusProofs ----------------------------
(***************************************************************************)
(* Proofs about RabbitBus, for any number of publishers, of retries and of *)
(* faults of the broker.                                                   *)
(***************************************************************************)
EXTENDS RabbitBus, FiniteSetTheorems, TLAPS

--------------------------------------------------------------------------------
(* What holds between any two steps, beside the properties themselves.     *)

(* Attempts are numbered as they begin; each but the first follows a       *)
(* closure, by the broker or by closeRabbitMQ.                             *)
Numbering ==
    /\ Begun = 1..Cardinality(Begun)
    /\ Cardinality(Begun) <= faults + (IF closer.at = "done" THEN 1 ELSE 0)
                                    + (IF connecting # None THEN 1 ELSE 0)

(* connecting is remembered for as long as its connection may be up.       *)
Remembered ==
    \A k \in Attempts : /\ stage[k] = "dial" \/ conn[k] = "up" => connecting = k
                        /\ conn[k] = "up" => stage[k] \notin {"none", "dial"}

(* What the users of the module have in hand between their awaits.         *)
Usage ==
    /\ channel # None => stage[channel] = "resolved"
    /\ \A p \in Publishers :
         /\ pub[p].at # "idle" => pub[p].on \in Attempts
         /\ pub[p].at \in {"ready", "sent", "true"} => stage[pub[p].on] = "resolved"
    /\ boot.at = "idle" => boot.tries = 0
    /\ boot.at = "sleep" => boot.tries < Retries
    /\ closer.at = "connection" => closer.on \in Attempts

(* As long as the broker refuses nothing and nobody shuts the bus down.    *)
Healthy ==
    faults = 0 /\ closer.at = "idle" =>
      /\ \A k \in Attempts :
           /\ stage[k] # "rejected"
           /\ stage[k] \in {"assert", "set", "resolved"} => chan[k] = "up"
      /\ \A p \in Publishers : pub[p].at # "false"

(* The inductive invariant of the connection manager: an attempt stays in  *)
(* `connecting' while it dials or its connection is up, users hold         *)
(* channels of attempts that resolved, and without faults no attempt is    *)
(* rejected (rabbitmq.js:26-60).                                           *)
BusIInv == BusTypeOK /\ Numbering /\ Remembered /\ Usage /\ Healthy

--------------------------------------------------------------------------------

LEMMA NotAnAttempt == None \notin Attempts /\ Attempts \subseteq Nat
  BY BusAssumption DEF Attempts

LEMMA FaultBounded ==
    ASSUME BusIInv, Fault
    PROVE  faults' \in 0..MaxFaults /\ faults' = faults + 1 /\ faults' # 0
  BY BusAssumption DEF BusIInv, BusTypeOK, Fault

(* The attempts that began can be counted.                                 *)
LEMMA BegunIsFinite == Cardinality(Begun) \in Nat
  <1>1. IsFiniteSet(Attempts)
    BY FS_Interval, BusAssumption DEF Attempts
  <1> QED BY <1>1, FS_Subset, FS_CardinalityType DEF Begun

(* The next number is one no attempt has, and is the last one once taken.  *)
LEMMA FreshIsNew ==
    ASSUME Begun = 1..Cardinality(Begun), Fresh \in Attempts,
           stage \in [Attempts -> Stages], stage' = [stage EXCEPT ![Fresh] = "dial"]
    PROVE  /\ stage[Fresh] = "none"
           /\ Begun' = 1..Cardinality(Begun')
           /\ Cardinality(Begun') = Cardinality(Begun) + 1
  <1> DEFINE c == Cardinality(Begun)
  <1>1. c \in Nat /\ Fresh = c + 1
    BY BegunIsFinite DEF Fresh
  <1>2. Fresh \notin Begun
    BY <1>1
  <1>3. stage[Fresh] = "none"
    BY <1>2 DEF Begun
  <1>4. Begun' = Begun \union {Fresh}
    BY DEF Begun
  <1>5. Begun' = 1..(c + 1)
    BY <1>1, <1>4
  <1>6. Cardinality(1..(c + 1)) = c + 1
    BY <1>1, FS_Interval
  <1> QED BY <1>3, <1>5, <1>6

(* A step that begins no attempt and keeps the started ones.               *)
LEMMA SameBegun ==
    ASSUME Numbering, faults \in Nat, faults' \in Nat, faults' >= faults,
           \A k \in Attempts : stage'[k] = "none" <=> stage[k] = "none",
           closer.at = "done" => closer'.at = "done",
           \/ connecting' = connecting
           \/ connecting # None /\ connecting' = None /\ faults' = faults + 1
           \/ connecting # None /\ connecting' = None
              /\ closer.at # "done" /\ closer'.at = "done"
    PROVE  Numbering'
  <1>1. Begun' = Begun
    BY DEF Begun
  <1>2. Cardinality(Begun) \in Nat
    BY BegunIsFinite
  <1> QED BY <1>1, <1>2 DEF Numbering

(* The two outcomes of connect(), and the attempt that a third one begins. *)
LEMMA ConnectOutcomes ==
    ASSUME BusIInv, NEW at \in {"ready", "connecting"}, NEW on \in Attempts, Connect(at, on)
    PROVE  \/ at = "ready" /\ on = channel /\ channel # None /\ UNCHANGED <<connecting, stage>>
           \/ at = "connecting" /\ on = connecting /\ UNCHANGED <<connecting, stage>>
           \/ /\ at = "connecting" /\ on = Fresh /\ stage[on] = "none"
              /\ channel = None /\ connecting = None
              /\ connecting' = on /\ stage' = [stage EXCEPT ![on] = "dial"]
  BY FreshIsNew DEF BusIInv, BusTypeOK, Numbering, Connect

(* connect() keeps the attempts in order, whoever calls it.                *)
LEMMA ConnectKeeps ==
    ASSUME BusIInv, NEW at \in {"ready", "connecting"}, NEW on \in Attempts, Connect(at, on),
           UNCHANGED <<connection, channel, conn, chan, closer, faults>>
    PROVE  /\ connecting' \in Attempts \union {None} /\ stage' \in [Attempts -> Stages]
           /\ Numbering' /\ Remembered'
           /\ \A k \in Attempts : stage[k] # "none" => stage'[k] = stage[k]
           /\ \A k \in Attempts : stage'[k] # stage[k] => stage'[k] = "dial"
           /\ at = "ready" => on = channel /\ channel # None
  <1> USE NotAnAttempt
  <1>0. /\ BusTypeOK /\ Numbering /\ Remembered /\ faults \in Nat
    BY DEF BusIInv, BusTypeOK
  <1>1. CASE UNCHANGED <<connecting, stage>>
    <2>1. Numbering'
      BY <1>0, <1>1, SameBegun
    <2>2. Remembered'
      BY <1>0, <1>1 DEF Remembered
    <2> QED BY <1>0, <1>1, <2>1, <2>2, ConnectOutcomes DEF BusTypeOK
  <1>2. CASE /\ at = "connecting" /\ on = Fresh /\ stage[on] = "none"
             /\ channel = None /\ connecting = None
             /\ connecting' = on /\ stage' = [stage EXCEPT ![on] = "dial"]
    <2>1. Begun' = 1..Cardinality(Begun') /\ Cardinality(Begun') = Cardinality(Begun) + 1
      BY <1>0, <1>2, FreshIsNew DEF Numbering, BusTypeOK
    <2>2. Numbering'
      BY <2>1, <1>0, <1>2, BegunIsFinite DEF Numbering
    <2>3. Remembered'
      BY <1>0, <1>2 DEF Remembered, BusTypeOK
    <2> QED BY <1>0, <1>2, <2>2, <2>3 DEF BusTypeOK, Stages
  <1> QED BY <1>1, <1>2, ConnectOutcomes

(* The initial state.                                                      *)
LEMMA InitBusIInv == Init => BusIInv
  <1> SUFFICES ASSUME Init PROVE BusIInv
    OBVIOUS
  <1>1. BusTypeOK
    BY BusAssumption DEF Init, BusTypeOK, Stages, Links
  <1>2. Numbering
    <2>1. Begun = {} /\ 1..0 = {}
      BY DEF Init, Begun
    <2>2. Cardinality(Begun) = 0
      BY <2>1, FS_EmptySet
    <2> QED BY <2>1, <2>2 DEF Init, Numbering
  <1>3. Remembered /\ Usage /\ Healthy
    BY DEF Init, Remembered, Usage, Healthy
  <1> QED BY <1>1, <1>2, <1>3 DEF BusIInv

(* The users keep what they have: a settled attempt stays settled.         *)
LEMMA KeepUsage ==
    ASSUME BusIInv, UNCHANGED <<pub, boot, closer>>,
           channel' = channel \/ channel' = None,
           \A k \in Attempts : stage[k] = "resolved" => stage'[k] = "resolved"
    PROVE  Usage'
  <1>1. BusTypeOK /\ Usage
    BY DEF BusIInv
  <1>2. channel # None => channel \in Attempts
    BY <1>1 DEF BusTypeOK
  <1>3. \A p \in Publishers : pub[p].at # "idle" => pub[p].on \in Attempts
    BY <1>1 DEF Usage
  <1> QED BY <1>1, <1>2, <1>3 DEF Usage

(* A step of one attempt, as it goes on or fails.                          *)
LEMMA AttemptBusIInv ==
    ASSUME BusIInv, NEW k \in Attempts, Attempt(k)
    PROVE  BusIInv'
  <1> USE NotAnAttempt
  <1>0. BusTypeOK /\ Numbering /\ Remembered /\ Usage /\ Healthy /\ faults \in Nat
    BY DEF BusIInv, BusTypeOK
  <1>1. CASE Dial(k)
    <2>1. /\ stage[k] = "dial" /\ stage' = [stage EXCEPT ![k] = "open"]
          /\ conn' = [conn EXCEPT ![k] = "up"]
          /\ UNCHANGED <<connection, channel, connecting, chan, pub, boot, closer, faults>>
      BY <1>1 DEF Dial, Advance, cached
    <2>2. BusTypeOK'
      BY <1>0, <2>1 DEF BusTypeOK, Stages, Links
    <2>3. Numbering'
      BY <1>0, <2>1, SameBegun DEF BusTypeOK
    <2>4. Remembered' /\ Healthy'
      BY <1>0, <2>1 DEF BusTypeOK, Remembered, Healthy
    <2>5. Usage'
      BY <1>0, <2>1, KeepUsage DEF BusTypeOK
    <2> QED BY <2>2, <2>3, <2>4, <2>5 DEF BusIInv
  <1>2. CASE OpenChannel(k)
    <2>1. /\ stage[k] = "open" /\ stage' = [stage EXCEPT ![k] = "assert"]
          /\ chan' = [chan EXCEPT ![k] = "up"]
          /\ UNCHANGED <<connection, channel, connecting, conn, pub, boot, closer, faults>>
      BY <1>2 DEF OpenChannel, Advance, cached
    <2>2. BusTypeOK'
      BY <1>0, <2>1 DEF BusTypeOK, Stages, Links
    <2>3. Numbering'
      BY <1>0, <2>1, SameBegun DEF BusTypeOK
    <2>4. Remembered' /\ Healthy'
      BY <1>0, <2>1 DEF BusTypeOK, Remembered, Healthy
    <2>5. Usage'
      BY <1>0, <2>1, KeepUsage DEF BusTypeOK
    <2> QED BY <2>2, <2>3, <2>4, <2>5 DEF BusIInv
  <1>3. CASE AssertExchange(k)
    <2>1. /\ stage[k] = "assert" /\ stage' = [stage EXCEPT ![k] = "set"]
          /\ UNCHANGED <<connection, channel, connecting, conn, chan, pub, boot, closer, faults>>
      BY <1>3 DEF AssertExchange, Advance, cached, links
    <2>2. BusTypeOK'
      BY <1>0, <2>1 DEF BusTypeOK, Stages
    <2>3. Numbering'
      BY <1>0, <2>1, SameBegun DEF BusTypeOK
    <2>4. Remembered' /\ Healthy'
      BY <1>0, <2>1 DEF BusTypeOK, Remembered, Healthy
    <2>5. Usage'
      BY <1>0, <2>1, KeepUsage DEF BusTypeOK
    <2> QED BY <2>2, <2>3, <2>4, <2>5 DEF BusIInv
  <1>4. CASE SetChannel(k)
    <2>1. /\ stage[k] = "set" /\ stage' = [stage EXCEPT ![k] = "resolved"]
          /\ connection' = k /\ channel' = k
          /\ UNCHANGED <<connecting, conn, chan, pub, boot, closer, faults>>
      BY <1>4 DEF SetChannel, Advance, links
    <2>2. BusTypeOK'
      BY <1>0, <2>1 DEF BusTypeOK, Stages
    <2>3. Numbering'
      BY <1>0, <2>1, SameBegun DEF BusTypeOK
    <2>4. Remembered' /\ Healthy'
      BY <1>0, <2>1 DEF BusTypeOK, Remembered, Healthy
    <2>5. Usage'
      BY <1>0, <2>1 DEF BusTypeOK, Usage
    <2> QED BY <2>2, <2>3, <2>4, <2>5 DEF BusIInv
  <1>5. CASE AttemptFails(k)
    <2>1. /\ stage[k] \in {"dial", "open", "assert"}
          /\ stage' = [stage EXCEPT ![k] = "rejected"]
          /\ chan' \in {chan, [chan EXCEPT ![k] = "down"]}
          /\ UNCHANGED <<connection, channel, connecting, conn, pub, boot, closer>>
          /\ faults' \in 0..MaxFaults /\ faults' = faults + 1 /\ faults' # 0
      BY <1>5, FaultBounded DEF AttemptFails, Advance, cached
    <2>2. BusTypeOK'
      BY <1>0, <2>1 DEF BusTypeOK, Stages, Links
    <2>3. Numbering'
      BY <1>0, <2>1, SameBegun DEF BusTypeOK
    <2>4. Remembered' /\ Healthy'
      BY <1>0, <2>1 DEF BusTypeOK, Remembered, Healthy
    <2>5. Usage'
      BY <1>0, <2>1, KeepUsage DEF BusTypeOK
    <2> QED BY <2>2, <2>3, <2>4, <2>5 DEF BusIInv
  <1> QED BY <1>1, <1>2, <1>3, <1>4, <1>5 DEF Attempt

(* A connection closes, by the broker or by closeRabbitMQ: it was the one  *)
(* remembered, and nothing is remembered after it.                         *)
LEMMA ClosedBusIInv ==
    ASSUME BusIInv, NEW k \in Attempts, conn[k] = "up", Closed(k),
           UNCHANGED <<pub, boot>>,
           \/ UNCHANGED closer /\ faults' = faults + 1 /\ faults' \in 0..MaxFaults
           \/ closer.at # "done" /\ closer' = [closer EXCEPT !.at = "done"] /\ UNCHANGED faults
    PROVE  BusIInv'
  <1> USE NotAnAttempt
  <1>0. BusTypeOK /\ Numbering /\ Remembered /\ Usage /\ Healthy /\ faults \in Nat
    BY DEF BusIInv, BusTypeOK
  <1>1. /\ conn' = [conn EXCEPT ![k] = "down"]
        /\ \E l \in {"down", chan[k]} : chan' = [chan EXCEPT ![k] = l]
        /\ connection' = None /\ channel' = None /\ connecting' = None
        /\ \/ stage' = stage
           \/ stage[k] \in {"open", "assert"} /\ stage' = [stage EXCEPT ![k] = "rejected"]
    BY <1>0 DEF Closed, BusTypeOK
  <1>2. /\ connecting = k /\ connecting # None
        /\ \A j \in Attempts : j # k => stage[j] # "dial" /\ conn[j] # "up"
    BY <1>0 DEF Remembered
  <1>3. closer' \in [at: {"idle", "channel", "connection", "done"}, on: Attempts \union {None}]
    BY <1>0 DEF BusTypeOK
  <1>4. closer'.at # "done" => UNCHANGED closer /\ faults' = faults + 1
    BY <1>0 DEF BusTypeOK
  <1>5. BusTypeOK'
    BY <1>0, <1>1, <1>3 DEF BusTypeOK, Stages, Links
  <1>6. Numbering'
    <2>1. closer' # closer => closer'.at = "done"
      BY <1>0 DEF BusTypeOK
    <2> QED BY <1>0, <1>1, <1>2, <2>1, SameBegun DEF BusTypeOK
  <1>7. Remembered'
    BY <1>0, <1>1, <1>2 DEF Remembered, BusTypeOK
  <1>8. Usage'
    <2>1. \A j \in Attempts : stage[j] = "resolved" => stage'[j] = "resolved"
      BY <1>0, <1>1 DEF BusTypeOK
    <2>2. closer'.at = "connection" => closer' = closer
      BY <1>4
    <2>3. \A p \in Publishers : pub[p].at # "idle" => pub[p].on \in Attempts
      BY <1>0 DEF Usage
    <2> QED BY <1>0, <1>1, <2>1, <2>2, <2>3 DEF Usage
  <1>9. Healthy'
    <2>1. ~(faults' = 0 /\ closer'.at = "idle")
      BY <1>0, <1>4
    <2> QED BY <2>1 DEF Healthy
  <1> QED BY <1>5, <1>6, <1>7, <1>8, <1>9 DEF BusIInv

(* A publisher moves.                                                      *)
LEMMA MoveBusIInv ==
    ASSUME BusIInv, NEW p \in Publishers, NEW label \in {"sent", "true", "false"},
           Move(p, label), pub[p].at # "idle",
           label # "false" => stage[pub[p].on] = "resolved",
           \/ UNCHANGED faults
           \/ faults' \in 0..MaxFaults /\ faults' = faults + 1,
           label = "false" => faults' # 0 \/ closer.at # "idle"
    PROVE  BusIInv'
  <1>0. BusTypeOK /\ Numbering /\ Remembered /\ Usage /\ Healthy /\ faults \in Nat
    BY DEF BusIInv, BusTypeOK
  <1>1. /\ pub' = [pub EXCEPT ![p] = [pub[p] EXCEPT !.at = label]]
        /\ UNCHANGED <<connection, channel, connecting, stage, conn, chan, boot, closer>>
    BY DEF Move, cached, links
  <1>2. pub[p] \in [at: {"idle", "ready", "connecting", "sent", "true", "false"},
                    on: Attempts \union {None}]
    BY <1>0 DEF BusTypeOK
  <1>3. /\ pub'[p].at = label /\ pub'[p].on = pub[p].on
        /\ pub'[p] \in [at: {"idle", "ready", "connecting", "sent", "true", "false"},
                        on: Attempts \union {None}]
        /\ \A q \in Publishers \ {p} : pub'[q] = pub[q]
    BY <1>0, <1>1, <1>2 DEF BusTypeOK
  <1>4. BusTypeOK'
    BY <1>0, <1>1, <1>3 DEF BusTypeOK
  <1>5. Numbering'
    BY <1>0, <1>1, SameBegun DEF BusTypeOK
  <1>6. Remembered'
    BY <1>0, <1>1 DEF Remembered
  <1>7. Usage'
    BY <1>0, <1>1, <1>3 DEF Usage
  <1>8. Healthy'
    BY <1>0, <1>1, <1>3 DEF Healthy
  <1> QED BY <1>4, <1>5, <1>6, <1>7, <1>8 DEF BusIInv

(* A call of connect() that someone goes on to await.                      *)
LEMMA AwaitBusIInv ==
    ASSUME BusIInv, NEW at \in {"ready", "connecting"}, NEW on \in Attempts, Connect(at, on),
           UNCHANGED <<connection, channel, links, closer, faults>>,
           \/ /\ UNCHANGED boot
              /\ \E p \in Publishers : /\ pub[p].at = "idle"
                                       /\ pub' = [pub EXCEPT ![p] = [at |-> at, on |-> on]]
           \/ /\ UNCHANGED pub
              /\ boot.at \in {"idle", "sleep"}
              /\ boot' = [at |-> at, tries |-> boot.tries + 1, on |-> on]
    PROVE  BusIInv'
  <1> USE NotAnAttempt
  <1>0. /\ BusTypeOK /\ Numbering /\ Remembered /\ Usage /\ Healthy /\ faults \in Nat
        /\ UNCHANGED <<connection, channel, conn, chan, closer, faults>>
    BY DEF BusIInv, BusTypeOK, links
  <1>1. /\ connecting' \in Attempts \union {None} /\ stage' \in [Attempts -> Stages]
        /\ Numbering' /\ Remembered'
        /\ \A k \in Attempts : stage[k] # "none" => stage'[k] = stage[k]
        /\ \A k \in Attempts : stage'[k] # stage[k] => stage'[k] = "dial"
        /\ at = "ready" => on = channel /\ channel # None
    BY <1>0, ConnectKeeps
  <1>2. channel # None => channel \in Attempts /\ stage'[channel] = "resolved"
    BY <1>0, <1>1 DEF Usage, BusTypeOK
  <1>3. CASE /\ UNCHANGED boot
             /\ \E p \in Publishers : /\ pub[p].at = "idle"
                                      /\ pub' = [pub EXCEPT ![p] = [at |-> at, on |-> on]]
    <2>1. PICK p \in Publishers : pub' = [pub EXCEPT ![p] = [at |-> at, on |-> on]]
      BY <1>3
    <2>2. /\ pub'[p].at = at /\ pub'[p].on = on
          /\ \A q \in Publishers \ {p} : pub'[q] = pub[q]
      BY <1>0, <2>1 DEF BusTypeOK
    <2>3. BusTypeOK'
      BY <1>0, <1>1, <1>3, <2>1 DEF BusTypeOK
    <2>4. Usage'
      <3>1. ASSUME NEW q \in Publishers
            PROVE  /\ pub'[q].at # "idle" => pub'[q].on \in Attempts
                   /\ pub'[q].at \in {"ready", "sent", "true"} =>
                        stage'[pub'[q].on] = "resolved"
        <4>1. CASE q = p
          BY <4>1, <1>1, <1>2, <2>2
        <4>2. CASE q # p
          <5>1. /\ pub[q].at # "idle" => pub[q].on \in Attempts
                /\ pub[q].at \in {"ready", "sent", "true"} => stage[pub[q].on] = "resolved"
            BY <1>0 DEF Usage
          <5>2. pub'[q] = pub[q]
            BY <4>2, <2>2
          <5> QED BY <5>1, <5>2, <1>1
        <4> QED BY <4>1, <4>2
      <3> QED BY <1>0, <1>2, <1>3, <3>1 DEF Usage
    <2>5. Healthy'
      BY <1>0, <1>1, <2>2 DEF Healthy
    <2> QED BY <1>1, <2>3, <2>4, <2>5 DEF BusIInv
  <1>4. CASE /\ UNCHANGED pub
             /\ boot.at \in {"idle", "sleep"}
             /\ boot' = [at |-> at, tries |-> boot.tries + 1, on |-> on]
    <2>1. boot.tries \in Nat /\ boot.tries < Retries
      BY <1>0, <1>4, BusAssumption DEF Usage, BusTypeOK
    <2>2. BusTypeOK'
      BY <1>0, <1>1, <1>4, <2>1, BusAssumption DEF BusTypeOK
    <2>3. Usage'
      BY <1>0, <1>1, <1>2, <1>4 DEF Usage
    <2>4. Healthy'
      BY <1>0, <1>1, <1>4 DEF Healthy
    <2> QED BY <1>1, <2>2, <2>3, <2>4 DEF BusIInv
  <1> QED BY <1>3, <1>4

(* The startup check's wait for an attempt is over.                        *)
LEMMA TryEndsBusIInv == ASSUME BusIInv, TryEnds PROVE BusIInv'
  <1>0. BusTypeOK /\ Numbering /\ Remembered /\ Usage /\ Healthy /\ faults \in Nat
    BY DEF BusIInv, BusTypeOK
  <1>1. PICK label \in {"true", "sleep", "failed"} :
          /\ boot' = [boot EXCEPT !.at = label]
          /\ label = "sleep" => boot.tries < Retries
    BY DEF TryEnds, Settle
  <1>2. UNCHANGED <<connection, channel, connecting, stage, conn, chan, pub, closer, faults>>
    BY DEF TryEnds, cached, links
  <1>3. /\ boot'.at = label /\ boot'.tries = boot.tries
        /\ boot' \in [at: {"idle", "ready", "connecting", "sleep", "true", "failed"},
                      tries: 0..Retries, on: Attempts \union {None}]
    BY <1>0, <1>1 DEF BusTypeOK
  <1>4. BusTypeOK'
    BY <1>0, <1>2, <1>3 DEF BusTypeOK
  <1>5. Numbering'
    BY <1>0, <1>2, SameBegun DEF BusTypeOK
  <1>6. Remembered' /\ Usage' /\ Healthy'
    BY <1>0, <1>1, <1>2, <1>3 DEF Remembered, Usage, Healthy
  <1> QED BY <1>4, <1>5, <1>6 DEF BusIInv

(* closeRabbitMQ() up to the answer to connection.close().                 *)
LEMMA CloserBusIInv ==
    ASSUME BusIInv, CloseChannel \/ ChannelClosed
    PROVE  BusIInv'
  <1> USE NotAnAttempt
  <1>0. BusTypeOK /\ Numbering /\ Remembered /\ Usage /\ Healthy /\ faults \in Nat
    BY DEF BusIInv, BusTypeOK
  <1>1. /\ UNCHANGED <<connecting, stage, conn, pub, boot, faults>>
        /\ closer.at \in {"idle", "channel"}
    BY DEF CloseChannel, ChannelClosed, links
  <1>2. /\ closer' \in [at: {"channel", "connection", "done"}, on: Attempts \union {None}]
        /\ closer'.at = "connection" => closer'.on \in Attempts
        /\ channel' \in {channel, None} /\ connection' \in {connection, None}
        /\ chan' \in [Attempts -> Links]
    <2>1. CASE HangUp
      <3>1. chan' \in [Attempts -> Links]
        BY <1>0, <2>1 DEF BusTypeOK, CloseChannel, ChannelClosed, HangUp, links, Links
      <3> QED BY <1>0, <2>1, <3>1 DEF HangUp, BusTypeOK
    <2>2. CASE ~HangUp
      <3>1. /\ closer' = [at |-> "channel", on |-> channel]
            /\ chan' = [chan EXCEPT ![channel] = "down"] /\ channel # None
            /\ UNCHANGED <<connection, channel>>
        BY <2>2 DEF CloseChannel, ChannelClosed
      <3> QED BY <1>0, <3>1 DEF BusTypeOK, Links
    <2> QED BY <2>1, <2>2
  <1>3. BusTypeOK'
    BY <1>0, <1>1, <1>2 DEF BusTypeOK
  <1>4. Numbering'
    BY <1>0, <1>1, <1>2, SameBegun DEF BusTypeOK
  <1>5. Remembered' /\ Healthy'
    BY <1>0, <1>1, <1>2 DEF Remembered, Healthy
  <1>6. Usage'
    BY <1>0, <1>1, <1>2 DEF Usage
  <1> QED BY <1>3, <1>4, <1>5, <1>6 DEF BusIInv

(* Every step keeps the invariant.                                         *)
LEMMA NextBusIInv == ASSUME BusIInv, [Next]_vars PROVE BusIInv'
  <1> USE NotAnAttempt
  <1>0. BusTypeOK /\ Numbering /\ Remembered /\ Usage /\ Healthy /\ faults \in Nat
    BY DEF BusIInv, BusTypeOK
  <1>1. ASSUME NEW k \in Attempts, Attempt(k) PROVE BusIInv'
    BY <1>1, AttemptBusIInv
  <1>2. ASSUME NEW k \in Attempts, ConnectionCloses(k) PROVE BusIInv'
    BY <1>2, FaultBounded, ClosedBusIInv DEF ConnectionCloses
  <1>3. ASSUME NEW k \in Attempts, ChannelFails(k) PROVE BusIInv'
    <2>1. /\ chan' = [chan EXCEPT ![k] = "down"]
          /\ UNCHANGED <<connection, channel, connecting, stage, conn, pub, boot, closer>>
          /\ faults' \in 0..MaxFaults /\ faults' = faults + 1 /\ faults' # 0
      BY <1>3, FaultBounded DEF ChannelFails, cached
    <2>2. BusTypeOK'
      BY <1>0, <2>1 DEF BusTypeOK, Links
    <2>3. Numbering'
      BY <1>0, <2>1, SameBegun DEF BusTypeOK
    <2>4. Remembered' /\ Healthy' /\ Usage'
      BY <1>0, <2>1 DEF Remembered, Healthy, Usage
    <2> QED BY <2>2, <2>3, <2>4 DEF BusIInv
  <1>4. ASSUME NEW p \in Publishers, Publish(p) PROVE BusIInv'
    BY <1>4, AwaitBusIInv DEF Publish
  <1>5. ASSUME NEW p \in Publishers, Send(p) PROVE BusIInv'
    <2>1. /\ pub[p].on \in Attempts /\ stage[pub[p].on] = "resolved"
          /\ pub[p].at # "idle" /\ UNCHANGED faults
      BY <1>0, <1>5 DEF Send, Usage
    <2>2. CASE chan[pub[p].on] = "up"
      BY <2>1, <2>2, <1>5, MoveBusIInv DEF Send
    <2>3. CASE chan[pub[p].on] # "up"
      <3>1. faults' # 0 \/ closer.at # "idle"
        BY <1>0, <2>1, <2>3 DEF Healthy
      <3> QED BY <2>1, <2>3, <3>1, <1>5, MoveBusIInv DEF Send
    <2> QED BY <2>2, <2>3
  <1>6. ASSUME NEW p \in Publishers, ConnectRejected(p) PROVE BusIInv'
    <2>1. pub[p].on \in Attempts /\ pub[p].at # "idle"
      BY <1>0, <1>6 DEF ConnectRejected, Usage
    <2>2. faults' # 0 \/ closer.at # "idle"
      BY <1>0, <1>6, <2>1 DEF ConnectRejected, Healthy
    <2> QED BY <2>1, <2>2, <1>6, MoveBusIInv DEF ConnectRejected
  <1>7. ASSUME NEW p \in Publishers, Confirmed(p) PROVE BusIInv'
    BY <1>0, <1>7, MoveBusIInv DEF Confirmed, Usage
  <1>8. ASSUME NEW p \in Publishers, NotConfirmed(p) PROVE BusIInv'
    <2>1. /\ pub[p].on \in Attempts /\ stage[pub[p].on] = "resolved" /\ pub[p].at # "idle"
      BY <1>0, <1>8 DEF NotConfirmed, Usage
    <2>2. CASE Fault
      BY <1>8, <2>1, <2>2, FaultBounded, MoveBusIInv DEF NotConfirmed
    <2>3. CASE chan[pub[p].on] = "down" /\ UNCHANGED faults
      <3>1. faults' # 0 \/ closer.at # "idle"
        BY <1>0, <2>1, <2>3 DEF Healthy
      <3> QED BY <1>8, <2>1, <2>3, <3>1, MoveBusIInv DEF NotConfirmed
    <2> QED BY <1>8, <2>2, <2>3 DEF NotConfirmed
  <1>9. CASE Try
    BY <1>9, AwaitBusIInv DEF Try
  <1>10. CASE TryEnds
    BY <1>10, TryEndsBusIInv
  <1>11. CASE CloseChannel \/ ChannelClosed
    BY <1>11, CloserBusIInv
  <1>12. CASE ConnectionClosed
    <2>1. closer.on \in Attempts
      BY <1>0, <1>12 DEF ConnectionClosed, Usage
    <2>2. closer.at # "done" /\ faults' = faults
      BY <1>12 DEF ConnectionClosed
    <2> QED BY <1>12, <2>1, <2>2, ClosedBusIInv DEF ConnectionClosed
  <1>13. CASE UNCHANGED vars
    <2>1. /\ UNCHANGED <<connection, channel, connecting, stage, conn, chan>>
          /\ UNCHANGED <<pub, boot, closer, faults>>
      BY <1>13 DEF vars, cached, links
    <2>2. Numbering'
      BY <1>0, <2>1, SameBegun DEF BusTypeOK
    <2>3. BusTypeOK' /\ Remembered' /\ Usage' /\ Healthy'
      BY <1>0, <2>1 DEF BusTypeOK, Remembered, Usage, Healthy
    <2> QED BY <2>2, <2>3 DEF BusIInv
  <1> QED
    BY <1>1, <1>2, <1>3, <1>4, <1>5, <1>6, <1>7, <1>8, <1>9, <1>10, <1>11, <1>12, <1>13
    DEF Next, Rest

(* The connection manager keeps its inductive invariant: an attempt is     *)
(* remembered while its connection may be up, and what its users hold is a *)
(* channel whose attempt is over (rabbitmq.js:26-60).                      *)
THEOREM BusInvariantHolds == Spec => []BusIInv
  <1> QED BY InitBusIInv, NextBusIInv, PTL DEF Spec

(* The process never has two connections, or dials while it has one        *)
(* (rabbitmq.js:26-42).                                                    *)
THEOREM ConnectionIsSingle == Spec => []OneConnection
  <1>1. BusIInv => OneConnection
    BY DEF BusIInv, Remembered, OneConnection
  <1> QED BY <1>1, BusInvariantHolds, PTL

(* No message is sent on a channel before the exchange was asserted        *)
(* through it (rabbitmq.js:49-59 and 100-115).                             *)
THEOREM ExchangeIsAsserted == Spec => []ExchangeBeforePublish
  <1>1. BusIInv => ExchangeBeforePublish
    BY DEF BusIInv, Usage, ExchangeBeforePublish
  <1> QED BY <1>1, BusInvariantHolds, PTL

(* A publish() never fails by the module's own doing: only after a refusal *)
(* or a closure by the broker, or a shutdown (rabbitmq.js:100-126).        *)
THEOREM HealthyPublishes == Spec => []HealthyBusPublishes
  <1>1. BusIInv => HealthyBusPublishes
    BY DEF BusIInv, Healthy, HealthyBusPublishes
  <1> QED BY <1>1, BusInvariantHolds, PTL

(* The model's numbers suffice: whenever connect() begins an attempt there *)
(* is a number left for it, so Attempts cuts no behaviour off.             *)
AttemptsSuffice == channel = None /\ connecting = None => Fresh \in Attempts

(* Every attempt but the first follows a closure, so the model never runs  *)
(* out of numbers for attempts and cuts no behaviour off                   *)
(* (rabbitmq.js:25-66).                                                    *)
THEOREM NumbersSuffice == Spec => []AttemptsSuffice
  <1>1. BusIInv => AttemptsSuffice
    BY BegunIsFinite, BusAssumption
    DEF BusIInv, BusTypeOK, Numbering, AttemptsSuffice, Fresh, Attempts
  <1> QED BY <1>1, BusInvariantHolds, PTL
================================================================================
