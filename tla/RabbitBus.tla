------------------------------ MODULE RabbitBus ------------------------------
(***************************************************************************)
(* rabbitmq.js: the module-level connection, channel and connecting, the   *)
(* callers of connect() - publishers, waitForRabbitMQ - and closeRabbitMQ. *)
(*                                                                         *)
(* An attempt is one evaluation of the async function in connect(), one    *)
(* step per await; it owns at most one connection and one channel.  The    *)
(* broker and amqplib are external: a call succeeds, is refused, or dies   *)
(* with its connection; a dead connection rejects what waits on it and     *)
(* emits "close" in one turn.                                              *)
(***************************************************************************)
EXTENDS Naturals, FiniteSets

CONSTANTS Publishers,
          Retries,        \* config.RABBIT.startupRetries
          MaxFaults,      \* bound on refusals and closures by the broker
          None

ASSUME BusAssumption == /\ Retries \in Nat \ {0} /\ MaxFaults \in Nat
                        /\ None \notin Nat

(* Each new attempt but the first follows a closure: the bound never bites.*)
Attempts == 1..(MaxFaults + 2)

VARIABLES connection, channel, connecting,   \* the module's variables, by attempt
          stage,     \* stage[k]: where attempt k is
          conn,      \* conn[k]: its connection
          chan,      \* chan[k]: its channel
          pub,       \* pub[p]: a publish() call and the attempt or channel it uses
          boot,      \* waitForRabbitMQ
          closer,    \* closeRabbitMQ
          faults

cached == <<connection, channel, connecting>>
links  == <<conn, chan>>
vars   == <<cached, stage, links, pub, boot, closer, faults>>

Stages == {"none", "dial", "open", "assert", "set", "resolved", "rejected"}
Links  == {"none", "up", "down"}

Init == /\ connection = None /\ channel = None /\ connecting = None
        /\ stage  = [k \in Attempts |-> "none"]
        /\ conn   = [k \in Attempts |-> "none"]
        /\ chan   = [k \in Attempts |-> "none"]
        /\ pub    = [p \in Publishers |-> [at |-> "idle", on |-> None]]
        /\ boot   = [at |-> "idle", tries |-> 0, on |-> None]
        /\ closer = [at |-> "idle", on |-> None]
        /\ faults = 0

Fault == faults < MaxFaults /\ faults' = faults + 1

Begun == {k \in Attempts : stage[k] # "none"}
Fresh == Cardinality(Begun) + 1

(* Mistake: the attempt in progress is not remembered.                     *)
ConnectUncached(at, on) ==
    IF channel # None
    THEN at = "ready" /\ on = channel /\ UNCHANGED <<connecting, stage>>
    ELSE /\ at = "connecting" /\ on = Fresh
         /\ connecting' = on /\ stage' = [stage EXCEPT ![on] = "dial"]

(* connect(): the channel, or the promise of the attempt to wait for.      *)
Connect(at, on) ==
    IF channel # None
    THEN at = "ready" /\ on = channel /\ UNCHANGED <<connecting, stage>>
    ELSE /\ at = "connecting"
         /\ IF connecting # None
            THEN on = connecting /\ UNCHANGED <<connecting, stage>>
            ELSE /\ on = Fresh
                 /\ connecting' = on /\ stage' = [stage EXCEPT ![on] = "dial"]

----------------------------------------------------------------------------
(* One attempt.                                                            *)

Advance(k, from, to) == stage[k] = from /\ stage' = [stage EXCEPT ![k] = to]

Dial(k) == /\ Advance(k, "dial", "open")
           /\ conn' = [conn EXCEPT ![k] = "up"]
           /\ UNCHANGED <<cached, chan, pub, boot, closer, faults>>

(* Mistake: the channel is published to the module when it is created.     *)
OpenChannelEarly(k) == /\ Advance(k, "open", "assert")
                       /\ chan' = [chan EXCEPT ![k] = "up"]
                       /\ channel' = k
                       /\ UNCHANGED <<connection, connecting, conn, pub, boot, closer, faults>>

OpenChannel(k) == /\ Advance(k, "open", "assert")
                  /\ chan' = [chan EXCEPT ![k] = "up"]
                  /\ UNCHANGED <<cached, conn, pub, boot, closer, faults>>

AssertExchange(k) == /\ Advance(k, "assert", "set")
                     /\ UNCHANGED <<cached, links, pub, boot, closer, faults>>

(* The continuation runs later than the reply: a close event may come      *)
(* between the two.                                                        *)
SetChannel(k) == /\ Advance(k, "set", "resolved")
                 /\ connection' = k /\ channel' = k
                 /\ UNCHANGED <<connecting, links, pub, boot, closer, faults>>

(* The dial fails; no channel is opened; or the exchange is refused, which *)
(* closes the channel and leaves the connection.  None resets connecting.  *)
AttemptFails(k) ==
    /\ Fault
    /\ \/ Advance(k, "dial", "rejected") /\ UNCHANGED chan
       \/ Advance(k, "open", "rejected") /\ UNCHANGED chan
       \/ Advance(k, "assert", "rejected") /\ chan' = [chan EXCEPT ![k] = "down"]
    /\ UNCHANGED <<cached, conn, pub, boot, closer>>

(* The "close" handler, and the rejection of what waits for a reply.       *)
Closed(k) ==
    /\ conn' = [conn EXCEPT ![k] = "down"]
    /\ chan' = [chan EXCEPT ![k] = IF @ = "up" THEN "down" ELSE @]
    /\ connection' = None /\ channel' = None /\ connecting' = None
    /\ stage' = [stage EXCEPT ![k] = IF @ \in {"open", "assert"} THEN "rejected" ELSE @]

ConnectionCloses(k) ==
    /\ Fault /\ conn[k] = "up"
    /\ Closed(k)
    /\ UNCHANGED <<pub, boot, closer>>

(* A channel-level error only logs: channel keeps the dead channel.        *)
ChannelFails(k) ==
    /\ Fault /\ stage[k] = "resolved" /\ chan[k] = "up"
    /\ chan' = [chan EXCEPT ![k] = "down"]
    /\ UNCHANGED <<cached, stage, conn, pub, boot, closer>>

----------------------------------------------------------------------------
(* publish().                                                              *)

Move(p, label) == /\ pub' = [pub EXCEPT ![p].at = label]
                  /\ UNCHANGED <<cached, stage, links, boot, closer>>

Publish(p) ==
    /\ pub[p].at = "idle"
    /\ \E at \in {"ready", "connecting"}, on \in Attempts :
         Connect(at, on) /\ pub' = [pub EXCEPT ![p] = [at |-> at, on |-> on]]
    /\ UNCHANGED <<connection, channel, links, boot, closer, faults>>

(* Mistake: connect() is not awaited.                                      *)
SendUnawaited(p) ==
    /\ pub[p].at \in {"ready", "connecting"}
    /\ Move(p, IF chan[pub[p].on] = "up" THEN "sent" ELSE "false")
    /\ UNCHANGED faults

(* await connect() is over; ch.publish throws on a closed channel.         *)
Send(p) ==
    /\ \/ pub[p].at = "ready"
       \/ pub[p].at = "connecting" /\ stage[pub[p].on] = "resolved"
    /\ Move(p, IF chan[pub[p].on] = "up" THEN "sent" ELSE "false")
    /\ UNCHANGED faults

ConnectRejected(p) ==
    /\ pub[p].at = "connecting" /\ stage[pub[p].on] = "rejected"
    /\ Move(p, "false") /\ UNCHANGED faults

Confirmed(p) ==
    pub[p].at = "sent" /\ chan[pub[p].on] = "up" /\ Move(p, "true") /\ UNCHANGED faults

(* A nack; or the channel dies first, and amqplib rejects or forgets it.   *)
NotConfirmed(p) ==
    /\ pub[p].at = "sent"
    /\ \/ Fault
       \/ chan[pub[p].on] = "down" /\ UNCHANGED faults
    /\ Move(p, "false")

----------------------------------------------------------------------------
(* waitForRabbitMQ() and closeRabbitMQ().                                  *)

(* The loop's next await connect().                                        *)
Try == /\ boot.at \in {"idle", "sleep"}
       /\ \E at \in {"ready", "connecting"}, on \in Attempts :
            /\ Connect(at, on)
            /\ boot' = [at |-> at, tries |-> boot.tries + 1, on |-> on]
       /\ UNCHANGED <<connection, channel, links, pub, closer, faults>>

Settle(label) == boot' = [boot EXCEPT !.at = label]

(* Mistake: a failed attempt does not count.                               *)
RetryUncounted ==
    /\ \/ /\ boot.at = "ready" \/ (boot.at = "connecting" /\ stage[boot.on] = "resolved")
          /\ Settle("true")
       \/ /\ boot.at = "connecting" /\ stage[boot.on] = "rejected"
          /\ IF boot.tries < Retries THEN boot' = [boot EXCEPT !.at = "sleep", !.tries = @ - 1]
             ELSE Settle("failed")
    /\ UNCHANGED <<cached, stage, links, pub, closer, faults>>

(* Mistake: one attempt too many.                                          *)
RetryOnceMore ==
    /\ \/ /\ boot.at = "ready" \/ (boot.at = "connecting" /\ stage[boot.on] = "resolved")
          /\ Settle("true")
       \/ /\ boot.at = "connecting" /\ stage[boot.on] = "rejected"
          /\ Settle(IF boot.tries <= Retries THEN "sleep" ELSE "failed")
    /\ UNCHANGED <<cached, stage, links, pub, closer, faults>>

(* The await is over: done, or sleep and retry while attempts are left.    *)
TryEnds ==
    /\ \/ /\ boot.at = "ready" \/ (boot.at = "connecting" /\ stage[boot.on] = "resolved")
          /\ Settle("true")
       \/ /\ boot.at = "connecting" /\ stage[boot.on] = "rejected"
          /\ Settle(IF boot.tries < Retries THEN "sleep" ELSE "failed")
    /\ UNCHANGED <<cached, stage, links, pub, closer, faults>>

(* finally channel = null, and in the same turn connection.close() is sent *)
(* to a connection there is; on one that is closed already it throws, and  *)
(* finally connection = null.                                              *)
HangUp ==
    /\ channel' = None
    /\ IF connection # None /\ conn[connection] = "up"
       THEN closer' = [at |-> "connection", on |-> connection] /\ UNCHANGED connection
       ELSE closer' = [at |-> "done", on |-> None] /\ connection' = None

(* channel.close() is sent, and the channel takes no more messages; on one *)
(* that is closed already it throws.                                       *)
CloseChannel ==
    /\ closer.at = "idle"
    /\ IF channel # None /\ chan[channel] = "up"
       THEN /\ closer' = [at |-> "channel", on |-> channel]
            /\ chan' = [chan EXCEPT ![channel] = "down"]
            /\ UNCHANGED <<connection, channel>>
       ELSE HangUp /\ UNCHANGED chan
    /\ UNCHANGED <<connecting, stage, conn, pub, boot, faults>>

(* It is answered, or has failed with the connection.                      *)
ChannelClosed ==
    /\ closer.at = "channel"
    /\ HangUp
    /\ UNCHANGED <<connecting, stage, links, pub, boot, faults>>

(* connection.close() is answered, which emits "close".  A connection that *)
(* dies first leaves its caller waiting.                                   *)
ConnectionClosed ==
    /\ closer.at = "connection" /\ conn[closer.on] = "up"
    /\ Closed(closer.on)
    /\ closer' = [closer EXCEPT !.at = "done"]
    /\ UNCHANGED <<pub, boot, faults>>

(* Nothing is asked of the module any more.                                *)
Rest == /\ \A p \in Publishers :
             pub[p].at \in {"true", "false"} \/ (pub[p].at = "sent" /\ chan[pub[p].on] = "down")
        /\ boot.at \in {"true", "failed"}
        /\ UNCHANGED vars

Attempt(k) == \/ Dial(k) \/ OpenChannel(k) \/ AssertExchange(k) \/ SetChannel(k)
              \/ AttemptFails(k)

Next == \/ \E k \in Attempts : Attempt(k) \/ ConnectionCloses(k) \/ ChannelFails(k)
        \/ \E p \in Publishers : \/ Publish(p) \/ Send(p) \/ ConnectRejected(p)
                                 \/ Confirmed(p) \/ NotConfirmed(p)
        \/ Try \/ TryEnds
        \/ CloseChannel \/ ChannelClosed \/ ConnectionClosed
        \/ Rest

(* Every call to the broker is answered, refused or cut off, timers fire,  *)
(* and main() starts the check; no one has to publish or shut down.        *)
Fairness == /\ \A k \in Attempts : WF_vars(Attempt(k))
            /\ WF_vars(Try) /\ WF_vars(TryEnds)

Spec == Init /\ [][Next]_vars /\ Fairness

----------------------------------------------------------------------------
(* Properties.                                                             *)

(* Every variable has the shape the code gives it.                         *)
BusTypeOK ==
    /\ {connection, channel, connecting} \subseteq Attempts \union {None}
    /\ stage \in [Attempts -> Stages]
    /\ conn \in [Attempts -> Links] /\ chan \in [Attempts -> Links]
    /\ pub \in [Publishers -> [at: {"idle", "ready", "connecting", "sent", "true", "false"},
                               on: Attempts \union {None}]]
    /\ boot \in [at: {"idle", "ready", "connecting", "sleep", "true", "failed"},
                 tries: 0..Retries, on: Attempts \union {None}]
    /\ closer \in [at: {"idle", "channel", "connection", "done"}, on: Attempts \union {None}]
    /\ faults \in 0..MaxFaults

(* rabbitmq.js:5, "lazy singleton connection": the process never dials     *)
(* while it has a connection, and never has two, however its callers, the  *)
(* closures and the shutdown interleave.                                   *)
OneConnection ==
    \A j, k \in Attempts :
      /\ stage[j] = "dial" \/ conn[j] = "up"
      /\ stage[k] = "dial" \/ conn[k] = "up"
      => j = k

(* rabbitmq.js:12, "Durable topic exchange asserted": no message is sent on*)
(* a channel before the exchange was asserted through it.                  *)
ExchangeBeforePublish ==
    \A p \in Publishers : pub[p].at \in {"sent", "true"} =>
      stage[pub[p].on] \in {"set", "resolved"}

(* As long as the broker refuses nothing and nobody shuts the bus down,    *)
(* every publish() that ended was confirmed.                               *)
HealthyBusPublishes ==
    faults = 0 /\ closer.at = "idle" => \A p \in Publishers : pub[p].at # "false"

(* The startup check comes to an end.                                      *)
StartupEnds == <>(boot.at \in {"true", "failed"})

----------------------------------------------------------------------------
(* What the documentation says and the code does not do.                   *)

(* README.md:33, "Startup checks with retry for ES and RabbitMQ": a check  *)
(* that gives up has seen the process dial the broker Retries times.       *)
EveryTryDials ==
    boot.at = "failed" => Cardinality(Begun) >= Retries
==============================================================================
