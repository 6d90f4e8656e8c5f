------------------------------ MODULE Lifecycle ------------------------------
(***************************************************************************)
(* app.js: bootstrap, requests, signals and the graceful shutdown, with    *)
(* what the bootstrap leaves running: the schema that is being built       *)
(* (graphql/index.js) and the check of search and bus.                     *)
(*                                                                         *)
(* A step is one turn of the event loop.  What main() and shutdown() do    *)
(* between two awaits that have something to wait for is one step: with    *)
(* nothing to close, closeRabbitMQ, closeES and closeMongo return at once. *)
(***************************************************************************)
EXTENDS Naturals

CONSTANT Requests      \* the GraphQL mutations of a behaviour

Signals == {"SIGINT", "SIGTERM", "SIGUSR2"}
Causes  == Signals \union {"UNCAUGHT_EXCEPTION"}
Closing == {"http", "bus", "es", "mongo"}

Pending == {"waiting", "working"}

VARIABLES proc,          \* "running", or how the process ended
          http,          \* serverRef: "none", "open", "closing" or "closed"
          mongo,         \* readyState of the connection
          bus, es,       \* whether a RabbitMQ channel, an ES client is there
          index,         \* of the products: "absent", "mapped" by
                         \* ensureProductIndex, or "dynamic"
          schema,        \* schemaPromise
          startup,       \* the next call of ensureSearchAndBus()
          searchFailed,  \* whether one of its calls to Elasticsearch failed
          req,           \* the requests
          left,          \* those whose client hung up before their end
          seq,           \* what the running shutdown() waits for
          cause,         \* its argument
          handlers,      \* the signals whose `once' handler is still there
          shuttingDown, timer

backends == <<mongo, bus, es>>
started == <<index, schema, startup, searchFailed>>
shutdown == <<seq, cause, handlers, shuttingDown, timer>>
vars == <<proc, http, backends, started, req, left, shutdown>>

Init ==
    /\ proc = "running" /\ http = "none"
    /\ mongo = "connecting" /\ bus = FALSE /\ es = FALSE
    /\ index \in {"absent", "mapped"} /\ schema = "none"
    /\ startup = "none" /\ searchFailed = FALSE
    /\ req = [r \in Requests |-> "none"] /\ left = {}
    /\ seq = "none" /\ cause = "none"
    /\ handlers = Signals /\ shuttingDown = FALSE /\ timer = FALSE

Running == proc = "running"
Exit(how) == proc' = how

----------------------------------------------------------------------------
(* main().                                                                 *)

(* The first await is over.  The schema is to be built and search to be    *)
(* pinged, which takes a client; listen() waits for neither, and the port  *)
(* may be taken (exit 1).                                                  *)
Boot ==
    /\ Running /\ mongo = "connecting"
    /\ mongo' = "connected" /\ es' = TRUE
    /\ schema' = "building" /\ startup' = "ping"
    /\ \/ http' = "open" /\ UNCHANGED proc
       \/ Exit("exit1") /\ UNCHANGED http
    /\ UNCHANGED <<bus, index, searchFailed, req, left, shutdown>>

BootFails ==
    /\ Running /\ mongo = "connecting"
    /\ Exit("exit1")
    /\ UNCHANGED <<http, backends, started, req, left, shutdown>>

----------------------------------------------------------------------------
(* ensureSearchAndBus().  A call that fails is logged, and the bus is next.*)

SearchFails ==
    /\ Running /\ startup \in {"ping", "exists", "create"}
    /\ startup' = "bus" /\ searchFailed' = TRUE
    /\ UNCHANGED <<proc, http, backends, index, schema, req, left, shutdown>>

(* ensureProductIndex() asks for the client anew.                          *)
Ping ==
    /\ Running /\ startup = "ping"
    /\ startup' = "exists" /\ es' = TRUE
    /\ UNCHANGED <<proc, http, mongo, bus, index, schema, searchFailed, req, left, shutdown>>

(* Mistake: the answer is an object, which is always true.                 *)
ExistsMisread ==
    /\ Running /\ startup = "exists"
    /\ startup' = "bus"
    /\ UNCHANGED <<proc, http, backends, index, schema, searchFailed, req, left, shutdown>>

Exists ==
    /\ Running /\ startup = "exists"
    /\ startup' = IF index = "absent" THEN "create" ELSE "bus"
    /\ UNCHANGED <<proc, http, backends, index, schema, searchFailed, req, left, shutdown>>

(* An upsert may have been there first: the creation is refused, and the   *)
(* mapping and its analyzer are never applied.                             *)
CreateIndex ==
    /\ Running /\ startup = "create"
    /\ startup' = "bus"
    /\ index' = IF index = "absent" THEN "mapped" ELSE index
    /\ UNCHANGED <<proc, http, backends, schema, searchFailed, req, left, shutdown>>

(* One attempt at the bus, also after closeRabbitMQ().                     *)
ReachBus ==
    /\ Running /\ startup = "bus"
    /\ startup' = "over"
    /\ bus' \in {bus, TRUE}
    /\ UNCHANGED <<proc, http, mongo, es, index, schema, searchFailed, req, left, shutdown>>

----------------------------------------------------------------------------
(* Requests.                                                               *)

(* buildExecutableSchema(): a module that does not load makes it fail, for *)
(* good.                                                                   *)
BuildSchema ==
    /\ Running /\ schema = "building"
    /\ schema' \in {"built", "failed"}
    /\ UNCHANGED <<proc, http, backends, index, startup, searchFailed, req, left, shutdown>>

(* A connection that is kept alive delivers requests after close() too.    *)
Accept(r) ==
    /\ Running /\ http \in {"open", "closing"} /\ req[r] = "none"
    /\ req' = [req EXCEPT ![r] = "waiting"]
    /\ UNCHANGED <<proc, http, backends, started, left, shutdown>>

(* The await of schemaPromise: without a schema the answer is an error 500.*)
Enter(r) ==
    /\ Running /\ req[r] = "waiting" /\ schema \in {"built", "failed"}
    /\ req' = [req EXCEPT ![r] = IF schema = "built" THEN "working" ELSE "refused"]
    /\ UNCHANGED <<proc, http, backends, started, left, shutdown>>

(* Mistake: schemaPromise is awaited without a timeout.                    *)
NoSchemaTimeout(r) ==
    /\ FALSE
    /\ UNCHANGED vars

(* withTimeout(schemaPromise, 30000)                                       *)
SchemaTimeout(r) ==
    /\ Running /\ req[r] = "waiting" /\ schema = "building"
    /\ req' = [req EXCEPT ![r] = "refused"]
    /\ UNCHANGED <<proc, http, backends, started, left, shutdown>>

(* The resolver does not notice: it goes on without its socket.            *)
HangUp(r) ==
    /\ Running /\ req[r] \in Pending /\ r \notin left
    /\ left' = left \union {r}
    /\ UNCHANGED <<proc, http, backends, started, req, shutdown>>

(* It needs the database, and is answered; or fails, once the connection   *)
(* is told to close.                                                       *)
Serve(r) ==
    /\ Running /\ req[r] = "working"
    /\ \/ mongo = "connected" /\ req' = [req EXCEPT ![r] = "answered"]
       \/ seq = "mongo" /\ req' = [req EXCEPT ![r] = "cut off"]
    /\ UNCHANGED <<proc, http, backends, started, left, shutdown>>

(* What a mutation announces and indexes it does not wait for: the calls   *)
(* may come after the answer, after closeRabbitMQ() and after closeES(),   *)
(* and open a channel or a client again.                                   *)
Publish ==
    /\ Running /\ \E r \in Requests : req[r] \in {"working", "answered"}
    /\ ~bus /\ bus' = TRUE
    /\ UNCHANGED <<proc, http, mongo, es, started, req, left, shutdown>>

(* Elasticsearch creates an index it does not have.                        *)
Upsert ==
    /\ Running /\ \E r \in Requests : req[r] \in {"working", "answered"}
    /\ es' = TRUE
    /\ index' \in {index, IF index = "absent" THEN "dynamic" ELSE index}
    /\ UNCHANGED <<proc, http, mongo, bus, schema, startup, searchFailed, req, left, shutdown>>

----------------------------------------------------------------------------
(* shutdown().                                                             *)

(* Mistake: the timer is not cleared.                                      *)
CompleteUncleared(c) ==
    seq' = "complete" /\ Exit(IF c = "SIGUSR2" THEN "restart" ELSE "exit0") /\ UNCHANGED timer

(* The sequence is complete: clearTimeout, and exit, or the signal again,  *)
(* whose handler is gone by now.                                           *)
Complete(c) ==
    timer' = FALSE /\ seq' = "complete" /\ Exit(IF c = "SIGUSR2" THEN "restart" ELSE "exit0")

WaitFor(stage) == seq' = stage /\ timer' = TRUE /\ UNCHANGED proc

(* Mistake: without an Elasticsearch client nothing is left to close.      *)
ProceedToExit(c, stages) ==
    IF "bus" \in stages /\ bus THEN WaitFor("bus")
    ELSE IF es THEN WaitFor("es")
    ELSE Complete(c)

(* On to the first of `stages' that has something to close.  The timer     *)
(* runs from the beginning of shutdown().                                  *)
Proceed(c, stages) ==
    IF "bus" \in stages /\ bus THEN WaitFor("bus")
    ELSE IF "es" \in stages /\ es THEN WaitFor("es")
    ELSE IF mongo = "connected" THEN WaitFor("mongo")
    ELSE Complete(c)

(* Mistake: closeHttpServer() does not wait for the callback of close().   *)
ShutdownUndrained(c) ==
    /\ ~shuttingDown
    /\ shuttingDown' = TRUE /\ cause' = c
    /\ http' = IF http = "open" THEN "closed" ELSE http
    /\ Proceed(c, {"bus", "es", "mongo"})

(* Mistake: no timer is set.                                               *)
ShutdownUntimed(c) ==
    /\ ~shuttingDown
    /\ shuttingDown' = TRUE /\ cause' = c
    /\ IF http = "open" THEN http' = "closing" /\ seq' = "http" /\ UNCHANGED <<proc, timer>>
       ELSE Proceed(c, {"bus", "es", "mongo"}) /\ UNCHANGED http

(* close() stops listening; its callback waits for the open connections,   *)
(* and not for the resolvers that still work behind one that was closed.   *)
(* A second call of shutdown() returns at once.                            *)
Shutdown(c) ==
    /\ ~shuttingDown
    /\ shuttingDown' = TRUE /\ cause' = c
    /\ IF http = "open" THEN http' = "closing" /\ WaitFor("http")
       ELSE Proceed(c, {"bus", "es", "mongo"}) /\ UNCHANGED http

Signal(s) ==
    /\ Running /\ s \in handlers
    /\ handlers' = handlers \ {s}
    /\ \/ Shutdown(s)
       \/ shuttingDown /\ UNCHANGED <<proc, http, seq, cause, shuttingDown, timer>>
    /\ UNCHANGED <<backends, started, req, left>>

(* process.once has removed the handler: the default action.               *)
SignalAgain(s) ==
    /\ Running /\ s \notin handlers
    /\ Exit("killed")
    /\ UNCHANGED <<http, backends, started, req, left, shutdown>>

Uncaught ==
    /\ Running
    /\ Shutdown("UNCAUGHT_EXCEPTION")
    /\ UNCHANGED <<backends, started, req, left, handlers>>

HttpClosed ==
    /\ Running /\ seq = "http" /\ \A r \in Requests \ left : req[r] \notin Pending
    /\ http' = "closed"
    /\ Proceed(cause, {"bus", "es", "mongo"})
    /\ UNCHANGED <<backends, started, req, left, cause, handlers, shuttingDown>>

(* closeRabbitMQ, closeES and closeMongo end, whether with an error or not.*)
BusClosed ==
    /\ Running /\ seq = "bus"
    /\ bus' = FALSE
    /\ Proceed(cause, {"es", "mongo"})
    /\ UNCHANGED <<http, mongo, es, started, req, left, cause, handlers, shuttingDown>>

EsClosed ==
    /\ Running /\ seq = "es"
    /\ es' = FALSE
    /\ Proceed(cause, {"mongo"})
    /\ UNCHANGED <<http, mongo, bus, started, req, left, cause, handlers, shuttingDown>>

MongoClosed ==
    /\ Running /\ seq = "mongo"
    /\ mongo' = "disconnected"
    /\ Complete(cause)
    /\ UNCHANGED <<http, bus, es, started, req, left, cause, handlers, shuttingDown>>

GraceOver ==
    /\ Running /\ timer
    /\ Exit("exit1")
    /\ UNCHANGED <<http, backends, started, req, left, shutdown>>

Ended == ~Running /\ UNCHANGED vars

Next ==
    \/ Boot \/ BootFails
    \/ SearchFails \/ Ping \/ Exists \/ CreateIndex \/ ReachBus
    \/ BuildSchema \/ Publish \/ Upsert
    \/ \E r \in Requests : Accept(r) \/ Enter(r) \/ SchemaTimeout(r) \/ HangUp(r) \/ Serve(r)
    \/ \E s \in Signals : Signal(s) \/ SignalAgain(s)
    \/ Uncaught \/ GraceOver
    \/ HttpClosed \/ BusClosed \/ EsClosed \/ MongoClosed
    \/ Ended

(* A timer fires in the end, and who waits for a promise that is settled   *)
(* goes on.  Nothing is assumed of the clients, of the build of the        *)
(* schema, nor of the servers that are asked to close a connection.        *)
Spec ==
    /\ Init /\ [][Next]_vars
    /\ WF_vars(GraceOver)
    /\ \A r \in Requests : WF_vars(Enter(r)) /\ WF_vars(SchemaTimeout(r))

----------------------------------------------------------------------------

(* The variables have their types; while, and only while, a shutdown waits *)
(* for something to close, its grace period runs.                          *)
LifecycleTypeOK ==
    /\ proc \in {"running", "exit0", "exit1", "restart", "killed"}
    /\ http \in {"none", "open", "closing", "closed"}
    /\ mongo \in {"connecting", "connected", "disconnected"}
    /\ bus \in BOOLEAN /\ es \in BOOLEAN
    /\ index \in {"absent", "mapped", "dynamic"}
    /\ schema \in {"none", "building", "built", "failed"}
    /\ startup \in {"none", "ping", "exists", "create", "bus", "over"}
    /\ searchFailed \in BOOLEAN
    /\ req \in [Requests -> Pending \union {"none", "refused", "answered", "cut off"}]
    /\ left \subseteq Requests
    /\ seq \in {"none", "complete"} \union Closing
    /\ cause \in {"none"} \union Causes
    /\ handlers \subseteq Signals
    /\ shuttingDown \in BOOLEAN
    /\ timer \in BOOLEAN /\ (timer <=> seq \in Closing)

(* The order of the sequence: what a request needs is closed only after    *)
(* the last request whose client still waits was answered, whichever way   *)
(* the shutdown began (closeHttpServer before closeMongo).  Of a request   *)
(* whose client hung up it says nothing: that one may lose its database.   *)
RequestsKeepTheirDatabase ==
    \A r \in Requests \ left :
        /\ req[r] # "cut off"
        /\ req[r] \in Pending => mongo = "connected" /\ seq \in {"none", "http"}

(* A process that ends by itself after "Sequence complete" leaves neither  *)
(* a client waiting nor a database connection open, even if it was told to *)
(* stop in the middle of its bootstrap.  A request whose client hung up    *)
(* may be left half done.                                                  *)
CleanExit ==
    proc \in {"exit0", "restart"} =>
        /\ http \in {"none", "closed"} /\ mongo # "connected"
        /\ \A r \in Requests \ left : req[r] \notin Pending

(* A shutdown ends the process, though connections never close and every   *)
(* client hangs (the timer of shutdown()).                                 *)
ShutdownEnds == shuttingDown ~> proc # "running"

(* A request that came before the schema was there does not hang, though   *)
(* the build never ends ("to avoid silent hangs").                         *)
NobodyWaitsForever ==
    \A r \in Requests : req[r] = "waiting" ~> (req[r] # "waiting" \/ ~Running)

(* A start whose calls to Elasticsearch were all answered leaves an index, *)
(* even if an upsert comes between its question and its creation           *)
(* (ensureProductIndex, "creates index + mappings if missing").            *)
StartLeavesAnIndex ==
    startup \in {"bus", "over"} /\ ~searchFailed => index # "absent"
=============================================================================
