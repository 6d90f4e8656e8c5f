---------------------------- MODULE LifecycleProofs ----------------------------
(***************************************************************************)
(* Proofs about Lifecycle, for any set of requests.                        *)
(***************************************************************************)
EXTENDS Lifecycle, TLAPS

--------------------------------------------------------------------------------
(* What holds between any two steps, beside the properties themselves.     *)

(* What the phases of the process's life have in common: nothing is there  *)
(* to close before the database is, a server is open or closing only while *)
(* it is, and only a complete sequence ends the process with success.      *)
Phases ==
    /\ mongo = "connecting" => /\ ~bus /\ ~es /\ http = "none" /\ startup = "none"
                               /\ Running => seq = "none"
    /\ mongo = "disconnected" => seq = "complete"
    /\ http = "open" => mongo = "connected" /\ seq = "none"
    /\ http = "closing" => mongo = "connected" /\ seq = "http"
    /\ seq = "complete" => ~Running /\ mongo # "connected"
    /\ proc \in {"exit0", "restart"} => seq = "complete"
    /\ shuttingDown <=> seq # "none"

(* A request in progress keeps the server, and so the sequence, waiting,   *)
(* as long as its client does; only one left alone may be cut off.         *)
Served(r) ==
    /\ req[r] # "none" => mongo # "connecting"
    /\ req[r] \in Pending /\ r \notin left => http \in {"open", "closing"}
    /\ req[r] = "cut off" => r \in left

(* The inductive invariant of the process: its bootstrap and its shutdown  *)
(* open and close things in one order (app.js:91-202), whatever signals    *)
(* come in between, and a client that waits for an answer keeps the server.*)
LifecycleIInv ==
    /\ LifecycleTypeOK
    /\ Phases
    /\ \A r \in Requests : Served(r)
    /\ StartLeavesAnIndex

--------------------------------------------------------------------------------

(* The types, in parts the provers can take one at a time.                 *)
Flags == /\ bus \in BOOLEAN /\ es \in BOOLEAN /\ searchFailed \in BOOLEAN
         /\ shuttingDown \in BOOLEAN /\ timer \in BOOLEAN

Shapes == /\ proc \in {"running", "exit0", "exit1", "restart", "killed"}
          /\ http \in {"none", "open", "closing", "closed"}
          /\ mongo \in {"connecting", "connected", "disconnected"}
          /\ index \in {"absent", "mapped", "dynamic"}
          /\ schema \in {"none", "building", "built", "failed"}
          /\ startup \in {"none", "ping", "exists", "create", "bus", "over"}
          /\ seq \in {"none", "complete", "http", "bus", "es", "mongo"}
          /\ cause \in {"none"} \union Causes

Records == /\ req \in [Requests -> Pending \union {"none", "refused", "answered", "cut off"}]
           /\ left \subseteq Requests
           /\ handlers \subseteq Signals

Timed == timer <=> seq \in {"http", "bus", "es", "mongo"}

LEMMA TypeParts == LifecycleTypeOK <=> Flags /\ Shapes /\ Records /\ Timed
  <1>1. {"none", "complete"} \union Closing = {"none", "complete", "http", "bus", "es", "mongo"}
    BY DEF Closing
  <1>2. Closing = {"http", "bus", "es", "mongo"}
    BY DEF Closing
  <1> QED BY <1>1, <1>2 DEF LifecycleTypeOK, Flags, Shapes, Records, Timed

LEMMA InitLifecycle == Init => LifecycleIInv
  BY DEF Init, LifecycleIInv, LifecycleTypeOK, Phases, Served, StartLeavesAnIndex,
         Pending, Closing, Causes, Signals, Running

(* The invariant, in parts.                                                *)
Parts == /\ Flags /\ Shapes /\ Records /\ Timed /\ Phases
         /\ \A r \in Requests : Served(r)
         /\ StartLeavesAnIndex

LEMMA SameInvariant == LifecycleIInv <=> Parts
  BY TypeParts DEF LifecycleIInv, Parts

LEMMA SameInvariantNext == LifecycleIInv' <=> Parts'
  BY SameInvariant, PTL

LEMMA InvariantParts ==
    ASSUME LifecycleIInv
    PROVE  /\ Flags /\ Shapes /\ Records /\ Timed /\ Phases
           /\ \A r \in Requests : Served(r)
           /\ StartLeavesAnIndex
  BY SameInvariant DEF Parts

LEMMA InvariantPartsNext ==
    ASSUME Flags', Shapes', Records', Timed', Phases', \A r \in Requests : Served(r)',
           StartLeavesAnIndex'
    PROVE  LifecycleIInv'
  BY SameInvariantNext DEF Parts

(* main(): the database is there, or the process is over.                  *)
LEMMA BootLifecycle == ASSUME LifecycleIInv, Boot \/ BootFails PROVE LifecycleIInv'
  <1>0. /\ Flags /\ Shapes /\ Records /\ Timed /\ Phases
        /\ \A r \in Requests : Served(r)
        /\ StartLeavesAnIndex
    BY InvariantParts
  <1>1. /\ UNCHANGED <<bus, index, searchFailed, req, left, seq, cause, handlers,
                     shuttingDown, timer>>
        /\ Running /\ mongo = "connecting"
    BY DEF Boot, BootFails, backends, started, shutdown
  <1>2. \/ /\ mongo' = "connected" /\ es' = TRUE /\ schema' = "building" /\ startup' = "ping"
           /\ \/ http' = "open" /\ proc' = proc
              \/ http' = http /\ proc' = "exit1"
        \/ UNCHANGED <<http, mongo, es, schema, startup>> /\ proc' = "exit1"
    <2>1. CASE Boot
      BY <2>1 DEF Boot, Exit
    <2>2. CASE BootFails
      BY <2>2 DEF BootFails, Exit, backends, started
    <2> QED BY <2>1, <2>2
  <1>3. Flags'
    BY <1>0, <1>1, <1>2 DEF Flags
  <1>4. Shapes' /\ Records' /\ Timed'
    <2>1. Shapes'
      BY <1>0, <1>1, <1>2 DEF Shapes
    <2>2. Records' /\ Timed'
      BY <1>0, <1>1, <1>2 DEF Records, Timed
    <2> QED BY <2>1, <2>2
  <1>5. Phases'
    BY <1>0, <1>1, <1>2 DEF Phases, Running
  <1>6. (\A r \in Requests : Served(r)') /\ StartLeavesAnIndex'
    BY <1>0, <1>1, <1>2 DEF Served, Phases, Pending, StartLeavesAnIndex
  <1> QED BY <1>3, <1>4, <1>5, <1>6, InvariantPartsNext

(* The check of search and bus, the build of the schema, and what outlives *)
(* a request: they open clients and change the index.                      *)
LEMMA BackgroundLifecycle ==
    ASSUME LifecycleIInv,
           \/ SearchFails \/ Ping \/ Exists \/ CreateIndex \/ ReachBus
           \/ BuildSchema \/ Publish \/ Upsert
    PROVE  LifecycleIInv'
  <1>0. /\ Flags /\ Shapes /\ Records /\ Timed /\ Phases
        /\ \A r \in Requests : Served(r)
        /\ StartLeavesAnIndex
    BY InvariantParts
  <1>1. UNCHANGED <<proc, http, mongo, req, left, seq, cause, handlers, shuttingDown, timer>>
    BY DEF SearchFails, Ping, Exists, CreateIndex, ReachBus, BuildSchema, Publish, Upsert,
           backends, shutdown
  <1>2. /\ startup \in {"ping", "exists", "create", "bus"} \/ startup' = startup
        /\ startup' \in {startup, "exists", "create", "bus", "over"}
        /\ bus' \in BOOLEAN /\ es' \in BOOLEAN /\ searchFailed' \in BOOLEAN
        /\ schema' \in {schema, "built", "failed"}
        /\ index' = index \/ index' \in {"mapped", "dynamic"}
    BY <1>0 DEF Flags, backends, started, SearchFails, Ping, Exists, CreateIndex, ReachBus,
                BuildSchema, Publish, Upsert
  <1>3. mongo # "connecting" \/ (UNCHANGED <<bus, es, startup>>)
    <2>1. \/ startup \in {"ping", "exists", "create", "bus"}
          \/ \E r \in Requests : req[r] \in {"working", "answered"}
          \/ UNCHANGED <<bus, es, startup>>
      BY DEF SearchFails, Ping, Exists, CreateIndex, ReachBus, BuildSchema, Publish, Upsert,
             backends
    <2> QED BY <2>1, <1>0 DEF Phases, Served
  <1>4. StartLeavesAnIndex'
    BY <1>0 DEF Shapes, StartLeavesAnIndex, backends, started, SearchFails, Ping, Exists,
                CreateIndex, ReachBus, BuildSchema, Publish, Upsert
  <1>5. Flags'
    BY <1>0, <1>1, <1>2 DEF Flags
  <1>6. Shapes' /\ Records' /\ Timed'
    <2>1. Shapes'
      BY <1>0, <1>1, <1>2 DEF Shapes
    <2>2. Records' /\ Timed'
      BY <1>0, <1>1, <1>2 DEF Records, Timed
    <2> QED BY <2>1, <2>2
  <1>7. Phases'
    BY <1>0, <1>1, <1>3 DEF Phases, Running
  <1>8. \A r \in Requests : Served(r)'
    BY <1>0, <1>1 DEF Served
  <1> QED BY <1>4, <1>5, <1>6, <1>7, <1>8, InvariantPartsNext

(* The shapes of the variables that a step leaves alone.                   *)
LEMMA KeepShapes ==
    ASSUME Shapes, UNCHANGED <<proc, http, mongo, index, schema, startup, seq, cause>>
    PROVE  Shapes'
  BY DEF Shapes

(* A step of one request: the database is there for it.                    *)
LEMMA RequestLifecycle ==
    ASSUME LifecycleIInv, NEW r \in Requests,
           Accept(r) \/ Enter(r) \/ SchemaTimeout(r) \/ Serve(r)
    PROVE  LifecycleIInv'
  <1>0. /\ Flags /\ Shapes /\ Records /\ Timed /\ Phases
        /\ \A q \in Requests : Served(q)
        /\ StartLeavesAnIndex
    BY InvariantParts
  <1>1. UNCHANGED <<proc, http, mongo, bus, es, index, schema, startup, searchFailed,
                    left, seq, cause, handlers, shuttingDown, timer>>
    BY DEF Accept, Enter, SchemaTimeout, Serve, backends, started, shutdown
  <1>a. Shapes
    BY <1>0
  <1>2. PICK to \in {"waiting", "working", "refused", "answered", "cut off"} :
          /\ req' = [req EXCEPT ![r] = to]
          /\ mongo # "connecting"
          /\ to \in Pending /\ r \notin left => http \in {"open", "closing"}
          /\ to = "cut off" => r \in left
    <2>1. CASE Accept(r)
      BY <1>0, <2>1 DEF Accept, Phases, Pending
    <2>2. CASE Enter(r)
      BY <1>0, <2>2 DEF Enter, Served, Pending
    <2>3. CASE SchemaTimeout(r)
      BY <1>0, <2>3 DEF SchemaTimeout, Served, Pending
    <2>4. CASE Serve(r)
      BY <1>0, <2>4 DEF Serve, Served, Phases, Pending
    <2> QED BY <2>1, <2>2, <2>3, <2>4
  <1>3. /\ req'[r] = to
        /\ \A q \in Requests \ {r} : req'[q] = req[q]
    BY <1>0, <1>2 DEF Records
  <1>4. Flags' /\ Timed' /\ StartLeavesAnIndex'
    BY <1>0, <1>1 DEF Flags, Timed, StartLeavesAnIndex
  <1>5. Shapes' /\ Records'
    <2>1. Shapes'
      BY <1>1, <1>a, KeepShapes
    <2>2. Records'
      BY <1>0, <1>1, <1>2 DEF Records, Pending
    <2> QED BY <2>1, <2>2
  <1>6. Phases'
    BY <1>0, <1>1 DEF Phases, Running
  <1>7. \A q \in Requests : Served(q)'
    BY <1>0, <1>1, <1>2, <1>3 DEF Served, Phases
  <1> QED BY <1>4, <1>5, <1>6, <1>7, InvariantPartsNext

(* Where Proceed leads: the process waits for something, or is complete.   *)
LEMMA ProceedOutcomes ==
    ASSUME NEW c, NEW stages \in SUBSET {"bus", "es", "mongo"}, Running, Proceed(c, stages)
    PROVE  \/ /\ seq' \in {"bus", "es", "mongo"} /\ timer' = TRUE /\ proc' = proc
              /\ (seq' = "mongo" \/ bus \/ es) /\ (seq' = "mongo" => mongo = "connected")
           \/ /\ seq' = "complete" /\ timer' = FALSE /\ proc' \in {"exit0", "restart"}
              /\ mongo # "connected"
  BY DEF Proceed, WaitFor, Complete, Exit

(* shutdown() begins.                                                      *)
LEMMA ShutdownLifecycle ==
    ASSUME LifecycleIInv, Running, NEW c \in Causes, Shutdown(c), handlers' \subseteq Signals,
           UNCHANGED <<backends, started, req, left>>
    PROVE  LifecycleIInv'
  <1>0. /\ Flags /\ Shapes /\ Records /\ Timed /\ Phases
        /\ \A r \in Requests : Served(r)
        /\ StartLeavesAnIndex
    BY InvariantParts
  <1>1. UNCHANGED <<mongo, bus, es, index, schema, startup, searchFailed, req, left>>
        /\ seq = "none" /\ shuttingDown' = TRUE /\ cause' = c
    BY <1>0 DEF Shutdown, Phases, backends, started
  <1>2. CASE http = "open"
    <2>1. http' = "closing" /\ seq' = "http" /\ timer' = TRUE /\ proc' = proc
      BY <1>2 DEF Shutdown, WaitFor
    <2>2. Flags' /\ Timed'
      BY <1>0, <1>1, <2>1 DEF Flags, Timed
    <2>3. Shapes' /\ Records'
      <3>1. Shapes'
        BY <1>0, <1>1, <2>1 DEF Shapes
      <3>2. Records'
        BY <1>0, <1>1, <2>1 DEF Records
      <3> QED BY <3>1, <3>2
    <2>4. Phases' /\ (\A r \in Requests : Served(r)') /\ StartLeavesAnIndex'
      BY <1>0, <1>1, <1>2, <2>1 DEF Phases, Served, StartLeavesAnIndex, Running
    <2> QED BY <2>2, <2>3, <2>4, InvariantPartsNext
  <1>3. CASE http # "open"
    <2>1. http' = http /\ Proceed(c, {"bus", "es", "mongo"})
      BY <1>3 DEF Shutdown
    <2>2. \/ /\ seq' \in {"bus", "es", "mongo"} /\ timer' = TRUE /\ proc' = proc
             /\ (seq' = "mongo" \/ bus \/ es) /\ (seq' = "mongo" => mongo = "connected")
          \/ /\ seq' = "complete" /\ timer' = FALSE /\ proc' \in {"exit0", "restart"}
             /\ mongo # "connected"
      BY <2>1, ProceedOutcomes
    <2>3. Flags' /\ Timed'
      BY <1>0, <1>1, <2>2 DEF Flags, Timed
    <2>4. Shapes' /\ Records'
      <3>1. Shapes'
        BY <1>0, <1>1, <2>1, <2>2 DEF Shapes
      <3>2. Records'
        BY <1>0, <1>1, <2>1, <2>2 DEF Records
      <3> QED BY <3>1, <3>2
    <2>5. Phases'
      BY <1>0, <1>1, <1>3, <2>1, <2>2 DEF Phases, Running, Shapes
    <2>6. (\A r \in Requests : Served(r)') /\ StartLeavesAnIndex'
      BY <1>0, <1>1, <2>1 DEF Served, StartLeavesAnIndex
    <2> QED BY <2>3, <2>4, <2>5, <2>6, InvariantPartsNext
  <1> QED BY <1>2, <1>3

(* shutdown() goes on: the server, the bus or the client has closed.       *)
LEMMA ClosingLifecycle ==
    ASSUME LifecycleIInv, HttpClosed \/ BusClosed \/ EsClosed
    PROVE  LifecycleIInv'
  <1>0. /\ Flags /\ Shapes /\ Records /\ Timed /\ Phases
        /\ \A r \in Requests : Served(r)
        /\ StartLeavesAnIndex
    BY InvariantParts
  <1>1. /\ UNCHANGED <<mongo, index, schema, startup, searchFailed, req, left, cause, handlers,
                       shuttingDown>>
        /\ Running /\ seq \in {"http", "bus", "es"}
    BY DEF HttpClosed, BusClosed, EsClosed, backends, started
  <1>2. mongo = "connected"
    BY <1>0, <1>1 DEF Phases, Shapes
  <1>3. /\ seq' \in {"bus", "es", "mongo"} /\ timer' = TRUE /\ proc' = proc
    BY <1>1, <1>2, ProceedOutcomes DEF HttpClosed, BusClosed, EsClosed
  <1>4. /\ http' \in {"none", "closed"}
        /\ bus' \in BOOLEAN /\ es' \in BOOLEAN
        /\ \A r \in Requests \ left : req[r] \notin Pending
    BY <1>0 DEF HttpClosed, BusClosed, EsClosed, Phases, Served, Flags, Shapes, backends
  <1>5. Flags' /\ Timed'
    BY <1>0, <1>1, <1>3, <1>4 DEF Flags, Timed
  <1>6. Shapes' /\ Records'
    <2>1. Shapes'
      BY <1>0, <1>1, <1>3, <1>4 DEF Shapes
    <2>2. Records'
      BY <1>0, <1>1, <1>3, <1>4 DEF Records
    <2> QED BY <2>1, <2>2
  <1>7. Phases'
    BY <1>0, <1>1, <1>2, <1>3, <1>4 DEF Phases, Running
  <1>8. (\A r \in Requests : Served(r)') /\ StartLeavesAnIndex'
    BY <1>0, <1>1, <1>4 DEF Served, StartLeavesAnIndex
  <1> QED BY <1>5, <1>6, <1>7, <1>8, InvariantPartsNext

(* The last connection is closed, and the process ends.                    *)
LEMMA MongoClosedLifecycle == ASSUME LifecycleIInv, MongoClosed PROVE LifecycleIInv'
  <1>0. /\ Flags /\ Shapes /\ Records /\ Timed /\ Phases
        /\ \A r \in Requests : Served(r)
        /\ StartLeavesAnIndex
    BY InvariantParts
  <1>1. /\ UNCHANGED <<http, bus, es, index, schema, startup, searchFailed, req, left, cause,
                       handlers, shuttingDown>>
        /\ Running /\ seq = "mongo" /\ mongo' = "disconnected" /\ timer' = FALSE
        /\ seq' = "complete" /\ proc' \in {"exit0", "restart"}
    BY DEF MongoClosed, Complete, Exit, started
  <1>2. Flags' /\ Timed'
    BY <1>0, <1>1 DEF Flags, Timed
  <1>3. Shapes' /\ Records'
    <2>1. Shapes'
      BY <1>0, <1>1 DEF Shapes
    <2>2. Records'
      BY <1>0, <1>1 DEF Records
    <2> QED BY <2>1, <2>2
  <1>4. Phases' /\ (\A r \in Requests : Served(r)') /\ StartLeavesAnIndex'
    BY <1>0, <1>1 DEF Phases, Served, StartLeavesAnIndex, Running
  <1> QED BY <1>2, <1>3, <1>4, InvariantPartsNext

(* A client hangs up.                                                      *)
LEMMA HangUpLifecycle ==
    ASSUME LifecycleIInv, NEW r \in Requests, HangUp(r)
    PROVE  LifecycleIInv'
  <1>0. /\ Flags /\ Shapes /\ Records /\ Timed /\ Phases
        /\ \A q \in Requests : Served(q)
        /\ StartLeavesAnIndex
    BY InvariantParts
  <1>1. /\ UNCHANGED <<proc, http, mongo, bus, es, index, schema, startup, searchFailed, req,
                       seq, cause, handlers, shuttingDown, timer>>
        /\ left' = left \union {r}
    BY DEF HangUp, backends, started, shutdown
  <1>2. Flags' /\ Timed' /\ StartLeavesAnIndex'
    BY <1>0, <1>1 DEF Flags, Timed, StartLeavesAnIndex
  <1>3. Shapes'
    BY <1>0, <1>1 DEF Shapes
  <1>4. Records'
    BY <1>0, <1>1 DEF Records
  <1>5. Phases'
    BY <1>0, <1>1 DEF Phases, Running
  <1>6. \A q \in Requests : Served(q)'
    BY <1>0, <1>1 DEF Served
  <1> QED BY <1>2, <1>3, <1>4, <1>5, <1>6, InvariantPartsNext

(* The process dies, or goes on, and all else stays; a signal is used up.  *)
LEMMA KeepLifecycle ==
    ASSUME LifecycleIInv, Running, proc' \in {proc, "exit1", "killed"},
           handlers' \subseteq Signals,
           UNCHANGED <<http, backends, started, req, left, seq, cause, shuttingDown, timer>>
    PROVE  LifecycleIInv'
  <1>0. /\ Flags /\ Shapes /\ Records /\ Timed /\ Phases
        /\ \A r \in Requests : Served(r)
        /\ StartLeavesAnIndex
    BY InvariantParts
  <1>1. UNCHANGED <<http, mongo, bus, es, index, schema, startup, searchFailed, req, left,
                    seq, cause, shuttingDown, timer>>
    BY DEF backends, started
  <1>2. Flags' /\ Timed'
    BY <1>0, <1>1 DEF Flags, Timed
  <1>3. Shapes' /\ Records'
    <2>1. Shapes'
      BY <1>0, <1>1 DEF Shapes
    <2>2. Records'
      BY <1>0, <1>1 DEF Records
    <2> QED BY <2>1, <2>2
  <1>4. Phases'
    BY <1>0, <1>1 DEF Phases, Running
  <1>5. (\A r \in Requests : Served(r)') /\ StartLeavesAnIndex'
    BY <1>0, <1>1 DEF Served, StartLeavesAnIndex
  <1> QED BY <1>2, <1>3, <1>4, <1>5, InvariantPartsNext

(* Nothing happens.                                                        *)
LEMMA StutterLifecycle == ASSUME LifecycleIInv, UNCHANGED vars PROVE LifecycleIInv'
  <1>0. /\ Flags /\ Shapes /\ Records /\ Timed /\ Phases
        /\ \A r \in Requests : Served(r)
        /\ StartLeavesAnIndex
    BY InvariantParts
  <1>1. /\ UNCHANGED <<proc, http, mongo, bus, es, index, schema, startup, searchFailed>>
        /\ UNCHANGED <<req, left, seq, cause, handlers, shuttingDown, timer>>
    BY DEF vars, backends, started, shutdown
  <1>2. Flags' /\ Timed'
    BY <1>0, <1>1 DEF Flags, Timed
  <1>3. Shapes' /\ Records'
    <2>1. Shapes'
      BY <1>0, <1>1 DEF Shapes
    <2>2. Records'
      BY <1>0, <1>1 DEF Records
    <2> QED BY <2>1, <2>2
  <1>4. Phases'
    BY <1>0, <1>1 DEF Phases, Running
  <1>5. (\A r \in Requests : Served(r)') /\ StartLeavesAnIndex'
    BY <1>0, <1>1 DEF Served, StartLeavesAnIndex
  <1> QED BY <1>2, <1>3, <1>4, <1>5, InvariantPartsNext

LEMMA NextLifecycle == ASSUME LifecycleIInv, [Next]_vars PROVE LifecycleIInv'
  <1>1. CASE Boot \/ BootFails
    BY <1>1, BootLifecycle
  <1>2. CASE \/ SearchFails \/ Ping \/ Exists \/ CreateIndex \/ ReachBus
             \/ BuildSchema \/ Publish \/ Upsert
    BY <1>2, BackgroundLifecycle
  <1>3. ASSUME NEW r \in Requests, Accept(r) \/ Enter(r) \/ SchemaTimeout(r) \/ Serve(r)
        PROVE  LifecycleIInv'
    BY <1>3, RequestLifecycle
  <1>4. ASSUME NEW s \in Signals, Signal(s) PROVE LifecycleIInv'
    <2>1. /\ Running /\ handlers' \subseteq Signals /\ s \in Causes
          /\ UNCHANGED <<backends, started, req, left>>
      BY <1>4, InvariantParts DEF Signal, Records, Causes
    <2>2. CASE Shutdown(s)
      BY <2>1, <2>2, ShutdownLifecycle
    <2>3. CASE shuttingDown /\ UNCHANGED <<proc, http, seq, cause, shuttingDown, timer>>
      BY <2>1, <2>3, KeepLifecycle
    <2> QED BY <1>4, <2>2, <2>3 DEF Signal
  <1>5. ASSUME NEW s \in Signals, SignalAgain(s) PROVE LifecycleIInv'
    BY <1>5, KeepLifecycle, InvariantParts DEF SignalAgain, shutdown, Exit, Records
  <1>6. CASE Uncaught
    <2>1. Running /\ handlers' \subseteq Signals /\ "UNCAUGHT_EXCEPTION" \in Causes
          /\ Shutdown("UNCAUGHT_EXCEPTION") /\ UNCHANGED <<backends, started, req, left>>
      BY <1>6, InvariantParts DEF Uncaught, Records, Causes
    <2> QED BY <2>1, ShutdownLifecycle
  <1>7. CASE GraceOver
    BY <1>7, KeepLifecycle, InvariantParts DEF GraceOver, shutdown, Exit, Records
  <1>8. CASE HttpClosed \/ BusClosed \/ EsClosed
    BY <1>8, ClosingLifecycle
  <1>9. CASE MongoClosed
    BY <1>9, MongoClosedLifecycle
  <1>10. CASE UNCHANGED vars
    BY <1>10, StutterLifecycle
  <1>11. ASSUME NEW r \in Requests, HangUp(r) PROVE LifecycleIInv'
    BY <1>11, HangUpLifecycle
  <1> QED BY <1>1, <1>2, <1>3, <1>4, <1>5, <1>6, <1>7, <1>8, <1>9, <1>10, <1>11 DEF Next, Ended

(* The process keeps its inductive invariant: the phases of its bootstrap  *)
(* and of its shutdown keep their order (app.js:50-202).                   *)
THEOREM LifecycleInvariantHolds == Spec => []LifecycleIInv
  <1> QED BY InitLifecycle, NextLifecycle, PTL DEF Spec

(* The database is closed after the last request only whose client still   *)
(* waits for the answer (app.js, closeHttpServer before closeMongo).       *)
THEOREM DatabaseOutlivesRequests == Spec => []RequestsKeepTheirDatabase
  <1>1. LifecycleIInv => RequestsKeepTheirDatabase
    BY DEF LifecycleIInv, Phases, Served, RequestsKeepTheirDatabase
  <1> QED BY <1>1, LifecycleInvariantHolds, PTL

(* A process that ends with success has nothing open, and no client waits  *)
(* for it (app.js, shutdown).                                              *)
THEOREM ExitsClean == Spec => []CleanExit
  <1>1. LifecycleIInv => CleanExit
    BY InvariantParts DEF Shapes, Phases, Served, CleanExit, Running
  <1> QED BY <1>1, LifecycleInvariantHolds, PTL

(* A start whose calls to Elasticsearch were answered leaves an index      *)
(* (ensureSearchAndBus and ensureProductIndex).                            *)
THEOREM StartsWithAnIndex == Spec => []StartLeavesAnIndex
  <1>1. LifecycleIInv => StartLeavesAnIndex
    BY DEF LifecycleIInv
  <1> QED BY <1>1, LifecycleInvariantHolds, PTL
================================================================================
