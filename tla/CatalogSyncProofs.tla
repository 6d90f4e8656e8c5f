--------------------------- MODULE CatalogSyncProofs ---------------------------
(***************************************************************************)
(* Proofs about CatalogSync, for any number of products, requests, users   *)
(* and faults.  The workflow's own invariants carry over: what the         *)
(* deliveries do to its variables is to count a fault.                     *)
(***************************************************************************)
EXTENDS CatalogSync, ProductWorkflowProofs

--------------------------------------------------------------------------------
(* What holds between any two steps, beside the properties themselves.     *)

(* A request whose write succeeded has ended, and keeps its result.        *)
Succeeded(r) == pc[r] = "done" /\ result[r] # None

Announced ==
    \A r \in upserting \union publishing \union published :
      r \in Requests /\ Succeeded(r) /\ code[r] \in {200, 201}

Indexed ==
    /\ index \in [Ids -> Payload \union {None}]
    /\ \A i \in Ids : index[i] # None =>
         \E r \in Requests : Succeeded(r) /\ call[r].id = i /\ index[i] = MapProduct(r)

(* While nothing has failed, what a success started is on its way or there.*)
Delivered ==
    faults = 0 => \A r \in Requests : Succeeded(r) =>
      /\ r \in publishing \union published
      /\ r \in upserting \/ index[call[r].id] # None

(* The inductive invariant behind the announcements: the workflow's own,   *)
(* and that what is on its way or delivered stems from requests that       *)
(* succeeded.                                                              *)
SyncIInv == TrailIInv /\ Announced /\ Indexed /\ Delivered

--------------------------------------------------------------------------------

LEMMA FaultCounts == ASSUME IInv, Fault PROVE faults' \in 0..MaxFaults /\ faults' # 0
  BY InputAssumption DEF IInv, TypeOK, Fault

(* Every step is one of the workflow's, or a fault that it does not see.   *)
LEMMA WorkflowSteps ==
    ASSUME [SyncNext]_allVars
    PROVE  \/ [Next]_vars
           \/ Fault /\ UNCHANGED <<products, audits, pc, call, current, result, code>>
  <1>1. ASSUME NEW r \in Requests, Work(r) \/ Dispatch(r) PROVE Step(r)
    BY <1>1 DEF Work, Dispatch, Step
  <1>2. ASSUME NEW r \in Requests, Deliver(r)
        PROVE  \/ UNCHANGED vars
               \/ Fault /\ UNCHANGED <<products, audits, pc, call, current, result, code>>
    BY <1>2 DEF Deliver, IndexArrives, EventArrives, DeliveryFails
  <1> QED BY <1>1, <1>2 DEF SyncNext, CrashAll, allVars, Next

(* A fault the workflow does not see keeps its invariants.                 *)
LEMMA UnseenFault ==
    ASSUME TrailIInv, Fault, UNCHANGED <<products, audits, pc, call, current, result, code>>
    PROVE  TrailIInv'
  <1>1. faults' \in 0..MaxFaults /\ faults' # 0
    BY FaultCounts DEF TrailIInv
  <1>2. IInv'
    <2>1. TypeOK'
      BY <1>1 DEF TrailIInv, IInv, TypeOK
    <2>2. Stages' /\ Origins'
      BY DEF TrailIInv, IInv, Stages, Stage, Origins, InFlight
    <2> QED BY <2>1, <2>2 DEF IInv
  <1>3. Copies'
    BY DEF TrailIInv, Copies, Copy, Version
  <1>4. Entries'
    BY DEF TrailIInv, Entries, EntryOf, PreviousValues, NewValues
  <1>5. Audited' /\ Explained'
    BY <1>1 DEF Audited, Explained
  <1> QED BY <1>2, <1>3, <1>4, <1>5 DEF TrailIInv

LEMMA NextTrail == ASSUME TrailIInv, [SyncNext]_allVars PROVE TrailIInv'
  <1>1. ASSUME [Next]_vars PROVE TrailIInv'
    BY <1>1, NextIInv, NextCopies, NextEntries, NextAudited, NextExplained DEF TrailIInv
  <1> QED BY <1>1, WorkflowSteps, UnseenFault

(* A request that has ended stays as it is.                                *)
LEMMA EndedStays ==
    ASSUME IInv, [SyncNext]_allVars, NEW q \in Requests, pc[q] = "done"
    PROVE  /\ pc'[q] = "done" /\ result'[q] = result[q] /\ call'[q] = call[q]
           /\ code'[q] = code[q]
  <1>1. ~Step(q)
    <2>1. ~CreateProduct(q) /\ ~UpdateProduct(q) /\ ~ApproveProduct(q)
      BY DEF CreateProduct, UpdateProduct, ApproveProduct, Arrive
    <2>2. ~Insert(q) /\ ~Write(q) /\ ~Reread(q) /\ ~Read(q) /\ ~Refetch(q) /\ ~Audit(q)
          /\ ~Emit(q)
      BY DEF Insert, Write, Reread, Read, Refetch, Audit, Emit
    <2>3. ~CallFails(q) /\ ~AckLost(q) /\ ~AuditFails(q)
      BY DEF CallFails, AckLost, AuditFails
    <2> QED BY <2>1, <2>2, <2>3 DEF Step
  <1>2. ASSUME NEW r \in Requests, Step(r)
        PROVE  /\ pc'[q] = pc[q] /\ result'[q] = result[q] /\ call'[q] = call[q]
               /\ code'[q] = code[q]
    BY <1>1, <1>2, Frame
  <1>3. CASE Crash
    BY <1>3 DEF Crash, InFlight
  <1>4. CASE UNCHANGED vars
    BY <1>4 DEF vars
  <1> QED BY <1>2, <1>3, <1>4, WorkflowSteps DEF Next, Finished

(* Whoever succeeds without a fault does so by Dispatch.                   *)
LEMMA SuccessIsDispatched ==
    ASSUME IInv, NEW r \in Requests, Work(r), faults' = 0, NEW q \in Requests, Succeeded(q)'
    PROVE  Succeeded(q)
  <1>0. Step(r) /\ [Next]_vars
    BY DEF Work, Step, Next
  <1>1. CASE q # r
    BY <1>0, <1>1, Frame DEF Succeeded
  <1>2. CASE q = r
    <2>1. ~CallFails(r) /\ ~AckLost(r) /\ ~AuditFails(r)
      BY <1>0, FaultsGrow
    <2>2. pc[r] \in {"idle", "insert", "read", "refetch", "write"} => result[r] = None
      BY DEF IInv, Stages, Stage
    <2>3. CASE CreateProduct(r) \/ UpdateProduct(r) \/ ApproveProduct(r)
      <3>1. UNCHANGED result /\ pc[r] = "idle"
        BY <2>3 DEF CreateProduct, UpdateProduct, ApproveProduct, Arrive
      <3> QED BY <1>2, <2>2, <3>1 DEF Succeeded
    <2>4. CASE Insert(r) \/ Write(r)
      <3>1. CASE Taken(call[r].id, Stored(r).gtin)
        BY <1>2, <2>2, <2>4, <3>1 DEF Insert, Write, Store, Succeeded
      <3>2. CASE ~Taken(call[r].id, Stored(r).gtin)
        BY <1>2, <2>4, <3>2 DEF Insert, Write, Store, Goto, Succeeded, IInv, TypeOK
      <3> QED BY <3>1, <3>2
    <2>5. CASE Reread(r) \/ Audit(r)
      BY <1>2, <2>5 DEF Reread, Audit, Goto, Succeeded, IInv, TypeOK
    <2>6. CASE Read(r) \/ Refetch(r)
      BY <1>2, <2>2, <2>6 DEF Read, Refetch, Succeeded
    <2> QED BY <2>1, <2>3, <2>4, <2>5, <2>6 DEF Work
  <1> QED BY <1>1, <1>2

(* Emit finds the result of the request's write.                           *)
LEMMA DispatchSucceeds ==
    ASSUME IInv, NEW r \in Requests, Dispatch(r)
    PROVE  Succeeded(r)' /\ code'[r] \in {200, 201}
  <1>1. result[r] # None
    BY DEF Dispatch, Emit, IInv, Stages, Stage
  <1> QED BY <1>1 DEF Dispatch, Emit, Respond, Succeeded, IInv, TypeOK

(* What is announced had succeeded, and still has.                         *)
LEMMA NextAnnounced ==
    ASSUME IInv, Announced, [SyncNext]_allVars PROVE Announced'
  <1> SUFFICES ASSUME NEW r \in (upserting \union publishing \union published)'
               PROVE  r \in Requests /\ Succeeded(r)' /\ code'[r] \in {200, 201}
    BY DEF Announced
  <1>1. CASE r \in upserting \union publishing \union published
    <2>1. r \in Requests /\ Succeeded(r) /\ code[r] \in {200, 201}
      BY <1>1 DEF Announced
    <2> QED BY <2>1, EndedStays DEF Succeeded
  <1>2. CASE r \notin upserting \union publishing \union published
    <2>1. ASSUME NEW q \in Requests, Work(q) PROVE FALSE
      BY <2>1, <1>2 DEF Work, syncVars
    <2>2. ASSUME NEW q \in Requests, Deliver(q) PROVE FALSE
      BY <2>2, <1>2 DEF Deliver, IndexArrives, EventArrives, DeliveryFails
    <2>3. ASSUME NEW q \in Requests, Dispatch(q) PROVE r = q
      BY <2>3, <1>2 DEF Dispatch
    <2>4. ~CrashAll /\ ~UNCHANGED allVars
      BY <1>2 DEF CrashAll, allVars, syncVars
    <2>5. PICK q \in Requests : Dispatch(q)
      BY <2>1, <2>2, <2>4 DEF SyncNext
    <2> QED BY <2>3, <2>5, DispatchSucceeds
  <1> QED BY <1>1, <1>2

(* What an upsert brings is the result of a request that has ended.        *)
LEMMA MapProductType ==
    ASSUME IInv, NEW r \in Requests, result[r] # None
    PROVE  MapProduct(r) \in Payload /\ MapProduct(r) # None
  <1>1. result[r] \in Doc
    BY DEF IInv, TypeOK
  <1> QED BY <1>1, IndexAssumption DEF MapProduct, Pick, Doc, Payload

(* How the index changes.                                                  *)
LEMMA IndexChanges ==
    ASSUME Announced, [SyncNext]_allVars
    PROVE  \/ index' = index
           \/ \E r \in Requests : r \in upserting /\ IndexArrives(r)
  BY DEF SyncNext, Work, Dispatch, Deliver, IndexArrives, EventArrives, DeliveryFails,
         CrashAll, allVars, syncVars

LEMMA NextIndexed ==
    ASSUME IInv, Announced, Indexed, [SyncNext]_allVars PROVE Indexed'
  <1>1. ASSUME NEW i \in Ids, index[i] # None, index'[i] = index[i]
        PROVE  \E r \in Requests : /\ Succeeded(r)' /\ call'[r].id = i
                                   /\ index'[i] = MapProduct(r)'
    <2>1. PICK r \in Requests : Succeeded(r) /\ call[r].id = i /\ index[i] = MapProduct(r)
      BY <1>1 DEF Indexed
    <2>2. Succeeded(r)' /\ call'[r] = call[r] /\ MapProduct(r)' = MapProduct(r)
      BY <2>1, EndedStays DEF Succeeded, MapProduct
    <2> QED BY <1>1, <2>1, <2>2
  <1>2. CASE index' = index
    BY <1>1, <1>2 DEF Indexed
  <1>3. ASSUME NEW r \in Requests, r \in upserting, IndexArrives(r) PROVE Indexed'
    <2>1. Succeeded(r) /\ call[r].id \in Ids
      BY <1>3, CallType DEF Announced, Succeeded
    <2>2. MapProduct(r) \in Payload /\ MapProduct(r) # None
      BY <2>1, MapProductType DEF Succeeded
    <2>3. /\ Succeeded(r)' /\ call' = call /\ MapProduct(r)' = MapProduct(r)
      BY <1>3, <2>1 DEF IndexArrives, vars, Succeeded, MapProduct
    <2>4. /\ index'[call[r].id] = MapProduct(r)
          /\ \A i \in Ids \ {call[r].id} : index'[i] = index[i]
          /\ index' \in [Ids -> Payload \union {None}]
      BY <1>3, <2>1, <2>2 DEF IndexArrives, Indexed
    <2>5. ASSUME NEW i \in Ids, index'[i] # None
          PROVE  \E q \in Requests : /\ Succeeded(q)' /\ call'[q].id = i
                                     /\ index'[i] = MapProduct(q)'
      <3>1. CASE i = call[r].id
        BY <2>3, <2>4, <3>1
      <3>2. CASE i # call[r].id
        BY <1>1, <2>4, <2>5, <3>2
      <3> QED BY <3>1, <3>2
    <2> QED BY <2>4, <2>5 DEF Indexed
  <1> QED BY <1>2, <1>3, IndexChanges

(* While nothing fails, nothing that a success started gets lost.          *)
LEMMA NextDelivered ==
    ASSUME IInv, Announced, Indexed, Delivered, [SyncNext]_allVars PROVE Delivered'
  <1> SUFFICES ASSUME faults' = 0, NEW q \in Requests, Succeeded(q)'
               PROVE  /\ q \in publishing' \union published'
                      /\ q \in upserting' \/ index'[call'[q].id] # None
    BY DEF Delivered
  <1>0. ~Fault
    BY FaultCounts
  <1>1. ASSUME Succeeded(q), faults = 0
        PROVE  /\ q \in publishing \union published
               /\ q \in upserting \/ index[call[q].id] # None
               /\ call'[q] = call[q] /\ call[q].id \in Ids
    BY <1>1, EndedStays, CallType DEF Delivered, Succeeded
  <1>2. ASSUME NEW r \in Requests, Work(r)
        PROVE  /\ q \in publishing' \union published'
               /\ q \in upserting' \/ index'[call'[q].id] # None
    <2>1. Step(r) /\ [Next]_vars /\ UNCHANGED <<index, upserting, publishing, published>>
      BY <1>2 DEF Work, Step, Next, syncVars
    <2>2. Succeeded(q) /\ faults = 0
      BY <1>2, <2>1, SuccessIsDispatched, FaultsGrow
    <2> QED BY <2>1, <2>2, <1>1
  <1>3. ASSUME NEW r \in Requests, Dispatch(r)
        PROVE  /\ q \in publishing' \union published'
               /\ q \in upserting' \/ index'[call'[q].id] # None
    <2>1. CASE q = r
      BY <1>3, <2>1 DEF Dispatch
    <2>2. CASE q # r
      <3>1. Step(r)
        BY <1>3 DEF Dispatch, Step
      <3>2. Succeeded(q) /\ faults = 0
        BY <1>3, <2>2, <3>1, Frame DEF Succeeded, Dispatch, Emit
      <3> QED BY <1>3, <3>2, <1>1 DEF Dispatch
    <2> QED BY <2>1, <2>2
  <1>4. ASSUME NEW r \in Requests, IndexArrives(r)
        PROVE  /\ q \in publishing' \union published'
               /\ q \in upserting' \/ index'[call'[q].id] # None
    <2>1. UNCHANGED <<pc, call, result, faults, publishing, published>> /\ r \in upserting
      BY <1>4 DEF IndexArrives, vars
    <2>2. Succeeded(q) /\ faults = 0
      BY <2>1 DEF Succeeded
    <2>3. Succeeded(r) /\ call[r].id \in Ids /\ MapProduct(r) # None
      BY <2>1, MapProductType, CallType DEF Announced, Succeeded
    <2>4. /\ index'[call[r].id] # None
          /\ \A i \in Ids : index[i] # None => index'[i] # None
      BY <1>4, <2>3 DEF IndexArrives, Indexed
    <2>5. upserting' = upserting \ {r}
      BY <1>4 DEF IndexArrives
    <2> QED BY <2>1, <2>2, <2>4, <2>5, <1>1
  <1>5. ASSUME NEW r \in Requests, EventArrives(r)
        PROVE  /\ q \in publishing' \union published'
               /\ q \in upserting' \/ index'[call'[q].id] # None
    <2>1. Succeeded(q) /\ faults = 0
      BY <1>5 DEF EventArrives, vars, Succeeded
    <2> QED BY <1>5, <2>1, <1>1 DEF EventArrives
  <1>6. CASE UNCHANGED allVars
    <2>1. UNCHANGED <<pc, call, result, faults, index, upserting, publishing, published>>
      BY <1>6 DEF allVars, vars, syncVars
    <2>2. Succeeded(q) /\ faults = 0
      BY <2>1 DEF Succeeded
    <2> QED BY <2>1, <2>2, <1>1
  <1>7. ~CrashAll /\ (\A r \in Requests : ~DeliveryFails(r))
    BY <1>0 DEF CrashAll, Crash, DeliveryFails
  <1> QED BY <1>2, <1>3, <1>4, <1>5, <1>6, <1>7 DEF SyncNext, Deliver

----------------------------------------------------------------------------
(* The theorems.                                                           *)

(* Every reachable state satisfies the invariant behind the announcements, *)
(* and the workflow's invariants hold with its deliveries going on.        *)
THEOREM SyncInvariantHolds == SyncSpec => []SyncIInv
  <1>1. SyncInit => SyncIInv
    <2> SUFFICES ASSUME SyncInit PROVE SyncIInv
      OBVIOUS
    <2>1. TrailIInv
      BY InitIInv, InitCopies, InitEntries, InitAudited, InitExplained DEF SyncInit, TrailIInv
    <2>2. Announced /\ Indexed /\ Delivered
      BY DEF SyncInit, Init, Announced, Indexed, Delivered, Succeeded
    <2> QED BY <2>1, <2>2 DEF SyncIInv
  <1>2. SyncIInv /\ [SyncNext]_allVars => SyncIInv'
    BY NextTrail, NextAnnounced, NextIndexed, NextDelivered DEF SyncIInv, TrailIInv
  <1> QED BY <1>1, <1>2, PTL DEF SyncSpec

(* Events and upserts stem from requests that wrote and succeeded          *)
(* (product.service.js:160 and the ends of its three mutations).           *)
THEOREM AnnouncementsAreWrites == SyncSpec => []AnnouncedAreWrites
  <1>1. SyncIInv => AnnouncedAreWrites
    BY DEF SyncIInv, TrailIInv, IInv, Announced, Succeeded, Indexed, AnnouncedAreWrites
  <1> QED BY <1>1, SyncInvariantHolds, PTL

(* A search finds versions of products, never a mix of two, and never a    *)
(* publication the database does not know (product.indexer.js).            *)
THEOREM IndexIsHonest == SyncSpec => []IndexShowsStoredVersions
  <1>1. SyncIInv => IndexShowsStoredVersions
    <2> SUFFICES ASSUME SyncIInv, NEW i \in Ids, index[i] # None
                 PROVE  /\ \E r \in Requests : /\ result[r] # None /\ call[r].id = i
                                               /\ index[i] = Pick(result[r])
                        /\ index[i].status = PUBLISHED => products[i].status = PUBLISHED
      BY DEF IndexShowsStoredVersions
    <2>1. PICK r \in Requests : Succeeded(r) /\ call[r].id = i /\ index[i] = MapProduct(r)
      BY DEF SyncIInv, Indexed
    <2>2. result[r].status = PUBLISHED => products[i].status = PUBLISHED
      BY <2>1 DEF SyncIInv, TrailIInv, Copies, Copy, Version, Succeeded
    <2> QED BY <2>1, <2>2 DEF MapProduct, Pick, Succeeded
  <1> QED BY <1>1, SyncInvariantHolds, PTL

(* While nothing has failed, what has settled was announced and indexed    *)
(* (product.service.js, publishEvent and upsertProduct).                   *)
THEOREM SettledWasAnnounced == SyncSpec => []SettledIsAnnounced
  <1>1. SyncIInv => SettledIsAnnounced
    <2> SUFFICES ASSUME SyncIInv, Settled, faults = 0
                 PROVE  /\ published = {r \in Requests : result[r] # None}
                        /\ \A i \in Ids : products[i] # None => index[i] # None
      BY DEF SettledIsAnnounced
    <2>1. \A r \in Requests : result[r] # None => Succeeded(r)
      BY DEF Settled, SyncIInv, TrailIInv, Audited, Succeeded
    <2>2. \A r \in Requests : result[r] # None =>
            r \in published /\ index[call[r].id] # None
      BY <2>1 DEF Settled, SyncIInv, Delivered
    <2>3. \A r \in published : r \in Requests /\ result[r] # None
      BY DEF SyncIInv, Announced, Succeeded
    <2>4. ASSUME NEW i \in Ids, products[i] # None PROVE index[i] # None
      <3>1. PICK r \in Requests : Writer(r, i)
        BY <2>4 DEF SyncIInv, TrailIInv, Explained
      <3> QED BY <2>2, <3>1 DEF Writer
    <2> QED BY <2>2, <2>3, <2>4
  <1> QED BY <1>1, SyncInvariantHolds, PTL

(* With events and upserts under way, lost and overtaking each other, the  *)
(* products collection still keeps the catalog's promise: each write is one*)
(* its own request may make with the claim it came with.                   *)
THEOREM SyncImplementsCatalog == SyncSpec => CatalogPromise
  <1>1. SyncInit => Catalog!CatalogInit
    BY DEF SyncInit, Init, Catalog!CatalogInit, Open
  <1>2. SyncIInv /\ [SyncNext]_allVars => [Catalog!CatalogNext]_(Catalog!catalogVars)
    <2> SUFFICES ASSUME SyncIInv, [SyncNext]_allVars
                 PROVE  [Catalog!CatalogNext]_(Catalog!catalogVars)
      OBVIOUS
    <2>1. CASE [Next]_vars
      BY <2>1, CatalogStep DEF SyncIInv, TrailIInv
    <2>2. CASE UNCHANGED <<products, pc, call>>
      BY <2>2 DEF Catalog!catalogVars, Open
    <2> QED BY <2>1, <2>2, WorkflowSteps
  <1> QED BY <1>1, <1>2, SyncInvariantHolds, PTL DEF SyncSpec, CatalogPromise, Catalog!CatalogSpec

================================================================================
