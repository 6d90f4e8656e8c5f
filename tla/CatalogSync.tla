----------------------------- MODULE CatalogSync -----------------------------
(***************************************************************************)
(* The product workflow with the two things it starts and does not await:  *)
(* publishing a domain event and upserting the document into the search    *)
(* index.  Both are tried once.  An upsert carries the document as the     *)
(* request's own write returned it, without a version, and upserts of one  *)
(* product travel independently: Elasticsearch keeps the last to arrive.   *)
(*                                                                         *)
(* The index keeps the business fields.  Its createdBy is not a copy of    *)
(* the document's: the resolvers populate it, and mapProduct makes         *)
(* "[object Object]" of the populated user.                                *)
(***************************************************************************)
EXTENDS ProductWorkflow

(* An absent document is none of the documents the index keeps.            *)
ASSUME IndexAssumption == None \notin Payload

VARIABLES index,        \* index[i]: what Elasticsearch holds of product i, or None
          upserting,    \* the upserts on their way, by the request they stem from
          publishing,   \* the events on their way to the exchange
          published     \* the events the broker confirmed

syncVars == <<index, upserting, publishing, published>>
allVars  == <<vars, syncVars>>

SyncInit == /\ Init
            /\ index = [i \in Ids |-> None]
            /\ upserting = {} /\ publishing = {} /\ published = {}

(* Mistake: the audit's view of the document is indexed.                   *)
MapProductFromAudit(r) == NewValues(r)

(* mapProduct(created.data) or mapProduct(updated.data).                   *)
MapProduct(r) == Pick(result[r])

(* Mistake: a creation does not reach the index.                           *)
DispatchCreationUnindexed(r) ==
    /\ Emit(r)
    /\ publishing' = publishing \union {r}
    /\ upserting' = upserting \union (IF call[r].op = "CREATE" THEN {} ELSE {r})
    /\ UNCHANGED <<index, published>>

(* Mistake: an update that changes nothing is announced too.               *)
DispatchUnchanged(r) ==
    /\ Emit(r) \/ Refetch(r)
    /\ publishing' = publishing \union {r}
    /\ upserting' = upserting \union (IF pc[r] = "emit" THEN {r} ELSE {})
    /\ UNCHANGED <<index, published>>

(* publishEvent(...); upsertProduct(...); return.                          *)
Dispatch(r) ==
    /\ Emit(r)
    /\ publishing' = publishing \union {r}
    /\ upserting' = upserting \union {r}
    /\ UNCHANGED <<index, published>>

(* es.index replaces the whole document.                                   *)
IndexArrives(r) ==
    /\ r \in upserting
    /\ index' = [index EXCEPT ![call[r].id] = MapProduct(r)]
    /\ upserting' = upserting \ {r}
    /\ UNCHANGED <<vars, publishing, published>>

EventArrives(r) ==
    /\ r \in publishing
    /\ publishing' = publishing \ {r}
    /\ published' = published \union {r}
    /\ UNCHANGED <<vars, index, upserting>>

(* upsertProduct and publish swallow their errors, and nothing retries.    *)
DeliveryFails(r) ==
    /\ Fault
    /\ \/ r \in upserting /\ upserting' = upserting \ {r} /\ UNCHANGED publishing
       \/ r \in publishing /\ publishing' = publishing \ {r} /\ UNCHANGED upserting
    /\ UNCHANGED <<products, audits, pc, call, current, result, code, index, published>>

(* A crash may lose what is on its way, or be too late to stop it.         *)
CrashAll ==
    /\ Crash
    /\ upserting' \in SUBSET upserting
    /\ publishing' \in SUBSET publishing
    /\ UNCHANGED <<index, published>>

(* The steps of a request other than the dispatch.                         *)
Work(r) ==
    /\ \/ CreateProduct(r) \/ UpdateProduct(r) \/ ApproveProduct(r)
       \/ Insert(r) \/ Reread(r) \/ Read(r) \/ Refetch(r) \/ Write(r) \/ Audit(r)
       \/ CallFails(r) \/ AckLost(r) \/ AuditFails(r)
    /\ UNCHANGED syncVars

Deliver(r) == IndexArrives(r) \/ EventArrives(r) \/ DeliveryFails(r)

Settled == /\ \A r \in Requests : pc[r] \in {"done", "lost"}
           /\ upserting = {} /\ publishing = {}

SyncNext ==
    \/ \E r \in Requests : Work(r) \/ Dispatch(r) \/ Deliver(r)
    \/ CrashAll
    \/ Settled /\ UNCHANGED allVars

SyncSpec == SyncInit /\ [][SyncNext]_allVars

----------------------------------------------------------------------------
(* Properties.                                                             *)

(* Only what happened is announced: an event or an upsert, on its way or   *)
(* delivered, stems from a request that answered its success after a write *)
(* that reached the database; no-op updates and refusals send none         *)
(* (product.service.js:160, the early return).                             *)
AnnouncedAreWrites ==
    /\ TypeOK
    /\ index \in [Ids -> Payload \union {None}]
    /\ \A r \in upserting \union publishing \union published :
         r \in Requests /\ result[r] # None /\ code[r] \in {200, 201}

(* What a search finds is a version some request of this product wrote or  *)
(* read back, never a mix of two, and never a publication the database     *)
(* does not know of.                                                       *)
IndexShowsStoredVersions ==
    \A i \in Ids : index[i] # None =>
      /\ \E r \in Requests : /\ result[r] # None /\ call[r].id = i
                             /\ index[i] = Pick(result[r])
      /\ index[i].status = PUBLISHED => products[i].status = PUBLISHED

(* While nothing has failed, once all is settled exactly the requests that *)
(* wrote have announced their event, and the index has every product.      *)
SettledIsAnnounced ==
    Settled /\ faults = 0 =>
      /\ published = {r \in Requests : result[r] # None}
      /\ \A i \in Ids : products[i] # None => index[i] # None

----------------------------------------------------------------------------
(* What the documentation says and the code does not do.                   *)

(* product.service.js:24, "ES index may be eventually consistent relative  *)
(* to MongoDB": when nothing failed and nothing is under way any more, the *)
(* index agrees with the database.                                         *)
SettledIndexAgrees ==
    Settled /\ faults = 0 =>
      \A i \in Ids : products[i] # None => index[i] = Pick(products[i])
==============================================================================
