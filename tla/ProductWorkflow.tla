--------------------------- MODULE ProductWorkflow ---------------------------
(***************************************************************************)
(* ProductService behind its GraphQL mutations, one step per await.        *)
(*                                                                         *)
(* A request is one GraphQL mutation.  Between two awaits it runs without  *)
(* interruption; at an await any other request may run, the database call  *)
(* may fail, or the process may crash.  MongoDB keeps two collections:     *)
(* products, with a unique index on gtin, and the audit entries, here in   *)
(* the order of their changedAt stamps.  No transaction spans the two.     *)
(***************************************************************************)
EXTENDS AuditDiff, Naturals, Sequences

CONSTANTS Ids, Claims,
          Requests,       \* the mutations of a behaviour
          CreateInputs,   \* inputs of createProduct the callers choose from
          UpdateInputs,   \* inputs of updateProduct
          MaxFaults       \* bound on failed calls and crashes

Roles == {"editor", "provider", "admin", "manager", "employee"}
Ops   == {"CREATE", "UPDATE", "STATUS_CHANGE"}
Pcs   == {"idle", "insert", "reread", "read", "refetch", "write",
          "audit", "emit", "done", "lost"}
Codes == {0, 200, 201, 400, 403, 404, 500}

(* productUpdate.dto.js has no status key and createProduct's status is    *)
(* computed by the service, so no input carries one.                       *)
ASSUME InputAssumption ==
    /\ Claims \subseteq [userId: Users, role: Roles]
    /\ CreateInputs \subseteq [gtin: Gtins, name: Names, status: {None}]
    /\ UpdateInputs \subseteq [gtin: Gtins \union {None},
                               name: Names \union {None}, status: {None}]
    /\ None \notin [op: Ops, claim: Claims, id: Ids, input: Payload]
    /\ MaxFaults \in Nat

VARIABLES products,   \* products[i]: the stored document, or None
          audits,     \* the ProductChange collection
          pc,         \* where each request is
          call,       \* [op, claim, id, input] of each request, or None
          current,    \* the document each request read before writing
          result,     \* the document its own write or re-read returned
          code,       \* the status of its response, 0 while there is none
          faults      \* failures and crashes so far

vars == <<products, audits, pc, call, current, result, code, faults>>

Call  == [op: Ops, claim: Claims, id: Ids, input: Payload]
(* `req' names the request an entry stems from; it is not stored.          *)
Entry == [req: Requests, productId: Ids, changedBy: Users, operation: Ops,
          previousValues: Payload, newValues: Payload]

Init ==
    /\ products = [i \in Ids |-> None]
    /\ audits   = <<>>
    /\ pc       = [r \in Requests |-> "idle"]
    /\ call     = [r \in Requests |-> None]
    /\ current  = [r \in Requests |-> None]
    /\ result   = [r \in Requests |-> None]
    /\ code     = [r \in Requests |-> 0]
    /\ faults   = 0

InFlight(r) == pc[r] \notin {"idle", "done", "lost"}

(* Request r goes on to its next await; or it answers with status s.       *)
Goto(r, label) == pc' = [pc EXCEPT ![r] = label] /\ UNCHANGED code
Respond(r, s)  == /\ pc' = [pc EXCEPT ![r] = "done"]
                  /\ code' = [code EXCEPT ![r] = s]

----------------------------------------------------------------------------
(* Arrival of a mutation: buildContext, the @auth directive, and the part  *)
(* of the service method before its first await.                           *)

(* Mistake: approveProduct open to providers.                              *)
AllowedToAll(op) == {"editor", "provider"}

Allowed(op) == IF op = "STATUS_CHANGE" THEN {"editor"} ELSE {"editor", "provider"}

Arrive(r, op, claim, id, input) ==
    /\ pc[r] = "idle"
    /\ call' = [call EXCEPT ![r] = [op |-> op, claim |-> claim,
                                    id |-> id, input |-> input]]
    /\ IF claim.role \notin Allowed(op) THEN Respond(r, 403)
       ELSE Goto(r, IF op = "CREATE" THEN "insert" ELSE "read")
    /\ UNCHANGED <<products, audits, current, result, faults>>

(* new this.model(data) draws a fresh ObjectId.                            *)
FreshId(id) == \A q \in Requests :
                 call[q] # None /\ call[q].op = "CREATE" => call[q].id # id

CreateProduct(r) == \E c \in Claims, id \in Ids, in \in CreateInputs :
    FreshId(id) /\ Arrive(r, "CREATE", c, id, in)

UpdateProduct(r) == \E c \in Claims, id \in Ids, in \in UpdateInputs :
    Arrive(r, "UPDATE", c, id, in)

ApproveProduct(r) == \E c \in Claims, id \in Ids :
    Arrive(r, "STATUS_CHANGE", c, id, OnlyStatus(PUBLISHED))

----------------------------------------------------------------------------
(* The database calls.                                                     *)

(* The unique index on gtin: some other product holds g.                   *)
Taken(id, g) == \E j \in Ids \ {id} : products[j] # None /\ products[j].gtin = g

InitialStatus(claim) == IF claim.role = "editor" THEN PUBLISHED ELSE PENDING

(* Mistake: the document as it was read is saved back with the changes.    *)
StoredWhole(r) ==
    LET c == call[r]
    IN  IF pc[r] = "insert"
        THEN NewDoc(c.input, InitialStatus(c.claim), c.claim.userId)
        ELSE Apply(current[r], c.input)

(* The document an insertion or an update stores.                          *)
Stored(r) ==
    LET c == call[r]
    IN  IF pc[r] = "insert"
        THEN NewDoc(c.input, InitialStatus(c.claim), c.claim.userId)
        ELSE Apply(products[c.id], c.input)

(* Mistake: an update the index refuses goes on with the document it read. *)
StoreUnchecked(r, label) ==
    /\ IF Taken(call[r].id, Stored(r).gtin)
       THEN /\ IF pc[r] = "insert" THEN Respond(r, 400) /\ UNCHANGED result
               ELSE Goto(r, label) /\ result' = [result EXCEPT ![r] = current[r]]
            /\ UNCHANGED products
       ELSE /\ products' = [products EXCEPT ![call[r].id] = Stored(r)]
            /\ result' = [result EXCEPT ![r] = Stored(r)]
            /\ Goto(r, label)
    /\ UNCHANGED <<audits, call, current, faults>>

(* Storing it fails on the unique index (400), or r goes on with it.       *)
Store(r, label) ==
    /\ IF Taken(call[r].id, Stored(r).gtin)
       THEN Respond(r, 400) /\ UNCHANGED <<products, result>>
       ELSE /\ products' = [products EXCEPT ![call[r].id] = Stored(r)]
            /\ result' = [result EXCEPT ![r] = Stored(r)]
            /\ Goto(r, label)
    /\ UNCHANGED <<audits, call, current, faults>>

(* doc.save() of createWithRole; then create() re-reads to populate.       *)
Insert(r) == pc[r] = "insert" /\ Store(r, "reread")

Reread(r) ==
    /\ pc[r] = "reread"
    /\ result' = [result EXCEPT ![r] = products[call[r].id]]
    /\ Goto(r, "audit")
    /\ UNCHANGED <<products, audits, call, current, faults>>

(* Mistake: the ownership check is missing.                                *)
UpdateVerdictAnyOwner(c, doc) ==
    IF doc = None THEN 404
    ELSE IF c.claim.role = "provider" /\ doc.status # PENDING THEN 400
    ELSE 200

(* What the checks after findById make of the document: a refusal, or 200. *)
UpdateVerdict(c, doc) ==
    IF doc = None THEN 404
    ELSE IF c.claim.role = "provider" /\ doc.createdBy # c.claim.userId THEN 403
    ELSE IF c.claim.role = "provider" /\ doc.status # PENDING THEN 400
    ELSE 200

ApproveVerdict(doc) ==
    IF doc = None THEN 404 ELSE IF doc.status # PENDING THEN 400 ELSE 200

Read(r) ==
    /\ pc[r] = "read"
    /\ LET c       == call[r]
           doc     == products[c.id]
           verdict == IF c.op = "UPDATE" THEN UpdateVerdict(c, doc)
                      ELSE ApproveVerdict(doc)
       IN  IF verdict # 200
           THEN Respond(r, verdict) /\ UNCHANGED current
           ELSE /\ current' = [current EXCEPT ![r] = doc]
                /\ Goto(r, IF c.op = "UPDATE" /\ ~HasChanges(doc, c.input)
                           THEN "refetch" ELSE "write")
    /\ UNCHANGED <<products, audits, call, result, faults>>

(* updateWithAudit without changes: findById again, no audit, no event.    *)
Refetch(r) ==
    /\ pc[r] = "refetch"
    /\ Respond(r, 200)
    /\ UNCHANGED <<products, audits, call, current, result, faults>>

(* Mistake: approvals are not audited.                                     *)
WriteUnaudited(r) ==
    pc[r] = "write" /\ Store(r, IF call[r].op = "UPDATE" THEN "audit" ELSE "emit")

(* updateById: findOneAndUpdate matches on the id alone, whatever became   *)
(* of the document since it was read.                                      *)
Write(r) == pc[r] = "write" /\ Store(r, "audit")

PreviousValues(r) ==
    CASE call[r].op = "CREATE" -> Empty
      [] call[r].op = "UPDATE" -> ComputeAuditDiff(current[r], call[r].input).previous
      [] OTHER -> OnlyStatus(current[r].status)

(* Mistake: an approval's entry records the status it found.               *)
NewValuesStale(r) ==
    CASE call[r].op = "CREATE" -> Pick(result[r])
      [] call[r].op = "UPDATE" -> ComputeAuditDiff(current[r], call[r].input).next
      [] OTHER -> OnlyStatus(current[r].status)

NewValues(r) ==
    CASE call[r].op = "CREATE" -> Pick(result[r])
      [] call[r].op = "UPDATE" -> ComputeAuditDiff(current[r], call[r].input).next
      [] OTHER -> OnlyStatus(PUBLISHED)

EntryOf(r) ==
    [req |-> r, productId |-> call[r].id, changedBy |-> call[r].claim.userId,
     operation |-> call[r].op,
     previousValues |-> PreviousValues(r), newValues |-> NewValues(r)]

(* createAudit stamps changedAt and inserts the entry.                     *)
Audit(r) ==
    /\ pc[r] = "audit"
    /\ audits' = Append(audits, EntryOf(r))
    /\ Goto(r, "emit")
    /\ UNCHANGED <<products, call, current, result, faults>>

(* After the audit: publishEvent and upsertProduct are started but not     *)
(* awaited, and the response is sent.                                      *)
Emit(r) ==
    /\ pc[r] = "emit"
    /\ Respond(r, IF call[r].op = "CREATE" THEN 201 ELSE 200)
    /\ UNCHANGED <<products, audits, call, current, result, faults>>

----------------------------------------------------------------------------
(* Failures.                                                               *)

Fault == faults < MaxFaults /\ faults' = faults + 1

(* A database call fails without effect: 500.  After a failed re-read      *)
(* created.data is undefined, and createWithRole answers 500 to the        *)
(* TypeError of reading its _id.                                           *)
CallFails(r) ==
    /\ pc[r] \in {"insert", "reread", "read", "refetch", "write"}
    /\ Fault
    /\ Respond(r, 500)
    /\ UNCHANGED <<products, audits, call, current, result>>

(* The write is stored but its acknowledgement never arrives: 500.         *)
AckLost(r) ==
    /\ pc[r] \in {"insert", "write"}
    /\ ~Taken(call[r].id, Stored(r).gtin)
    /\ products' = [products EXCEPT ![call[r].id] = Stored(r)]
    /\ Fault
    /\ Respond(r, 500)
    /\ UNCHANGED <<audits, call, current, result>>

(* createAudit turns the error into a {status, error} result, which its    *)
(* callers ignore.                                                         *)
AuditFails(r) ==
    /\ pc[r] = "audit"
    /\ Fault
    /\ Goto(r, "emit")
    /\ UNCHANGED <<products, audits, call, current, result>>

(* The process dies with every request in flight; MongoDB stays.           *)
Crash ==
    /\ \E r \in Requests : InFlight(r)
    /\ Fault
    /\ pc' = [r \in Requests |-> IF InFlight(r) THEN "lost" ELSE pc[r]]
    /\ UNCHANGED <<products, audits, call, current, result, code>>

(* Every request of the instance has ended.                                *)
Finished ==
    /\ \A r \in Requests : pc[r] \in {"done", "lost"}
    /\ UNCHANGED vars

Step(r) ==
    \/ CreateProduct(r) \/ UpdateProduct(r) \/ ApproveProduct(r)
    \/ Insert(r) \/ Reread(r) \/ Read(r) \/ Refetch(r) \/ Write(r)
    \/ Audit(r) \/ Emit(r)
    \/ CallFails(r) \/ AckLost(r) \/ AuditFails(r)

Next == (\E r \in Requests : Step(r)) \/ Crash \/ Finished

Spec == Init /\ [][Next]_vars

----------------------------------------------------------------------------
(* Properties.                                                             *)

(* Every variable has the shape the code gives it.                         *)
TypeOK ==
    /\ products \in [Ids -> Doc \union {None}]
    /\ audits   \in Seq(Entry)
    /\ pc       \in [Requests -> Pcs]
    /\ call     \in [Requests -> Call \union {None}]
    /\ current  \in [Requests -> Doc \union {None}]
    /\ result   \in [Requests -> Doc \union {None}]
    /\ code     \in [Requests -> Codes]
    /\ faults   \in 0..MaxFaults

(* Behind every published product stands an editor: the one who created it *)
(* or one whose approval of this product was let through                   *)
(* (product.service.js:13, "Only EDITOR may approve").                     *)
PublishedByEditor ==
    \A i \in Ids : products[i] # None /\ products[i].status = PUBLISHED =>
      \E r \in Requests :
        /\ call[r] # None /\ call[r].id = i /\ call[r].claim.role = "editor"
        /\ call[r].op \in {"CREATE", "STATUS_CHANGE"}

EntriesOf(r) == {k \in DOMAIN audits : audits[k].req = r}

(* No phantom entries: an entry stands for a write that reached the        *)
(* database, a request leaves at most one, and every key the caller sent   *)
(* is recorded with the value the write stored (up to trimming), even when *)
(* other requests wrote the product in between.                            *)
EntriesRecordOwnWrite ==
    /\ \A r \in Requests : \A j, k \in EntriesOf(r) : j = k
    /\ \A k \in DOMAIN audits :
         LET e == audits[k]
             c == call[e.req]
             d == result[e.req]
         IN  /\ c # None /\ d # None
             /\ e.productId = c.id /\ e.operation = c.op
             /\ e.changedBy = c.claim.userId
             /\ c.op = "CREATE" => e.newValues = Pick(d)
             /\ c.op # "CREATE" =>
                  /\ c.input.gtin # None => e.newValues.gtin = d.gtin
                  /\ c.input.name # None =>
                       e.newValues.name # None /\ Trim[e.newValues.name] = d.name
                  /\ c.input.status # None => e.newValues.status = d.status

(* productUpdate.dto.js:9, "If no effective change detected later, service *)
(* returns current doc (no audit entry)": an update's entry stands for a   *)
(* write that left the document different from the one it was compared to, *)
(* but for blanks around the name that the caller sent and the write       *)
(* trimmed.                                                                *)
OnlyBlanksShowNoChange ==
    \A k \in DOMAIN audits : audits[k].operation = "UPDATE" =>
      LET r == audits[k].req
          sent == call[r].input.name
      IN  Pick(result[r]) # Pick(current[r]) \/ (sent # None /\ Trim[sent] # sent)

(* While nothing has failed, an answered request has its audit entry       *)
(* exactly if it has stored something, and if it has stored something it   *)
(* answered a success: an error means that nothing was written or recorded.*)
AuditedUnlessFault ==
    faults = 0 => \A r \in Requests : pc[r] = "done" =>
      /\ result[r] # None <=> EntriesOf(r) # {}
      /\ code[r] \notin {200, 201} => result[r] = None

Quiet == \A r \in Requests : ~InFlight(r)

(* When nothing has failed and no request is in flight, the trail explains *)
(* the catalog: each field of a product holds a value some entry of the    *)
(* product recorded, and it is published exactly if an entry says so.      *)
TrailExplainsProducts ==
    faults = 0 /\ Quiet => \A i \in Ids : products[i] # None =>
      LET trail == {audits[k] : k \in {j \in DOMAIN audits : audits[j].productId = i}}
      IN  /\ \E e \in trail : e.newValues.gtin = products[i].gtin
          /\ \E e \in trail : e.newValues.name # None
                              /\ Trim[e.newValues.name] = products[i].name
          /\ products[i].status = PUBLISHED <=>
               \E e \in trail : e.newValues.status = PUBLISHED

(* The requests whose write is still to come.                              *)
Open == {r \in Requests : pc[r] \in {"insert", "read", "write"}}

(* The workflow implements the catalog's promise: every write is one its   *)
(* own caller may make, with the claim the request came with - statuses    *)
(* move forward only and by an editor's request, owners never change,      *)
(* providers reach only their own products, an update stores what its      *)
(* caller sent - a request writes at most once, and gtins stay unique.     *)
Catalog == INSTANCE EditorialCatalog
             WITH catalog <- products, calls <- call, open <- Open, Calls <- Call
CatalogPromise == Catalog!CatalogSpec

----------------------------------------------------------------------------
(* What the documentation says and the code does not do.                   *)

(* product.service.js:14, "Provider can update only own PENDING_REVIEW     *)
(* items": the product a provider's update wrote was pending.              *)
ProvidersUpdatePendingOnly ==
    \A r \in Requests :
      result[r] # None /\ call[r].op = "UPDATE" /\ call[r].claim.role = "provider"
        => result[r].status = PENDING
==============================================================================
