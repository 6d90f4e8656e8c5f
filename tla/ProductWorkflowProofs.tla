------------------------ MODULE ProductWorkflowProofs ------------------------
(***************************************************************************)
(* Proofs about ProductWorkflow, for any number of products, requests,     *)
(* users and faults.                                                       *)
(***************************************************************************)
EXTENDS ProductWorkflow, TLAPS

------------------------------------------------------------------------------
(* What holds between any two steps, beside the properties themselves.     *)

(* What a request has in hand at each stage: the call, by an allowed role  *)
(* and with an input of its mutation; the document it read, its own if the *)
(* caller is a provider; the document its write returned; and a product    *)
(* that is in the database from its insertion on.                          *)
Stage(r) ==
    /\ pc[r] = "idle" <=> call[r] = None
    /\ pc[r] = "idle" => result[r] = None
    /\ pc[r] # "idle" =>
         LET c == call[r]
         IN  /\ InFlight(r) => c.claim.role \in Allowed(c.op)
             /\ c.op = "CREATE" => c.input \in CreateInputs
             /\ c.op = "UPDATE" => c.input \in UpdateInputs
             /\ c.op = "STATUS_CHANGE" => c.input = OnlyStatus(PUBLISHED)
             /\ pc[r] \in {"insert", "reread"} => c.op = "CREATE"
             /\ pc[r] \in {"read", "refetch", "write"} => c.op # "CREATE"
             /\ pc[r] \in {"insert", "read", "refetch", "write"} => result[r] = None
             /\ pc[r] = "insert" => products[c.id] = None
             /\ pc[r] \in {"reread", "write", "audit", "emit"} => products[c.id] # None
             /\ pc[r] \in {"audit", "emit"} => result[r] # None
             /\ pc[r] \in {"write", "audit", "emit"} /\ c.op # "CREATE" =>
                  /\ current[r] # None
                  /\ c.claim.role = "provider" =>
                       products[c.id].createdBy = c.claim.userId

Stages == \A r \in Requests : Stage(r)

(* A product in the database was brought there by a createProduct call,    *)
(* and two such calls never share an id.                                   *)
Origins ==
    /\ \A i \in Ids : products[i] # None =>
         \E r \in Requests : call[r] # None /\ call[r].op = "CREATE" /\ call[r].id = i
    /\ \A q, r \in Requests :
         /\ call[q] # None /\ call[q].op = "CREATE"
         /\ call[r] # None /\ call[r].op = "CREATE"
         /\ call[q].id = call[r].id
         => q = r

(* The inductive invariant the proofs rest on.                             *)
IInv == TypeOK /\ Stages /\ Origins

(* A stored document carries what its request sent.                        *)
Carries(doc, input) ==
    /\ input.gtin   # None => doc.gtin = input.gtin
    /\ input.name   # None => doc.name = Trim[input.name]
    /\ input.status # None => doc.status = input.status

(* A copy a request holds is a former version of its product: trimmed, and *)
(* published only if the product is.                                       *)
Version(r, doc) ==
    LET now == products[call[r].id]
    IN  /\ Trim[doc.name] = doc.name
        /\ now # None
        /\ doc.status = PUBLISHED => now.status = PUBLISHED

(* An update only gets to its write if the diff is not empty; what it then *)
(* stored carries its input, whatever was written in between.              *)
Copy(r) ==
    /\ current[r] # None => call[r] # None /\ Version(r, current[r])
    /\ result[r]  # None => Version(r, result[r])
    /\ call[r] # None /\ call[r].op # "CREATE" =>
         /\ result[r] # None => current[r] # None /\ Carries(result[r], call[r].input)
         /\ call[r].op = "UPDATE" /\ (pc[r] = "write" \/ result[r] # None) =>
              HasChanges(current[r], call[r].input)

Copies ==
    /\ \A i \in Ids : products[i] # None => Trim[products[i].name] = products[i].name
    /\ \A r \in Requests : Copy(r)

(* An entry is what its request makes of its copies, then and ever since.  *)
Entries ==
    /\ \A k \in DOMAIN audits : \E r \in Requests :
         pc[r] \in {"emit", "done", "lost"} /\ result[r] # None /\ audits[k] = EntryOf(r)
    /\ \A j, k \in DOMAIN audits : audits[j].req = audits[k].req => j = k

(* While nothing has failed, a write leads to an entry and to a success.   *)
Audited ==
    faults = 0 => \A r \in Requests :
      /\ pc[r] # "lost"
      /\ pc[r] \in {"emit", "done"} /\ result[r] # None => EntriesOf(r) # {}
      /\ pc[r] = "done" /\ result[r] # None => code[r] \in {200, 201}

(* A request that wrote product i, and what it has recorded of it or is    *)
(* going to; a creation that is about to re-read records what it finds.    *)
Writer(r, i) == call[r] # None /\ call[r].id = i /\ result[r] # None

RecordsGtin(r, doc) == pc[r] = "reread" \/ NewValues(r).gtin = doc.gtin

RecordsName(r, doc) ==
    \/ pc[r] = "reread"
    \/ NewValues(r).name # None /\ Trim[NewValues(r).name] = doc.name

RecordsPublished(r) == pc[r] = "reread" \/ NewValues(r).status = PUBLISHED

(* While nothing has failed, some writer accounts for each field of each   *)
(* product.                                                                *)
Explained ==
    faults = 0 => \A i \in Ids : products[i] # None =>
      /\ \E r \in Requests : Writer(r, i) /\ RecordsGtin(r, products[i])
      /\ \E r \in Requests : Writer(r, i) /\ RecordsName(r, products[i])
      /\ products[i].status = PUBLISHED =>
           \E r \in Requests : Writer(r, i) /\ RecordsPublished(r)

(* The inductive invariant behind the trail: the copies a request holds    *)
(* across its awaits are former versions of its product, an entry is what  *)
(* its request made of them, and while nothing has failed every write      *)
(* leads to an entry and every field of a product to a writer.             *)
TrailIInv == IInv /\ Copies /\ Entries /\ Audited /\ Explained

------------------------------------------------------------------------------

(* Storing a payload in a document leaves owner and, without the key,      *)
(* status alone, and yields a document.                                    *)
LEMMA ApplyIsDoc ==
    ASSUME NEW doc \in Doc, NEW u \in Payload
    PROVE  /\ Apply(doc, u) \in Doc
           /\ Apply(doc, u).createdBy = doc.createdBy
           /\ u.status = None => Apply(doc, u).status = doc.status
           /\ u.status # None => Apply(doc, u).status = u.status
  BY DataAssumption DEF Apply, Sent, Doc, Payload

(* Storing { status } alone changes nothing but the status.                *)
LEMMA ApplyOnlyStatus ==
    ASSUME NEW doc \in Doc, NEW s \in Statuses
    PROVE  Apply(doc, OnlyStatus(s)) = [doc EXCEPT !.status = s]
  <1>1. s # None
    BY DataAssumption
  <1>2. Apply(doc, OnlyStatus(s)) =
          [[[doc EXCEPT !.gtin = doc.gtin] EXCEPT !.name = doc.name] EXCEPT !.status = s]
    BY <1>1 DEF Apply, Sent, OnlyStatus
  <1> QED BY <1>2 DEF Doc

(* What save() stores is a document with the given status and owner.       *)
LEMMA NewDocIsDoc ==
    ASSUME NEW in \in [gtin: Gtins, name: Names, status: {None}],
           NEW st \in Statuses, NEW u \in Users
    PROVE  /\ NewDoc(in, st, u) \in Doc
           /\ NewDoc(in, st, u).createdBy = u
           /\ NewDoc(in, st, u).status = st
           /\ NewDoc(in, st, u).gtin = in.gtin
  BY DataAssumption DEF NewDoc, Doc

(* The three mutations' inputs are payloads.                               *)
LEMMA InputsArePayloads ==
    /\ CreateInputs \subseteq Payload
    /\ UpdateInputs \subseteq Payload
    /\ OnlyStatus(PUBLISHED) \in Payload
  BY InputAssumption DEF Payload, OnlyStatus, Statuses

(* The snapshots computeAuditDiff returns are payloads.                    *)
LEMMA DiffIsPayload ==
    ASSUME NEW doc \in Doc, NEW u \in Payload
    PROVE  /\ ComputeAuditDiff(doc, u).previous \in Payload
           /\ ComputeAuditDiff(doc, u).next \in Payload
  BY DataAssumption DEF ComputeAuditDiff, Overlay, Pick, Sent, Doc, Payload, Empty

(* The empty database satisfies the inductive invariant.                   *)
LEMMA InitIInv == Init => IInv
  <1> SUFFICES ASSUME Init PROVE IInv
    OBVIOUS
  <1>1. TypeOK
    BY InputAssumption DEF Init, TypeOK, Pcs, Codes
  <1>2. Stages
    BY DEF Init, Stages, Stage, InFlight
  <1>3. Origins
    BY DEF Init, Origins
  <1> QED BY <1>1, <1>2, <1>3 DEF IInv

(* The call r holds once it has arrived.                                   *)
LEMMA CallType ==
    ASSUME IInv, NEW r \in Requests, pc[r] # "idle"
    PROVE  /\ call[r] \in Call
           /\ call[r].id \in Ids
           /\ call[r].claim \in [userId: Users, role: Roles]
           /\ call[r].claim.userId \in Users
           /\ call[r].input \in Payload
  <1>1. call[r] \in Call
    BY DEF IInv, TypeOK, Stages, Stage
  <1> QED BY <1>1, InputAssumption DEF Call

(* The arrival of a mutation keeps it: a createProduct draws a fresh id.   *)
LEMMA ArriveIInv ==
    ASSUME IInv, NEW r \in Requests, NEW op \in Ops, NEW c \in Claims,
           NEW id \in Ids, NEW in \in Payload,
           op = "CREATE" => in \in CreateInputs /\ FreshId(id),
           op = "UPDATE" => in \in UpdateInputs,
           op = "STATUS_CHANGE" => in = OnlyStatus(PUBLISHED),
           Arrive(r, op, c, id, in)
    PROVE  IInv'
  <1> DEFINE new == [op |-> op, claim |-> c, id |-> id, input |-> in]
  <1>0. /\ new \in Call /\ new # None /\ new.op = op /\ new.id = id
        /\ new.claim = c /\ new.input = in
    BY InputAssumption DEF Call
  <1>1. /\ pc[r] = "idle" /\ call' = [call EXCEPT ![r] = new]
        /\ UNCHANGED <<products, audits, current, result, faults>>
    BY DEF Arrive
  <1>2. \/ /\ c.role \notin Allowed(op)
           /\ pc' = [pc EXCEPT ![r] = "done"] /\ code' = [code EXCEPT ![r] = 403]
        \/ /\ c.role \in Allowed(op) /\ UNCHANGED code
           /\ pc' = [pc EXCEPT ![r] = IF op = "CREATE" THEN "insert" ELSE "read"]
    BY DEF Arrive, Goto, Respond
  <1> HIDE DEF new
  <1>3. TypeOK'
    BY <1>0, <1>1, <1>2 DEF IInv, TypeOK, Pcs, Codes
  <1>4. op = "CREATE" => products[id] = None
    BY DEF IInv, Origins, FreshId
  <1>5. Stages'
    <2> SUFFICES ASSUME NEW q \in Requests PROVE Stage(q)'
      BY DEF Stages
    <2>1. CASE q = r
      BY <2>1, <1>0, <1>1, <1>2, <1>4 DEF IInv, TypeOK, Stages, Stage, InFlight, Ops
    <2>2. CASE q # r
      BY <2>2, <1>0, <1>1, <1>2 DEF IInv, TypeOK, Stages, Stage, InFlight
    <2> QED BY <2>1, <2>2
  <1>6. Origins'
    BY <1>0, <1>1 DEF IInv, TypeOK, Origins, FreshId, Stages, Stage
  <1> QED BY <1>3, <1>5, <1>6 DEF IInv

(* A request that only moves on: it answers, or its audit call is over.    *)
LEMMA MoveIInv ==
    ASSUME IInv, NEW r \in Requests, InFlight(r),
           \/ pc[r] = "audit" /\ Goto(r, "emit")
           \/ \E s \in Codes : Respond(r, s),
           UNCHANGED <<products, call, current, result>>,
           audits' \in Seq(Entry), faults' \in 0..MaxFaults
    PROVE  IInv'
  <1>1. TypeOK'
    BY DEF IInv, TypeOK, Respond, Goto, Pcs
  <1>2. Stages'
    BY DEF IInv, TypeOK, Stages, Stage, Respond, Goto, InFlight
  <1>3. Origins'
    BY DEF IInv, Origins
  <1> QED BY <1>1, <1>2, <1>3 DEF IInv

(* What is stored is a document, owned by whom it belonged to before.      *)
LEMMA StoredIsDoc ==
    ASSUME IInv, NEW r \in Requests, pc[r] \in {"insert", "write"}
    PROVE  /\ Stored(r) \in Doc /\ Stored(r) # None
           /\ pc[r] = "insert" => products[call[r].id] = None
           /\ pc[r] = "write" =>
                /\ products[call[r].id] \in Doc
                /\ Stored(r).createdBy = products[call[r].id].createdBy
  <1>1. call[r].id \in Ids /\ call[r].input \in Payload /\ call[r].claim.userId \in Users
    BY CallType
  <1>2. CASE pc[r] = "insert"
    <2>1. call[r].input \in [gtin: Gtins, name: Names, status: {None}]
      BY <1>2, InputAssumption DEF IInv, Stages, Stage
    <2>2. InitialStatus(call[r].claim) \in Statuses
      BY DEF InitialStatus, Statuses
    <2> QED BY <1>1, <1>2, <2>1, <2>2, NewDocIsDoc, DataAssumption
            DEF Stored, IInv, Stages, Stage
  <1>3. CASE pc[r] = "write"
    <2>1. products[call[r].id] \in Doc
      BY <1>1, <1>3 DEF IInv, TypeOK, Stages, Stage
    <2> QED BY <1>1, <1>3, <2>1, ApplyIsDoc, DataAssumption DEF Stored
  <1> QED BY <1>2, <1>3

(* Storing it: a product appears only at the id its creator drew, and a    *)
(* product that was there keeps its owner.                                 *)
LEMMA StoreIInv ==
    ASSUME IInv, NEW r \in Requests, pc[r] \in {"insert", "write"},
           products' = [products EXCEPT ![call[r].id] = Stored(r)],
           \/ /\ result' = [result EXCEPT ![r] = Stored(r)]
              /\ Goto(r, IF pc[r] = "insert" THEN "reread" ELSE "audit")
           \/ UNCHANGED result /\ Respond(r, 500),
           UNCHANGED <<audits, call, current>>,
           faults' \in 0..MaxFaults
    PROVE  IInv'
  <1> DEFINE id == call[r].id
             doc == Stored(r)
  <1>0. /\ doc \in Doc /\ doc # None /\ id \in Ids
        /\ pc[r] = "insert" => products[id] = None
        /\ pc[r] = "write" => products[id] # None /\ doc.createdBy = products[id].createdBy
    BY StoredIsDoc, CallType, DataAssumption
  <1>1. /\ products' = [products EXCEPT ![id] = doc]
        /\ \/ /\ result' = [result EXCEPT ![r] = doc]
              /\ Goto(r, IF pc[r] = "insert" THEN "reread" ELSE "audit")
           \/ UNCHANGED result /\ Respond(r, 500)
    OBVIOUS
  <1> HIDE DEF doc
  <1>2. TypeOK'
    BY <1>0, <1>1 DEF IInv, TypeOK, Pcs, Codes, Goto, Respond
  <1>3. pc[r] = "insert" => call[r].op = "CREATE"
    BY DEF IInv, Stages, Stage
  <1>4. \A q \in Requests \ {r} : pc[q] = "insert" => call[q].id # id
    <2> SUFFICES ASSUME NEW q \in Requests \ {r}, pc[q] = "insert" PROVE call[q].id # id
      OBVIOUS
    <2>1. call[q] # None /\ call[q].op = "CREATE" /\ call[r] # None
      BY DEF IInv, Stages, Stage
    <2>2. products[call[q].id] = None
      BY DEF IInv, Stages, Stage
    <2> QED BY <1>0, <1>3, <2>1, <2>2 DEF IInv, Origins
  <1>5. Stages'
    <2> SUFFICES ASSUME NEW q \in Requests PROVE Stage(q)'
      BY DEF Stages
    <2>1. CASE q = r
      BY <2>1, <1>0, <1>1, <1>3 DEF IInv, TypeOK, Stages, Stage, InFlight, Goto, Respond
    <2>2. CASE q # r
      BY <2>2, <1>0, <1>1, <1>4 DEF IInv, TypeOK, Stages, Stage, InFlight, Goto, Respond
    <2> QED BY <2>1, <2>2
  <1>6. Origins'
    BY <1>0, <1>1, <1>3 DEF IInv, TypeOK, Origins, Stages, Stage
  <1> QED BY <1>2, <1>5, <1>6 DEF IInv

(* The entry a request is about to insert.                                 *)
LEMMA EntryType ==
    ASSUME IInv, NEW r \in Requests, pc[r] = "audit"
    PROVE  EntryOf(r) \in Entry
  <1>1. /\ call[r].id \in Ids /\ call[r].input \in Payload /\ call[r].op \in Ops
        /\ call[r].claim.userId \in Users
    BY CallType DEF Call
  <1>2. /\ result[r] \in Doc
        /\ call[r].op # "CREATE" => current[r] \in Doc
    BY DEF IInv, TypeOK, Stages, Stage
  <1>3. PreviousValues(r) \in Payload /\ NewValues(r) \in Payload
    <2>1. CASE call[r].op = "CREATE"
      BY <2>1, <1>2 DEF PreviousValues, NewValues, Empty, Pick, Payload, Doc
    <2>2. CASE call[r].op = "UPDATE"
      BY <2>2, <1>1, <1>2, DiffIsPayload DEF PreviousValues, NewValues
    <2>3. CASE call[r].op = "STATUS_CHANGE"
      BY <2>3, <1>2 DEF PreviousValues, NewValues, OnlyStatus, Payload, Doc, Statuses
    <2> QED BY <1>1, <2>1, <2>2, <2>3 DEF Ops
  <1> QED BY <1>1, <1>3 DEF EntryOf, Entry

(* Every step keeps the inductive invariant.                               *)
LEMMA NextIInv == IInv /\ [Next]_vars => IInv'
  <1> SUFFICES ASSUME IInv, [Next]_vars PROVE IInv'
    OBVIOUS
  <1>0. audits \in Seq(Entry) /\ faults \in 0..MaxFaults /\ MaxFaults \in Nat
    BY InputAssumption DEF IInv, TypeOK
  <1>f. Fault => faults' \in 0..MaxFaults
    BY <1>0 DEF Fault
  <1>1. ASSUME NEW r \in Requests, Step(r) PROVE IInv'
    <2>1. CASE CreateProduct(r)
      BY <2>1, ArriveIInv, InputsArePayloads DEF CreateProduct, Ops
    <2>2. CASE UpdateProduct(r)
      BY <2>2, ArriveIInv, InputsArePayloads DEF UpdateProduct, Ops
    <2>3. CASE ApproveProduct(r)
      BY <2>3, ArriveIInv, InputsArePayloads DEF ApproveProduct, Ops
    <2>4. CASE Insert(r)
      <3>0. InFlight(r) /\ UNCHANGED <<audits, call, current, faults>>
        BY <2>4 DEF Insert, Store, InFlight
      <3>1. CASE Taken(call[r].id, Stored(r).gtin)
        BY <2>4, <3>0, <3>1, <1>0, MoveIInv DEF Insert, Store, Codes
      <3>2. CASE ~Taken(call[r].id, Stored(r).gtin)
        BY <2>4, <3>0, <3>2, <1>0, StoreIInv DEF Insert, Store, Goto
      <3> QED BY <3>1, <3>2
    <2>5. CASE Reread(r)
      <3>1. call[r].id \in Ids /\ call[r].op = "CREATE"
        BY <2>5, CallType DEF Reread, IInv, Stages, Stage
      <3>2. TypeOK'
        BY <2>5, <3>1 DEF Reread, Goto, IInv, TypeOK, Pcs
      <3>3. Stages'
        BY <2>5, <3>1 DEF Reread, Goto, IInv, TypeOK, Stages, Stage, InFlight
      <3>4. Origins'
        BY <2>5 DEF Reread, IInv, Origins
      <3> QED BY <3>2, <3>3, <3>4 DEF IInv
    <2>6. CASE Read(r)
      <3> DEFINE c == call[r]
                 doc == products[c.id]
                 verdict == IF c.op = "UPDATE" THEN UpdateVerdict(c, doc)
                            ELSE ApproveVerdict(doc)
      <3>0. /\ InFlight(r) /\ pc[r] = "read" /\ UNCHANGED <<products, audits, call, result, faults>>
            /\ verdict \in Codes
            /\ c.id \in Ids /\ c.op \in Ops \ {"CREATE"}
        BY <2>6, CallType DEF Read, InFlight, UpdateVerdict, ApproveVerdict, Codes, Call,
                              IInv, Stages, Stage
      <3>1. CASE verdict # 200
        <4>1. Respond(r, verdict) /\ UNCHANGED current
          BY <2>6, <3>1 DEF Read
        <4> QED BY <3>0, <4>1, <1>0, MoveIInv
      <3>2. CASE verdict = 200
        <4>1. /\ doc # None
              /\ c.claim.role = "provider" => doc.createdBy = c.claim.userId
          <5>1. CASE c.op = "UPDATE"
            BY <3>2, <5>1 DEF UpdateVerdict
          <5>2. CASE c.op # "UPDATE"
            <6>1. c.claim.role = "editor"
              BY <3>0, <5>2 DEF IInv, Stages, Stage, Allowed, Ops
            <6> QED BY <3>2, <5>2, <6>1 DEF ApproveVerdict
          <5> QED BY <5>1, <5>2
        <4>2. /\ current' = [current EXCEPT ![r] = doc]
              /\ \E label \in {"refetch", "write"} : Goto(r, label)
          BY <2>6, <3>2 DEF Read
        <4>3. TypeOK'
          BY <3>0, <4>2 DEF Goto, IInv, TypeOK, Pcs
        <4>4. Stages'
          BY <3>0, <4>1, <4>2 DEF Goto, IInv, TypeOK, Stages, Stage, InFlight
        <4>5. Origins'
          BY <3>0 DEF IInv, Origins
        <4> QED BY <4>3, <4>4, <4>5 DEF IInv
      <3> QED BY <3>1, <3>2
    <2>7. CASE Refetch(r)
      BY <2>7, <1>0, MoveIInv DEF Refetch, InFlight, Codes
    <2>8. CASE Write(r)
      <3>0. InFlight(r) /\ UNCHANGED <<audits, call, current, faults>>
        BY <2>8 DEF Write, Store, InFlight
      <3>1. CASE Taken(call[r].id, Stored(r).gtin)
        BY <2>8, <3>0, <3>1, <1>0, MoveIInv DEF Write, Store, Codes
      <3>2. CASE ~Taken(call[r].id, Stored(r).gtin)
        BY <2>8, <3>0, <3>2, <1>0, StoreIInv DEF Write, Store, Goto
      <3> QED BY <3>1, <3>2
    <2>9. CASE Audit(r)
      <3>1. audits' \in Seq(Entry)
        BY <2>9, <1>0, EntryType DEF Audit
      <3> QED BY <2>9, <3>1, <1>0, MoveIInv DEF Audit, InFlight
    <2>10. CASE Emit(r)
      BY <2>10, <1>0, MoveIInv DEF Emit, InFlight, Codes
    <2>11. CASE CallFails(r)
      BY <2>11, <1>0, <1>f, MoveIInv DEF CallFails, InFlight, Codes
    <2>12. CASE AckLost(r)
      BY <2>12, <1>f, StoreIInv DEF AckLost
    <2>13. CASE AuditFails(r)
      BY <2>13, <1>0, <1>f, MoveIInv DEF AuditFails, InFlight
    <2> QED BY <1>1, <2>1, <2>2, <2>3, <2>4, <2>5, <2>6, <2>7, <2>8, <2>9,
                <2>10, <2>11, <2>12, <2>13 DEF Step
  <1>2. CASE Crash
    <2>1. TypeOK'
      BY <1>2, <1>f DEF Crash, IInv, TypeOK, Pcs
    <2>2. Stages'
      BY <1>2 DEF Crash, IInv, TypeOK, Stages, Stage, InFlight
    <2>3. Origins'
      BY <1>2 DEF Crash, IInv, Origins
    <2> QED BY <2>1, <2>2, <2>3 DEF IInv
  <1>3. CASE UNCHANGED vars
    BY <1>3 DEF vars, IInv, TypeOK, Stages, Stage, InFlight, Origins
  <1> QED BY <1>1, <1>2, <1>3 DEF Next, Finished

(* Every reachable state satisfies the inductive invariant: the variables  *)
(* keep their shapes, and each request holds what its stage of the service *)
(* method needs.                                                           *)
THEOREM InvariantHolds == Spec => []IInv
  BY InitIInv, NextIInv, PTL DEF Spec

----------------------------------------------------------------------------
(* A step changes products only by an insertion or an update that no other *)
(* product's gtin stands in the way of, and never a call that has arrived. *)
Stores(r) ==
    /\ pc[r] \in {"insert", "write"}
    /\ ~Taken(call[r].id, Stored(r).gtin)
    /\ products' = [products EXCEPT ![call[r].id] = Stored(r)]
    /\ UNCHANGED call

LEMMA StepCases ==
    ASSUME IInv, [Next]_vars
    PROVE  /\ UNCHANGED products \/ \E r \in Requests : Stores(r)
           /\ \A q \in Requests : call[q] # None => call'[q] = call[q]
  <1>1. ASSUME NEW r \in Requests, Step(r)
        PROVE  /\ UNCHANGED products \/ Stores(r)
               /\ \A q \in Requests : call[q] # None => call'[q] = call[q]
    <2>1. CASE CreateProduct(r) \/ UpdateProduct(r) \/ ApproveProduct(r)
      <3>1. PICK op, c, id, in : Arrive(r, op, c, id, in)
        BY <2>1 DEF CreateProduct, UpdateProduct, ApproveProduct
      <3>2. call[r] = None
        BY <3>1 DEF Arrive, IInv, Stages, Stage
      <3> QED BY <3>1, <3>2 DEF Arrive, IInv, TypeOK
    <2>2. CASE Insert(r)
      BY <2>2 DEF Insert, Store, Stores, Goto
    <2>3. CASE Write(r)
      BY <2>3 DEF Write, Store, Stores, Goto
    <2>4. CASE AckLost(r)
      BY <2>4 DEF AckLost, Stores
    <2>5. CASE Reread(r) \/ Read(r) \/ Refetch(r) \/ Audit(r) \/ Emit(r)
      BY <2>5 DEF Reread, Read, Refetch, Audit, Emit
    <2>6. CASE CallFails(r) \/ AuditFails(r)
      BY <2>6 DEF CallFails, AuditFails
    <2> QED BY <1>1, <2>1, <2>2, <2>3, <2>4, <2>5, <2>6 DEF Step
  <1>2. CASE Crash
    BY <1>2 DEF Crash
  <1>3. CASE UNCHANGED vars
    BY <1>3 DEF vars
  <1> QED BY <1>1, <1>2, <1>3 DEF Next, Finished

(* What a stored document says, by mutation.                               *)
LEMMA StoredCases ==
    ASSUME IInv, NEW r \in Requests, pc[r] \in {"insert", "write"}
    PROVE  LET c   == call[r]
               old == products[c.id]
               new == Stored(r)
           IN  \/ /\ c.op = "CREATE" /\ old = None
                  /\ new.status = InitialStatus(c.claim)
                  /\ new.createdBy = c.claim.userId
               \/ /\ c.op = "UPDATE" /\ old # None
                  /\ new.status = old.status /\ new.createdBy = old.createdBy
                  /\ c.claim.role = "editor" \/ old.createdBy = c.claim.userId
               \/ /\ c.op = "STATUS_CHANGE" /\ old # None
                  /\ new = [old EXCEPT !.status = PUBLISHED]
                  /\ c.claim.role = "editor"
  <1>1. /\ call[r].op \in Ops /\ call[r].id \in Ids /\ call[r].input \in Payload
        /\ call[r].claim.role \in Allowed(call[r].op)
    BY CallType DEF Call, IInv, Stages, Stage, InFlight
  <1>2. CASE pc[r] = "insert"
    <2>1. call[r].op = "CREATE" /\ products[call[r].id] = None
      BY <1>2 DEF IInv, Stages, Stage
    <2> QED BY <1>2, <2>1 DEF Stored, NewDoc
  <1>3. CASE pc[r] = "write"
    <2>1. /\ products[call[r].id] \in Doc /\ products[call[r].id] # None
          /\ Stored(r) = Apply(products[call[r].id], call[r].input)
      BY <1>1, <1>3 DEF IInv, TypeOK, Stages, Stage, Stored
    <2>2. CASE call[r].op = "UPDATE"
      <3>1. call[r].input.status = None
        BY <1>3, <2>2, InputAssumption DEF IInv, Stages, Stage
      <3>2. call[r].claim.role = "editor" \/ products[call[r].id].createdBy = call[r].claim.userId
        BY <1>1, <1>3, <2>2 DEF IInv, Stages, Stage, Allowed
      <3> QED BY <1>1, <2>1, <2>2, <3>1, <3>2, ApplyIsDoc
    <2>3. CASE call[r].op = "STATUS_CHANGE"
      <3>1. call[r].input = OnlyStatus(PUBLISHED)
        BY <1>3, <2>3 DEF IInv, Stages, Stage
      <3>2. Stored(r) = [products[call[r].id] EXCEPT !.status = PUBLISHED]
        BY <2>1, <3>1, ApplyOnlyStatus DEF Statuses
      <3> QED BY <1>1, <2>1, <2>3, <3>2 DEF Allowed
    <2>4. call[r].op # "CREATE"
      BY <1>3 DEF IInv, Stages, Stage
    <2> QED BY <1>1, <2>2, <2>3, <2>4 DEF Ops
  <1> QED BY <1>2, <1>3

(* One step keeps an editor behind every published product.                *)
LEMMA NextPublishedByEditor ==
    ASSUME IInv, PublishedByEditor, [Next]_vars
    PROVE  PublishedByEditor'
  <1> SUFFICES ASSUME NEW i \in Ids, products'[i] # None, products'[i].status = PUBLISHED
               PROVE  \E r \in Requests :
                        /\ call'[r] # None /\ call'[r].id = i
                        /\ call'[r].claim.role = "editor"
                        /\ call'[r].op \in {"CREATE", "STATUS_CHANGE"}
    BY DEF PublishedByEditor
  <1>1. CASE products'[i] = products[i]
    <2>1. PICK r \in Requests : /\ call[r] # None /\ call[r].id = i
                                /\ call[r].claim.role = "editor"
                                /\ call[r].op \in {"CREATE", "STATUS_CHANGE"}
      BY <1>1 DEF PublishedByEditor
    <2> QED BY <2>1, StepCases
  <1>2. CASE products'[i] # products[i]
    <2>1. PICK r \in Requests : Stores(r)
      BY <1>2, StepCases
    <2>2. /\ call[r] # None /\ UNCHANGED call
          /\ call[r].id = i /\ products'[i] = Stored(r)
      BY <1>2, <2>1 DEF Stores, IInv, TypeOK, Stages, Stage
    <2>3. CASE call[r].op = "UPDATE"
      <3>1. products[i] # None /\ products[i].status = PUBLISHED
        BY <2>1, <2>2, <2>3, StoredCases DEF Stores
      <3> QED BY <2>2, <3>1 DEF PublishedByEditor
    <2>4. CASE call[r].op = "CREATE"
      <3>1. call[r].claim.role = "editor"
        BY <2>1, <2>2, <2>4, StoredCases DEF Stores, InitialStatus, PENDING, PUBLISHED
      <3> QED BY <2>2, <2>4, <3>1
    <2>5. CASE call[r].op = "STATUS_CHANGE"
      BY <2>1, <2>2, <2>5, StoredCases DEF Stores
    <2> QED BY <2>1, <2>3, <2>4, <2>5, StoredCases DEF Stores
  <1> QED BY <1>1, <1>2

(* However many requests interleave, fail or die, a product is published   *)
(* only if an editor created it or had its approval let through.           *)
THEOREM OnlyEditorsPublish == Spec => []PublishedByEditor
  <1>1. Init => PublishedByEditor
    BY DEF Init, PublishedByEditor
  <1>2. IInv /\ PublishedByEditor /\ [Next]_vars => PublishedByEditor'
    BY NextPublishedByEditor
  <1> QED BY <1>1, <1>2, InvariantHolds, PTL DEF Spec

----------------------------------------------------------------------------
(* What a step does to the requests whose write is still to come: it adds  *)
(* one that arrives, and a write ends its request's.                       *)
LEMMA OpenStep ==
    ASSUME IInv, [Next]_vars
    PROVE  \/ \E r \in Requests : Catalog!Ask(r)
           \/ \E r \in Requests : Stores(r) /\ r \in Open /\ Open' = Open \ {r}
           \/ Open' \subseteq Open /\ UNCHANGED <<products, call>>
  <1>1. ASSUME NEW r \in Requests, Step(r)
        PROVE  \/ Catalog!Ask(r)
               \/ Stores(r) /\ r \in Open /\ Open' = Open \ {r}
               \/ Open' \subseteq Open /\ UNCHANGED <<products, call>>
    <2>1. ASSUME NEW op \in Ops, NEW c \in Claims, NEW id \in Ids, NEW in \in Payload,
                 Arrive(r, op, c, id, in)
          PROVE  Catalog!Ask(r)
      <3> DEFINE new == [op |-> op, claim |-> c, id |-> id, input |-> in]
      <3>1. new \in Call
        BY DEF Call
      <3>2. /\ call[r] = None /\ call' = [call EXCEPT ![r] = new] /\ UNCHANGED products
        BY <2>1 DEF Arrive, IInv, Stages, Stage
      <3> HIDE DEF new
      <3>3. call'[r] = new
        BY <3>2 DEF IInv, TypeOK
      <3>4. Open' \in {Open, Open \union {r}}
        BY <2>1 DEF Arrive, Respond, Goto, Open, IInv, TypeOK
      <3> QED BY <3>1, <3>2, <3>3, <3>4 DEF Catalog!Ask
    <2>2. CASE CreateProduct(r) \/ UpdateProduct(r) \/ ApproveProduct(r)
      BY <2>1, <2>2, InputsArePayloads DEF CreateProduct, UpdateProduct, ApproveProduct, Ops
    <2>3. ASSUME pc[r] \in {"insert", "write"}, NEW l, l \notin {"insert", "read", "write"},
                 pc' = [pc EXCEPT ![r] = l]
          PROVE  r \in Open /\ Open' = Open \ {r}
      BY <2>3 DEF Open, IInv, TypeOK
    <2>4. CASE Insert(r) \/ Write(r)
      <3>1. CASE Taken(call[r].id, Stored(r).gtin)
        <4>1. pc[r] \in {"insert", "write"} /\ pc' = [pc EXCEPT ![r] = "done"]
              /\ UNCHANGED <<products, call>>
          BY <2>4, <3>1 DEF Insert, Write, Store, Respond
        <4> QED BY <4>1, <2>3
      <3>2. CASE ~Taken(call[r].id, Stored(r).gtin)
        <4>1. /\ Stores(r)
              /\ \E l \in {"reread", "audit"} : pc' = [pc EXCEPT ![r] = l]
          BY <2>4, <3>2 DEF Insert, Write, Store, Stores, Goto
        <4> QED BY <4>1, <2>3 DEF Stores
      <3> QED BY <3>1, <3>2
    <2>5. CASE AckLost(r)
      <3>1. Stores(r) /\ pc' = [pc EXCEPT ![r] = "done"]
        BY <2>5 DEF AckLost, Stores, Respond
      <3> QED BY <3>1, <2>3 DEF Stores
    <2>6. ASSUME NEW l, pc' = [pc EXCEPT ![r] = l],
                 l \in {"insert", "read", "write"} => r \in Open
          PROVE  Open' \subseteq Open
      BY <2>6 DEF Open, IInv, TypeOK
    <2>7. CASE Read(r)
      <3>1. /\ UNCHANGED <<products, call>> /\ r \in Open
            /\ \E l : pc' = [pc EXCEPT ![r] = l]
        BY <2>7 DEF Read, Respond, Goto, Open
      <3> QED BY <3>1, <2>6
    <2>8. CASE Reread(r) \/ Refetch(r) \/ Audit(r) \/ Emit(r)
      <3>1. /\ UNCHANGED <<products, call>>
            /\ \E l \in {"audit", "done", "emit"} : pc' = [pc EXCEPT ![r] = l]
        BY <2>8 DEF Reread, Refetch, Audit, Emit, Respond, Goto
      <3> QED BY <3>1, <2>6
    <2>9. CASE CallFails(r) \/ AuditFails(r)
      <3>1. /\ UNCHANGED <<products, call>>
            /\ \E l \in {"done", "emit"} : pc' = [pc EXCEPT ![r] = l]
        BY <2>9 DEF CallFails, AuditFails, Respond, Goto
      <3> QED BY <3>1, <2>6
    <2> QED BY <1>1, <2>2, <2>4, <2>5, <2>7, <2>8, <2>9 DEF Step
  <1>2. CASE Crash
    BY <1>2 DEF Crash, Open, InFlight
  <1>3. CASE UNCHANGED vars
    BY <1>3 DEF vars, Open
  <1> QED BY <1>1, <1>2, <1>3 DEF Next, Finished

(* A document stored under a gtin nobody else holds is what the storing    *)
(* request's own call may do to the catalog, with the claim it came with,  *)
(* or an approval of what is published already.                            *)
LEMMA StoresIsOwnCall ==
    ASSUME IInv, NEW r \in Requests, Stores(r)
    PROVE  \/ Catalog!Submit(call[r]) \/ Catalog!Edit(call[r]) \/ Catalog!Approve(call[r])
           \/ UNCHANGED products
  <1> DEFINE c == call[r]
             i == c.id
             old == products[i]
             new == Stored(r)
  <1>1. /\ i \in Ids /\ c.claim \in Claims /\ new \in Doc /\ new # None
        /\ old \in Doc \union {None} /\ c.input \in Payload
        /\ products' = [products EXCEPT ![i] = new]
        /\ pc[r] \in {"insert", "write"}
        /\ products \in [Ids -> Doc \union {None}]
    BY CallType, StoredIsDoc DEF Call, IInv, TypeOK, Stores, Stages, Stage
  <1>2. Catalog!FreeGtin(products, i, new.gtin)
    BY <1>1 DEF Stores, Taken, Catalog!FreeGtin
  <1>3. c.claim.role \in Allowed(c.op)
    BY <1>1 DEF IInv, Stages, Stage, InFlight
  <1>4. CASE c.op = "CREATE"
    <2>1. old = None /\ pc[r] = "insert"
      BY <1>1, <1>4, StoredCases DEF IInv, Stages, Stage
    <2>2. new = [gtin |-> c.input.gtin, name |-> Trim[c.input.name],
                 status |-> IF Catalog!IsEditor(c) THEN Catalog!PUBLISHED ELSE Catalog!PENDING,
                 createdBy |-> c.claim.userId]
      BY <2>1 DEF Stored, NewDoc, InitialStatus, PUBLISHED, PENDING,
                  Catalog!PUBLISHED, Catalog!PENDING, Catalog!IsEditor
    <2>3. Catalog!IsEditor(c) \/ Catalog!IsProvider(c)
      BY <1>3, <1>4 DEF Allowed, Catalog!IsEditor, Catalog!IsProvider
    <2>4. new.gtin = c.input.gtin
      BY <2>2
    <2> HIDE DEF new
    <2>5. Catalog!Submit(c)
      BY <1>1, <1>2, <1>4, <2>1, <2>2, <2>3, <2>4 DEF Catalog!Submit
    <2> QED BY <2>5
  <1>5. CASE c.op = "UPDATE"
    <2>1. /\ old # None /\ pc[r] = "write" /\ c.input.status = None
          /\ c.claim.role = "editor" \/ old.createdBy = c.claim.userId
      BY <1>1, <1>5, StoredCases, InputAssumption DEF IInv, Stages, Stage
    <2>2. new = Apply(old, c.input)
      BY <2>1 DEF Stored
    <2>3. new = [old EXCEPT !.gtin = Catalog!Sent(c.input.gtin, @),
                            !.name = IF c.input.name = None THEN @ ELSE Trim[c.input.name]]
      BY <1>1, <2>1, <2>2 DEF Apply, Sent, Catalog!Sent, Doc
    <2>4. new.gtin = Catalog!Sent(c.input.gtin, old.gtin)
      BY <1>1, <2>1, <2>3 DEF Doc
    <2> HIDE DEF new
    <2>5. products' = [products EXCEPT
            ![i].gtin = Catalog!Sent(c.input.gtin, @),
            ![i].name = IF c.input.name = None THEN @ ELSE Trim[c.input.name]]
      BY <1>1, <2>3
    <2>6. Catalog!IsEditor(c) \/ (Catalog!IsProvider(c) /\ old.createdBy = c.claim.userId)
      BY <1>3, <1>5, <2>1 DEF Allowed, Catalog!IsEditor, Catalog!IsProvider
    <2>7. Catalog!Edit(c)
      BY <1>2, <1>5, <2>1, <2>4, <2>5, <2>6 DEF Catalog!Edit
    <2> QED BY <2>7
  <1>6. CASE c.op = "STATUS_CHANGE"
    <2>1. old # None /\ new = [old EXCEPT !.status = PUBLISHED] /\ c.claim.role = "editor"
      BY <1>1, <1>6, StoredCases
    <2>2. CASE old.status = PENDING
      BY <1>1, <1>6, <2>1, <2>2
         DEF Catalog!Approve, Catalog!IsEditor, PUBLISHED, PENDING,
             Catalog!PUBLISHED, Catalog!PENDING
    <2>3. CASE old.status # PENDING
      <3>1. old.status = PUBLISHED
        BY <1>1, <2>1, <2>3 DEF Doc, Statuses
      <3>2. new = old
        BY <1>1, <2>1, <3>1 DEF Doc
      <3> QED BY <1>1, <3>2
    <2> QED BY <2>2, <2>3
  <1> QED BY <1>1, <1>4, <1>5, <1>6, StoredCases

(* Every step of the workflow is one of the catalog, or none.              *)
LEMMA CatalogStep ==
    ASSUME IInv, [Next]_vars
    PROVE  [Catalog!CatalogNext]_(Catalog!catalogVars)
  <1>1. ASSUME NEW r \in Requests, Stores(r), r \in Open, Open' = Open \ {r}
        PROVE  Catalog!Perform(r) \/ Catalog!Close
    BY <1>1, StoresIsOwnCall DEF Catalog!Perform, Catalog!Close, Stores
  <1>2. ASSUME Open' \subseteq Open, UNCHANGED <<products, call>>
        PROVE  Catalog!Close
    BY <1>2 DEF Catalog!Close
  <1> QED BY <1>1, <1>2, OpenStep DEF Catalog!CatalogNext

(* The service implements the catalog's promise, whatever interleaves and  *)
(* fails: each write is a submission, an edit or an approval its own       *)
(* request may make with the claim it came with, and a request makes one at*)
(* most - so a provider changes its own products only, and nobody but an   *)
(* editor publishes (product.service.js:68-252).                           *)
THEOREM ImplementsCatalog == Spec => CatalogPromise
  <1>1. Init => Catalog!CatalogInit
    BY DEF Init, Catalog!CatalogInit, Open
  <1>2. IInv /\ [Next]_vars => [Catalog!CatalogNext]_(Catalog!catalogVars)
    BY CatalogStep
  <1> QED BY <1>1, <1>2, InvariantHolds, PTL DEF Spec, CatalogPromise, Catalog!CatalogSpec

------------------------------------------------------------------------------
(* The audit trail.                                                        *)

(* An update whose diff is not empty records the overlay of its input on   *)
(* the document it read.                                                   *)
LEMMA DiffOfChanges ==
    ASSUME NEW doc, NEW u, HasChanges(doc, u)
    PROVE  /\ ComputeAuditDiff(doc, u).next = Overlay(Pick(doc), u)
           /\ Overlay(Pick(doc), u) # Pick(doc)
  BY DEF HasChanges, ComputeAuditDiff

(* What an update stores carries its input, and is trimmed.                *)
LEMMA ApplyCarries ==
    ASSUME NEW doc \in Doc, NEW u \in Payload, Trim[doc.name] = doc.name
    PROVE  /\ Carries(Apply(doc, u), u)
           /\ Trim[Apply(doc, u).name] = Apply(doc, u).name
           /\ u.gtin = None => Apply(doc, u).gtin = doc.gtin
           /\ u.name = None => Apply(doc, u).name = doc.name
  BY DataAssumption DEF Apply, Sent, Carries, Doc, Payload

(* What a request is about to store is trimmed, and carries its input.     *)
LEMMA StoredCarries ==
    ASSUME IInv, Copies, NEW r \in Requests, pc[r] \in {"insert", "write"}
    PROVE  /\ Trim[Stored(r).name] = Stored(r).name
           /\ pc[r] = "write" => Carries(Stored(r), call[r].input)
           /\ pc[r] = "write" /\ call[r].input.gtin = None =>
                Stored(r).gtin = products[call[r].id].gtin
           /\ pc[r] = "write" /\ call[r].input.name = None =>
                Stored(r).name = products[call[r].id].name
  <1>1. call[r].id \in Ids /\ call[r].input \in Payload
    BY CallType
  <1>2. CASE pc[r] = "insert"
    <2>1. call[r].input.name \in Names
      BY <1>2, InputAssumption DEF IInv, Stages, Stage
    <2> QED BY <1>2, <2>1, DataAssumption DEF Stored, NewDoc
  <1>3. CASE pc[r] = "write"
    <2>1. products[call[r].id] \in Doc /\ products[call[r].id] # None
      BY <1>1, <1>3 DEF IInv, TypeOK, Stages, Stage
    <2>2. Trim[products[call[r].id].name] = products[call[r].id].name
      BY <1>1, <2>1 DEF Copies
    <2> QED BY <1>1, <1>3, <2>1, <2>2, ApplyCarries DEF Stored
  <1> QED BY <1>2, <1>3

----------------------------------------------------------------------------
(* What a step leaves alone.                                               *)

(* A step of one request touches no other request's variables.             *)
LEMMA Frame ==
    ASSUME IInv, NEW r \in Requests, Step(r), NEW q \in Requests, q # r
    PROVE  /\ pc'[q] = pc[q] /\ call'[q] = call[q] /\ code'[q] = code[q]
           /\ current'[q] = current[q] /\ result'[q] = result[q]
  <1>1. CASE CreateProduct(r) \/ UpdateProduct(r) \/ ApproveProduct(r)
    <2>1. PICK op, c, id, in : Arrive(r, op, c, id, in)
      BY <1>1 DEF CreateProduct, UpdateProduct, ApproveProduct
    <2> QED BY <2>1 DEF Arrive, Respond, Goto, IInv, TypeOK
  <1>2. CASE Insert(r) \/ Write(r) \/ Reread(r)
    BY <1>2 DEF Insert, Write, Reread, Store, Respond, Goto, IInv, TypeOK
  <1>3. CASE Read(r)
    BY <1>3 DEF Read, Respond, Goto, IInv, TypeOK
  <1>4. CASE Refetch(r) \/ Audit(r) \/ Emit(r)
    BY <1>4 DEF Refetch, Audit, Emit, Respond, Goto, IInv, TypeOK
  <1>5. CASE CallFails(r) \/ AckLost(r) \/ AuditFails(r)
    BY <1>5 DEF CallFails, AckLost, AuditFails, Respond, Goto, IInv, TypeOK
  <1> QED BY <1>1, <1>2, <1>3, <1>4, <1>5 DEF Step

(* A request whose write has returned keeps its call and its copies.       *)
LEMMA AfterWrite ==
    ASSUME IInv, [Next]_vars, NEW q \in Requests, pc[q] \in {"audit", "emit", "done", "lost"}
    PROVE  /\ call'[q] = call[q] /\ current'[q] = current[q] /\ result'[q] = result[q]
           /\ pc[q] # "audit" => pc'[q] \in {"emit", "done", "lost"}
           /\ pc'[q] \in {"audit", "emit", "done", "lost"}
  <1>1. ASSUME Step(q)
        PROVE  /\ UNCHANGED <<call, current, result>>
               /\ pc' = [pc EXCEPT ![q] = IF pc[q] = "audit" THEN "emit" ELSE "done"]
    <2>1. ~CreateProduct(q) /\ ~UpdateProduct(q) /\ ~ApproveProduct(q)
      BY DEF CreateProduct, UpdateProduct, ApproveProduct, Arrive
    <2>2. ~Insert(q) /\ ~Write(q) /\ ~Reread(q) /\ ~Read(q) /\ ~Refetch(q)
      BY DEF Insert, Write, Reread, Read, Refetch
    <2>3. ~CallFails(q) /\ ~AckLost(q)
      BY DEF CallFails, AckLost
    <2>4. CASE Audit(q) \/ AuditFails(q)
      BY <2>4 DEF Audit, AuditFails, Goto
    <2>5. CASE Emit(q)
      BY <2>5 DEF Emit, Respond
    <2> QED BY <1>1, <2>1, <2>2, <2>3, <2>4, <2>5 DEF Step
  <1>2. CASE Step(q)
    BY <1>1, <1>2 DEF IInv, TypeOK
  <1>3. ASSUME NEW r \in Requests, r # q, Step(r)
        PROVE  /\ call'[q] = call[q] /\ current'[q] = current[q]
               /\ result'[q] = result[q] /\ pc'[q] = pc[q]
    BY <1>3, Frame
  <1>4. CASE Crash
    BY <1>4 DEF Crash, InFlight
  <1>5. CASE UNCHANGED vars
    BY <1>5 DEF vars
  <1> QED BY <1>2, <1>3, <1>4, <1>5 DEF Next, Finished

(* A product stays there, and published.                                   *)
LEMMA ProductsStay ==
    ASSUME IInv, [Next]_vars, NEW i \in Ids, products[i] # None
    PROVE  /\ products'[i] # None
           /\ products[i].status = PUBLISHED => products'[i].status = PUBLISHED
  <1>1. CASE products'[i] = products[i]
    BY <1>1
  <1>2. CASE products'[i] # products[i]
    <2>1. PICK r \in Requests : Stores(r)
      BY <1>2, StepCases
    <2>2. call[r].id = i /\ products'[i] = Stored(r) /\ pc[r] \in {"insert", "write"}
      BY <1>2, <2>1 DEF Stores, IInv, TypeOK
    <2>3. Stored(r) # None
      BY <2>2, StoredIsDoc
    <2>4. products[i].status = PUBLISHED => Stored(r).status = PUBLISHED
      <3>1. products[i] \in Doc
        BY DEF IInv, TypeOK
      <3> QED BY <2>2, <3>1, StoredCases DEF Doc
    <2> QED BY <2>2, <2>3, <2>4
  <1> QED BY <1>1, <1>2

(* No fault happened in a step after which none has happened.              *)
LEMMA FaultsGrow ==
    ASSUME IInv, [Next]_vars, faults' = 0
    PROVE  /\ faults = 0 /\ ~Fault
           /\ \A r \in Requests : ~CallFails(r) /\ ~AckLost(r) /\ ~AuditFails(r)
           /\ ~Crash
  <1>1. faults \in Nat
    BY InputAssumption DEF IInv, TypeOK
  <1>2. ~Fault
    BY <1>1 DEF Fault
  <1>3. faults = 0
    <2>1. ASSUME NEW r \in Requests, Step(r) PROVE faults' = faults \/ Fault
      <3>1. CASE CreateProduct(r) \/ UpdateProduct(r) \/ ApproveProduct(r)
        BY <3>1 DEF CreateProduct, UpdateProduct, ApproveProduct, Arrive
      <3>2. CASE Insert(r) \/ Write(r) \/ Reread(r) \/ Read(r) \/ Refetch(r)
                   \/ Audit(r) \/ Emit(r)
        BY <3>2 DEF Insert, Write, Store, Reread, Read, Refetch, Audit, Emit
      <3>3. CASE CallFails(r) \/ AckLost(r) \/ AuditFails(r)
        BY <3>3 DEF CallFails, AckLost, AuditFails
      <3> QED BY <2>1, <3>1, <3>2, <3>3 DEF Step
    <2> QED BY <1>1, <1>2, <2>1 DEF Next, Crash, Finished, vars
  <1> QED BY <1>2, <1>3 DEF CallFails, AckLost, AuditFails, Crash

----------------------------------------------------------------------------
(* The copies stay versions of their products.                             *)

LEMMA InitCopies == Init => Copies
  BY DEF Init, Copies, Copy

(* A version stays one, as its product never goes back.                    *)
LEMMA VersionStays ==
    ASSUME IInv, [Next]_vars, NEW q \in Requests, call[q] # None, NEW doc, Version(q, doc)
    PROVE  Version(q, doc)'
  <1>1. call[q].id \in Ids /\ call'[q] = call[q]
    BY CallType, StepCases DEF IInv, Stages, Stage
  <1> QED BY <1>1, ProductsStay DEF Version

(* A request that a step leaves alone, or that only moves on.              *)
LEMMA CopyStays ==
    ASSUME IInv, Copies, [Next]_vars, NEW q \in Requests, call[q] # None,
           current'[q] = current[q], result'[q] = result[q],
           pc'[q] = "write" => pc[q] = "write"
    PROVE  Copy(q)'
  <1>1. Copy(q) /\ call'[q] = call[q]
    BY StepCases DEF Copies
  <1>2. current[q] # None => Version(q, current[q])'
    BY <1>1, VersionStays DEF Copy
  <1>3. result[q] # None => Version(q, result[q])'
    BY <1>1, VersionStays DEF Copy
  <1> QED BY <1>1, <1>2, <1>3 DEF Copy, Version

(* The acting request: what it reads is the product as it is, and what its *)
(* write returns is what it stored.                                        *)
LEMMA ActorCopy ==
    ASSUME IInv, Copies, [Next]_vars, NEW r \in Requests, Step(r)
    PROVE  Copy(r)'
  <1>0. Copy(r) /\ Stage(r)
    BY DEF Copies, IInv, Stages
  <1>1. CASE CreateProduct(r) \/ UpdateProduct(r) \/ ApproveProduct(r)
    <2>1. PICK op, c, id, in : Arrive(r, op, c, id, in)
      BY <1>1 DEF CreateProduct, UpdateProduct, ApproveProduct
    <2>2. current'[r] = None /\ result'[r] = None /\ pc'[r] # "write"
      BY <1>0, <2>1 DEF Arrive, Respond, Goto, IInv, TypeOK, Stage, Copy
    <2> QED BY <2>2 DEF Copy
  <1>2. CASE Insert(r) \/ Write(r)
    <2>1. /\ pc[r] \in {"insert", "write"} /\ call' = call /\ current' = current
          /\ call[r] # None /\ call[r].id \in Ids /\ result[r] = None
      BY <1>0, <1>2, CallType DEF Insert, Write, Store, Stage
    <2>2. CASE Taken(call[r].id, Stored(r).gtin)
      <3>1. pc'[r] = "done" /\ result' = result
        BY <1>2, <2>2 DEF Insert, Write, Store, Respond, IInv, TypeOK
      <3> QED BY <2>1, <3>1, CopyStays
    <2>3. CASE ~Taken(call[r].id, Stored(r).gtin)
      <3>1. /\ result'[r] = Stored(r) /\ products'[call[r].id] = Stored(r)
            /\ pc'[r] # "write"
        BY <1>2, <2>1, <2>3 DEF Insert, Write, Store, Goto, IInv, TypeOK
      <3>2. Stored(r) # None /\ Trim[Stored(r).name] = Stored(r).name
        BY <2>1, StoredIsDoc, StoredCarries
      <3>3. Version(r, result[r])'
        BY <2>1, <3>1, <3>2 DEF Version
      <3>4. current[r] # None => Version(r, current[r])'
        BY <1>0, <2>1, VersionStays DEF Copy
      <3>5. CASE pc[r] = "insert"
        <4>1. call[r].op = "CREATE"
          BY <1>0, <2>1, <3>5 DEF Stage
        <4> QED BY <2>1, <3>1, <3>3, <3>4, <4>1 DEF Copy, Version
      <3>6. CASE pc[r] = "write"
        <4>1. /\ current[r] # None /\ Carries(Stored(r), call[r].input)
              /\ call[r].op = "UPDATE" => HasChanges(current[r], call[r].input)
          BY <1>0, <2>1, <3>6, StoredCarries DEF Stage, Copy
        <4> QED BY <2>1, <3>1, <3>3, <3>4, <4>1 DEF Copy, Version
      <3> QED BY <2>1, <3>5, <3>6
    <2> QED BY <2>2, <2>3
  <1>3. CASE Reread(r)
    <2>1. /\ call' = call /\ current' = current /\ products' = products
          /\ call[r] # None /\ call[r].op = "CREATE" /\ call[r].id \in Ids
          /\ result'[r] = products[call[r].id] /\ result'[r] # None
      BY <1>0, <1>3, CallType DEF Reread, IInv, TypeOK, Stage
    <2>2. Version(r, result[r])'
      BY <2>1 DEF Copies, Version
    <2>3. current[r] # None => Version(r, current[r])'
      BY <1>0, <2>1, VersionStays DEF Copy
    <2> QED BY <2>1, <2>2, <2>3 DEF Copy, Version
  <1>4. CASE Read(r)
    <2>0. /\ call' = call /\ result' = result /\ products' = products
          /\ call[r] # None /\ call[r].id \in Ids /\ result[r] = None
          /\ pc[r] = "read"
      BY <1>0, <1>4, CallType DEF Read, Stage
    <2>1. CASE current' = current /\ pc'[r] # "write"
      BY <2>0, <2>1, CopyStays
    <2>2. CASE ~(current' = current /\ pc'[r] # "write")
      <3> DEFINE doc == products[call[r].id]
      <3>1. /\ doc # None /\ current'[r] = doc
            /\ call[r].op = "UPDATE" /\ pc'[r] = "write" => HasChanges(doc, call[r].input)
        BY <1>4, <2>0, <2>2 DEF Read, Respond, Goto, IInv, TypeOK, UpdateVerdict, ApproveVerdict
      <3>2. Version(r, current[r])'
        BY <2>0, <3>1 DEF Copies, Version
      <3> QED BY <2>0, <3>1, <3>2 DEF Copy, Version
    <2> QED BY <2>1, <2>2
  <1>5. CASE Refetch(r) \/ Audit(r) \/ Emit(r) \/ CallFails(r) \/ AckLost(r) \/ AuditFails(r)
    <2>1. call[r] # None /\ current' = current /\ result' = result /\ pc'[r] # "write"
      BY <1>0, <1>5 DEF Refetch, Audit, Emit, CallFails, AckLost, AuditFails, Respond, Goto,
                        IInv, TypeOK, Stage
    <2> QED BY <2>1, CopyStays
  <1> QED BY <1>1, <1>2, <1>3, <1>4, <1>5 DEF Step

LEMMA NextCopies ==
    ASSUME IInv, Copies, [Next]_vars
    PROVE  Copies'
  <1>1. ASSUME NEW i \in Ids, products'[i] # None
        PROVE  Trim[products'[i].name] = products'[i].name
    <2>1. CASE products'[i] = products[i]
      BY <1>1, <2>1 DEF Copies
    <2>2. CASE products'[i] # products[i]
      <3>1. PICK r \in Requests : Stores(r)
        BY <2>2, StepCases
      <3>2. products'[i] = Stored(r)
        BY <2>2, <3>1 DEF Stores, IInv, TypeOK
      <3> QED BY <3>1, <3>2, StoredCarries DEF Stores
    <2> QED BY <2>1, <2>2
  <1>2. ASSUME NEW q \in Requests PROVE Copy(q)'
    <2>1. ASSUME NEW r \in Requests, Step(r), r # q PROVE Copy(q)'
      <3>1. /\ pc'[q] = pc[q] /\ call'[q] = call[q]
            /\ current'[q] = current[q] /\ result'[q] = result[q]
        BY <2>1, Frame
      <3>2. CASE call[q] = None
        BY <3>1, <3>2 DEF Copies, Copy, IInv, Stages, Stage
      <3>3. CASE call[q] # None
        BY <3>1, <3>3, CopyStays
      <3> QED BY <3>2, <3>3
    <2>2. CASE Step(q)
      BY <2>2, ActorCopy
    <2>3. CASE Crash
      <3>1. UNCHANGED <<products, call, current, result>> /\ (pc'[q] = "write" => pc[q] = "write")
        BY <2>3 DEF Crash, InFlight
      <3> QED BY <3>1 DEF Copies, Copy, Version
    <2>4. CASE UNCHANGED vars
      BY <2>4 DEF vars, Copies, Copy, Version
    <2> QED BY <2>1, <2>2, <2>3, <2>4 DEF Next, Finished
  <1> QED BY <1>1, <1>2 DEF Copies

----------------------------------------------------------------------------
(* An entry is, and stays, what its request makes of its copies.           *)

(* The trail grows by an entry of a request at its audit, or not at all.   *)
LEMMA AuditsGrow ==
    ASSUME [Next]_vars
    PROVE  UNCHANGED audits \/ \E r \in Requests : Audit(r)
  <1>1. ASSUME NEW r \in Requests, Step(r) PROVE UNCHANGED audits \/ Audit(r)
    <2>1. CASE CreateProduct(r) \/ UpdateProduct(r) \/ ApproveProduct(r)
      BY <2>1 DEF CreateProduct, UpdateProduct, ApproveProduct, Arrive
    <2>2. CASE Insert(r) \/ Write(r) \/ Reread(r) \/ Read(r) \/ Refetch(r) \/ Emit(r)
      BY <2>2 DEF Insert, Write, Store, Reread, Read, Refetch, Emit
    <2>3. CASE CallFails(r) \/ AckLost(r) \/ AuditFails(r)
      BY <2>3 DEF CallFails, AckLost, AuditFails
    <2> QED BY <1>1, <2>1, <2>2, <2>3 DEF Step
  <1> QED BY <1>1 DEF Next, Crash, Finished, vars

(* What an entry would be depends on the call and the copies only.         *)
LEMMA EntryDepends ==
    ASSUME NEW q \in Requests,
           call'[q] = call[q], current'[q] = current[q], result'[q] = result[q]
    PROVE  EntryOf(q)' = EntryOf(q) /\ NewValues(q)' = NewValues(q)
  BY DEF EntryOf, PreviousValues, NewValues

(* An audit puts one entry behind the others.                              *)
LEMMA AuditAppends ==
    ASSUME IInv, NEW r \in Requests, Audit(r)
    PROVE  /\ Len(audits) \in Nat /\ DOMAIN audits = 1..Len(audits)
           /\ DOMAIN audits' = 1..(Len(audits) + 1)
           /\ \A k \in 1..Len(audits) : audits'[k] = audits[k]
           /\ audits'[Len(audits) + 1] = EntryOf(r)
           /\ EntryOf(r).req = r
  <1>1. audits \in Seq(Entry) /\ EntryOf(r) \in Entry /\ audits' = Append(audits, EntryOf(r))
    BY EntryType DEF Audit, IInv, TypeOK
  <1>2. EntryOf(r).req = r
    BY DEF EntryOf
  <1> HIDE DEF EntryOf
  <1> QED BY <1>1, <1>2

(* The request of an entry.                                                *)
LEMMA EntryRequest ==
    ASSUME Entries, NEW k \in DOMAIN audits
    PROVE  LET r == audits[k].req
           IN  /\ r \in Requests /\ audits[k] = EntryOf(r)
               /\ pc[r] \in {"emit", "done", "lost"} /\ result[r] # None
  <1>1. PICK r \in Requests : /\ audits[k] = EntryOf(r) /\ result[r] # None
                              /\ pc[r] \in {"emit", "done", "lost"}
    BY DEF Entries
  <1>2. audits[k].req = r
    BY <1>1 DEF EntryOf
  <1> QED BY <1>1, <1>2

LEMMA InitEntries == Init => Entries
  BY DEF Init, Entries

LEMMA NextEntries ==
    ASSUME IInv, Entries, [Next]_vars
    PROVE  Entries'
  <1>1. ASSUME NEW k \in DOMAIN audits, audits'[k] = audits[k]
        PROVE  \E q \in Requests : /\ audits'[k] = EntryOf(q)' /\ result'[q] # None
                                   /\ pc'[q] \in {"emit", "done", "lost"}
    <2>1. PICK q \in Requests : /\ audits[k] = EntryOf(q) /\ result[q] # None
                                /\ pc[q] \in {"emit", "done", "lost"}
      BY DEF Entries
    <2> QED BY <1>1, <2>1, AfterWrite, EntryDepends
  <1>2. CASE UNCHANGED audits
    BY <1>1, <1>2 DEF Entries
  <1>3. ASSUME NEW r \in Requests, Audit(r) PROVE Entries'
    <2>1. /\ pc[r] = "audit" /\ result[r] # None
          /\ call' = call /\ current' = current /\ result' = result /\ pc'[r] = "emit"
      BY <1>3 DEF Audit, Goto, IInv, TypeOK, Stages, Stage
    <2>2. EntryOf(r)' = EntryOf(r)
      BY <2>1, EntryDepends
    <2>3. \A k \in DOMAIN audits : audits[k].req # r
      BY <2>1, EntryRequest
    <2>4. ASSUME NEW k \in DOMAIN audits'
          PROVE  \E q \in Requests : /\ audits'[k] = EntryOf(q)' /\ result'[q] # None
                                     /\ pc'[q] \in {"emit", "done", "lost"}
      <3>1. CASE k \in DOMAIN audits
        BY <1>1, <1>3, <3>1, AuditAppends
      <3>2. CASE k \notin DOMAIN audits
        <4>1. audits'[k] = EntryOf(r)
          BY <1>3, <3>2, AuditAppends
        <4> QED BY <2>1, <2>2, <4>1
      <3> QED BY <3>1, <3>2
    <2>5. ASSUME NEW j \in DOMAIN audits', NEW k \in DOMAIN audits',
                 audits'[j].req = audits'[k].req
          PROVE  j = k
      BY <1>3, <2>3, <2>5, AuditAppends DEF Entries
    <2> QED BY <2>4, <2>5 DEF Entries
  <1> QED BY <1>2, <1>3, AuditsGrow

----------------------------------------------------------------------------
(* While nothing fails, a write leads to an entry and to a success.        *)

LEMMA InitAudited == Init => Audited
  BY DEF Init, Audited

(* An entry never disappears.                                              *)
LEMMA EntriesStay ==
    ASSUME IInv, [Next]_vars, NEW q \in Requests, EntriesOf(q) # {}
    PROVE  EntriesOf(q)' # {}
  <1>1. PICK k \in DOMAIN audits : audits[k].req = q
    BY DEF EntriesOf
  <1>2. k \in DOMAIN audits' /\ audits'[k] = audits[k]
    BY <1>1, AuditsGrow, AuditAppends
  <1> QED BY <1>1, <1>2 DEF EntriesOf

LEMMA NextAudited ==
    ASSUME IInv, Audited, [Next]_vars
    PROVE  Audited'
  <1> SUFFICES ASSUME faults' = 0, NEW q \in Requests
               PROVE  /\ pc'[q] # "lost"
                      /\ pc'[q] \in {"emit", "done"} /\ result'[q] # None => EntriesOf(q)' # {}
                      /\ pc'[q] = "done" /\ result'[q] # None => code'[q] \in {200, 201}
    BY DEF Audited
  <1>0. /\ faults = 0 /\ ~Crash
        /\ \A r \in Requests : ~CallFails(r) /\ ~AckLost(r) /\ ~AuditFails(r)
    BY FaultsGrow
  <1>1. /\ pc[q] # "lost"
        /\ pc[q] \in {"emit", "done"} /\ result[q] # None => EntriesOf(q) # {}
        /\ pc[q] = "done" /\ result[q] # None => code[q] \in {200, 201}
    BY <1>0 DEF Audited
  <1>2. CASE pc'[q] = pc[q] /\ code'[q] = code[q] /\ result'[q] = result[q]
    BY <1>1, <1>2, EntriesStay
  <1>3. CASE Step(q)
    <2>0. Stage(q)
      BY DEF IInv, Stages
    <2>1. CASE CreateProduct(q) \/ UpdateProduct(q) \/ ApproveProduct(q)
      <3>1. PICK op, c, id, in : Arrive(q, op, c, id, in)
        BY <2>1 DEF CreateProduct, UpdateProduct, ApproveProduct
      <3> QED BY <2>0, <3>1 DEF Arrive, Respond, Goto, IInv, TypeOK, Stage
    <2>2. CASE Insert(q) \/ Write(q)
      <3>1. CASE Taken(call[q].id, Stored(q).gtin)
        BY <2>0, <2>2, <3>1 DEF Insert, Write, Store, Respond, IInv, TypeOK, Stage
      <3>2. CASE ~Taken(call[q].id, Stored(q).gtin)
        BY <2>2, <3>2 DEF Insert, Write, Store, Goto, IInv, TypeOK
      <3> QED BY <3>1, <3>2
    <2>3. CASE Reread(q)
      BY <2>3 DEF Reread, Goto, IInv, TypeOK
    <2>4. CASE Read(q) \/ Refetch(q)
      <3>1. result'[q] = None /\ pc'[q] # "lost"
        BY <2>0, <2>4 DEF Read, Refetch, Respond, Goto, IInv, TypeOK, Stage
      <3> QED BY <3>1
    <2>5. CASE Audit(q)
      <3>1. pc'[q] = "emit"
        BY <2>5 DEF Audit, Goto, IInv, TypeOK
      <3>2. Len(audits) + 1 \in EntriesOf(q)'
        BY <2>5, AuditAppends DEF EntriesOf
      <3> QED BY <3>1, <3>2
    <2>6. CASE Emit(q)
      <3>1. pc'[q] = "done" /\ code'[q] \in {200, 201} /\ result'[q] = result[q]
            /\ pc[q] = "emit"
        BY <2>6 DEF Emit, Respond, IInv, TypeOK
      <3> QED BY <1>1, <3>1, EntriesStay
    <2> QED BY <1>0, <1>3, <2>1, <2>2, <2>3, <2>4, <2>5, <2>6 DEF Step
  <1>4. ASSUME NEW r \in Requests, r # q, Step(r)
        PROVE  pc'[q] = pc[q] /\ code'[q] = code[q] /\ result'[q] = result[q]
    BY <1>4, Frame
  <1>5. CASE UNCHANGED vars
    BY <1>2, <1>5 DEF vars
  <1> QED BY <1>0, <1>2, <1>3, <1>4, <1>5 DEF Next, Finished

----------------------------------------------------------------------------
(* While nothing fails, some writer accounts for each field.               *)

LEMMA InitExplained == Init => Explained
  BY DEF Init, Explained

(* A writer keeps what it recorded; a creation's re-read records the       *)
(* product as it is.                                                       *)
LEMMA WriterStays ==
    ASSUME IInv, [Next]_vars, faults' = 0,
           NEW i \in Ids, NEW q \in Requests, Writer(q, i)
    PROVE  /\ Writer(q, i)'
           /\ \/ pc[q] = "reread" /\ pc'[q] = "reread"
              \/ pc[q] = "reread" /\ products' = products /\ NewValues(q)' = Pick(products[i])
              \/ pc[q] # "reread" /\ NewValues(q)' = NewValues(q)
  <1>1. call[q] # None /\ call[q].id = i /\ result[q] # None /\ Stage(q) /\ pc[q] \in Pcs
    BY DEF Writer, IInv, TypeOK, Stages
  <1>2. CASE pc[q] # "reread"
    <2>1. pc[q] \in {"audit", "emit", "done", "lost"}
      BY <1>1, <1>2 DEF Stage, Pcs
    <2> QED BY <1>1, <1>2, <2>1, AfterWrite, EntryDepends DEF Writer
  <1>3. CASE pc[q] = "reread"
    <2>1. CASE Step(q)
      <3>1. ~CallFails(q) /\ ~AckLost(q) /\ ~AuditFails(q)
        BY FaultsGrow
      <3>2. ~CreateProduct(q) /\ ~UpdateProduct(q) /\ ~ApproveProduct(q)
        BY <1>3 DEF CreateProduct, UpdateProduct, ApproveProduct, Arrive
      <3>3. Reread(q)
        BY <1>3, <2>1, <3>1, <3>2 DEF Step, Insert, Read, Refetch, Write, Audit, Emit
      <3>4. /\ call' = call /\ products' = products /\ result'[q] = products[i]
            /\ products[i] # None /\ call[q].op = "CREATE"
        BY <1>1, <3>3 DEF Reread, Stage, IInv, TypeOK
      <3> QED BY <1>1, <1>3, <3>4 DEF Writer, NewValues
    <2>2. ASSUME NEW r \in Requests, r # q, Step(r)
          PROVE  call'[q] = call[q] /\ result'[q] = result[q] /\ pc'[q] = pc[q]
      BY <2>2, Frame
    <2>3. CASE UNCHANGED vars
      BY <1>1, <1>3, <2>3 DEF vars, Writer
    <2> QED BY <1>1, <1>3, <2>1, <2>2, <2>3, FaultsGrow DEF Next, Finished, Writer
  <1> QED BY <1>2, <1>3

(* Who changes a product while nothing fails.                              *)
LEMMA StoresReturn ==
    ASSUME IInv, [Next]_vars, faults' = 0, products' # products
    PROVE  \E r \in Requests :
             /\ Stores(r) /\ result'[r] = Stored(r) /\ current' = current
             /\ pc'[r] = IF pc[r] = "insert" THEN "reread" ELSE "audit"
  <1>1. PICK r \in Requests : Step(r)
    BY FaultsGrow DEF Next, Finished, vars
  <1>2. ~CallFails(r) /\ ~AckLost(r) /\ ~AuditFails(r)
    BY FaultsGrow
  <1>3. ~CreateProduct(r) /\ ~UpdateProduct(r) /\ ~ApproveProduct(r)
    BY DEF CreateProduct, UpdateProduct, ApproveProduct, Arrive
  <1>4. Insert(r) \/ Write(r)
    BY <1>1, <1>2, <1>3 DEF Step, Reread, Read, Refetch, Audit, Emit
  <1>5. ~Taken(call[r].id, Stored(r).gtin)
    BY <1>4 DEF Insert, Write, Store
  <1> QED BY <1>4, <1>5 DEF Insert, Write, Store, Stores, Goto, IInv, TypeOK

LEMMA NextExplained ==
    ASSUME IInv, Copies, Explained, [Next]_vars
    PROVE  Explained'
  <1> SUFFICES ASSUME faults' = 0, NEW i \in Ids, products'[i] # None
               PROVE  /\ \E q \in Requests : Writer(q, i)' /\ RecordsGtin(q, products[i])'
                      /\ \E q \in Requests : Writer(q, i)' /\ RecordsName(q, products[i])'
                      /\ products'[i].status = PUBLISHED =>
                           \E q \in Requests : Writer(q, i)' /\ RecordsPublished(q)'
    BY DEF Explained
  <1>0. faults = 0
    BY FaultsGrow
  <1>1. ASSUME products[i] # None, products'[i].gtin = products[i].gtin
        PROVE  \E q \in Requests : Writer(q, i)' /\ RecordsGtin(q, products[i])'
    <2>1. PICK q \in Requests : Writer(q, i) /\ RecordsGtin(q, products[i])
      BY <1>0, <1>1 DEF Explained
    <2> QED BY <1>1, <2>1, WriterStays DEF RecordsGtin, Pick
  <1>2. ASSUME products[i] # None, products'[i].name = products[i].name
        PROVE  \E q \in Requests : Writer(q, i)' /\ RecordsName(q, products[i])'
    <2>1. PICK q \in Requests : Writer(q, i) /\ RecordsName(q, products[i])
      BY <1>0, <1>2 DEF Explained
    <2>2. products[i].name # None /\ Trim[products[i].name] = products[i].name
      BY <1>2, DataAssumption DEF Copies, IInv, TypeOK, Doc
    <2> QED BY <1>2, <2>1, <2>2, WriterStays DEF RecordsName, Pick
  <1>3. ASSUME products[i] # None, products[i].status = PUBLISHED
        PROVE  \E q \in Requests : Writer(q, i)' /\ RecordsPublished(q)'
    <2>1. PICK q \in Requests : Writer(q, i) /\ RecordsPublished(q)
      BY <1>0, <1>3 DEF Explained
    <2> QED BY <1>3, <2>1, WriterStays DEF RecordsPublished, Pick
  <1>4. CASE products'[i] = products[i]
    BY <1>1, <1>2, <1>3, <1>4
  <1>5. CASE products'[i] # products[i]
    <2>1. PICK r \in Requests :
            /\ Stores(r) /\ result'[r] = Stored(r) /\ current' = current
            /\ pc'[r] = IF pc[r] = "insert" THEN "reread" ELSE "audit"
      BY <1>5, StoresReturn
    <2>2. /\ pc[r] \in {"insert", "write"} /\ call' = call /\ call[r].id = i
          /\ products'[i] = Stored(r) /\ Stored(r) # None /\ call[r] # None
      BY <1>5, <2>1, StoredIsDoc DEF Stores, IInv, TypeOK, Stages, Stage
    <2>3. Writer(r, i)'
      BY <2>1, <2>2 DEF Writer
    <2>4. CASE pc[r] = "insert"
      BY <2>1, <2>3, <2>4 DEF RecordsGtin, RecordsName, RecordsPublished
    <2>5. CASE pc[r] = "write" /\ call[r].op = "UPDATE"
      <3>1. /\ products[i] # None /\ call[r].input \in Payload /\ call[r].input.status = None
            /\ HasChanges(current[r], call[r].input)
        BY <2>2, <2>5, CallType, InputAssumption DEF IInv, Stages, Stage, Copies, Copy
      <3>2. NewValues(r)' = Overlay(Pick(current[r]), call[r].input)
        BY <2>1, <2>2, <2>5, <3>1, DiffOfChanges DEF NewValues
      <3>3. Carries(Stored(r), call[r].input)
        BY <2>2, <2>5, StoredCarries
      <3>4. \E q \in Requests : Writer(q, i)' /\ RecordsGtin(q, products[i])'
        <4>1. CASE call[r].input.gtin # None
          BY <2>2, <2>3, <3>2, <3>3, <4>1 DEF RecordsGtin, Overlay, Sent, Carries
        <4>2. CASE call[r].input.gtin = None
          BY <1>1, <2>2, <2>5, <3>1, <4>2, StoredCarries
        <4> QED BY <4>1, <4>2
      <3>5. \E q \in Requests : Writer(q, i)' /\ RecordsName(q, products[i])'
        <4>1. CASE call[r].input.name # None
          BY <2>2, <2>3, <3>2, <3>3, <4>1 DEF RecordsName, Overlay, Sent, Carries
        <4>2. CASE call[r].input.name = None
          BY <1>2, <2>2, <2>5, <3>1, <4>2, StoredCarries
        <4> QED BY <4>1, <4>2
      <3>6. products'[i].status = products[i].status
        BY <2>2, <2>5, StoredCases
      <3> QED BY <1>3, <3>1, <3>4, <3>5, <3>6
    <2>6. CASE pc[r] = "write" /\ call[r].op # "UPDATE"
      <3>1. /\ products[i] # None /\ call[r].op = "STATUS_CHANGE"
            /\ call[r].input = OnlyStatus(PUBLISHED)
        BY <2>2, <2>6, CallType DEF IInv, Stages, Stage, Call, Ops
      <3>2. products'[i].gtin = products[i].gtin /\ products'[i].name = products[i].name
        BY <2>2, <2>6, <3>1, StoredCarries DEF OnlyStatus
      <3>3. NewValues(r)' = OnlyStatus(PUBLISHED)
        BY <2>2, <3>1 DEF NewValues
      <3>4. RecordsPublished(r)'
        BY <3>3 DEF RecordsPublished, OnlyStatus
      <3> QED BY <1>1, <1>2, <2>3, <3>1, <3>2, <3>4
    <2> QED BY <2>2, <2>4, <2>5, <2>6
  <1> QED BY <1>4, <1>5

----------------------------------------------------------------------------
(* The theorems.                                                           *)

(* Every reachable state satisfies the invariant behind the trail: copies  *)
(* are former versions of their products, entries are what their requests  *)
(* made of them, and without faults every write leads to an entry.         *)
THEOREM TrailInvariantHolds == Spec => []TrailIInv
  <1>1. Init => TrailIInv
    BY InitIInv, InitCopies, InitEntries, InitAudited, InitExplained DEF TrailIInv
  <1>2. TrailIInv /\ [Next]_vars => TrailIInv'
    BY NextIInv, NextCopies, NextEntries, NextAudited, NextExplained DEF TrailIInv
  <1> QED BY <1>1, <1>2, PTL DEF Spec

(* What an entry says of the document its update or approval wrote.        *)
LEMMA EntryOfWrite ==
    ASSUME TrailIInv, NEW r \in Requests, result[r] # None, call[r].op # "CREATE"
    PROVE  LET in == call[r].input
               doc == result[r]
           IN  /\ in.gtin # None => NewValues(r).gtin = doc.gtin
               /\ in.name # None => NewValues(r).name # None /\ Trim[NewValues(r).name] = doc.name
               /\ in.status # None => NewValues(r).status = doc.status
               /\ in.status # None => doc.status = PUBLISHED
  <1>1. /\ Copy(r) /\ Stage(r) /\ call[r] # None
        /\ call[r].op \in Ops /\ call[r].input \in Payload
    BY CallType DEF TrailIInv, Copies, IInv, Stages, Stage, Call
  <1>2. Carries(result[r], call[r].input)
    BY <1>1 DEF Copy
  <1>3. CASE call[r].op = "UPDATE"
    <2>1. NewValues(r) = Overlay(Pick(current[r]), call[r].input)
      BY <1>1, <1>3, DiffOfChanges DEF Copy, NewValues
    <2>2. call[r].input.status = None
      BY <1>1, <1>3, InputAssumption DEF Stage
    <2> QED BY <1>2, <2>1, <2>2 DEF Carries, Overlay, Sent
  <1>4. CASE call[r].op = "STATUS_CHANGE"
    <2>1. call[r].input = OnlyStatus(PUBLISHED) /\ NewValues(r) = OnlyStatus(PUBLISHED)
      BY <1>1, <1>4 DEF Stage, NewValues
    <2>2. PUBLISHED # None
      BY DataAssumption DEF Statuses
    <2> QED BY <1>2, <2>1, <2>2 DEF Carries, OnlyStatus
  <1> QED BY <1>1, <1>3, <1>4 DEF Ops

(* Whoever else writes the product in between, an entry records what its   *)
(* own request wrote, and a request leaves one entry at most.              *)
THEOREM EntriesAreOwn == Spec => []EntriesRecordOwnWrite
  <1>1. TrailIInv => EntriesRecordOwnWrite
    <2> SUFFICES ASSUME TrailIInv PROVE EntriesRecordOwnWrite
      OBVIOUS
    <2>1. \A r \in Requests : \A j, k \in EntriesOf(r) : j = k
      BY DEF TrailIInv, Entries, EntriesOf
    <2>2. ASSUME NEW k \in DOMAIN audits
          PROVE  LET e == audits[k]
                     c == call[e.req]
                     d == result[e.req]
                 IN  /\ c # None /\ d # None
                     /\ e.productId = c.id /\ e.operation = c.op
                     /\ e.changedBy = c.claim.userId
                     /\ c.op = "CREATE" => e.newValues = Pick(d)
                     /\ c.op # "CREATE" =>
                          /\ c.input.gtin # None => e.newValues.gtin = d.gtin
                          /\ c.input.name # None =>
                               e.newValues.name # None /\ Trim[e.newValues.name] = d.name
                          /\ c.input.status # None => e.newValues.status = d.status
      <3> DEFINE r == audits[k].req
      <3>1. r \in Requests /\ audits[k] = EntryOf(r) /\ result[r] # None
        BY EntryRequest DEF TrailIInv
      <3>2. call[r] # None
        BY <3>1 DEF TrailIInv, IInv, Stages, Stage
      <3>3. /\ audits[k].productId = call[r].id /\ audits[k].operation = call[r].op
            /\ audits[k].changedBy = call[r].claim.userId
            /\ audits[k].newValues = NewValues(r)
        BY <3>1 DEF EntryOf
      <3> HIDE DEF r
      <3>4. CASE call[r].op = "CREATE"
        BY <3>1, <3>2, <3>3, <3>4 DEF NewValues, r
      <3>5. CASE call[r].op # "CREATE"
        BY <3>1, <3>2, <3>3, <3>5, EntryOfWrite DEF r
      <3> QED BY <3>4, <3>5
    <2> QED BY <2>1, <2>2 DEF EntriesRecordOwnWrite
  <1> QED BY <1>1, TrailInvariantHolds, PTL

(* An update's entry stands for a change of the document, but for blanks   *)
(* around a name.                                                          *)
THEOREM EntriesShowChanges == Spec => []OnlyBlanksShowNoChange
  <1>1. TrailIInv => OnlyBlanksShowNoChange
    <2> SUFFICES ASSUME TrailIInv, NEW k \in DOMAIN audits, audits[k].operation = "UPDATE",
                        NEW r, r = audits[k].req,
                        Pick(result[r]) = Pick(current[r])
                 PROVE  call[r].input.name # None
                        /\ Trim[call[r].input.name] # call[r].input.name
      BY DEF OnlyBlanksShowNoChange
    <2>1. r \in Requests /\ result[r] # None /\ call[r].op = "UPDATE" /\ call[r] # None
      BY EntryRequest DEF TrailIInv, EntryOf, IInv, Stages, Stage
    <2>2. /\ Carries(result[r], call[r].input) /\ HasChanges(current[r], call[r].input)
      BY <2>1 DEF TrailIInv, Copies, Copy
    <2>3. call[r].input.status = None
      BY <2>1, InputAssumption DEF TrailIInv, IInv, Stages, Stage
    <2>4. Overlay(Pick(current[r]), call[r].input) # Pick(current[r])
      BY <2>2, DiffOfChanges
    <2>5. /\ result[r].gtin = current[r].gtin /\ result[r].name = current[r].name
      BY DEF Pick
    <2>6. CASE call[r].input.name = None
      BY <2>2, <2>3, <2>4, <2>5, <2>6 DEF Overlay, Sent, Pick, Carries
    <2>7. CASE Trim[call[r].input.name] = call[r].input.name
      BY <2>2, <2>3, <2>4, <2>5, <2>7 DEF Overlay, Sent, Pick, Carries
    <2> QED BY <2>6, <2>7
  <1> QED BY <1>1, TrailInvariantHolds, PTL

(* Without faults the trail knows of every write, and of nothing else, and *)
(* a request that answered an error has written nothing.                   *)
THEOREM WritesAreAudited == Spec => []AuditedUnlessFault
  <1>1. TrailIInv => AuditedUnlessFault
    <2> SUFFICES ASSUME TrailIInv, faults = 0, NEW r \in Requests, pc[r] = "done"
                 PROVE  /\ result[r] # None <=> EntriesOf(r) # {}
                        /\ code[r] \notin {200, 201} => result[r] = None
      BY DEF AuditedUnlessFault
    <2>1. /\ result[r] # None => EntriesOf(r) # {}
          /\ result[r] # None => code[r] \in {200, 201}
      BY DEF TrailIInv, Audited
    <2>2. EntriesOf(r) # {} => result[r] # None
      BY EntryRequest DEF TrailIInv, EntriesOf
    <2> QED BY <2>1, <2>2
  <1> QED BY <1>1, TrailInvariantHolds, PTL

(* Without faults the trail of a catalog at rest explains every product.   *)
THEOREM TrailIsComplete == Spec => []TrailExplainsProducts
  <1>1. TrailIInv => TrailExplainsProducts
    <2> SUFFICES ASSUME TrailIInv, faults = 0, Quiet, NEW i \in Ids, products[i] # None
                 PROVE  LET trail == {audits[k] : k \in {j \in DOMAIN audits :
                                                           audits[j].productId = i}}
                        IN  /\ \E e \in trail : e.newValues.gtin = products[i].gtin
                            /\ \E e \in trail : e.newValues.name # None
                                                /\ Trim[e.newValues.name] = products[i].name
                            /\ products[i].status = PUBLISHED <=>
                                 \E e \in trail : e.newValues.status = PUBLISHED
      BY DEF TrailExplainsProducts
    <2> DEFINE trail == {audits[k] : k \in {j \in DOMAIN audits : audits[j].productId = i}}
    (* a writer of the product has its entry in the trail *)
    <2>1. ASSUME NEW q \in Requests, Writer(q, i)
          PROVE  pc[q] # "reread" /\ \E e \in trail : e.newValues = NewValues(q)
      <3>1. pc[q] = "done" /\ result[q] # None /\ call[q].id = i
        BY <2>1 DEF Writer, Quiet, InFlight, TrailIInv, Audited, IInv, Stages, Stage
      <3>2. PICK k \in DOMAIN audits : audits[k].req = q
        BY <3>1 DEF TrailIInv, Audited, EntriesOf
      <3>3. audits[k] = EntryOf(q)
        BY <3>2, EntryRequest DEF TrailIInv
      <3>4. audits[k].productId = i /\ audits[k].newValues = NewValues(q)
        BY <3>1, <3>3 DEF EntryOf
      <3> QED BY <3>1, <3>4
    <2>2. \E e \in trail : e.newValues.gtin = products[i].gtin
      BY <2>1 DEF TrailIInv, Explained, RecordsGtin
    <2>3. \E e \in trail : e.newValues.name # None /\ Trim[e.newValues.name] = products[i].name
      BY <2>1 DEF TrailIInv, Explained, RecordsName
    <2>4. products[i].status = PUBLISHED => \E e \in trail : e.newValues.status = PUBLISHED
      BY <2>1 DEF TrailIInv, Explained, RecordsPublished
    <2>5. ASSUME NEW k \in DOMAIN audits, audits[k].productId = i,
                 audits[k].newValues.status = PUBLISHED
          PROVE  products[i].status = PUBLISHED
      <3>1. PICK r \in Requests : audits[k] = EntryOf(r) /\ result[r] # None
        BY DEF TrailIInv, Entries
      <3>2. call[r].id = i /\ NewValues(r).status = PUBLISHED /\ call[r] # None
        BY <2>5, <3>1 DEF EntryOf, TrailIInv, IInv, Stages, Stage
      <3>3. /\ Copy(r) /\ Stage(r) /\ call[r].op \in Ops
        BY <3>2, CallType DEF TrailIInv, Copies, IInv, Stages, Stage, Call
      <3>4. result[r].status = PUBLISHED => products[i].status = PUBLISHED
        BY <3>1, <3>2, <3>3 DEF Copy, Version
      <3>5. CASE call[r].op = "CREATE"
        BY <3>2, <3>4, <3>5 DEF NewValues, Pick
      <3>6. CASE call[r].op = "UPDATE"
        <4>1. NewValues(r) = Overlay(Pick(current[r]), call[r].input)
          BY <3>1, <3>2, <3>3, <3>6, DiffOfChanges DEF Copy, NewValues
        <4>2. call[r].input.status = None
          BY <3>2, <3>3, <3>6, InputAssumption DEF Stage, TrailIInv, IInv
        <4>3. current[r] # None /\ current[r].status = PUBLISHED
          BY <3>1, <3>2, <3>3, <3>6, <4>1, <4>2 DEF Overlay, Sent, Pick, Copy
        <4> QED BY <3>2, <3>3, <4>3 DEF Copy, Version
      <3>7. CASE call[r].op = "STATUS_CHANGE"
        <4>1. call[r].input.status # None
          BY <3>2, <3>3, <3>7, DataAssumption DEF Stage, OnlyStatus, Statuses
        <4> QED BY <3>1, <3>4, <3>7, <4>1, EntryOfWrite
      <3> QED BY <3>3, <3>5, <3>6, <3>7 DEF Ops
    <2> HIDE DEF trail
    <2>6. \A e \in trail : e.newValues.status = PUBLISHED => products[i].status = PUBLISHED
      BY <2>5 DEF trail
    <2> QED BY <2>2, <2>3, <2>4, <2>6 DEF trail
  <1> QED BY <1>1, TrailInvariantHolds, PTL
==============================================================================
