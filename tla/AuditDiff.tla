------------------------------ MODULE AuditDiff ------------------------------
(***************************************************************************)
(* Product documents, update payloads and the audit diff.                  *)
(*                                                                         *)
(* A document keeps the fields the workflow tells apart: `gtin', which the *)
(* unique index looks at, `name', which stands for the free business       *)
(* fields (name, description, brand, manufacturer, netWeight, weightUnit), *)
(* `status', and `createdBy'.  A payload is a record in which None marks a *)
(* key the caller did not send.                                            *)
(*                                                                         *)
(* The resolvers validate the input with Joi but pass the raw input on, so *)
(* a string reaches the service untrimmed; the Mongoose setter (trim: true)*)
(* is what trims it when it is stored.  Trim is that setter.               *)
(***************************************************************************)
CONSTANTS Gtins,      \* article numbers
          Names,      \* raw strings a caller may send for a free field
          Trim,       \* the stored form of each raw string
          Users,      \* user ids
          None        \* an absent document, key or value

PENDING   == "PENDING_REVIEW"
PUBLISHED == "PUBLISHED"
Statuses  == {PENDING, PUBLISHED}

Doc     == [gtin: Gtins, name: Names, status: Statuses, createdBy: Users]
Payload == [gtin: Gtins \union {None}, name: Names \union {None},
            status: Statuses \union {None}]

ASSUME DataAssumption ==
    /\ Trim \in [Names -> Names]
    /\ \A n \in Names : Trim[Trim[n]] = Trim[n]
    /\ None \notin Gtins \union Names \union Users \union Statuses \union Doc

(* An audit snapshot has the shape of a payload: keys it lacks are None.   *)
Empty == [gtin |-> None, name |-> None, status |-> None]

OnlyStatus(s) == [gtin |-> None, name |-> None, status |-> s]

Sent(sent, kept) == IF sent = None THEN kept ELSE sent

(* pick(source, BUSINESS_FIELDS): createdBy is not a business field.       *)
Pick(doc) == [gtin |-> doc.gtin, name |-> doc.name, status |-> doc.status]

(* { ...prevSnapshot } overwritten by the keys of updates, raw.            *)
Overlay(snap, updates) ==
    [gtin   |-> Sent(updates.gtin, snap.gtin),
     name   |-> Sent(updates.name, snap.name),
     status |-> Sent(updates.status, snap.status)]

ComputeAuditDiff(doc, updates) ==
    IF Overlay(Pick(doc), updates) = Pick(doc)
    THEN [previous |-> Empty, next |-> Empty]
    ELSE [previous |-> Pick(doc), next |-> Overlay(Pick(doc), updates)]

(* Mistake: whatever was sent counts as a change.                          *)
HasKeys(doc, updates) == updates # Empty

HasChanges(doc, updates) ==
    LET diff == ComputeAuditDiff(doc, updates)
    IN  diff.next # Empty /\ diff.previous # diff.next

(* What findOneAndUpdate stores: the sent keys only, through the setters.  *)
Apply(doc, updates) ==
    [doc EXCEPT !.gtin   = Sent(updates.gtin, @),
                !.name   = IF updates.name = None THEN @ ELSE Trim[updates.name],
                !.status = Sent(updates.status, @)]

(* What save() stores for `new this.model(payload)'.                       *)
NewDoc(input, status, userId) ==
    [gtin |-> input.gtin, name |-> Trim[input.name],
     status |-> status, createdBy |-> userId]
==============================================================================
