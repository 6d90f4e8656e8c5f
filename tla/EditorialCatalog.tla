-------------------------- MODULE EditorialCatalog ---------------------------
(***************************************************************************)
(* What the editorial workflow promises of the catalog, whatever happens   *)
(* inside the calls.  Someone makes a call, with a claim that never changes*)
(* afterwards; an open call takes effect at most once, and only as far as  *)
(* its own claim reaches: a product enters PENDING_REVIEW or, from an      *)
(* editor, PUBLISHED; an editor's approval publishes it, for good, and     *)
(* changes nothing else; an edit stores what its caller sent, leaves status*)
(* and ownership alone, and a provider edits only products of its own; a   *)
(* gtin belongs to one product.                                            *)
(***************************************************************************)
EXTENDS AuditDiff

CONSTANTS Ids,        \* product ids
          Calls,      \* [op, claim, id, input] that can be asked for
          Requests    \* those who make a call each

VARIABLES catalog,    \* catalog[i]: the document of product i, or None
          calls,      \* calls[r]: what r has asked for, or None
          open        \* those whose call may still take effect

catalogVars == <<catalog, calls, open>>

FreeGtin(docs, i, g) == \A j \in Ids \ {i} : docs[j] # None => docs[j].gtin # g

IsEditor(c)   == c.claim.role = "editor"
IsProvider(c) == c.claim.role = "provider"

CatalogInit ==
    /\ catalog = [i \in Ids |-> None]
    /\ calls = [r \in Requests |-> None]
    /\ open = {}

(* A call is made, and may be refused on the spot.                         *)
Ask(r) ==
    /\ calls[r] = None
    /\ calls'[r] \in Calls
    /\ calls' = [calls EXCEPT ![r] = calls'[r]]
    /\ open' \in {open, open \union {r}}
    /\ UNCHANGED catalog

(* The caller puts a new product into the catalog.                         *)
Submit(c) ==
    /\ c.op = "CREATE"
    /\ IsEditor(c) \/ IsProvider(c)
    /\ catalog[c.id] = None
    /\ FreeGtin(catalog, c.id, c.input.gtin)
    /\ catalog' = [catalog EXCEPT ![c.id] =
         [gtin |-> c.input.gtin, name |-> Trim[c.input.name],
          status |-> IF IsEditor(c) THEN PUBLISHED ELSE PENDING,
          createdBy |-> c.claim.userId]]

(* An editor, or the provider who owns it, changes the fields it sent.     *)
Edit(c) ==
    /\ c.op = "UPDATE"
    /\ catalog[c.id] # None
    /\ IsEditor(c) \/ (IsProvider(c) /\ catalog[c.id].createdBy = c.claim.userId)
    /\ FreeGtin(catalog, c.id, Sent(c.input.gtin, catalog[c.id].gtin))
    /\ catalog' = [catalog EXCEPT
         ![c.id].gtin = Sent(c.input.gtin, @),
         ![c.id].name = IF c.input.name = None THEN @ ELSE Trim[c.input.name]]

(* An editor publishes a pending product.                                  *)
Approve(c) ==
    /\ c.op = "STATUS_CHANGE"
    /\ IsEditor(c)
    /\ catalog[c.id] # None /\ catalog[c.id].status = PENDING
    /\ catalog' = [catalog EXCEPT ![c.id].status = PUBLISHED]

(* The open call of r takes effect, and no second time.                    *)
Perform(r) ==
    /\ r \in open
    /\ Submit(calls[r]) \/ Edit(calls[r]) \/ Approve(calls[r])
    /\ open' = open \ {r}
    /\ UNCHANGED calls

(* Calls end without effect: refused, failed, lost with their process, or  *)
(* with nothing left to do.                                                *)
Close == open' \subseteq open /\ UNCHANGED <<catalog, calls>>

CatalogNext == (\E r \in Requests : Ask(r) \/ Perform(r)) \/ Close

CatalogSpec == CatalogInit /\ [][CatalogNext]_catalogVars
==============================================================================
