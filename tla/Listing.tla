------------------------------- MODULE Listing -------------------------------
(***************************************************************************)
(* Paginated lists (products, users and roles are listed the same way) and *)
(* a client that walks through one, page by page, while others write.      *)
(*                                                                         *)
(* A page is two queries: countDocuments, then find with sort, skip and    *)
(* limit.  The list is sorted by createdAt, latest first; documents with   *)
(* the same createdAt come in any order, each time anew.                   *)
(***************************************************************************)
EXTENDS Integers, SequencesExt

CONSTANTS Docs,
          Times,        \* values of createdAt
          Pages, Limits,   \* what a client may begin with
          MaxPageSize,  \* 250 in the code
          None

Document == [createdAt: Times, matches: BOOLEAN, deleted: BOOLEAN]

ASSUME ListingAssumption ==
    /\ IsFiniteSet(Docs)
    /\ Times \subseteq Nat /\ Pages \subseteq Int /\ Limits \subseteq Int
    /\ MaxPageSize \in Nat \ {0}
    /\ None \notin Document

VARIABLES docs,      \* the collection; matches: the filter of the list selects it
          walk,      \* the client and the request it has under way
          atStart,   \* what was listed when the walk began
          changes    \* to the list, since the walk began, and inside a page

vars == <<docs, walk, atStart, changes>>

Listed == {d \in Docs : docs[d] # None /\ docs[d].matches /\ ~docs[d].deleted}

(* The orders in which MongoDB may return the list.                        *)
Listings ==
    {rows \in SetToSeqs(Listed) :
       \A i, j \in DOMAIN rows : i < j => docs[rows[i]].createdAt >= docs[rows[j]].createdAt}

Init ==
    /\ docs \in [Docs -> {None} \union
                         [createdAt: Times, matches: {TRUE}, deleted: {FALSE}]]
    /\ walk = [at |-> "over", first |-> 0, page |-> 0, size |-> MaxPageSize,
               total |-> 0, got |-> 0, seen |-> <<>>]
    /\ atStart = Listed /\ changes = {"not begun"}

----------------------------------------------------------------------------
(* findAll().                                                              *)

PageNum(page) == IF page > 0 THEN page ELSE 0

(* Math.min(250, parseInt(limit) || 250): 0 asks for the most there is, a  *)
(* negative limit is passed on.                                            *)
PageSize(limit) ==
    IF limit = 0 \/ limit > MaxPageSize THEN MaxPageSize ELSE limit

(* Mistake: a last page that is not full is not counted.                   *)
FullPages(total, size) == IF size > 0 THEN total \div size ELSE -(total \div (-size))

(* Math.ceil(total / size)                                                 *)
TotalPages(total, size) ==
    IF size > 0 THEN (total + size - 1) \div size ELSE -(total \div (-size))

(* Mistake: the last page is taken for the one before it.                  *)
HasNextButOne(page, total, size) == page + 2 < TotalPages(total, size)

HasNextPage(page, total, size) == page + 1 < TotalPages(total, size)

(* Mistake: pages are taken for rows.                                      *)
SkipPages(page, size) == page

Skip(page, size) == page * size

Begin(page, limit) ==
    /\ walk.at \in {"over", "failed"}
    /\ walk' = [at |-> "count", first |-> PageNum(page), page |-> PageNum(page),
                size |-> PageSize(limit), total |-> 0, got |-> 0, seen |-> <<>>]
    /\ atStart' = Listed /\ changes' = {}
    /\ UNCHANGED docs

(* Mistake: the filter on deletedAt is forgotten.                          *)
CountAll ==
    /\ walk.at = "count"
    /\ walk' = [walk EXCEPT !.at = "find",
         !.total = Cardinality({d \in Docs : docs[d] # None /\ docs[d].matches})]
    /\ changes' = changes \ {"inside"}
    /\ UNCHANGED <<docs, atStart>>

Count ==
    /\ walk.at = "count"
    /\ walk' = [walk EXCEPT !.at = "find", !.total = Cardinality(Listed)]
    /\ changes' = changes \ {"inside"}
    /\ UNCHANGED <<docs, atStart>>

(* MongoDB reads a negative limit as its absolute value, in one batch.     *)
PageOf(rows, skip, size) ==
    SubSeq(rows, skip + 1, Min({Len(rows), skip + (IF size > 0 THEN size ELSE -size)}))

(* A negative skip is refused.                                             *)
Find ==
    /\ walk.at = "find"
    /\ LET skip == Skip(walk.page, walk.size)
       IN  IF skip < 0 THEN walk' = [walk EXCEPT !.at = "failed"]
           ELSE \E rows \in Listings :
                  LET items == PageOf(rows, skip, walk.size)
                  IN  walk' = [walk EXCEPT !.seen = @ \o items, !.got = Len(items),
                                 !.at = IF HasNextPage(walk.page, walk.total, walk.size)
                                        THEN "page" ELSE "over"]
    /\ UNCHANGED <<docs, atStart, changes>>

(* handleError answers an error, and the client gives up.                  *)
QueryFails ==
    /\ walk.at \in {"count", "find"}
    /\ walk' = [walk EXCEPT !.at = "failed"]
    /\ UNCHANGED <<docs, atStart, changes>>

(* The client follows hasNextPage.                                         *)
NextPage ==
    /\ walk.at = "page"
    /\ walk' = [walk EXCEPT !.at = "count", !.page = @ + 1]
    /\ UNCHANGED <<docs, atStart, changes>>

----------------------------------------------------------------------------
(* The writers.                                                            *)

Note(kind) == changes' = changes \union {kind}
              \union (IF walk.at = "find" THEN {"inside"} ELSE {})

(* createdAt is set when the document is constructed, which may be any     *)
(* time before it is stored.                                               *)
Create(d) ==
    /\ docs[d] = None
    /\ \E t \in Times :
         docs' = [docs EXCEPT ![d] = [createdAt |-> t, matches |-> TRUE, deleted |-> FALSE]]
    /\ Note("arrival")
    /\ UNCHANGED <<walk, atStart>>

SoftDelete(d) ==
    /\ d \in Listed
    /\ docs' = [docs EXCEPT ![d].deleted = TRUE]
    /\ Note("departure")
    /\ UNCHANGED <<walk, atStart>>

(* An update may change what the filter looks at, as an approval changes   *)
(* the status.                                                             *)
Update(d) ==
    /\ docs[d] # None /\ ~docs[d].deleted
    /\ docs' = [docs EXCEPT ![d].matches = ~@]
    /\ Note(IF docs[d].matches THEN "departure" ELSE "arrival")
    /\ UNCHANGED <<walk, atStart>>

Next ==
    \/ \E page \in Pages, limit \in Limits : Begin(page, limit)
    \/ Count \/ Find \/ QueryFails \/ NextPage
    \/ \E d \in Docs : Create(d) \/ SoftDelete(d) \/ Update(d)

Spec == Init /\ [][Next]_vars

----------------------------------------------------------------------------

(* No two documents were created in the same millisecond.                  *)
NoTies == \A d, e \in Docs : d # e /\ docs[d] # None /\ docs[e] # None =>
                             docs[d].createdAt # docs[e].createdAt

Whole == walk.at = "over" /\ walk.size > 0

(* While nothing changes, a walk shows each document from its first page   *)
(* on, once and in order, for every limit from 0 on: pages neither overlap *)
(* nor leave a gap, and hasNextPage stops neither too early nor too late.  *)
QuietWalkIsExact ==
    Whole /\ changes = {} /\ NoTies =>
      \E rows \in Listings :
        walk.seen = SubSeq(rows, Skip(walk.first, walk.size) + 1, Len(rows))

(* Documents that arrive push others to later pages, where the walk still  *)
(* meets them: all that was listed at its start is seen, unless something  *)
(* arrived between the count and the find of the page that ends the walk.  *)
(* Arrivals between those of an earlier page hide nothing.                 *)
ArrivalsHideNothing ==
    Whole /\ walk.first = 0 /\ changes \subseteq {"arrival"} /\ NoTies =>
      atStart \subseteq ToSet(walk.seen)

(* Documents that leave pull others to earlier pages, which the walk has   *)
(* passed: it may miss some, and shows none twice.                         *)
DeparturesRepeatNothing ==
    walk.size > 0 /\ changes \subseteq {"departure", "inside"} /\ NoTies =>
      IsInjective(walk.seen)

(* Without a write in between, the page has the rows its totals announce,  *)
(* for any order of equal createdAt.                                       *)
TotalsMatchPage ==
    walk.at \in {"page", "over"} /\ walk.size > 0
      /\ "inside" \notin changes /\ "not begun" \notin changes =>
        walk.got = Min({walk.size, Max({0, walk.total - walk.page * walk.size})})
=============================================================================
