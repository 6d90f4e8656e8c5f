---------------------------- MODULE ListingProofs ----------------------------
(***************************************************************************)
(* Proofs about Listing, for any number of documents and any page size.    *)
(***************************************************************************)
EXTENDS Listing, FiniteSetTheorems, SequenceTheorems, TLAPS

------------------------------------------------------------------------------
(* What holds between any two steps, beside the properties themselves.     *)

(* The place of a document in the list, when no two have the same time.    *)
Rank(d) == Cardinality({e \in Listed : docs[e].createdAt >= docs[d].createdAt})

(* The rows of the list that the walk has passed.                          *)
Passed == (IF walk.at \in {"page", "over"} THEN walk.page + 1 ELSE walk.page) * walk.size

WalkTypeOK ==
    /\ docs \in [Docs -> Document \union {None}]
    /\ walk \in [at: {"count", "find", "page", "over", "failed"}, first: Nat, page: Nat,
                 size: Int \ {0}, total: Nat, got: Nat, seen: Seq(Docs)]
    /\ atStart \subseteq Docs
    /\ walk.first <= walk.page

(* A total is that of the list, unless somebody wrote since it was counted,*)
(* and a note of that outlives the page.                                   *)
TotalIsFresh ==
    /\ walk.at = "find" /\ "inside" \notin changes => walk.total = Cardinality(Listed)
    /\ "inside" \in changes => "departure" \in changes \/ "arrival" \in changes

(* While nothing changes, the rows passed have been seen in their order.   *)
SeenInOrder ==
    LET skipped == walk.first * walk.size
        last == Min({Cardinality(Listed), Passed})
    IN  walk.size > 0 /\ walk.at # "failed" /\ changes = {} /\ NoTies =>
          /\ Len(walk.seen) = Max({0, last - skipped})
          /\ \A i \in DOMAIN walk.seen : walk.seen[i] \in Listed /\ Rank(walk.seen[i]) = skipped + i
          /\ walk.at = "page" => Passed < Cardinality(Listed)
          /\ walk.at = "over" => Passed >= Cardinality(Listed) /\ Listings # {}

(* While documents only leave, no document seen is still to come.          *)
SeenIsPassed ==
    walk.size > 0 /\ changes \subseteq {"departure", "inside"} /\ NoTies =>
      /\ IsInjective(walk.seen)
      /\ walk.at # "failed" => \A d \in ToSet(walk.seen) : d \in Listed => Rank(d) <= Passed

(* While documents only arrive, those not seen yet are still to come, even *)
(* if some arrive inside a page; only the end of the walk may be early then*)
UnseenIsToCome ==
    walk.size > 0 /\ walk.first = 0 /\ changes \subseteq {"arrival", "inside"} /\ NoTies =>
      /\ atStart \subseteq Listed
      /\ walk.at \in {"count", "find", "page"} =>
           \A d \in atStart : d \in ToSet(walk.seen) \/ Rank(d) > Passed
      /\ walk.at = "over" /\ "inside" \notin changes => atStart \subseteq ToSet(walk.seen)

(* Where a walk stands in the list between any two steps of its own and of *)
(* the writers.                                                            *)
ListingIInv ==
    WalkTypeOK /\ TotalIsFresh /\ TotalsMatchPage /\ SeenInOrder /\ SeenIsPassed /\ UnseenIsToCome

------------------------------------------------------------------------------

----------------------------------------------------------------------------
(* Arithmetic.                                                             *)

LEMMA MinOfTwo == ASSUME NEW a \in Int, NEW b \in Int PROVE Min({a, b}) = IF a <= b THEN a ELSE b
  <1> DEFINE m == IF a <= b THEN a ELSE b
  <1>1. m \in {a, b} /\ \A y \in {a, b} : m =< y
    OBVIOUS
  <1>2. \A x \in {a, b} : (\A y \in {a, b} : x =< y) => x = m
    OBVIOUS
  <1> HIDE DEF m
  <1>3. Min({a, b}) = m
    BY <1>1, <1>2 DEF Min
  <1> QED BY <1>3 DEF m

LEMMA MaxOfTwo == ASSUME NEW a \in Int, NEW b \in Int PROVE Max({a, b}) = IF a <= b THEN b ELSE a
  <1> DEFINE m == IF a <= b THEN b ELSE a
  <1>1. m \in {a, b} /\ \A y \in {a, b} : m >= y
    OBVIOUS
  <1>2. \A x \in {a, b} : (\A y \in {a, b} : x >= y) => x = m
    OBVIOUS
  <1> HIDE DEF m
  <1>3. Max({a, b}) = m
    BY <1>1, <1>2 DEF Max
  <1> QED BY <1>3 DEF m

LEMMA PagesInOrder ==
    ASSUME NEW p \in Nat, NEW q \in Nat, p <= q, NEW s \in Nat
    PROVE  /\ p * s \in Nat /\ q * s \in Nat /\ p * s <= q * s
           /\ (q + 1) * s = q * s + s
  <1>1. PICK d \in Nat : q = p + d
    BY q - p \in Nat
  <1>2. q * s = p * s + d * s /\ d * s \in Nat /\ p * s \in Nat
    BY <1>1
  <1> QED BY <1>2

(* hasNextPage says whether rows are left behind this page.                *)
LEMMA NextPageHasRows ==
    ASSUME NEW p \in Nat, NEW s \in Nat \ {0}, NEW total \in Nat
    PROVE  HasNextPage(p, total, s) <=> (p + 1) * s < total
  <1> DEFINE a == total + s - 1
             d == a \div s
  <1>1. a \in Nat
    OBVIOUS
  <1>2. d \in Nat /\ s * d <= a /\ a < s * d + s
    BY <1>1
  <1>3. HasNextPage(p, total, s) <=> p + 1 < d
    BY DEF HasNextPage, TotalPages
  <1> HIDE DEF d
  <1>4. ASSUME p + 1 < d
        PROVE  (p + 1) * s < total
    <2>1. (p + 2) * s <= d * s
      BY <1>2, <1>4, PagesInOrder
    <2>2. (p + 2) * s = (p + 1) * s + s /\ (p + 1) * s \in Nat /\ d * s = s * d
      BY <1>2
    <2> QED BY <1>2, <2>1, <2>2
  <1>5. ASSUME ~(p + 1 < d)
        PROVE  ~((p + 1) * s < total)
    <2>1. d * s <= (p + 1) * s
      BY <1>2, <1>5, PagesInOrder
    <2>2. d * s = s * d /\ d * s \in Nat /\ (p + 1) * s \in Nat
      BY <1>2
    <2> QED BY <1>2, <2>1, <2>2
  <1> QED BY <1>3, <1>4, <1>5

----------------------------------------------------------------------------
(* The list.                                                               *)

LEMMA ListIsFinite ==
    /\ IsFiniteSet(Listed) /\ Cardinality(Listed) \in Nat
    /\ \A S \in SUBSET Listed : IsFiniteSet(S) /\ Cardinality(S) \in 0 .. Cardinality(Listed)
  <1>1. IsFiniteSet(Listed)
    BY FS_Subset, ListingAssumption DEF Listed
  <1>2. Cardinality(Listed) \in Nat
    BY <1>1, FS_CardinalityType
  <1>3. ASSUME NEW S \in SUBSET Listed
        PROVE  IsFiniteSet(S) /\ Cardinality(S) \in 0 .. Cardinality(Listed)
    <2>1. IsFiniteSet(S) /\ Cardinality(S) <= Cardinality(Listed)
      BY <1>1, FS_Subset
    <2>2. Cardinality(S) \in Nat
      BY <2>1, FS_CardinalityType
    <2> QED BY <1>2, <2>1, <2>2
  <1> QED BY <1>1, <1>2, <1>3

LEMMA ListedDocuments ==
    ASSUME WalkTypeOK
    PROVE  /\ \A d \in Listed : d \in Docs /\ docs[d] \in Document /\ docs[d].createdAt \in Nat
           /\ \A d \in Docs : docs[d] # None => docs[d] \in Document /\ docs[d].createdAt \in Nat
  BY ListingAssumption DEF WalkTypeOK, Listed, Document

LEMMA RankInList ==
    ASSUME WalkTypeOK, NEW d \in Listed PROVE Rank(d) \in 1 .. Cardinality(Listed)
  <1> DEFINE before == {e \in Listed : docs[e].createdAt >= docs[d].createdAt}
  <1>1. d \in before
    BY ListedDocuments
  <1>2. IsFiniteSet(before) /\ Cardinality(before) \in 0 .. Cardinality(Listed)
    BY ListIsFinite
  <1>3. Cardinality(before) # 0
    BY <1>1, <1>2, FS_EmptySet
  <1>4. Rank(d) = Cardinality(before)
    BY DEF Rank
  <1> HIDE DEF before
  <1> QED BY <1>2, <1>3, <1>4, ListIsFinite

LEMMA RowsOfListing ==
    ASSUME NEW rows \in Listings
    PROVE  LET n == Cardinality(Listed)
           IN  /\ rows \in Seq(Listed) /\ Len(rows) = n /\ DOMAIN rows = 1 .. n
               /\ \A i \in 1 .. n : rows[i] \in Listed
               /\ \A i, j \in 1 .. n : rows[i] = rows[j] => i = j
               /\ \A i, j \in 1 .. n : i < j => docs[rows[i]].createdAt >= docs[rows[j]].createdAt
               /\ \A d \in Listed : \E i \in 1 .. n : rows[i] = d
  <1> DEFINE n == Cardinality(Listed)
  <1>1. n \in Nat /\ IsFiniteSet(Listed)
    BY ListIsFinite
  <1> HIDE DEF n
  <1>2. rows \in [1 .. n -> Listed] /\ \A i, j \in 1 .. n : i # j => rows[i] # rows[j]
    BY DEF Listings, SetToSeqs, n
  <1>3. rows \in Seq(Listed) /\ Len(rows) = n /\ DOMAIN rows = 1 .. n
    BY <1>1, <1>2
  <1>4. \A i, j \in 1 .. n : i < j => docs[rows[i]].createdAt >= docs[rows[j]].createdAt
    BY <1>3 DEF Listings
  <1>5. \A d \in Listed : \E i \in 1 .. n : rows[i] = d
    <2>1. rows \in Injection(1 .. n, Listed)
      BY <1>2 DEF Injection, IsInjective
    <2>2. IsFiniteSet(1 .. n) /\ Cardinality(1 .. n) = n
      BY <1>1, FS_Interval
    <2>3. rows \in Surjection(1 .. n, Listed)
      BY <1>1, <2>1, <2>2, FS_Injection DEF n
    <2> QED BY <2>3 DEF Surjection
  <1> QED BY <1>2, <1>3, <1>4, <1>5 DEF n

(* Without equal times, a document stands in every listing at its rank.    *)
LEMMA RankIsPlace ==
    ASSUME WalkTypeOK, NoTies, NEW rows \in Listings, NEW i \in 1 .. Cardinality(Listed)
    PROVE  Rank(rows[i]) = i
  <1> DEFINE n == Cardinality(Listed)
             before == {e \in Listed : docs[e].createdAt >= docs[rows[i]].createdAt}
  <1>1. n \in Nat /\ i \in Nat /\ i <= n /\ 1 .. i \subseteq 1 .. n
    BY ListIsFinite
  <1>2. /\ \A j \in 1 .. n : rows[j] \in Listed
        /\ \A j, k \in 1 .. n : rows[j] = rows[k] => j = k
        /\ \A j, k \in 1 .. n : j < k => docs[rows[j]].createdAt >= docs[rows[k]].createdAt
        /\ \A d \in Listed : \E j \in 1 .. n : rows[j] = d
    BY RowsOfListing
  <1> HIDE DEF n
  <1>3. \A j \in 1 .. n : docs[rows[j]].createdAt \in Nat
    BY <1>2, ListedDocuments
  <1>4. \A j \in 1 .. n : rows[j] \in before <=> j <= i
    <2> SUFFICES ASSUME NEW j \in 1 .. n
                 PROVE  docs[rows[j]].createdAt >= docs[rows[i]].createdAt <=> j <= i
      BY <1>2
    <2>1. i \in 1 .. n
      BY DEF n
    <2>2. CASE j < i
      BY <1>2, <2>1, <2>2
    <2>3. CASE j = i
      BY <1>3, <2>1, <2>3
    <2>4. CASE j > i
      <3>1. docs[rows[i]].createdAt >= docs[rows[j]].createdAt
        BY <1>2, <2>1, <2>4
      <3>2. rows[i] # rows[j]
        BY <1>2, <2>1, <2>4
      <3>3. docs[rows[i]].createdAt # docs[rows[j]].createdAt
        BY <1>2, <2>1, <3>2 DEF NoTies, Listed
      <3> QED BY <1>1, <1>3, <2>1, <2>4, <3>1, <3>3
    <2> QED BY <1>1, <2>2, <2>3, <2>4
  <1> DEFINE f == [j \in 1 .. i |-> rows[j]]
  <1>5. f \in [1 .. i -> before]
    BY <1>1, <1>4
  <1>6. \A j, k \in 1 .. i : f[j] = f[k] => j = k
    BY <1>1, <1>2
  <1>7. \A d \in before : \E j \in 1 .. i : f[j] = d
    <2> SUFFICES ASSUME NEW d \in before PROVE \E j \in 1 .. i : f[j] = d
      OBVIOUS
    <2>1. PICK j \in 1 .. n : rows[j] = d
      BY <1>2
    <2>2. j <= i
      BY <1>4, <2>1
    <2>3. j \in 1 .. i
      BY <1>1, <2>2
    <2> QED BY <2>1, <2>3
  <1> HIDE DEF f, before
  <1>8. f \in Bijection(1 .. i, before)
    BY <1>5, <1>6, <1>7 DEF Bijection, Injection, Surjection, IsInjective
  <1>9. ExistsBijection(1 .. i, before)
    BY <1>8 DEF ExistsBijection
  <1>10. Cardinality(before) = i
    BY <1>1, <1>9, FS_CountingElements
  <1> QED BY <1>10 DEF Rank, before

(* A page shows the rows behind those that were skipped.                   *)
LEMMA PageShows ==
    ASSUME NEW rows \in Listings, NEW skip \in Nat, NEW size \in Int
    PROVE  LET n == Cardinality(Listed)
               to == IF size > 0 THEN skip + size ELSE skip - size
               items == PageOf(rows, skip, size)
           IN  /\ items \in Seq(Listed)
               /\ Len(items) = IF skip >= n THEN 0 ELSE IF n <= to THEN n - skip ELSE to - skip
               /\ \A i \in 1 .. Len(items) : items[i] = rows[skip + i] /\ skip + i \in 1 .. n
  <1> DEFINE n == Cardinality(Listed)
             to == IF size > 0 THEN skip + size ELSE skip - size
             last == IF n <= to THEN n ELSE to
             items == SubSeq(rows, skip + 1, last)
  <1>1. n \in Nat
    BY ListIsFinite
  <1>2. /\ rows \in Seq(Listed) /\ Len(rows) = n
        /\ \A i \in 1 .. n : rows[i] \in Listed
    BY RowsOfListing
  <1> HIDE DEF n
  <1>3. to \in Int /\ to >= skip /\ last \in Int /\ last <= n
    BY <1>1
  <1>4. Min({n, to}) = last
    BY <1>1, <1>3, MinOfTwo
  <1>5. PageOf(rows, skip, size) = items
    <2>1. skip + (IF size > 0 THEN size ELSE -size) = to
      OBVIOUS
    <2> QED BY <1>2, <1>4, <2>1 DEF PageOf
  <1> HIDE DEF last, items
  <1>6. \A i \in skip + 1 .. last : rows[i] \in Listed
    BY <1>1, <1>2, <1>3
  <1>7. /\ items \in Seq(Listed)
        /\ Len(items) = IF skip + 1 <= last THEN last - (skip + 1) + 1 ELSE 0
        /\ \A i \in 1 .. last - (skip + 1) + 1 : items[i] = rows[skip + 1 + i - 1]
    BY <1>3, <1>6, SubSeqProperties DEF items
  <1>8. Len(items) = IF skip >= n THEN 0 ELSE IF n <= to THEN n - skip ELSE to - skip
    BY <1>1, <1>3, <1>7 DEF last
  <1>9. \A i \in 1 .. Len(items) : items[i] = rows[skip + i] /\ skip + i \in 1 .. n
    BY <1>1, <1>3, <1>7
  <1> QED BY <1>5, <1>7, <1>8, <1>9 DEF n

----------------------------------------------------------------------------
(* The steps of the client.                                                *)

LEMMA SameList ==
    ASSUME UNCHANGED docs
    PROVE  /\ Listed' = Listed /\ Listings' = Listings /\ (NoTies' <=> NoTies)
           /\ \A d : Rank(d)' = Rank(d)
  BY DEF Listed, Listings, NoTies, Rank

LEMMA WalkFields ==
    ASSUME WalkTypeOK
    PROVE  /\ walk.at \in {"count", "find", "page", "over", "failed"}
           /\ walk.first \in Nat /\ walk.page \in Nat /\ walk.size \in Int /\ walk.size # 0
           /\ walk.total \in Nat /\ walk.got \in Nat /\ walk.seen \in Seq(Docs)
           /\ walk.first <= walk.page
           /\ walk.page * walk.size \in Int /\ walk.first * walk.size \in Int
           /\ (walk.page + 1) * walk.size = walk.page * walk.size + walk.size
           /\ walk.size > 0 => /\ walk.first * walk.size \in Nat /\ walk.page * walk.size \in Nat
                               /\ walk.first * walk.size <= walk.page * walk.size
  <1>1. /\ walk.at \in {"count", "find", "page", "over", "failed"}
        /\ walk.first \in Nat /\ walk.page \in Nat /\ walk.size \in Int /\ walk.size # 0
        /\ walk.total \in Nat /\ walk.got \in Nat /\ walk.seen \in Seq(Docs)
        /\ walk.first <= walk.page
    BY DEF WalkTypeOK
  <1> DEFINE p == walk.page
             f == walk.first
             s == walk.size
  <1>2. p \in Nat /\ f \in Nat /\ s \in Int /\ f <= p
    BY <1>1
  <1> HIDE DEF p, f, s
  <1>3. p * s \in Int /\ f * s \in Int /\ (p + 1) * s = p * s + s
    BY <1>2
  <1>4. s > 0 => f * s \in Nat /\ p * s \in Nat /\ f * s <= p * s
    BY <1>2, PagesInOrder
  <1> QED BY <1>1, <1>3, <1>4 DEF p, f, s

LEMMA EmptyWalk ==
    /\ <<>> \in Seq(Docs) /\ Len(<<>>) = 0 /\ DOMAIN <<>> = {} /\ ToSet(<<>>) = {}
    /\ IsInjective(<<>>)
  <1>1. <<>> \in Seq(Docs) /\ Len(<<>>) = 0 /\ DOMAIN <<>> = {}
    OBVIOUS
  <1> QED BY <1>1 DEF ToSet, IsInjective

LEMMA BeginKeeps ==
    ASSUME ListingIInv, NEW page \in Pages, NEW limit \in Limits, Begin(page, limit)
    PROVE  ListingIInv'
  <1> DEFINE p == PageNum(page)
             s == PageSize(limit)
  <1>1. p \in Nat /\ s \in Int \ {0}
    BY ListingAssumption DEF PageNum, PageSize
  <1>2. /\ walk' = [at |-> "count", first |-> p, page |-> p, size |-> s,
                    total |-> 0, got |-> 0, seen |-> <<>>]
        /\ atStart' = Listed /\ changes' = {} /\ UNCHANGED docs
    BY DEF Begin
  <1> HIDE DEF p, s
  <1>3. /\ walk'.at = "count" /\ walk'.first = p /\ walk'.page = p /\ walk'.size = s
        /\ walk'.seen = <<>>
    BY <1>2
  <1>4. Listed' = Listed /\ \A d : Rank(d)' = Rank(d)
    BY <1>2, SameList
  <1>5. WalkTypeOK'
    <2>1. 0 \in Nat /\ <<>> \in Seq(Docs)
      BY EmptyWalk
    <2> QED BY <1>1, <1>2, <2>1 DEF ListingIInv, WalkTypeOK, Listed
  <1>6. TotalIsFresh' /\ TotalsMatchPage'
    BY <1>2, <1>3 DEF TotalIsFresh, TotalsMatchPage
  <1>7. Passed' = p * s /\ p * s \in Int
    BY <1>1, <1>3 DEF Passed
  <1>8. SeenInOrder'
    <2>1. Cardinality(Listed) \in Nat
      BY ListIsFinite
    <2>2. Min({Cardinality(Listed), Passed'}) <= p * s /\ Min({Cardinality(Listed), Passed'}) \in Int
      BY <1>7, <2>1, MinOfTwo
    <2>3. Max({0, Min({Cardinality(Listed), Passed'}) - p * s}) = 0
      BY <1>7, <2>2, MaxOfTwo
    <2> QED BY <1>3, <1>4, <2>3, EmptyWalk DEF SeenInOrder
  <1>9. SeenIsPassed'
    BY <1>3, EmptyWalk DEF SeenIsPassed
  <1>10. UnseenIsToCome'
    <2>1. s > 0 /\ p = 0 => Passed' = 0
      BY <1>1, <1>7
    <2>2. \A d \in Listed : Rank(d) > 0
      BY RankInList DEF ListingIInv
    <2> QED BY <1>2, <1>3, <1>4, <2>1, <2>2 DEF UnseenIsToCome
  <1> QED BY <1>5, <1>6, <1>8, <1>9, <1>10 DEF ListingIInv

LEMMA CountKeeps == ASSUME ListingIInv, Count PROVE ListingIInv'
  <1> DEFINE n == Cardinality(Listed)
  <1>1. /\ walk.at = "count" /\ walk' = [walk EXCEPT !.at = "find", !.total = n]
        /\ changes' = changes \ {"inside"} /\ UNCHANGED <<docs, atStart>>
    BY DEF Count
  <1>2. n \in Nat
    BY ListIsFinite
  <1>3. WalkTypeOK
    BY DEF ListingIInv
  <1>4. Listed' = Listed /\ Listings' = Listings /\ (NoTies' <=> NoTies) /\ \A d : Rank(d)' = Rank(d)
    BY <1>1, SameList
  <1> HIDE DEF n
  <1>5. /\ walk'.at = "find" /\ walk'.total = n /\ walk'.first = walk.first /\ walk'.page = walk.page
        /\ walk'.size = walk.size /\ walk'.seen = walk.seen
    BY <1>1, <1>3 DEF WalkTypeOK
  <1>6. WalkTypeOK'
    BY <1>1, <1>2, <1>3 DEF WalkTypeOK
  <1>7. TotalIsFresh' /\ TotalsMatchPage'
    BY <1>1, <1>4, <1>5 DEF TotalIsFresh, TotalsMatchPage, n
  <1>8. Passed' = Passed
    BY <1>1, <1>5 DEF Passed
  <1>9. /\ changes' = {} => changes = {}
        /\ changes' \subseteq {"departure", "inside"} => changes \subseteq {"departure", "inside"}
        /\ changes' \subseteq {"arrival", "inside"} => changes \subseteq {"arrival", "inside"}
    <2>1. "inside" \in changes => "departure" \in changes' \/ "arrival" \in changes'
      BY <1>1 DEF ListingIInv, TotalIsFresh
    <2>2. \A kind : kind \in changes => kind \in changes' \/ kind = "inside"
      BY <1>1
    <2>3. changes' = {} => changes = {}
      BY <2>1, <2>2
    <2>4. changes' \subseteq {"departure", "inside"} => changes \subseteq {"departure", "inside"}
      BY <2>2
    <2>5. changes' \subseteq {"arrival", "inside"} => changes \subseteq {"arrival", "inside"}
      BY <2>2
    <2> QED BY <2>3, <2>4, <2>5
  <1>10. SeenInOrder'
    BY <1>1, <1>4, <1>5, <1>8, <1>9 DEF ListingIInv, SeenInOrder
  <1>11. SeenIsPassed'
    BY <1>1, <1>4, <1>5, <1>8, <1>9 DEF ListingIInv, SeenIsPassed
  <1>12. UnseenIsToCome'
    BY <1>1, <1>4, <1>5, <1>8, <1>9 DEF ListingIInv, UnseenIsToCome
  <1> QED BY <1>6, <1>7, <1>10, <1>11, <1>12 DEF ListingIInv

LEMMA NextPageKeeps == ASSUME ListingIInv, NextPage PROVE ListingIInv'
  <1>1. /\ walk.at = "page" /\ walk' = [walk EXCEPT !.at = "count", !.page = @ + 1]
        /\ UNCHANGED <<docs, atStart, changes>>
    BY DEF NextPage
  <1>2. WalkTypeOK
    BY DEF ListingIInv
  <1>3. Listed' = Listed /\ Listings' = Listings /\ (NoTies' <=> NoTies) /\ \A d : Rank(d)' = Rank(d)
    BY <1>1, SameList
  <1>4. /\ walk'.at = "count" /\ walk'.first = walk.first /\ walk'.page = walk.page + 1
        /\ walk'.size = walk.size /\ walk'.seen = walk.seen
    BY <1>1, <1>2 DEF WalkTypeOK
  <1>5. WalkTypeOK'
    <2>1. walk.page \in Nat /\ walk.first \in Nat /\ walk.first <= walk.page
      BY <1>2 DEF WalkTypeOK
    <2>2. walk.page + 1 \in Nat /\ walk.first <= walk.page + 1
      BY <2>1
    <2> QED BY <1>1, <1>2, <1>4, <2>2 DEF WalkTypeOK
  <1>6. TotalIsFresh' /\ TotalsMatchPage'
    BY <1>1, <1>4 DEF ListingIInv, TotalIsFresh, TotalsMatchPage
  <1>7. Passed' = Passed
    BY <1>1, <1>4 DEF Passed
  <1>8. SeenInOrder'
    BY <1>1, <1>3, <1>4, <1>7 DEF ListingIInv, SeenInOrder
  <1>9. SeenIsPassed'
    BY <1>1, <1>3, <1>4, <1>7 DEF ListingIInv, SeenIsPassed
  <1>10. UnseenIsToCome'
    BY <1>1, <1>3, <1>4, <1>7 DEF ListingIInv, UnseenIsToCome
  <1> QED BY <1>5, <1>6, <1>8, <1>9, <1>10 DEF ListingIInv

(* A query that fails, or a skip that is refused, ends the walk.           *)
LEMMA FailKeeps ==
    ASSUME ListingIInv, walk' = [walk EXCEPT !.at = "failed"], UNCHANGED <<docs, atStart, changes>>
    PROVE  ListingIInv'
  <1>1. WalkTypeOK
    BY DEF ListingIInv
  <1>2. Listed' = Listed /\ Listings' = Listings /\ (NoTies' <=> NoTies) /\ \A d : Rank(d)' = Rank(d)
    BY SameList
  <1>3. /\ walk'.at = "failed" /\ walk'.first = walk.first
        /\ walk'.size = walk.size /\ walk'.seen = walk.seen
    BY <1>1 DEF WalkTypeOK
  <1>4. WalkTypeOK'
    BY <1>1 DEF WalkTypeOK
  <1>5. TotalIsFresh' /\ TotalsMatchPage' /\ SeenInOrder'
    BY <1>3 DEF ListingIInv, TotalIsFresh, TotalsMatchPage, SeenInOrder
  <1>6. SeenIsPassed' /\ UnseenIsToCome'
    BY <1>2, <1>3 DEF ListingIInv, SeenIsPassed, UnseenIsToCome
  <1> QED BY <1>4, <1>5, <1>6 DEF ListingIInv

(* What a walk has seen after a page.                                      *)
LEMMA SeenAndItems ==
    ASSUME NEW seen \in Seq(Docs), NEW items \in Seq(Docs)
    PROVE  LET all == seen \o items
           IN  /\ all \in Seq(Docs) /\ Len(all) = Len(seen) + Len(items)
               /\ Len(seen) \in Nat /\ Len(items) \in Nat
               /\ DOMAIN all = 1 .. Len(seen) + Len(items)
               /\ \A i \in 1 .. Len(seen) : all[i] = seen[i]
               /\ \A i \in 1 .. Len(items) : all[Len(seen) + i] = items[i]
               /\ \A i \in 1 .. Len(seen) + Len(items) :
                    \/ i \in 1 .. Len(seen) /\ all[i] = seen[i]
                    \/ i - Len(seen) \in 1 .. Len(items) /\ all[i] = items[i - Len(seen)]
               /\ \A d : d \in ToSet(all) <=>
                    d \in ToSet(seen) \/ \E i \in 1 .. Len(items) : items[i] = d
  <1> DEFINE all == seen \o items
             m == Len(seen)
             k == Len(items)
  <1>1. /\ all \in Seq(Docs) /\ Len(all) = m + k /\ m \in Nat /\ k \in Nat
        /\ DOMAIN seen = 1 .. m /\ DOMAIN all = 1 .. m + k
    BY LenProperties, ConcatProperties
  <1>2. \A i \in 1 .. m + k : all[i] = IF i <= m THEN seen[i] ELSE items[i - m]
    BY ConcatProperties
  <1> HIDE DEF all, m, k
  <1>3. \A i \in 1 .. m : all[i] = seen[i]
    BY <1>1, <1>2
  <1>4. \A i \in 1 .. k : all[m + i] = items[i]
    BY <1>1, <1>2
  <1>5. \A i \in 1 .. m + k : \/ i \in 1 .. m /\ all[i] = seen[i]
                              \/ i - m \in 1 .. k /\ all[i] = items[i - m]
    BY <1>1, <1>2
  <1>6. \A d : d \in ToSet(all) <=> d \in ToSet(seen) \/ \E i \in 1 .. k : items[i] = d
    <2> SUFFICES ASSUME NEW d
                 PROVE  (\E i \in 1 .. m + k : all[i] = d) <=>
                          (\E i \in 1 .. m : seen[i] = d) \/ \E i \in 1 .. k : items[i] = d
      BY <1>1 DEF ToSet
    <2>1. ASSUME NEW i \in 1 .. m, seen[i] = d PROVE \E j \in 1 .. m + k : all[j] = d
      <3>1. i \in 1 .. m + k
        BY <1>1
      <3> QED BY <1>3, <2>1, <3>1
    <2>2. ASSUME NEW i \in 1 .. k, items[i] = d PROVE \E j \in 1 .. m + k : all[j] = d
      <3>1. m + i \in 1 .. m + k
        BY <1>1
      <3> QED BY <1>4, <2>2, <3>1
    <2> QED BY <1>5, <2>1, <2>2
  <1> QED BY <1>1, <1>3, <1>4, <1>5, <1>6 DEF all, m, k

(* A page of rows, read while nothing was refused.                         *)
LEMMA PageKeeps ==
    ASSUME ListingIInv, walk.at = "find", NEW rows \in Listings,
           walk.page * walk.size >= 0, UNCHANGED <<docs, atStart, changes>>,
           LET items == PageOf(rows, walk.page * walk.size, walk.size)
           IN  walk' = [walk EXCEPT !.seen = @ \o items, !.got = Len(items),
                          !.at = IF HasNextPage(walk.page, walk.total, walk.size)
                                 THEN "page" ELSE "over"]
    PROVE  ListingIInv'
  <1> DEFINE n == Cardinality(Listed)
             skip == walk.page * walk.size
             skipped == walk.first * walk.size
             size == walk.size
             items == PageOf(rows, skip, size)
             seen == walk.seen
             at == IF HasNextPage(walk.page, walk.total, walk.size) THEN "page" ELSE "over"
             k == Len(items)
             m == Len(seen)
  <1>1. WalkTypeOK /\ TotalIsFresh /\ SeenInOrder /\ SeenIsPassed /\ UnseenIsToCome
    BY DEF ListingIInv
  <1>2. /\ size \in Int /\ size # 0 /\ seen \in Seq(Docs) /\ skip \in Int /\ skipped \in Int
        /\ (walk.page + 1) * size = skip + size
        /\ size > 0 => skipped \in Nat /\ skip \in Nat /\ skipped <= skip
        /\ walk.page \in Nat /\ walk.total \in Nat
    BY <1>1, WalkFields
  <1>3. skip \in Nat /\ n \in Nat
    BY <1>2, ListIsFinite
  <1>4. /\ items \in Seq(Listed)
        /\ size > 0 => k = IF skip >= n THEN 0 ELSE IF n <= skip + size THEN n - skip ELSE size
        /\ \A i \in 1 .. k : items[i] = rows[skip + i] /\ skip + i \in 1 .. n
    <2> HIDE DEF skip, size
    <2>1. LET to == IF size > 0 THEN skip + size ELSE skip - size
          IN  /\ items \in Seq(Listed)
              /\ k = IF skip >= n THEN 0 ELSE IF n <= to THEN n - skip ELSE to - skip
              /\ \A i \in 1 .. k : items[i] = rows[skip + i] /\ skip + i \in 1 .. n
      BY <1>2, <1>3, PageShows
    <2> HIDE DEF items, k, n
    <2> QED BY <1>2, <1>3, <2>1
  <1>5. items \in Seq(Docs)
    BY <1>4, SeqMonotonic DEF Listed
  <1> HIDE DEF items
  <1>6. /\ seen \o items \in Seq(Docs) /\ m \in Nat /\ k \in Nat
        /\ DOMAIN (seen \o items) = 1 .. m + k /\ Len(seen \o items) = m + k
        /\ DOMAIN seen = 1 .. m
        /\ \A i \in 1 .. m + k :
             \/ i \in 1 .. m /\ (seen \o items)[i] = seen[i]
             \/ i - m \in 1 .. k /\ (seen \o items)[i] = items[i - m]
        /\ \A d : d \in ToSet(seen \o items) <=>
             d \in ToSet(seen) \/ \E i \in 1 .. k : items[i] = d
    BY <1>2, <1>5, SeenAndItems
  <1>7. /\ walk' = [walk EXCEPT !.seen = seen \o items, !.got = k, !.at = at]
        /\ at \in {"page", "over"}
    BY DEF items
  <1> HIDE DEF at
  <1>8. /\ walk'.at = at /\ walk'.seen = seen \o items /\ walk'.got = k
        /\ walk'.first = walk.first /\ walk'.page = walk.page /\ walk'.size = size
        /\ walk'.total = walk.total
    BY <1>1, <1>7 DEF WalkTypeOK
  <1>9. Listed' = Listed /\ Listings' = Listings /\ (NoTies' <=> NoTies) /\ \A d : Rank(d)' = Rank(d)
    BY SameList
  <1>10. WalkTypeOK'
    <2> HIDE DEF size, seen, k
    <2> QED BY <1>1, <1>6, <1>7, <1>8 DEF WalkTypeOK
  <1>11. Passed = skip /\ Passed' = skip + size
    BY <1>2, <1>7, <1>8 DEF Passed
  <1>12. size > 0 /\ walk.total = n => (at = "page" <=> skip + size < n)
    <2>1. size > 0 => (HasNextPage(walk.page, walk.total, size) <=> skip + size < walk.total)
      BY <1>2, NextPageHasRows
    <2> QED BY <2>1 DEF at
  <1>13. NoTies => \A i \in 1 .. n : Rank(rows[i]) = i /\ rows[i] \in Listed
    BY <1>1, RankIsPlace, RowsOfListing
  <1>14. NoTies => \A i \in 1 .. k : /\ items[i] \in Listed /\ Rank(items[i]) = skip + i
                                     /\ skip + i \in 1 .. n
    BY <1>4, <1>13
  <1>15. "inside" \notin changes => walk.total = n
    BY <1>1 DEF TotalIsFresh
  <1>16. TotalIsFresh'
    BY <1>1, <1>7, <1>8 DEF TotalIsFresh
  <1> HIDE DEF skip, skipped, size, seen, k, m, n
  <1>17. TotalsMatchPage'
    <2> SUFFICES ASSUME size > 0, "inside" \notin changes
                 PROVE  k = Min({size, Max({0, walk.total - skip})})
      BY <1>8 DEF TotalsMatchPage, skip, size
    <2>1. walk.total = n
      BY <1>15
    <2>2. Max({0, n - skip}) = IF 0 <= n - skip THEN n - skip ELSE 0
      <3> DEFINE rest == n - skip
      <3>1. rest \in Int
        BY <1>3
      <3> HIDE DEF rest
      <3>2. Max({0, rest}) = IF 0 <= rest THEN rest ELSE 0
        BY <3>1, MaxOfTwo
      <3> QED BY <3>2 DEF rest
    <2>3. Max({0, n - skip}) \in Int
      BY <1>3, <2>2
    <2>4. Min({size, Max({0, n - skip})}) =
             IF size <= Max({0, n - skip}) THEN size ELSE Max({0, n - skip})
      BY <1>2, <2>3, MinOfTwo
    <2> QED BY <1>2, <1>3, <1>4, <2>1, <2>2, <2>4
  <1>18. ASSUME size > 0, changes = {}, NoTies
         PROVE  /\ m + k = Max({0, Min({n, skip + size}) - skipped})
                /\ \A i \in 1 .. m + k :
                     (seen \o items)[i] \in Listed /\ Rank((seen \o items)[i]) = skipped + i
                /\ at = "page" => skip + size < n
                /\ at = "over" => skip + size >= n /\ Listings # {}
    <2>1. /\ m = Max({0, Min({n, skip}) - skipped})
          /\ \A i \in 1 .. m : seen[i] \in Listed /\ Rank(seen[i]) = skipped + i
      BY <1>18, <1>1, <1>6, <1>11 DEF SeenInOrder, skipped, size, n, m, seen
    <2>2. skipped \in Nat /\ skipped <= skip /\ size \in Nat
      BY <1>18, <1>2
    <2>3. Min({n, skip}) = (IF n <= skip THEN n ELSE skip)
          /\ Min({n, skip + size}) = (IF n <= skip + size THEN n ELSE skip + size)
      BY <1>3, <2>2, MinOfTwo
    <2>4. \A a \in Int : Max({0, a}) = IF 0 <= a THEN a ELSE 0
      BY MaxOfTwo
    <2>5. m = IF n <= skip THEN (IF skipped <= n THEN n - skipped ELSE 0) ELSE skip - skipped
      <3>1. Min({n, skip}) - skipped \in Int
        BY <1>3, <2>2, <2>3
      <3> QED BY <1>18, <1>3, <2>1, <2>2, <2>3, <2>4, <3>1
    <2>6. m + k = Max({0, Min({n, skip + size}) - skipped})
      <3> DEFINE last == Min({n, skip + size})
      <3>1. last \in Int /\ last = (IF n <= skip + size THEN n ELSE skip + size)
        BY <1>3, <2>2, <2>3
      <3> HIDE DEF last
      <3>2. Max({0, last - skipped}) = IF 0 <= last - skipped THEN last - skipped ELSE 0
        BY <1>18, <2>2, <2>4, <3>1
      <3>3. k = IF skip >= n THEN 0 ELSE IF n <= skip + size THEN n - skip ELSE size
        BY <1>18, <1>4
      <3>4. CASE n <= skip
        BY <1>3, <2>2, <2>5, <3>1, <3>2, <3>3, <3>4 DEF last
      <3>5. CASE skip < n
        <4>1. m = skip - skipped /\ last >= skip
          BY <1>3, <2>2, <2>5, <3>1, <3>5
        <4>2. k = last - skip
          BY <1>3, <2>2, <3>1, <3>3, <3>5
        <4>3. m + k = last - skipped /\ 0 <= last - skipped
          BY <1>3, <2>2, <3>1, <4>1, <4>2
        <4> QED BY <3>2, <4>3 DEF last
      <3> QED BY <1>3, <3>4, <3>5
    <2>7. \A i \in 1 .. k : skip + i = skipped + (m + i)
      BY <1>3, <1>4, <1>6, <2>2, <2>5
    <2>8. ASSUME NEW i \in 1 .. m + k
          PROVE  (seen \o items)[i] \in Listed /\ Rank((seen \o items)[i]) = skipped + i
      <3>1. CASE i \in 1 .. m /\ (seen \o items)[i] = seen[i]
        BY <2>1, <3>1
      <3>2. CASE i - m \in 1 .. k /\ (seen \o items)[i] = items[i - m]
        <4>1. m + (i - m) = i
          BY <1>6
        <4>2. skip + (i - m) = skipped + i
          BY <2>7, <3>2, <4>1
        <4> QED BY <1>18, <1>14, <3>2, <4>2
      <3> QED BY <1>6, <3>1, <3>2
    <2>9. walk.total = n
      BY <1>18, <1>15
    <2>10. at # "page" => skip + size >= n
      BY <1>18, <1>2, <1>3, <1>12, <2>9
    <2> QED BY <1>18, <1>12, <2>6, <2>8, <2>9, <2>10
  <1>19. SeenIsPassed'
    <2> SUFFICES ASSUME size > 0, changes \subseteq {"departure", "inside"}, NoTies
                 PROVE  /\ IsInjective(seen \o items)
                        /\ \A d \in ToSet(seen \o items) : d \in Listed => Rank(d) <= skip + size
      BY <1>8, <1>9, <1>11 DEF SeenIsPassed, size
    <2>1. /\ IsInjective(seen)
          /\ \A d \in ToSet(seen) : d \in Listed => Rank(d) <= skip
      BY <1>1, <1>11 DEF SeenIsPassed, size, seen
    <2>2. \A d \in Listed : Rank(d) \in Nat
      BY <1>1, RankInList
    <2>3. \A i \in 1 .. k : items[i] \in Listed /\ Rank(items[i]) > skip /\ Rank(items[i]) <= skip + size
      BY <1>2, <1>3, <1>4, <1>6, <1>14
    <2>4. \A i \in 1 .. m : seen[i] \in ToSet(seen)
      BY <1>6 DEF ToSet
    <2>5. \A i \in 1 .. m, j \in 1 .. k : seen[i] # items[j]
      BY <1>3, <2>1, <2>2, <2>3, <2>4
    <2>6. \A i, j \in 1 .. k : items[i] = items[j] => i = j
      BY <1>3, <1>14
    <2>7. \A i, j \in 1 .. m : seen[i] = seen[j] => i = j
      BY <1>6, <2>1 DEF IsInjective
    <2>8. ASSUME NEW i \in 1 .. m + k, NEW j \in 1 .. m + k, (seen \o items)[i] = (seen \o items)[j]
          PROVE  i = j
      <3>1. CASE i \in 1 .. m /\ (seen \o items)[i] = seen[i]
        <4>1. CASE j \in 1 .. m /\ (seen \o items)[j] = seen[j]
          BY <2>7, <2>8, <3>1, <4>1
        <4>2. CASE j - m \in 1 .. k /\ (seen \o items)[j] = items[j - m]
          BY <2>5, <2>8, <3>1, <4>2
        <4> QED BY <1>6, <4>1, <4>2
      <3>2. CASE i - m \in 1 .. k /\ (seen \o items)[i] = items[i - m]
        <4>1. j - m \in 1 .. k /\ (seen \o items)[j] = items[j - m]
          BY <1>6, <2>5, <2>8, <3>2
        <4>2. i - m = j - m
          BY <2>6, <2>8, <3>2, <4>1
        <4> QED BY <1>6, <4>2
      <3> QED BY <1>6, <3>1, <3>2
    <2>9. IsInjective(seen \o items)
      BY <1>6, <2>8 DEF IsInjective
    <2>10. \A d \in ToSet(seen \o items) : d \in Listed => Rank(d) <= skip + size
      <3> SUFFICES ASSUME NEW d \in Listed, d \in ToSet(seen \o items)
                   PROVE  Rank(d) <= skip + size
        OBVIOUS
      <3>1. CASE d \in ToSet(seen)
        <4>1. Rank(d) <= skip /\ Rank(d) \in Nat
          BY <2>1, <2>2, <3>1
        <4> QED BY <1>2, <1>3, <4>1
      <3>2. CASE \E i \in 1 .. k : items[i] = d
        BY <2>3, <3>2
      <3> QED BY <1>6, <3>1, <3>2
    <2> QED BY <2>9, <2>10
  <1>20. UnseenIsToCome'
    <2> SUFFICES ASSUME size > 0, walk.first = 0, changes \subseteq {"arrival", "inside"}, NoTies
                 PROVE  /\ atStart \subseteq Listed
                        /\ at = "page" =>
                             \A d \in atStart : d \in ToSet(seen \o items) \/ Rank(d) > skip + size
                        /\ at = "over" /\ "inside" \notin changes => atStart \subseteq ToSet(seen \o items)
      BY <1>7, <1>8, <1>9, <1>11 DEF UnseenIsToCome, size
    <2>1. /\ atStart \subseteq Listed
          /\ \A d \in atStart : d \in ToSet(seen) \/ Rank(d) > skip
      BY <1>1, <1>11 DEF UnseenIsToCome, size, seen
    <2>2. \A d \in Listed : Rank(d) \in 1 .. n /\ \E i \in 1 .. n : rows[i] = d
      BY <1>1, RankInList, RowsOfListing DEF n
    <2>3. ASSUME NEW d \in Listed, Rank(d) > skip, ~(Rank(d) > skip + size)
          PROVE  d \in ToSet(seen \o items)
      <3>1. PICK i \in 1 .. n : rows[i] = d
        BY <2>2
      <3>2. Rank(d) = i
        BY <1>13, <3>1
      <3>3. i - skip \in 1 .. k
        BY <1>2, <1>3, <1>4, <1>6, <2>3, <3>2
      <3>4. items[i - skip] = d
        <4>1. skip + (i - skip) = i
          BY <1>3
        <4> QED BY <1>4, <3>1, <3>3, <4>1
      <3> QED BY <1>6, <3>3, <3>4
    <2>4. \A d \in atStart : d \in ToSet(seen \o items) \/ Rank(d) > skip + size
      BY <1>6, <2>1, <2>3
    <2>5. "inside" \notin changes => walk.total = n
      BY <1>15
    <2>6. at = "over" /\ "inside" \notin changes => \A d \in Listed : ~(Rank(d) > skip + size)
      BY <1>2, <1>3, <1>12, <2>2, <2>5
    <2> QED BY <2>1, <2>4, <2>6
  <1>21. SeenInOrder'
    <2> DEFINE last == Min({n, skip + size})
    <2>1. /\ (walk.first * walk.size)' = skipped /\ Cardinality(Listed)' = n
          /\ walk'.size = size /\ walk'.at = at /\ walk'.seen = seen \o items
          /\ changes' = changes /\ Listings' = Listings /\ (NoTies' <=> NoTies)
      BY <1>8, <1>9 DEF skipped, size, n
    <2>2. Min({Cardinality(Listed), Passed})' = last
      BY <1>11, <2>1
    <2>3. SeenInOrder' <=>
            (walk'.size > 0 /\ walk'.at # "failed" /\ changes' = {} /\ NoTies' =>
               /\ Len(walk'.seen) = Max({0, Min({Cardinality(Listed), Passed})'
                                              - (walk.first * walk.size)'})
               /\ \A i \in DOMAIN walk'.seen :
                    walk'.seen[i] \in Listed' /\ Rank(walk.seen[i])' = (walk.first * walk.size)' + i
               /\ walk'.at = "page" => Passed' < Cardinality(Listed)'
               /\ walk'.at = "over" => Passed' >= Cardinality(Listed)' /\ Listings' # {})
      BY DEF SeenInOrder
    <2>4. ASSUME size > 0, changes = {}, NoTies
          PROVE  /\ Len(walk'.seen) = Max({0, last - skipped})
                 /\ \A i \in DOMAIN walk'.seen :
                      walk'.seen[i] \in Listed' /\ Rank(walk.seen[i])' = skipped + i
      <3>1. Len(walk'.seen) = m + k /\ DOMAIN walk'.seen = 1 .. m + k
        BY <1>6, <2>1
      <3>2. m + k = Max({0, last - skipped})
        BY <1>18, <2>4
      <3>3. ASSUME NEW i \in 1 .. m + k
            PROVE  walk'.seen[i] \in Listed' /\ Rank(walk.seen[i])' = skipped + i
        <4>1. Rank(walk.seen[i])' = Rank((seen \o items)[i])
          BY <1>9, <2>1
        <4>2. walk'.seen[i] = (seen \o items)[i]
          BY <2>1
        <4>3. (seen \o items)[i] \in Listed /\ Rank((seen \o items)[i]) = skipped + i
          BY <1>18, <2>4
        <4>4. walk'.seen[i] \in Listed'
          <5>1. Listed' = Listed
            BY <1>9
          <5>2. (seen \o items)[i] \in Listed'
            BY <4>3, <5>1
          <5> HIDE DEF seen, items
          <5> QED BY <4>2, <5>2, Zenon
        <4>5. Rank(walk.seen[i])' = skipped + i
          BY <4>1, <4>3
        <4> QED BY <4>4, <4>5
      <3> QED BY <3>1, <3>2, <3>3
    <2>5. ASSUME size > 0, changes = {}, NoTies
          PROVE  /\ walk'.at = "page" => Passed' < Cardinality(Listed)'
                 /\ walk'.at = "over" => Passed' >= Cardinality(Listed)' /\ Listings' # {}
      BY <1>11, <1>18, <2>1, <2>5
    <2> HIDE DEF last
    <2> QED BY <2>1, <2>2, <2>3, <2>4, <2>5
  <1> QED BY <1>10, <1>16, <1>17, <1>19, <1>20, <1>21 DEF ListingIInv

LEMMA FindKeeps == ASSUME ListingIInv, Find PROVE ListingIInv'
  <1>1. walk.page * walk.size \in Int
    BY WalkFields DEF ListingIInv
  <1> DEFINE skip == walk.page * walk.size
  <1>2. walk.at = "find" /\ UNCHANGED <<docs, atStart, changes>>
    BY DEF Find
  <1>3. CASE skip < 0
    BY <1>2, <1>3, FailKeeps DEF Find, Skip
  <1>4. CASE ~(skip < 0)
    <2>1. PICK rows \in Listings :
            walk' = [walk EXCEPT !.seen = @ \o PageOf(rows, skip, walk.size),
                       !.got = Len(PageOf(rows, skip, walk.size)),
                       !.at = IF HasNextPage(walk.page, walk.total, walk.size)
                              THEN "page" ELSE "over"]
      BY <1>4 DEF Find, Skip
    <2>2. skip >= 0
      BY <1>1, <1>4
    <2> QED BY <1>2, <2>1, <2>2, PageKeeps
  <1> QED BY <1>3, <1>4

----------------------------------------------------------------------------
(* The steps of the writers.                                               *)

LEMMA SetsOfDocs ==
    ASSUME NEW S \in SUBSET Docs, NEW T \in SUBSET S
    PROVE  /\ IsFiniteSet(S) /\ Cardinality(S) \in Nat
           /\ Cardinality(T) \in Nat /\ Cardinality(T) <= Cardinality(S)
  <1>1. IsFiniteSet(S)
    BY FS_Subset, ListingAssumption
  <1>2. IsFiniteSet(T) /\ Cardinality(T) <= Cardinality(S)
    BY <1>1, FS_Subset
  <1> QED BY <1>1, <1>2, FS_CardinalityType

(* Documents keep their times: one that arrives pushes others back, one    *)
(* that leaves pulls them to the front.                                    *)
LEMMA WriteKeeps ==
    ASSUME ListingIInv, NEW kind \in {"arrival", "departure"}, Note(kind),
           UNCHANGED <<walk, atStart>>, docs' \in [Docs -> Document \union {None}],
           \A d \in Docs : docs[d] # None =>
              docs'[d] # None /\ docs'[d].createdAt = docs[d].createdAt,
           kind = "arrival" => Listed \subseteq Listed',
           kind = "departure" => Listed' \subseteq Listed
    PROVE  ListingIInv'
  <1>1. WalkTypeOK /\ TotalIsFresh /\ TotalsMatchPage /\ SeenIsPassed /\ UnseenIsToCome
    BY DEF ListingIInv
  <1>2. /\ kind \in changes' /\ changes \subseteq changes'
        /\ walk.at = "find" => "inside" \in changes'
        /\ "inside" \in changes' => walk.at = "find" \/ "inside" \in changes
        /\ "not begun" \in changes' => "not begun" \in changes
    BY DEF Note
  <1>3. NoTies' => NoTies
    BY DEF NoTies
  <1>4. WalkTypeOK'
    BY <1>1 DEF WalkTypeOK
  <1>5. TotalIsFresh'
    BY <1>1, <1>2 DEF TotalIsFresh
  <1>6. TotalsMatchPage'
    BY <1>1, <1>2 DEF TotalsMatchPage
  <1>7. SeenInOrder'
    BY <1>2 DEF SeenInOrder
  <1>8. Passed' = Passed /\ Passed \in Int
    BY <1>1, WalkFields DEF Passed
  <1>9. Listed \subseteq Docs /\ Listed' \subseteq Docs
    BY DEF Listed
  <1>10. SeenIsPassed'
    <2> SUFFICES ASSUME walk.size > 0, changes' \subseteq {"departure", "inside"}, NoTies
                 PROVE  /\ IsInjective(walk.seen)
                        /\ walk.at # "failed" =>
                             \A d \in ToSet(walk.seen) : d \in Listed' => Rank(d)' <= Passed
      BY <1>3, <1>8 DEF SeenIsPassed
    <2>1. kind = "departure" /\ changes \subseteq {"departure", "inside"}
      BY <1>2
    <2>2. /\ IsInjective(walk.seen)
          /\ walk.at # "failed" => \A d \in ToSet(walk.seen) : d \in Listed => Rank(d) <= Passed
      BY <1>1, <2>1 DEF SeenIsPassed
    <2>3. ASSUME NEW d \in Listed'
          PROVE  d \in Listed /\ Rank(d)' <= Rank(d) /\ Rank(d) \in Nat /\ Rank(d)' \in Nat
      <3> DEFINE S == {e \in Listed : docs[e].createdAt >= docs[d].createdAt}
                 T == {e \in Listed' : docs'[e].createdAt >= docs'[d].createdAt}
      <3>1. Listed' \subseteq Listed /\ d \in Listed
        BY <2>1, <2>3
      <3>2. \A e \in Listed' : docs'[e].createdAt = docs[e].createdAt
        BY <1>9, <3>1 DEF Listed
      <3>3. T \subseteq S /\ S \subseteq Docs
        BY <1>9, <2>3, <3>1, <3>2
      <3>4. Rank(d) = Cardinality(S) /\ Rank(d)' = Cardinality(T)
        BY DEF Rank
      <3> HIDE DEF S, T
      <3> QED BY <3>1, <3>3, <3>4, SetsOfDocs
    <2> QED BY <1>8, <2>2, <2>3
  <1>11. UnseenIsToCome'
    <2> SUFFICES ASSUME walk.size > 0, walk.first = 0, changes' \subseteq {"arrival", "inside"}, NoTies
                 PROVE  /\ atStart \subseteq Listed'
                        /\ walk.at \in {"count", "find", "page"} =>
                             \A d \in atStart : d \in ToSet(walk.seen) \/ Rank(d)' > Passed
                        /\ walk.at = "over" /\ "inside" \notin changes' =>
                             atStart \subseteq ToSet(walk.seen)
      BY <1>3, <1>8 DEF UnseenIsToCome
    <2>1. kind = "arrival" /\ changes \subseteq {"arrival", "inside"} /\ Listed \subseteq Listed'
      BY <1>2
    <2>2. /\ atStart \subseteq Listed
          /\ walk.at \in {"count", "find", "page"} =>
               \A d \in atStart : d \in ToSet(walk.seen) \/ Rank(d) > Passed
          /\ walk.at = "over" /\ "inside" \notin changes => atStart \subseteq ToSet(walk.seen)
      BY <1>1, <2>1 DEF UnseenIsToCome
    <2>3. ASSUME NEW d \in Listed
          PROVE  Rank(d)' >= Rank(d) /\ Rank(d) \in Nat /\ Rank(d)' \in Nat
      <3> DEFINE S == {e \in Listed : docs[e].createdAt >= docs[d].createdAt}
                 T == {e \in Listed' : docs'[e].createdAt >= docs'[d].createdAt}
      <3>1. \A e \in Listed : docs'[e].createdAt = docs[e].createdAt
        BY <1>9 DEF Listed
      <3>2. S \subseteq T /\ T \subseteq Docs
        BY <1>9, <2>1, <2>3, <3>1
      <3>3. Rank(d) = Cardinality(S) /\ Rank(d)' = Cardinality(T)
        BY DEF Rank
      <3> HIDE DEF S, T
      <3> QED BY <3>2, <3>3, SetsOfDocs
    <2>4. atStart \subseteq Listed'
      BY <2>1, <2>2
    <2>5. walk.at \in {"count", "find", "page"} =>
             \A d \in atStart : d \in ToSet(walk.seen) \/ Rank(d)' > Passed
      <3> SUFFICES ASSUME walk.at \in {"count", "find", "page"}, NEW d \in atStart,
                          d \notin ToSet(walk.seen)
                   PROVE  Rank(d)' > Passed
        OBVIOUS
      <3>1. d \in Listed /\ Rank(d) > Passed
        BY <2>2
      <3>2. Rank(d)' >= Rank(d) /\ Rank(d) \in Nat /\ Rank(d)' \in Nat
        BY <2>3, <3>1
      <3> QED BY <1>8, <3>1, <3>2
    <2> QED BY <1>2, <2>2, <2>4, <2>5
  <1> QED BY <1>4, <1>5, <1>6, <1>7, <1>10, <1>11 DEF ListingIInv

LEMMA CreateKeeps == ASSUME ListingIInv, NEW d \in Docs, Create(d) PROVE ListingIInv'
  <1>1. PICK t \in Times :
          docs' = [docs EXCEPT ![d] = [createdAt |-> t, matches |-> TRUE, deleted |-> FALSE]]
    BY DEF Create
  <1> DEFINE new == [createdAt |-> t, matches |-> TRUE, deleted |-> FALSE]
  <1>2. new \in Document
    BY DEF Document
  <1>3. docs \in [Docs -> Document \union {None}] /\ docs[d] = None
        /\ docs' = [docs EXCEPT ![d] = new]
    BY <1>1 DEF ListingIInv, WalkTypeOK, Create
  <1> HIDE DEF new
  <1>4. docs' \in [Docs -> Document \union {None}] /\ \A e \in Docs \ {d} : docs'[e] = docs[e]
    BY <1>2, <1>3
  <1>5. /\ \A e \in Docs : docs[e] # None => docs'[e] # None /\ docs'[e].createdAt = docs[e].createdAt
        /\ Listed \subseteq Listed'
    BY <1>3, <1>4 DEF Listed
  <1>6. Note("arrival") /\ UNCHANGED <<walk, atStart>>
    BY DEF Create
  <1> QED BY <1>4, <1>5, <1>6, WriteKeeps

LEMMA SoftDeleteKeeps == ASSUME ListingIInv, NEW d \in Docs, SoftDelete(d) PROVE ListingIInv'
  <1>1. docs \in [Docs -> Document \union {None}] /\ docs[d] # None
    BY DEF ListingIInv, WalkTypeOK, SoftDelete, Listed
  <1> DEFINE new == [docs[d] EXCEPT !.deleted = TRUE]
  <1>2. docs[d] \in Document
    BY <1>1
  <1>3. new \in Document /\ new.createdAt = docs[d].createdAt
    BY <1>2 DEF Document
  <1>4. docs' = [docs EXCEPT ![d] = new]
    BY <1>1 DEF SoftDelete
  <1>5. d \in Listed
    BY DEF SoftDelete
  <1> HIDE DEF new
  <1>6. /\ docs' \in [Docs -> Document \union {None}] /\ docs'[d] = new
        /\ \A e \in Docs \ {d} : docs'[e] = docs[e]
    BY <1>1, <1>3, <1>4
  <1>7. new # None
    BY <1>3, ListingAssumption
  <1>8. /\ \A e \in Docs : docs[e] # None => docs'[e] # None /\ docs'[e].createdAt = docs[e].createdAt
        /\ Listed' \subseteq Listed
    BY <1>3, <1>5, <1>6, <1>7 DEF Listed
  <1>9. Note("departure") /\ UNCHANGED <<walk, atStart>>
    BY DEF SoftDelete
  <1> QED BY <1>6, <1>8, <1>9, WriteKeeps

LEMMA UpdateKeeps == ASSUME ListingIInv, NEW d \in Docs, Update(d) PROVE ListingIInv'
  <1>1. docs \in [Docs -> Document \union {None}] /\ docs[d] # None /\ ~docs[d].deleted
    BY DEF ListingIInv, WalkTypeOK, Update
  <1> DEFINE matches == ~docs[d].matches
             new == [docs[d] EXCEPT !.matches = matches]
             kind == IF docs[d].matches THEN "departure" ELSE "arrival"
  <1>2. docs[d] \in Document /\ matches \in BOOLEAN
    BY <1>1
  <1>3. docs' = [docs EXCEPT ![d] = new]
    BY <1>1 DEF Update
  <1>4. new \in Document /\ new.createdAt = docs[d].createdAt
    <2> HIDE DEF matches
    <2> QED BY <1>2 DEF Document
  <1>5. new # None
    BY <1>4, ListingAssumption
  <1>6. new.matches <=> ~docs[d].matches
    BY <1>2 DEF Document
  <1> HIDE DEF new
  <1>7. /\ docs' \in [Docs -> Document \union {None}] /\ docs'[d] = new
        /\ \A e \in Docs \ {d} : docs'[e] = docs[e]
    BY <1>1, <1>3, <1>4
  <1>8. \A e \in Docs : docs[e] # None => docs'[e] # None /\ docs'[e].createdAt = docs[e].createdAt
    BY <1>4, <1>5, <1>7
  <1>9. kind = "arrival" => Listed \subseteq Listed'
    <2>1. kind = "arrival" => d \notin Listed
      BY DEF Listed
    <2> QED BY <1>7, <2>1 DEF Listed
  <1>10. kind = "departure" => Listed' \subseteq Listed
    <2>1. kind = "departure" => d \in Listed
      BY <1>1 DEF Listed
    <2> QED BY <1>7, <2>1 DEF Listed
  <1>11. Note(kind) /\ UNCHANGED <<walk, atStart>> /\ kind \in {"arrival", "departure"}
    BY DEF Update
  <1> HIDE DEF kind
  <1> QED BY <1>7, <1>8, <1>9, <1>10, <1>11, WriteKeeps

----------------------------------------------------------------------------
(* The theorems.                                                           *)

LEMMA InitListing == Init => ListingIInv
  <1> SUFFICES ASSUME Init PROVE ListingIInv
    OBVIOUS
  <1>1. /\ docs \in [Docs -> {None} \union [createdAt: Times, matches: {TRUE}, deleted: {FALSE}]]
        /\ walk = [at |-> "over", first |-> 0, page |-> 0, size |-> MaxPageSize,
                   total |-> 0, got |-> 0, seen |-> <<>>]
        /\ atStart = Listed /\ changes = {"not begun"}
    BY DEF Init
  <1>2. [createdAt: Times, matches: {TRUE}, deleted: {FALSE}] \subseteq Document
    BY DEF Document
  <1>3. WalkTypeOK
    <2>1. docs \in [Docs -> Document \union {None}]
      BY <1>1, <1>2
    <2>2. MaxPageSize \in Int \ {0} /\ 0 \in Nat /\ <<>> \in Seq(Docs)
      BY ListingAssumption, EmptyWalk
    <2>3. [at |-> "over", first |-> 0, page |-> 0, size |-> MaxPageSize, total |-> 0, got |-> 0,
           seen |-> <<>>] \in [at: {"count", "find", "page", "over", "failed"}, first: Nat,
             page: Nat, size: Int \ {0}, total: Nat, got: Nat, seen: Seq(Docs)]
      BY <2>2
    <2>4. walk.first = 0 /\ walk.page = 0
      BY <1>1
    <2>5. walk.first <= walk.page
      BY <2>4
    <2>6. atStart \subseteq Docs
      BY <1>1 DEF Listed
    <2> QED BY <1>1, <2>1, <2>3, <2>5, <2>6 DEF WalkTypeOK
  <1>4. TotalIsFresh /\ TotalsMatchPage
    BY <1>1 DEF TotalIsFresh, TotalsMatchPage
  <1>5. SeenInOrder /\ SeenIsPassed /\ UnseenIsToCome
    BY <1>1 DEF SeenInOrder, SeenIsPassed, UnseenIsToCome
  <1> QED BY <1>3, <1>4, <1>5 DEF ListingIInv

LEMMA StutterKeeps == ASSUME ListingIInv, UNCHANGED vars PROVE ListingIInv'
  <1>1. UNCHANGED <<docs, walk, atStart, changes>>
    BY DEF vars
  <1>2. Listed' = Listed /\ Listings' = Listings /\ (NoTies' <=> NoTies) /\ \A d : Rank(d)' = Rank(d)
    BY <1>1, SameList
  <1>3. Passed' = Passed
    BY <1>1 DEF Passed
  <1>4. WalkTypeOK' /\ TotalIsFresh' /\ TotalsMatchPage'
    BY <1>1, <1>2 DEF ListingIInv, WalkTypeOK, TotalIsFresh, TotalsMatchPage
  <1>5. SeenInOrder'
    BY <1>1, <1>2, <1>3 DEF ListingIInv, SeenInOrder
  <1>6. SeenIsPassed' /\ UnseenIsToCome'
    BY <1>1, <1>2, <1>3 DEF ListingIInv, SeenIsPassed, UnseenIsToCome
  <1> QED BY <1>4, <1>5, <1>6 DEF ListingIInv

LEMMA NextListing == ListingIInv /\ [Next]_vars => ListingIInv'
  <1> SUFFICES ASSUME ListingIInv, [Next]_vars PROVE ListingIInv'
    OBVIOUS
  <1>1. CASE QueryFails
    BY <1>1, FailKeeps DEF QueryFails
  <1> QED BY <1>1, BeginKeeps, CountKeeps, FindKeeps, NextPageKeeps, CreateKeeps,
             SoftDeleteKeeps, UpdateKeeps, StutterKeeps DEF Next

(* Where a walk stands in the list, whoever writes beside it.              *)
THEOREM ListingInvariantHolds == Spec => []ListingIInv
  <1> QED BY InitListing, NextListing, PTL DEF Spec

(* The totals of a page announce the rows it has, for every page size.     *)
THEOREM TotalsAreRight == Spec => []TotalsMatchPage
  <1>1. ListingIInv => TotalsMatchPage
    BY DEF ListingIInv
  <1> QED BY <1>1, ListingInvariantHolds, PTL

(* While nothing changes, pages neither overlap nor leave a gap, and the   *)
(* walk stops with the last row.                                           *)
THEOREM QuietWalksAreExact == Spec => []QuietWalkIsExact
  <1>1. ListingIInv => QuietWalkIsExact
    <2> SUFFICES ASSUME ListingIInv, walk.at = "over", walk.size > 0, changes = {}, NoTies
                 PROVE  \E rows \in Listings :
                          walk.seen = SubSeq(rows, Skip(walk.first, walk.size) + 1, Len(rows))
      BY DEF QuietWalkIsExact, Whole
    <2> DEFINE n == Cardinality(Listed)
               skipped == walk.first * walk.size
               seen == walk.seen
    <2>1. WalkTypeOK /\ n \in Nat
      BY ListIsFinite DEF ListingIInv
    <2>2. skipped \in Nat /\ seen \in Seq(Docs) /\ Passed \in Int
      BY <2>1, WalkFields DEF Passed
    <2>3. /\ Len(seen) = Max({0, Min({n, Passed}) - skipped})
          /\ \A i \in DOMAIN seen : seen[i] \in Listed /\ Rank(seen[i]) = skipped + i
          /\ Passed >= n /\ Listings # {}
      BY DEF ListingIInv, SeenInOrder
    <2>4. PICK rows \in Listings : TRUE
      BY <2>3
    <2>5. /\ rows \in Seq(Listed) /\ Len(rows) = n
          /\ \A i \in 1 .. n : rows[i] \in Listed /\ Rank(rows[i]) = i
          /\ \A d \in Listed : \E i \in 1 .. n : rows[i] = d
      BY <2>1, RowsOfListing, RankIsPlace
    <2>6. DOMAIN seen = 1 .. Len(seen) /\ Len(seen) \in Nat
      BY <2>2
    <2> HIDE DEF n, skipped, seen
    <2>7. Min({n, Passed}) = n
      BY <2>1, <2>2, <2>3, MinOfTwo
    <2>8. Len(seen) = IF skipped <= n THEN n - skipped ELSE 0
      <3>1. n - skipped \in Int
        BY <2>1, <2>2
      <3> DEFINE rest == n - skipped
      <3> HIDE DEF rest
      <3>2. Max({0, rest}) = IF 0 <= rest THEN rest ELSE 0
        BY <3>1, MaxOfTwo DEF rest
      <3>3. Len(seen) = Max({0, rest})
        BY <2>3, <2>7 DEF rest
      <3>4. Len(seen) = IF 0 <= rest THEN rest ELSE 0
        BY <3>2, <3>3
      <3> QED BY <2>1, <2>2, <3>4 DEF rest
    <2>9. \A i \in 1 .. Len(seen) : seen[i] = rows[skipped + i]
      <3> SUFFICES ASSUME NEW i \in 1 .. Len(seen) PROVE seen[i] = rows[skipped + i]
        OBVIOUS
      <3>1. seen[i] \in Listed /\ Rank(seen[i]) = skipped + i
        BY <2>3, <2>6
      <3>2. PICK j \in 1 .. n : rows[j] = seen[i]
        BY <2>5, <3>1
      <3>3. j = skipped + i
        BY <2>5, <3>1, <3>2
      <3> QED BY <3>2, <3>3
    <2> DEFINE tail == SubSeq(rows, skipped + 1, n)
    <2>10. /\ tail \in Seq(Listed)
           /\ Len(tail) = IF skipped + 1 <= n THEN n - (skipped + 1) + 1 ELSE 0
           /\ \A i \in 1 .. n - (skipped + 1) + 1 : tail[i] = rows[skipped + 1 + i - 1]
      <3>1. \A i \in skipped + 1 .. n : rows[i] \in Listed
        BY <2>1, <2>2, <2>5
      <3> QED BY <2>1, <2>2, <3>1, SubSeqProperties
    <2> HIDE DEF tail
    <2>11. Len(tail) = Len(seen) /\ \A i \in 1 .. Len(seen) : seen[i] = tail[i]
      <3>1. Len(tail) = Len(seen)
        BY <2>1, <2>2, <2>8, <2>10
      <3>2. \A i \in 1 .. Len(seen) : tail[i] = rows[skipped + i]
        BY <2>1, <2>2, <2>8, <2>10
      <3> QED BY <2>9, <3>1, <3>2
    <2>12. tail \in Seq(Docs)
      BY <2>10, SeqMonotonic DEF Listed
    <2>13. seen = tail
      BY <2>2, <2>11, <2>12, SeqEqual DEF seen
    <2> QED BY <2>5, <2>13 DEF tail, seen, skipped, Skip
  <1> QED BY <1>1, ListingInvariantHolds, PTL

(* Arrivals hide nothing of what was listed when the walk began, but for   *)
(* one between the count and the find that end the walk (products query).  *)
THEOREM ArrivalsAreHarmless == Spec => []ArrivalsHideNothing
  <1>1. ListingIInv => ArrivalsHideNothing
    BY DEF ListingIInv, UnseenIsToCome, ArrivalsHideNothing, Whole
  <1> QED BY <1>1, ListingInvariantHolds, PTL

(* Departures show nothing twice.                                          *)
THEOREM DeparturesAreSeen == Spec => []DeparturesRepeatNothing
  <1>1. ListingIInv => DeparturesRepeatNothing
    BY DEF ListingIInv, SeenIsPassed, DeparturesRepeatNothing
  <1> QED BY <1>1, ListingInvariantHolds, PTL

==============================================================================
