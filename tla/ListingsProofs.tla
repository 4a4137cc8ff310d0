----------------------------- MODULE ListingsProofs -----------------------------
(* Proofs about Listings, for any records, queries, conditions and limits, and any
   width of int. *)
EXTENDS Listings, SetFolds

-------------------------------------------------------------------------------
(* Numbers. *)

LEMMA IntPositive == MaxInt \in Nat \ {0}
<1>1. MaxInt \in Int
  BY ListingsAssumption DEF MaxInt
<1>2. DefaultPageSize \in 1..MaxInt
  BY ListingsAssumption
<1> QED
  BY <1>1, <1>2

\* The sizes of pages that the program makes fit an int.
LEMMA SizesFit ==
  /\ \A x \in {DefaultPageSize, DefaultLimit, AnalysisSize, CustomSize, MaxRecords} :
       x \in Nat \ {0} /\ x <= MaxInt
  /\ \A l \in {"events", "sessions", "query"} :
       MaxPageSize[l] \in Nat \ {0} /\ MaxPageSize[l] <= MaxInt
<1>1. \A x \in 1..MaxInt : x \in Nat \ {0} /\ x <= MaxInt
  BY IntPositive
<1> QED
  BY <1>1, ListingsAssumption

\* A number that fits is itself.
LEMMA WrapFits ==
  ASSUME NEW n \in Nat, n <= MaxInt
  PROVE  Wrap(n) = n
<1> PICK h \in Nat \ {0} : h = MaxInt + 1
  BY IntPositive
<1>1. -h <= n /\ n < h
  BY IntPositive
<1>2. n + MaxInt + 1 = n + h /\ 2 * (MaxInt + 1) = 2 * h
  BY IntPositive
<1>3. ((n + h) % (2 * h)) - h = n
  BY <1>1
<1> QED
  BY <1>2, <1>3 DEF Wrap

\* Pages of z records, of which the p-th ends at p * z.
LEMMA PageSpan ==
  ASSUME NEW p \in Int, p >= 1, NEW z \in Nat
  PROVE  (p - 1) * z \in Nat /\ p * z \in Nat /\ (p - 1) * z + z = p * z
OBVIOUS

\* The page that an offset is in.
LEMMA PageOfOffset ==
  ASSUME NEW o \in Nat, NEW z \in Nat \ {0}
  PROVE  /\ o \div z \in Nat /\ (o \div z) * z \in Nat
         /\ (o \div z) * z <= o
         /\ (o \div z) * z = o => ((o + z) \div z) * z = o + z
<1>1. /\ o \div z \in Nat /\ (o \div z) * z \in Nat /\ (o \div z) * z <= o
  OBVIOUS
<1>2. ASSUME NEW k \in Nat, k * z = o
      PROVE  ((o + z) \div z) * z = o + z
  <2>1. (k + 1) * z = o + z
    BY <1>2
  <2>2. PICK m \in Nat : m = (o + z) \div z /\ m * z <= o + z /\ o + z < m * z + z
    OBVIOUS
  <2>3. m = k + 1
    <3>1. ~(m < k + 1)
      <4>1. ASSUME m + 1 <= k + 1
            PROVE  (m + 1) * z <= (k + 1) * z
        BY <4>1
      <4>2. (m + 1) * z = m * z + z
        OBVIOUS
      <4> QED
        BY <2>1, <2>2, <4>1, <4>2
    <3>2. ~(m > k + 1)
      <4>1. ASSUME k + 2 <= m
            PROVE  (k + 2) * z <= m * z
        BY <4>1
      <4>2. (k + 2) * z = (k + 1) * z + z
        OBVIOUS
      <4> QED
        BY <2>1, <2>2, <4>1, <4>2
    <3> QED
      BY <3>1, <3>2
  <2> QED
    BY <2>1, <2>2, <2>3
<1> QED
  BY <1>1, <1>2

AtMost(n, most) == IF n > most THEN most ELSE n

LEMMA MinOfTwo ==
  ASSUME NEW x \in Int, NEW y \in Int
  PROVE  Min({x, y}) = AtMost(x, y)
BY DEF Min, AtMost

LEMMA MaxOfPlaces ==
  ASSUME NEW n \in Nat, NEW C \in SUBSET (1..n), C # {}
  PROVE  Max(C) \in C
<1> DEFINE D == {n - i : i \in C}
<1>0. \A i \in C : i \in Int /\ n - i \in Nat
  OBVIOUS
<1>1. D \in SUBSET Nat /\ D # {}
  BY <1>0
<1>2. PICK d \in D : \A e \in D : d <= e
  <2> HIDE DEF D
  <2> QED
    BY <1>1, LeastNatural
<1>3. PICK x \in C : d = n - x
  OBVIOUS
<1>4. \A y \in C : n - x <= n - y
  BY <1>2, <1>3
<1>5. \E m \in C : \A y \in C : m >= y
  BY <1>0, <1>4
<1> QED
  BY <1>5 DEF Max

-------------------------------------------------------------------------------
(* Pages of a listing. *)

LEMMA MatchingSame ==
  ASSUME NEW q, NEW p, q.field = p.field, q.start = p.start, q.end = p.end
  PROVE  Matching(q) = Matching(p)
BY DEF Matching, Matches, InRange

LEMMA MatchingFinite ==
  ASSUME IsFiniteSet(stored), NEW q
  PROVE  /\ Matching(q) \subseteq stored /\ IsFiniteSet(Matching(q))
         /\ Cardinality(Matching(q)) \in Nat
         /\ Cardinality(Matching(q)) <= Cardinality(stored)
<1>1. Matching(q) \subseteq stored
  BY DEF Matching
<1> QED
  BY <1>1, FS_Subset, FS_CardinalityType

\* The result is the page of z matches of q that starts after the first ones.
IsCut(q, result, first, z) ==
  /\ result.status \in {"closed", "rows"}
  /\ result.status = "rows" =>
       /\ result.total = Cardinality(Matching(q))
       /\ result.rows \subseteq Matching(q)
       /\ Cardinality(result.rows) =
            AtMost(first + z, result.total) - AtMost(first, result.total)

\* A page of an int's width is cut out of the matches: it holds those from its start to
\* its end, or to the end of the matches.
LEMMA PageIsCut ==
  ASSUME IsFiniteSet(stored), NEW q, NEW first \in Nat, NEW z \in Nat,
         (q.page - 1) * q.size = first, q.size = z, first + z <= MaxInt,
         NEW result \in List(q)
  PROVE  IsCut(q, result, first, z)
<1> DEFINE total == Cardinality(Matching(q))
<1> SUFFICES /\ result.status \in {"closed", "rows"}
             /\ result.status = "rows" =>
                  /\ result.total = total
                  /\ result.rows \subseteq Matching(q)
                  /\ Cardinality(result.rows) =
                       AtMost(first + z, result.total) - AtMost(first, result.total)
  BY DEF IsCut
<1>1. total \in Nat /\ IsFiniteSet(Matching(q))
  BY MatchingFinite
<1>2. Start(q) = first
  BY WrapFits, IntPositive DEF Start
<1>3. End(q, total) = AtMost(first + z, total)
  BY <1>2, WrapFits DEF End, AtMost
<1>4. CASE ~isOpen
  BY <1>4 DEF List
<1>5. CASE isOpen /\ first >= total
  <2>1. result = [status |-> "rows", rows |-> {}, total |-> total]
    BY <1>2, <1>5 DEF List
  <2>2. Cardinality({}) = 0
    BY FS_EmptySet
  <2>3. AtMost(first + z, total) = total /\ AtMost(first, total) = total
    BY <1>1, <1>5 DEF AtMost
  <2> QED
    BY <1>1, <2>1, <2>2, <2>3
<1>6. CASE isOpen /\ ~(first >= total)
  <2>1. ~(first < 0 \/ End(q, total) < first)
    BY <1>1, <1>3, <1>6 DEF AtMost
  <2>2. PICK page \in kSubset(End(q, total) - first, Matching(q)) :
          result = [status |-> "rows", rows |-> page, total |-> total]
    BY <1>2, <1>6, <2>1 DEF List
  <2>3. page \subseteq Matching(q) /\ Cardinality(page) = End(q, total) - first
    BY DEF kSubset
  <2>4. AtMost(first, total) = first
    BY <1>1, <1>6 DEF AtMost
  <2> QED
    BY <1>3, <2>2, <2>3, <2>4
<1> QED
  BY <1>4, <1>5, <1>6

\* A first page that has room for all the matches holds all.
LEMMA FirstPageHoldsAll ==
  ASSUME IsFiniteSet(stored), NEW q, NEW z \in Nat, q.page = 1, q.size = z, z <= MaxInt,
         NEW result \in List(q), result.status = "rows", z >= result.total
  PROVE  result.rows = Matching(q)
<1> PICK first \in Nat : first = 0
  OBVIOUS
<1>1. (q.page - 1) * q.size = first /\ first + z <= MaxInt
  OBVIOUS
<1>2. /\ result.total = Cardinality(Matching(q)) /\ result.rows \subseteq Matching(q)
      /\ Cardinality(result.rows) = AtMost(0 + z, result.total) - AtMost(0, result.total)
  <2>1. IsCut(q, result, first, z)
    BY <1>1, PageIsCut
  <2> QED
    BY <2>1 DEF IsCut
<1>3. Cardinality(Matching(q)) \in Nat /\ IsFiniteSet(Matching(q))
  BY MatchingFinite
<1>4. Cardinality(result.rows) = Cardinality(Matching(q))
  BY <1>2, <1>3 DEF AtMost
<1> QED
  BY <1>2, <1>3, <1>4, FS_Subset

-------------------------------------------------------------------------------
(* Answers. *)

Fields == [Field -> Value \cup {Unset}]
PageQuery == [field : Fields, start : Nat, end : Nat, page : Int, size : Int,
              asked : Ask \cup {Missing}]
FilterQuery == [field : Fields, start : Nat, end : Nat, page : Int, size : Int]
OffsetQuery == [field : Fields, start : Nat, end : Nat, range : TimeRange,
                offset : Int, limit : Int]

\* How an answer is made, of the store as it is.
FromListing(a) ==
  /\ a.caller \in Caller /\ a.query \in PageQuery
  /\ a \in Answers(a.caller, a.query)

FromFilters(a) ==
  /\ a.caller = "filter" /\ a.query \in FilterQuery /\ a.conds \in Conditions
  /\ a \in Filtered(a.query, a.conds, a.logic)

FromQuery(a) ==
  /\ a.caller = "query" /\ a.query \in OffsetQuery /\ a.conds \in Conditions
  /\ a.query.field = [f \in Field |-> Unset]
  /\ a \in Queried(a.query, a.conds)

\* An answer names its request.
LEMMA AnswersOf ==
  ASSUME NEW caller, NEW q, NEW a \in Answers(caller, q)
  PROVE  a.caller = caller /\ a.query = q
BY DEF Answers, Refused, Response

LEMMA FilteredOf ==
  ASSUME NEW q, NEW conds, NEW logic, NEW a \in Filtered(q, conds, logic)
  PROVE  a.caller = "filter" /\ a.query = q /\ a.conds = conds /\ a.logic = logic
<1>1. \E status, rows, n :
        a = [caller |-> "filter", query |-> q, conds |-> conds, logic |-> logic,
             status |-> status, rows |-> rows, total |-> n, more |-> FALSE]
  BY Zenon DEF Filtered
<1> QED
  BY <1>1

LEMMA QueriedOf ==
  ASSUME NEW q, NEW conds, NEW a \in Queried(q, conds)
  PROVE  a.caller = "query" /\ a.query = q /\ a.conds = conds
BY DEF Queried

LEMMA Listed ==
  ASSUME NEW a, FromListing(a), a.status # "badRange"
  PROVE  \E result \in List(QueryOf(a.caller, a.query)) :
           a = Response(a.caller, a.query, result)
BY DEF FromListing, Answers, Refused

LEMMA ValidatedQuery ==
  ASSUME NEW listing \in {"events", "sessions"}, NEW q \in PageQuery,
         NEW v, v = Validated(listing, q)
  PROVE  /\ v.field = q.field /\ v.start = q.start /\ v.end = q.end
         /\ v.page \in Int /\ v.page >= 1 /\ v.size \in Nat \ {0} /\ v.size <= MaxInt
         /\ q.page >= 1 => v.page = q.page
         /\ q.size \in 1..MaxPageSize[listing] => v.size = q.size
<1>1. /\ v.field = q.field /\ v.start = q.start /\ v.end = q.end
      /\ v.page = IF q.page < 1 THEN 1 ELSE q.page
      /\ v.size = IF q.size \in 1..MaxPageSize[listing] THEN q.size ELSE DefaultPageSize
  BY DEF Validated, PageQuery
<1>2. q.page \in Int /\ q.size \in Int
  BY DEF PageQuery
<1>3. MaxPageSize[listing] \in Nat /\ MaxPageSize[listing] <= MaxInt
  BY SizesFit
<1>4. DefaultPageSize \in Nat \ {0} /\ DefaultPageSize <= MaxInt
  BY SizesFit
<1>5. v.page \in Int /\ v.page >= 1 /\ (q.page >= 1 => v.page = q.page)
  BY <1>1, <1>2
<1>6. v.size \in Nat \ {0} /\ v.size <= MaxInt
  BY <1>1, <1>2, <1>3, <1>4, IntPositive
<1> QED
  BY <1>1, <1>5, <1>6

\* The page that a listing endpoint gives of a query that it means, or of any other that
\* it makes one it means.
LEMMA ListedPage ==
  ASSUME IsFiniteSet(stored), NEW a, FromListing(a), a.caller \in {"events", "sessions"},
         a.status # "badRange",
         NEW v, v = Validated(a.caller, a.query), v.page * v.size <= MaxInt
  PROVE  /\ a.status # "panic"
         /\ a.status = "rows" =>
              /\ a.total = Cardinality(Matching(a.query)) /\ a.rows \subseteq stored
              /\ Cardinality(a.rows) =
                   AtMost(v.page * v.size, a.total) - AtMost((v.page - 1) * v.size, a.total)
<1>1. PICK result \in List(v) : a = Response(a.caller, a.query, result)
  BY Listed DEF QueryOf
<1>2. a.status = result.status /\ a.rows = result.rows /\ a.total = result.total
  BY <1>1 DEF Response
<1>3. /\ v.field = a.query.field /\ v.start = a.query.start /\ v.end = a.query.end
      /\ v.page \in Int /\ v.page >= 1 /\ v.size \in Nat
  BY ValidatedQuery DEF FromListing
<1> PICK first : first = (v.page - 1) * v.size
  OBVIOUS
<1>4. first \in Nat /\ first + v.size = v.page * v.size
  BY <1>3, PageSpan
<1>5. /\ result.status \in {"closed", "rows"}
      /\ result.status = "rows" =>
           /\ result.total = Cardinality(Matching(v)) /\ result.rows \subseteq Matching(v)
           /\ Cardinality(result.rows) =
                AtMost(first + v.size, result.total) - AtMost(first, result.total)
  <2> first + v.size <= MaxInt
    BY <1>4
  <2> QED
    BY <1>1, <1>3, <1>4, PageIsCut DEF IsCut
<1>6. Matching(v) = Matching(a.query) /\ Matching(v) \subseteq stored
  BY <1>3, MatchingSame, MatchingFinite
<1> QED
  BY <1>2, <1>4, <1>5, <1>6

\* The limit of a query, and the page that its offset is in.
LEMMA LimitFits ==
  ASSUME NEW q \in OffsetQuery
  PROVE  /\ LimitOf(q) \in Nat \ {0} /\ LimitOf(q) <= MaxInt
         /\ \A o : LimitOf([q EXCEPT !.offset = o]) = LimitOf(q)
<1>1. q.limit \in Int /\ \A o : [q EXCEPT !.offset = o].limit = q.limit
  BY DEF OffsetQuery
<1>2. MaxPageSize["query"] \in Nat \ {0} /\ MaxPageSize["query"] <= MaxInt
  BY SizesFit
<1>3. DefaultLimit \in Nat \ {0} /\ DefaultLimit <= MaxInt
  BY SizesFit
<1>4. Min({q.limit, MaxPageSize["query"]}) = AtMost(q.limit, MaxPageSize["query"])
  BY <1>1, <1>2, MinOfTwo
<1>5. LimitOf(q) \in Nat \ {0} /\ LimitOf(q) <= MaxInt
  BY <1>1, <1>2, <1>3, <1>4, IntPositive DEF LimitOf, AtMost
<1> QED
  BY <1>1, <1>5 DEF LimitOf

\* The times of a query are those of its range, whatever it had before; the rest stays.
LEMMA TimesFit ==
  ASSUME NEW t \in Nat, t >= Launch, NEW q \in OffsetQuery, NEW p, p = Timed(q, t)
  PROVE  /\ p \in OffsetQuery
         /\ p.field = q.field /\ p.range = q.range /\ p.offset = q.offset /\ p.limit = q.limit
         /\ p.start = Resolve(q.range, t).start /\ p.end = Resolve(q.range, t).end
<1>1. PICK start, end : start = Resolve(q.range, t).start /\ end = Resolve(q.range, t).end
  OBVIOUS
<1>2. Launch \in Nat /\ Day \in Nat \ {0} /\ 2 * Day <= Launch
  BY ListingsAssumption
<1>3. \A u \in Nat : (u \div Day) * Day \in Nat
  BY <1>2, PageOfOffset
<1>4. start \in Nat /\ end \in Nat
  <2>1. CASE q.range = "today"
    <3>1. start = (t \div Day) * Day /\ end = (t \div Day) * Day + Day
      BY <1>1, <2>1 DEF Resolve
    <3> QED
      BY <1>2, <1>3, <3>1
  <2>2. CASE q.range = "yesterday"
    <3>1. start = ((t - Day) \div Day) * Day /\ end = ((t - Day) \div Day) * Day + Day
      BY <1>1, <2>2 DEF Resolve
    <3>2. t - Day \in Nat
      BY <1>2
    <3> QED
      BY <1>2, <1>3, <3>1, <3>2
  <2>3. CASE q.range \notin {"today", "yesterday"}
    <3>1. start = t - Span[q.range] /\ end = t
      BY <1>1, <2>3 DEF Resolve
    <3>2. q.range \in DOMAIN Span
      BY <2>3 DEF OffsetQuery, TimeRange
    <3>3. Span[q.range] \in 0..(Launch - 1)
      BY <3>2, ListingsAssumption
    <3> QED
      BY <1>2, <3>1, <3>3
  <2> QED
    BY <2>1, <2>2, <2>3
<1>5. p = [q EXCEPT !.start = start, !.end = end]
  BY <1>1 DEF Timed
<1> QED
  BY <1>1, <1>4, <1>5 DEF OffsetQuery

\* A query that was just timed keeps its times when it is timed again.
LEMMA TimedTwice ==
  ASSUME NEW t \in Nat, t >= Launch, NEW q \in OffsetQuery, NEW p, p = Timed(q, t)
  PROVE  Matching(Timed(p, t)) = Matching(p)
<1> PICK r : r = Timed(p, t)
  OBVIOUS
<1>1. /\ p \in OffsetQuery /\ p.range = q.range
      /\ p.start = Resolve(q.range, t).start /\ p.end = Resolve(q.range, t).end
  BY TimesFit
<1>2. /\ r.field = p.field
      /\ r.start = Resolve(p.range, t).start /\ r.end = Resolve(p.range, t).end
  BY <1>1, TimesFit
<1> QED
  BY <1>1, <1>2, MatchingSame

\* The query of the next page.
LEMMA NextTimes ==
  ASSUME NEW t \in Nat, t >= Launch, NEW q \in OffsetQuery,
         NEW next, next = [q EXCEPT !.offset = @ + LimitOf(q)], NEW p, p = Timed(next, t)
  PROVE  /\ next \in OffsetQuery /\ p \in OffsetQuery
         /\ p.offset = q.offset + LimitOf(q) /\ p.field = q.field /\ LimitOf(p) = LimitOf(q)
         /\ p.start = Resolve(q.range, t).start /\ p.end = Resolve(q.range, t).end
<1>1. q.offset + LimitOf(q) \in Int
  BY LimitFits DEF OffsetQuery
<1>2. /\ next \in OffsetQuery /\ next.offset = q.offset + LimitOf(q) /\ next.field = q.field
      /\ next.range = q.range /\ next.limit = q.limit
  BY <1>1 DEF OffsetQuery
<1>3. /\ p \in OffsetQuery /\ p.field = next.field /\ p.range = next.range
      /\ p.offset = next.offset /\ p.limit = next.limit
      /\ p.start = Resolve(next.range, t).start /\ p.end = Resolve(next.range, t).end
  <2>a. PICK n : n = next
    OBVIOUS
  <2>1. n \in OffsetQuery
    BY <1>2, <2>a
  <2>2. p = Timed(n, t)
    BY <2>a
  <2>3. /\ p \in OffsetQuery /\ p.field = n.field /\ p.range = n.range
        /\ p.offset = n.offset /\ p.limit = n.limit
        /\ p.start = Resolve(n.range, t).start /\ p.end = Resolve(n.range, t).end
    BY <2>1, <2>2, TimesFit
  <2> QED
    BY <2>3, <2>a
<1> QED
  BY <1>2, <1>3 DEF LimitOf

PageFor(q) ==
  [field |-> q.field, start |-> q.start, end |-> q.end, page |-> PageAt(q), size |-> LimitOf(q)]

LEMMA QueriedRows ==
  ASSUME NEW a, FromQuery(a)
  PROVE  \E result \in List(PageFor(a.query)) :
           /\ a.status = result.status /\ a.total = result.total
           /\ a.rows = {r \in result.rows : queryMatchesFilters(r, a.conds)}
           /\ a.more = (Wrap(a.query.offset + LimitOf(a.query)) < result.total)
BY DEF FromQuery, Queried, PageFor

LEMMA QueriedPage ==
  ASSUME IsFiniteSet(stored), NEW a, FromQuery(a),
         a.query.offset >= 0 => a.query.offset + LimitOf(a.query) <= MaxInt,
         NEW z, z = LimitOf(a.query), NEW result \in List(PageFor(a.query))
  PROVE  /\ result.status # "panic"
         /\ result.status = "rows" =>
              /\ result.total = Cardinality(Matching(a.query))
              /\ result.rows \subseteq Matching(a.query)
              /\ a.query.offset >= 0 /\ (a.query.offset \div z) * z = a.query.offset =>
                   Cardinality(result.rows) =
                     AtMost(a.query.offset + z, result.total) - AtMost(a.query.offset, result.total)
<1> DEFINE q == PageFor(a.query)
<1> PICK o \in Int : o = a.query.offset
  BY DEF FromQuery, OffsetQuery
<1>1. z \in Nat \ {0} /\ z <= MaxInt
  BY LimitFits DEF FromQuery
<1>2. /\ q.field = a.query.field /\ q.start = a.query.start /\ q.end = a.query.end
      /\ q.page = (IF o > 0 THEN (o \div z) + 1 ELSE 1) /\ q.size = z
  BY DEF PageFor, PageAt
<1> HIDE DEF q
<1>3. PICK first \in Nat : /\ (q.page - 1) * q.size = first /\ first + z <= MaxInt
                           /\ o >= 0 /\ (o \div z) * z = o => first = o
  <2>1. CASE o > 0
    <3> o \in Nat
      BY <2>1
    <3>1. /\ o \div z \in Nat /\ (o \div z) * z \in Nat /\ (o \div z) * z <= o
      BY <1>1, PageOfOffset
    <3>2. q.page - 1 = o \div z
      BY <1>2, <2>1, <3>1
    <3>3. (q.page - 1) * q.size = (o \div z) * z
      BY <1>2, <3>2
    <3>4. (o \div z) * z + z <= MaxInt
      BY <1>1, <2>1, <3>1, IntPositive
    <3> QED
      BY <3>1, <3>3, <3>4
  <2>2. CASE ~(o > 0)
    <3>1. q.page = 1 /\ (q.page - 1) * q.size = 0 /\ 0 + z <= MaxInt
      BY <1>1, <1>2, <2>2
    <3> QED
      BY <2>2, <3>1
  <2> QED
    BY <2>1, <2>2
<1>4. /\ result.status \in {"closed", "rows"}
      /\ result.status = "rows" =>
           /\ result.total = Cardinality(Matching(q)) /\ result.rows \subseteq Matching(q)
           /\ Cardinality(result.rows) =
                AtMost(first + z, result.total) - AtMost(first, result.total)
  <2>1. result \in List(q)
    BY DEF q
  <2> QED
    BY <1>1, <1>2, <1>3, <2>1, PageIsCut DEF IsCut
<1>5. Matching(q) = Matching(a.query)
  BY <1>2, MatchingSame
<1> QED
  BY <1>3, <1>4, <1>5

-------------------------------------------------------------------------------
(* What holds of an answer by the way it is made. *)

\* The bodies of the invariants, for an answer that need not be the last.
NeverPanics(a) ==
  a.status = "panic" =>
    /\ a.caller \in {"events", "sessions"} =>
         LET q == Validated(a.caller, a.query) IN q.page * q.size > MaxInt
    /\ a.caller = "query" => a.query.offset + LimitOf(a.query) > MaxInt

Whole(a) ==
  a.caller = "export" /\ a.status = "rows" /\ a.query.page = 1 =>
    LET asked == a.query.asked
    IN /\ asked = Missing => Cardinality(a.rows) = Min({DefaultPageSize, a.total})
       /\ asked # Missing /\ asked \notin 1..(a.total - 1) => Cardinality(a.rows) = a.total

\* The size is the one that was asked for, or the default.
SizeAsked(a) ==
  a.caller = "export" =>
    /\ a.query.asked = Missing => a.query.size = DefaultPageSize
    /\ a.query.asked # Missing => a.query.size = a.query.asked

LosesNothing(a) ==
  a.caller \in {"filter", "query"} /\ a.status = "rows" =>
    IF a.caller = "filter"
    THEN /\ CoversAll(a.query) /\ a.logic = "and"
         /\ \A i \in DOMAIN a.conds :
              a.conds[i].dim \in Pushed => a.conds[i].op \in {"eq", "in"}
         => a.rows = Wanted(a.query, a.conds, a.logic)
    ELSE /\ a.query.offset = 0 /\ LimitOf(a.query) >= Cardinality(stored)
         /\ \A i \in DOMAIN a.conds :
              /\ a.conds[i].dim \in Compared /\ a.conds[i].value # NotString
              /\ a.conds[i].op \in {"eq", "neq", "contains"}
         => a.rows = Wanted(a.query, a.conds, "and")

LEMMA ListingNeverPanics ==
  ASSUME IsFiniteSet(stored), NEW a, FromListing(a)
  PROVE  NeverPanics(a)
<1> SUFFICES ASSUME a.status = "panic", a.caller \in {"events", "sessions"},
                    NEW v, v = Validated(a.caller, a.query)
             PROVE  v.page * v.size > MaxInt
  BY DEF NeverPanics, FromListing, Caller
<1>1. v.page * v.size \in Int /\ MaxInt \in Int
  BY ValidatedQuery, IntPositive DEF FromListing
<1>2. ~(v.page * v.size <= MaxInt)
  BY ListedPage
<1> QED
  BY <1>1, <1>2

LEMMA QueryNeverPanics ==
  ASSUME IsFiniteSet(stored), NEW a, FromQuery(a)
  PROVE  NeverPanics(a)
<1> SUFFICES ASSUME a.status = "panic", ~(a.query.offset + LimitOf(a.query) > MaxInt)
             PROVE  FALSE
  BY DEF NeverPanics, FromQuery
<1>1. a.query.offset + LimitOf(a.query) <= MaxInt
  BY LimitFits, IntPositive DEF FromQuery, OffsetQuery
<1>2. PICK result \in List(PageFor(a.query)) : a.status = result.status
  BY QueriedRows
<1> QED
  BY <1>1, <1>2, QueriedPage

LEMMA ExportWhole ==
  ASSUME IsFiniteSet(stored), NEW a, FromListing(a), SizeAsked(a)
  PROVE  Whole(a)
<1> SUFFICES ASSUME a.caller = "export", a.status = "rows", a.query.page = 1
             PROVE  /\ a.query.asked = Missing =>
                         Cardinality(a.rows) = Min({DefaultPageSize, a.total})
                    /\ a.query.asked # Missing /\ a.query.asked \notin 1..(a.total - 1) =>
                         Cardinality(a.rows) = a.total
  BY DEF Whole
<1>1. PICK result \in List(Limited(a.query)) : a = Response(a.caller, a.query, result)
  BY Listed DEF QueryOf
<1>2. /\ result.status = "rows" /\ a.rows = result.rows /\ a.total = result.total
      /\ ~(result.total > MaxRecords)
  BY <1>1 DEF Response
<1> PICK q : q = Limited(a.query)
  OBVIOUS
<1>3. /\ q.page = 1
      /\ q.size = IF a.query.size \in 1..MaxRecords THEN a.query.size ELSE MaxRecords
      /\ a.query.size \in Int
  BY DEF Limited, FromListing, PageQuery
<1>4. MaxRecords \in Nat \ {0} /\ MaxRecords <= MaxInt /\ DefaultPageSize \in Nat \ {0}
  BY SizesFit
<1>5. q.size \in Nat /\ q.size <= MaxInt
  BY <1>3, <1>4, IntPositive
<1>6. (q.page - 1) * q.size = 0 /\ 0 + q.size <= MaxInt
  BY <1>3, <1>5
<1>7. /\ result.total = Cardinality(Matching(q))
      /\ Cardinality(result.rows) = AtMost(0 + q.size, result.total) - AtMost(0, result.total)
  BY <1>2, <1>5, <1>6, PageIsCut DEF IsCut
<1>8. a.total \in Nat /\ a.total <= MaxRecords
  BY <1>2, <1>4, <1>7, MatchingFinite
<1>9. Cardinality(a.rows) = AtMost(q.size, a.total)
  BY <1>2, <1>5, <1>7, <1>8 DEF AtMost
<1>10. ASSUME a.query.asked = Missing
       PROVE  Cardinality(a.rows) = Min({DefaultPageSize, a.total})
  <2>1. a.query.size = DefaultPageSize
    BY <1>10 DEF SizeAsked
  <2>2. AtMost(q.size, a.total) = AtMost(DefaultPageSize, a.total)
    BY <1>3, <1>4, <1>8, <2>1 DEF AtMost
  <2> QED
    BY <1>4, <1>8, <1>9, <2>2, MinOfTwo
<1>11. ASSUME a.query.asked # Missing, a.query.asked \notin 1..(a.total - 1)
       PROVE  Cardinality(a.rows) = a.total
  <2>1. a.query.size \notin 1..(a.total - 1)
    BY <1>11 DEF SizeAsked
  <2> QED
    BY <1>3, <1>4, <1>8, <1>9, <2>1 DEF AtMost
<1> QED
  BY <1>10, <1>11

\* What must hold of all conditions and is copied into the query is asked of the store
\* no more strictly than it is compared.
LEMMA PushdownKeeps ==
  ASSUME NEW q, NEW conds \in Conditions, NEW r \in stored, InRange(r, q),
         matchesAllConditions(r, conds, "and"),
         \A i \in DOMAIN conds : conds[i].dim \in Pushed => conds[i].op \in {"eq", "in"},
         NEW p, p.field = PushedDown(conds), p.start = q.start, p.end = q.end
  PROVE  Matches(r, p)
<1>1. PICK n \in Nat : DOMAIN conds = 1..n
  <2>1. conds \in Seq([dim : STRING, op : STRING, value : Value \cup {NotString}])
    BY ListingsAssumption
  <2> QED
    BY <2>1
<1>2. \A i \in DOMAIN conds : matchesCondition(r, conds[i])
  BY <1>1 DEF matchesAllConditions
<1>3. ASSUME NEW f \in Field
      PROVE  p.field[f] = Unset \/ attr[r][f] = p.field[f]
  <2> DEFINE C == {i \in DOMAIN conds : conds[i].dim = f /\ conds[i].value # NotString}
  <2>1. p.field[f] = IF f \in Pushed /\ C # {} THEN conds[Max(C)].value ELSE Unset
    BY DEF PushedDown
  <2>2. CASE f \in Pushed /\ C # {}
    <3> PICK i : i = Max(C)
      OBVIOUS
    <3>1. i \in C
      <4>1. C \in SUBSET (1..n)
        BY <1>1
      <4> HIDE DEF C
      <4> QED
        BY <2>2, <4>1, MaxOfPlaces
    <3>2. matchesCondition(r, conds[i]) /\ conds[i].op \in {"eq", "in"}
      BY <1>2, <2>2, <3>1
    <3>3. attr[r][f] = conds[i].value
      BY <2>2, <3>1, <3>2 DEF matchesCondition, Pushed, Compared
    <3> QED
      BY <2>1, <2>2, <3>3
  <2>3. CASE ~(f \in Pushed /\ C # {})
    BY <2>1, <2>3
  <2> QED
    BY <2>2, <2>3
<1> QED
  BY <1>3 DEF Matches, InRange

LEMMA FilteredRows ==
  ASSUME NEW a, FromFilters(a)
  PROVE  \E result \in List([a.query EXCEPT !.field = PushedDown(a.conds)]) :
           /\ a.status = result.status
           /\ a.rows = {r \in result.rows : matchesAllConditions(r, a.conds, a.logic)}
<1> DEFINE Kept(result) == {r \in result.rows : matchesAllConditions(r, a.conds, a.logic)}
<1>1. PICK result \in List([a.query EXCEPT !.field = PushedDown(a.conds)]) :
        a = [caller |-> "filter", query |-> a.query, conds |-> a.conds, logic |-> a.logic,
             status |-> result.status, rows |-> Kept(result),
             total |-> Cardinality(Kept(result)), more |-> FALSE]
  BY Zenon DEF FromFilters, Filtered
<1> HIDE DEF Kept
<1>2. a.status = result.status /\ a.rows = Kept(result)
  BY <1>1
<1> QED
  BY <1>2 DEF Kept

LEMMA FiltersLose ==
  ASSUME IsFiniteSet(stored), NEW a, FromFilters(a)
  PROVE  LosesNothing(a)
<1> SUFFICES ASSUME a.status = "rows", CoversAll(a.query), a.logic = "and",
                    \A i \in DOMAIN a.conds :
                      a.conds[i].dim \in Pushed => a.conds[i].op \in {"eq", "in"}
             PROVE  a.rows = Wanted(a.query, a.conds, a.logic)
  BY DEF LosesNothing, FromFilters
<1> PICK p : p = [a.query EXCEPT !.field = PushedDown(a.conds)]
  OBVIOUS
<1>1. PICK result \in List(p) :
        /\ a.status = result.status
        /\ a.rows = {r \in result.rows : matchesAllConditions(r, a.conds, a.logic)}
  BY FilteredRows
<1>2. /\ p.field = PushedDown(a.conds) /\ p.start = a.query.start /\ p.end = a.query.end
      /\ p.page = 1 /\ p.size = a.query.size
  BY DEF FromFilters, FilterQuery, CoversAll
<1>3. p.size \in Nat /\ p.size <= MaxInt /\ p.size >= Cardinality(stored)
  BY <1>2, FS_CardinalityType, IntPositive DEF CoversAll
<1>4. result.rows = Matching(p)
  <2>1. (p.page - 1) * p.size = 0 /\ 0 + p.size <= MaxInt
    BY <1>2, <1>3
  <2>2. result.total = Cardinality(Matching(p))
    BY <1>1, <1>3, <2>1, PageIsCut DEF IsCut
  <2>3. p.size >= result.total
    BY <1>3, <2>2, MatchingFinite, FS_CardinalityType
  <2> QED
    BY <1>1, <1>2, <1>3, <2>3, FirstPageHoldsAll
<1>5. ASSUME NEW r \in Wanted(a.query, a.conds, "and")
      PROVE  r \in Matching(p)
  <2>1. r \in stored /\ InRange(r, a.query) /\ matchesAllConditions(r, a.conds, "and")
    BY DEF Wanted
  <2>2. Matches(r, p)
    BY <1>2, <2>1, PushdownKeeps DEF FromFilters
  <2> QED
    BY <2>1, <2>2 DEF Matching
<1>6. ASSUME NEW r \in Matching(p)
      PROVE  r \in stored /\ InRange(r, a.query)
  BY <1>2 DEF Matching, Matches, InRange
<1> QED
  BY <1>1, <1>4, <1>5, <1>6 DEF Wanted

LEMMA QueryLoses ==
  ASSUME IsFiniteSet(stored), NEW a, FromQuery(a)
  PROVE  LosesNothing(a)
<1> SUFFICES ASSUME a.status = "rows", a.query.offset = 0,
                    LimitOf(a.query) >= Cardinality(stored),
                    \A i \in DOMAIN a.conds :
                      /\ a.conds[i].dim \in Compared /\ a.conds[i].value # NotString
                      /\ a.conds[i].op \in {"eq", "neq", "contains"}
             PROVE  a.rows = Wanted(a.query, a.conds, "and")
  BY DEF LosesNothing, FromQuery
<1> PICK p : p = PageFor(a.query)
  OBVIOUS
<1>1. PICK result \in List(p) :
        /\ a.status = result.status
        /\ a.rows = {r \in result.rows : queryMatchesFilters(r, a.conds)}
  BY QueriedRows
<1>2. /\ p.field = [f \in Field |-> Unset] /\ p.start = a.query.start /\ p.end = a.query.end
      /\ p.page = 1 /\ p.size = LimitOf(a.query)
  BY DEF FromQuery, PageFor, PageAt
<1>3. p.size \in Nat /\ p.size <= MaxInt /\ p.size >= Cardinality(stored)
  BY <1>2, LimitFits DEF FromQuery
<1>4. result.rows = Matching(p)
  <2>1. (p.page - 1) * p.size = 0 /\ 0 + p.size <= MaxInt
    BY <1>2, <1>3
  <2>2. result.total = Cardinality(Matching(p))
    BY <1>1, <1>3, <2>1, PageIsCut DEF IsCut
  <2>3. p.size >= result.total
    BY <1>3, <2>2, MatchingFinite, FS_CardinalityType
  <2> QED
    BY <1>1, <1>2, <1>3, <2>3, FirstPageHoldsAll
<1>5. Matching(p) = {r \in stored : InRange(r, a.query)}
  BY <1>2 DEF Matching, Matches, InRange
<1>6. ASSUME NEW r \in stored
      PROVE  queryMatchesFilters(r, a.conds) <=> matchesAllConditions(r, a.conds, "and")
  <2>1. ASSUME NEW i \in DOMAIN a.conds
        PROVE  queryMatchCondition(r, a.conds[i]) <=> matchesCondition(r, a.conds[i])
    BY <2>1 DEF queryMatchCondition, matchesCondition, Compared
  <2>2. a.conds = <<>> => DOMAIN a.conds = {}
    OBVIOUS
  <2> QED
    BY <2>1, <2>2 DEF queryMatchesFilters, matchesAllConditions
<1> QED
  BY <1>1, <1>4, <1>5, <1>6 DEF Wanted

LEMMA ListRows ==
  ASSUME NEW q, NEW result \in List(q)
  PROVE  result.rows \subseteq stored
<1>1. \/ result.rows = {}
      \/ \E k : result.rows \in kSubset(k, Matching(q))
  BY DEF List
<1> QED
  BY <1>1 DEF kSubset, Matching

Made(a) == FromListing(a) \/ FromFilters(a) \/ FromQuery(a)

LEMMA MadeRows ==
  ASSUME IsFiniteSet(stored), NEW a, Made(a)
  PROVE  IsFiniteSet(a.rows) /\ Cardinality(a.rows) \in Nat
<1>1. ASSUME FromListing(a) PROVE a.rows \subseteq stored
  <2>1. CASE a.status = "badRange"
    <3>1. a \in Answers(a.caller, a.query)
      BY <1>1 DEF FromListing
    <3>2. \/ a = Refused(a.caller, a.query)
          \/ \E result \in List(QueryOf(a.caller, a.query)) : a = Response(a.caller, a.query, result)
      BY <3>1 DEF Answers
    <3>3. \A result \in List(QueryOf(a.caller, a.query)) :
            Response(a.caller, a.query, result).rows \subseteq result.rows
      BY DEF Response
    <3> QED
      BY <3>2, <3>3, ListRows DEF Refused
  <2>2. CASE a.status # "badRange"
    <3>1. PICK result \in List(QueryOf(a.caller, a.query)) : a = Response(a.caller, a.query, result)
      BY <1>1, <2>2, Listed
    <3>2. a.rows \subseteq result.rows
      BY <3>1 DEF Response
    <3> QED
      BY <3>2, ListRows
  <2> QED
    BY <2>1, <2>2
<1>2. ASSUME FromFilters(a) PROVE a.rows \subseteq stored
  <2>1. PICK q : \E result \in List(q) : a.rows \subseteq result.rows
    <3>1. PICK q : q = [a.query EXCEPT !.field = PushedDown(a.conds)]
      OBVIOUS
    <3>2. PICK result \in List(q) :
            a.rows = {r \in result.rows : matchesAllConditions(r, a.conds, a.logic)}
      BY <1>2, <3>1, FilteredRows
    <3> QED
      BY <3>2
  <2> QED
    BY <2>1, ListRows
<1>3. ASSUME FromQuery(a) PROVE a.rows \subseteq stored
  <2>1. PICK result \in List(PageFor(a.query)) : a.rows \subseteq result.rows
    BY <1>3, QueriedRows
  <2> QED
    BY <2>1, ListRows
<1> QED
  BY <1>1, <1>2, <1>3, FS_Subset, FS_CardinalityType DEF Made

\* A page that the client means, by number: what it holds, and whether there is more.
Meant(a) ==
  /\ a.query.page >= 1 /\ a.query.size \in 1..MaxPageSize[a.caller]
  /\ a.query.page * a.query.size <= MaxInt

Reaches(a, upto, behind) ==
  /\ a.total = Cardinality(Matching(a.query))
  /\ Cardinality(a.rows) = AtMost(upto, a.total) - AtMost(behind, a.total)
  /\ a.more = (upto < a.total)

LEMMA MeantPage ==
  ASSUME IsFiniteSet(stored), NEW a, FromListing(a), a.caller \in {"events", "sessions"},
         a.status = "rows", Meant(a)
  PROVE  Reaches(a, a.query.page * a.query.size, (a.query.page - 1) * a.query.size)
<1> PICK v : v = Validated(a.caller, a.query)
  OBVIOUS
<1>1. /\ v.page = a.query.page /\ v.size = a.query.size
      /\ v.page \in Int /\ v.page >= 1 /\ v.size \in Nat \ {0}
  BY ValidatedQuery DEF FromListing, Meant
<1>2. v.page * v.size \in Nat /\ v.page * v.size <= MaxInt
  <2>1. v.page * v.size <= MaxInt
    BY <1>1 DEF Meant
  <2> QED
    BY <1>1, <2>1, PageSpan
<1>3. /\ a.total = Cardinality(Matching(a.query))
      /\ Cardinality(a.rows) =
           AtMost(v.page * v.size, a.total) - AtMost((v.page - 1) * v.size, a.total)
  BY <1>2, ListedPage
<1>4. a.more = (v.page * v.size < a.total)
  <2>1. PICK result : a = Response(a.caller, a.query, result)
    BY Listed
  <2>2. ShownQuery(a.caller, a.query).page = v.page /\ ShownQuery(a.caller, a.query).size = v.size
    BY <1>1 DEF ShownQuery
  <2>3. a.more = HasMore(v.page, v.size, result.total) /\ a.total = result.total
    BY <2>1, <2>2 DEF Response
  <2> QED
    BY <1>2, <2>3, WrapFits DEF HasMore
<1> QED
  BY <1>1, <1>3, <1>4 DEF Reaches

\* The same, by offset.
LEMMA MeantOffset ==
  ASSUME IsFiniteSet(stored), NEW a, FromQuery(a), a.status = "rows", a.conds = <<>>,
         NEW o, o = a.query.offset, NEW z, z = LimitOf(a.query),
         o >= 0, (o \div z) * z = o, o + z <= MaxInt
  PROVE  Reaches(a, o + z, o)
<1>1. PICK result \in List(PageFor(a.query)) :
        /\ a.status = result.status /\ a.total = result.total
        /\ a.rows = {r \in result.rows : queryMatchesFilters(r, a.conds)}
        /\ a.more = (Wrap(o + z) < result.total)
  BY QueriedRows
<1>2. a.rows = result.rows
  <2>1. DOMAIN a.conds = {}
    OBVIOUS
  <2> QED
    BY <1>1, <2>1 DEF queryMatchesFilters
<1>3. /\ result.total = Cardinality(Matching(a.query))
      /\ Cardinality(result.rows) = AtMost(o + z, result.total) - AtMost(o, result.total)
  BY <1>1, QueriedPage
<1>4. Wrap(o + z) = o + z
  <2>1. o + z \in Nat
    BY LimitFits DEF FromQuery, OffsetQuery
  <2> QED
    BY <2>1, WrapFits
<1> QED
  BY <1>1, <1>2, <1>3, <1>4 DEF Reaches

-------------------------------------------------------------------------------
(* The inductive invariant. *)

AskedFor(a) ==
  \/ a.caller \in Caller /\ a.query \in PageQuery
  \/ a.caller = "filter" /\ a.query \in FilterQuery /\ a.conds \in Conditions
  \/ /\ a.caller = "query" /\ a.query \in OffsetQuery /\ a.conds \in Conditions
     /\ a.query.field = [f \in Field |-> Unset]

TypeOK ==
  /\ stored \subseteq Record /\ IsFiniteSet(stored)
  /\ isOpen \in BOOLEAN
  /\ now \in Nat /\ now >= Launch
  /\ answer # NoAnswer => AskedFor(answer)
  /\ got \in Nat
  /\ whole \in BOOLEAN

\* A client that has read on from the first page has received the rows up to the end of
\* the last one.
HasRead(a) ==
  a.caller \in {"events", "sessions", "query"} /\ a.status = "rows" =>
    IF a.caller = "query"
    THEN LET o == a.query.offset  z == LimitOf(a.query)
         IN /\ o >= 0 /\ (o \div z) * z = o
            /\ a.conds = <<>> /\ o + z <= MaxInt =>
                 Reaches(a, o + z, o) /\ got = AtMost(o + z, a.total)
    ELSE /\ a.query.page >= 1
         /\ Meant(a) => /\ Reaches(a, a.query.page * a.query.size, (a.query.page - 1) * a.query.size)
                        /\ got = AtMost(a.query.page * a.query.size, a.total)

Progress == answer # NoAnswer /\ whole => HasRead(answer)

\* A query that is read on matches now what it matched when it was last executed.
Lasting(a) == a.caller = "query" => Matching(Timed(a.query, now)) = Matching(a.query)

Lasts == answer # NoAnswer /\ whole => Lasting(answer)

IInv ==
  /\ TypeOK
  /\ ValidatedNeverPanics
  /\ ExportCutOnlyBySize
  /\ FiltersLoseNothing
  /\ Progress
  /\ Lasts

LEMMA ReadsOnHolds ==
  ASSUME IInv
  PROVE  ReadsOnToTheTotal
<1> SUFFICES ASSUME answer # NoAnswer, answer.caller \in {"events", "sessions", "query"}, whole,
                    answer.status = "rows", Proper(answer.caller, answer.query)
             PROVE  IF answer.more THEN answer.rows # {} /\ got < answer.total
                    ELSE got = answer.total
  BY DEF ReadsOnToTheTotal
<1>1. PICK upto \in Int, behind \in Int :
        behind < upto /\ Reaches(answer, upto, behind) /\ got = AtMost(upto, answer.total)
  <2>1. CASE answer.caller = "query"
    <3> PICK o, z : o = answer.query.offset /\ z = LimitOf(answer.query)
      OBVIOUS
    <3>1. o \in Int /\ z \in Nat \ {0}
      BY <2>1, LimitFits DEF IInv, TypeOK, AskedFor, OffsetQuery, Caller
    <3>2. Reaches(answer, o + z, o) /\ got = AtMost(o + z, answer.total)
      BY <2>1 DEF IInv, Progress, HasRead, Proper
    <3> QED
      BY <3>1, <3>2
  <2>2. CASE answer.caller # "query"
    <3> PICK p, z : p = answer.query.page /\ z = answer.query.size
      OBVIOUS
    <3>1. p \in Int /\ p >= 1 /\ z \in Nat \ {0} /\ Meant(answer)
      <4>1. answer.query \in PageQuery
        BY <2>2 DEF IInv, TypeOK, AskedFor
      <4> QED
        BY <2>2, <4>1 DEF PageQuery, Proper, Meant
    <3>2. Reaches(answer, p * z, (p - 1) * z) /\ got = AtMost(p * z, answer.total)
      BY <2>2, <3>1 DEF IInv, Progress, HasRead
    <3>3. (p - 1) * z \in Int /\ p * z \in Int /\ (p - 1) * z < p * z
      BY <3>1, PageSpan
    <3> QED
      BY <3>2, <3>3
  <2> QED
    BY <2>1, <2>2
<1>2. answer.total \in Nat
  BY <1>1, MatchingFinite DEF Reaches, IInv, TypeOK
<1>3. CASE answer.more
  <2>1. upto < answer.total
    BY <1>1, <1>3 DEF Reaches
  <2>2. Cardinality(answer.rows) # 0 /\ got < answer.total
    BY <1>1, <1>2, <2>1 DEF Reaches, AtMost
  <2>3. answer.rows # {}
    BY <2>2, FS_EmptySet
  <2> QED
    BY <1>3, <2>2, <2>3
<1>4. CASE ~answer.more
  <2>1. ~(upto < answer.total)
    BY <1>1, <1>4 DEF Reaches
  <2> QED
    BY <1>1, <1>2, <1>4, <2>1 DEF AtMost
<1> QED
  BY <1>3, <1>4

LEMMA InitHolds == Init => IInv
<1> SUFFICES ASSUME Init PROVE IInv
  OBVIOUS
<1>1. /\ stored = {} /\ IsFiniteSet({}) /\ answer = NoAnswer /\ got = 0
      /\ isOpen = TRUE /\ whole = FALSE /\ now = Launch /\ Launch \in Nat
  BY FS_EmptySet, ListingsAssumption DEF Init
<1>2. now >= Launch
  BY <1>1
<1>3. TypeOK
  BY <1>1, <1>2 DEF TypeOK
<1> QED
  BY <1>1, <1>3 DEF IInv, ValidatedNeverPanics, ExportCutOnlyBySize, FiltersLoseNothing,
                    Progress, Lasts

\* What every new answer keeps.
LEMMA NewAnswer ==
  ASSUME IInv, Made(answer'), UNCHANGED <<stored, isOpen, now>>, got' \in Nat,
         whole' \in BOOLEAN, HasRead(answer)' \/ whole' = FALSE,
         SizeAsked(answer'), Lasting(answer')
  PROVE  IInv'
<1> PICK a : a = answer'
  OBVIOUS
<1>1. Made(a) /\ IsFiniteSet(stored)
  BY DEF IInv, TypeOK
<1>2. AskedFor(a)
  BY <1>1 DEF Made, FromListing, FromFilters, FromQuery, AskedFor
<1>3. NeverPanics(a)
  BY <1>1, ListingNeverPanics, QueryNeverPanics DEF Made, FromFilters, NeverPanics
<1>4. Whole(a)
  BY <1>1, ExportWhole DEF Made, FromFilters, FromQuery, Whole
<1>5. LosesNothing(a)
  <2>1. ASSUME FromListing(a) PROVE LosesNothing(a)
    BY <2>1 DEF FromListing, Caller, LosesNothing
  <2> QED
    BY <1>1, <2>1, FiltersLose, QueryLoses DEF Made
<1>6. TypeOK'
  BY <1>2 DEF IInv, TypeOK, AskedFor
<1>7. ValidatedNeverPanics'
  BY <1>3 DEF NeverPanics, ValidatedNeverPanics
<1>8. ExportCutOnlyBySize'
  BY <1>4 DEF Whole, ExportCutOnlyBySize
<1>9. FiltersLoseNothing'
  BY <1>5 DEF LosesNothing, FiltersLoseNothing, CoversAll, Wanted
<1>10. Progress'
  BY DEF Progress
<1>11. Lasts'
  BY DEF Lasts, Lasting, Matching
<1> QED
  BY <1>6, <1>7, <1>8, <1>9, <1>10, <1>11 DEF IInv

\* Reaches speaks of the store, which an answer leaves alone.
LEMMA ReachesNext ==
  ASSUME UNCHANGED stored, NEW upto, NEW behind, Reaches(answer', upto, behind)
  PROVE  Reaches(answer, upto, behind)'
BY DEF Reaches, Matching

LEMMA RequestKeeps ==
  ASSUME IInv, NEW caller \in Caller, NEW where \in Where,
         NEW page \in Ask \cup {Missing}, NEW size \in Ask \cup {Missing},
         Request(caller, where, page, size)
  PROVE  IInv'
<1> PICK q : q = buildQuery(caller, where, page, size)
  OBVIOUS
<1>1. /\ q \in PageQuery
      /\ q.asked = size /\ (size # Missing => q.size = size)
      /\ size = Missing /\ caller # "custom" => q.size = DefaultPageSize
  <2>1. DefaultPageSize \in Int /\ Ask \subseteq Int
    BY SizesFit, ListingsAssumption
  <2>2. /\ param(page, 1) \in Int
        /\ param(size, IF caller = "custom" THEN 0 ELSE DefaultPageSize) \in Int
    BY <2>1 DEF param
  <2>3. where.field \in Fields /\ where.start \in Nat /\ where.end \in Nat
    BY ListingsAssumption DEF Fields
  <2> QED
    BY <2>2, <2>3 DEF buildQuery, PageQuery, param
<1>2. /\ answer' \in Answers(caller, q) /\ got' = Cardinality(answer'.rows)
      /\ whole' = (q.page = 1) /\ UNCHANGED <<stored, isOpen, now>>
  BY DEF Request
<1> PICK a : a = answer'
  OBVIOUS
<1>3. a.caller = caller /\ a.query = q
  BY <1>2, AnswersOf
<1>4. FromListing(a)
  BY <1>1, <1>2, <1>3 DEF FromListing
<1>5. got' \in Nat /\ whole' \in BOOLEAN /\ Made(a) /\ IsFiniteSet(stored)
  BY <1>2, <1>4, MadeRows DEF Made, IInv, TypeOK
<1>6. ASSUME q.page = 1
      PROVE  HasRead(answer)'
  <2>1. CASE a.caller \in {"events", "sessions"} /\ a.status = "rows" /\ Meant(a)
    <3>1. Reaches(a, a.query.page * a.query.size, (a.query.page - 1) * a.query.size)
      BY <1>4, <1>5, <2>1, MeantPage
    <3>2. got' = AtMost(a.query.page * a.query.size, a.total)
      <4>1. a.query.page = 1 /\ a.query.size \in Nat
        <5>1. MaxPageSize[a.caller] \in Nat
          BY <2>1, SizesFit
        <5> QED
          BY <1>1, <1>3, <1>6, <2>1, <5>1 DEF Meant
      <4>2. (a.query.page - 1) * a.query.size = 0 /\ a.query.page * a.query.size = a.query.size
        BY <4>1
      <4>3. a.total \in Nat
        BY <1>5, <3>1, MatchingFinite DEF Reaches
      <4> QED
        BY <1>2, <3>1, <4>1, <4>2, <4>3 DEF Reaches, AtMost
    <3> QED
      BY <1>1, <1>2, <1>3, <1>6, <2>1, <3>1, <3>2, ReachesNext DEF HasRead, Meant
  <2>2. CASE ~(a.caller \in {"events", "sessions"} /\ a.status = "rows" /\ Meant(a))
    <3>1. a.caller # "query" /\ a.query.page >= 1
      BY <1>1, <1>3, <1>6 DEF Caller
    <3> QED
      BY <1>2, <2>2, <3>1 DEF HasRead, Meant
  <2> QED
    BY <2>1, <2>2
<1>7. SizeAsked(a) /\ Lasting(a)
  BY <1>1, <1>3 DEF SizeAsked, Lasting, Caller
<1> QED
  BY <1>2, <1>5, <1>6, <1>7, NewAnswer

LEMMA ApplyFiltersKeeps ==
  ASSUME IInv, NEW where \in Where, NEW conds \in Conditions, NEW logic,
         NEW page \in Ask, NEW size \in Ask, ApplyFilters(where, conds, logic, page, size)
  PROVE  IInv'
<1> PICK q : q = [field |-> [f \in Field |-> Unset], start |-> where.start, end |-> where.end,
                  page |-> page, size |-> size]
  OBVIOUS
<1>1. q \in FilterQuery
  BY ListingsAssumption DEF FilterQuery, Fields
<1>2. /\ answer' \in Filtered(q, conds, logic) /\ got' = Cardinality(answer'.rows)
      /\ whole' = (page = 1) /\ UNCHANGED <<stored, isOpen, now>>
  BY DEF ApplyFilters
<1> PICK a : a = answer'
  OBVIOUS
<1>3. a.caller = "filter" /\ a.query = q /\ a.conds = conds /\ a.logic = logic
  BY <1>2, FilteredOf
<1>4. FromFilters(a)
  BY <1>1, <1>2, <1>3 DEF FromFilters
<1>5. got' \in Nat /\ whole' \in BOOLEAN /\ Made(a)
  BY <1>2, <1>4, MadeRows DEF Made, IInv, TypeOK
<1>6. HasRead(answer)'
  BY <1>3 DEF HasRead
<1>7. SizeAsked(a) /\ Lasting(a)
  BY <1>3 DEF SizeAsked, Lasting
<1> QED
  BY <1>2, <1>5, <1>6, <1>7, NewAnswer

\* A query's rows, when it goes on from where the client has read to.
LEMMA OffsetRead ==
  ASSUME IInv, FromQuery(answer'), UNCHANGED stored,
         NEW o, o = answer'.query.offset, NEW z, z = LimitOf(answer'.query),
         o >= 0, (o \div z) * z = o,
         answer'.status = "rows" /\ answer'.conds = <<>> /\ o + z <= MaxInt =>
           got' = AtMost(o, Cardinality(Matching(answer'.query))) + Cardinality(answer'.rows)
  PROVE  HasRead(answer)'
<1> PICK a : a = answer'
  OBVIOUS
<1>1. a.caller = "query" /\ o \in Int /\ z \in Int
  BY LimitFits DEF FromQuery, OffsetQuery
<1>2. ASSUME a.status = "rows", a.conds = <<>>, o + z <= MaxInt
      PROVE  Reaches(a, o + z, o) /\ got' = AtMost(o + z, a.total)
  <2>1. Reaches(a, o + z, o)
    BY <1>2, MeantOffset DEF IInv, TypeOK
  <2>2. a.total \in Nat
    BY <2>1, MatchingFinite DEF Reaches, IInv, TypeOK
  <2> QED
    BY <1>1, <1>2, <2>1, <2>2 DEF Reaches, AtMost
<1>3. LimitOf(answer.query)' = z
  BY DEF LimitOf
<1> QED
  BY <1>1, <1>2, <1>3, ReachesNext DEF HasRead

LEMMA ExecuteQueryKeeps ==
  ASSUME IInv, NEW range \in TimeRange, NEW conds \in Conditions,
         NEW offset \in Ask, NEW limit \in Ask, ExecuteQuery(range, conds, offset, limit)
  PROVE  IInv'
<1> PICK asked : asked = [field |-> [f \in Field |-> Unset], start |-> 0, end |-> 0,
                          range |-> range, offset |-> offset, limit |-> limit]
  OBVIOUS
<1> PICK q : q = Timed(asked, now)
  OBVIOUS
<1>0. now \in Nat /\ now >= Launch /\ asked \in OffsetQuery
  BY ListingsAssumption DEF OffsetQuery, Fields, IInv, TypeOK
<1>1. q \in OffsetQuery /\ q.offset = offset /\ q.field = [f \in Field |-> Unset]
  BY <1>0, TimesFit
<1>2. /\ answer' \in Queried(q, conds) /\ got' = Cardinality(answer'.rows)
      /\ whole' = (offset = 0) /\ UNCHANGED <<stored, isOpen, now>>
  BY DEF ExecuteQuery
<1> PICK a : a = answer'
  OBVIOUS
<1>3. a.caller = "query" /\ a.query = q /\ a.conds = conds
  BY <1>2, QueriedOf
<1>4. FromQuery(a)
  BY <1>1, <1>2, <1>3 DEF FromQuery
<1>5. got' \in Nat /\ whole' \in BOOLEAN /\ Made(a) /\ IsFiniteSet(stored)
  BY <1>2, <1>4, MadeRows DEF Made, IInv, TypeOK
<1>6. ASSUME offset = 0
      PROVE  HasRead(answer)'
  <2> PICK z : z = LimitOf(q)
    OBVIOUS
  <2>1. (0 \div z) * z = 0
    BY <1>1, LimitFits
  <2>2. AtMost(0, Cardinality(Matching(q))) = 0 /\ Cardinality(a.rows) \in Nat
    BY <1>2, <1>5, MatchingFinite DEF AtMost
  <2> QED
    BY <1>1, <1>2, <1>3, <1>4, <1>6, <2>1, <2>2, OffsetRead
<1>7. SizeAsked(a) /\ Lasting(a)
  BY <1>0, <1>3, TimedTwice DEF SizeAsked, Lasting
<1> QED
  BY <1>2, <1>5, <1>6, <1>7, NewAnswer

LEMMA ReadOnPageKeeps ==
  ASSUME IInv, ReadOn, answer.caller # "query"
  PROVE  IInv'
<1> PICK b : b = answer
  OBVIOUS
<1> PICK q : q = [b.query EXCEPT !.page = @ + 1]
  OBVIOUS
<1> PICK p, z : p = b.query.page /\ z = b.query.size
  OBVIOUS
<1>0. b.caller \in {"events", "sessions"} /\ b.status = "rows" /\ answer # NoAnswer
  BY DEF ReadOn
<1>1. b.query \in PageQuery /\ p \in Int /\ z \in Int
  BY <1>0 DEF IInv, TypeOK, AskedFor, PageQuery
<1>2. /\ q \in PageQuery /\ q.page = p + 1 /\ q.size = z
      /\ q.field = b.query.field /\ q.start = b.query.start /\ q.end = b.query.end
  BY <1>1 DEF PageQuery
<1>3. /\ answer' \in Answers(b.caller, q) /\ got' = got + Cardinality(answer'.rows)
      /\ whole' = whole /\ UNCHANGED <<stored, isOpen, now>>
  BY DEF ReadOn
<1> PICK a : a = answer'
  OBVIOUS
<1>4. a.caller = b.caller /\ a.query = q
  BY <1>3, AnswersOf
<1>5. FromListing(a)
  BY <1>0, <1>2, <1>3, <1>4 DEF FromListing, Caller
<1>6. Made(a) /\ IsFiniteSet(stored) /\ got \in Nat /\ whole \in BOOLEAN
  BY <1>5 DEF Made, IInv, TypeOK
<1>7. got' \in Nat
  BY <1>3, <1>6, MadeRows
<1>8. ASSUME whole
      PROVE  HasRead(answer)'
  <2>1. HasRead(b)
    BY <1>0, <1>8 DEF IInv, Progress
  <2>2. p >= 1
    BY <1>0, <2>1 DEF HasRead
  <2>3. ASSUME a.status = "rows", Meant(a)
        PROVE  /\ Reaches(a, (p + 1) * z, p * z)
               /\ got' = AtMost((p + 1) * z, a.total)
    <3>1. Reaches(a, (p + 1) * z, ((p + 1) - 1) * z)
      <4>1. Reaches(a, a.query.page * a.query.size, (a.query.page - 1) * a.query.size)
        BY <1>0, <1>4, <1>5, <1>6, <2>3, MeantPage
      <4> QED
        BY <1>2, <1>4, <4>1
    <3>2. (p + 1) - 1 = p
      BY <1>1
    <3>3. MaxPageSize[b.caller] \in Nat /\ z \in 1..MaxPageSize[b.caller] /\ (p + 1) * z <= MaxInt
      BY <1>0, <1>2, <1>4, <2>3, SizesFit DEF Meant
    <3>4. p * z \in Nat /\ p * z + z = (p + 1) * z /\ z \in Nat
      BY <1>1, <2>2, <3>3, PageSpan
    <3>5. p * z <= MaxInt
      BY <3>3, <3>4, IntPositive
    <3>6. Meant(b)
      BY <2>2, <3>3, <3>5 DEF Meant
    <3>7. Reaches(b, p * z, (p - 1) * z) /\ got = AtMost(p * z, b.total)
      BY <1>0, <2>1, <3>6 DEF HasRead
    <3>8. a.total = b.total /\ a.total \in Nat
      <4>1. Matching(q) = Matching(b.query)
        BY <1>2, MatchingSame
      <4> QED
        BY <1>4, <1>6, <3>1, <3>7, <4>1, MatchingFinite DEF Reaches
    <3>9. got' = AtMost((p + 1) * z, a.total)
      <4>1. Cardinality(a.rows) = AtMost((p + 1) * z, a.total) - AtMost(p * z, a.total)
        BY <3>1, <3>2 DEF Reaches
      <4>2. AtMost((p + 1) * z, a.total) \in Int /\ AtMost(p * z, a.total) \in Int
        BY <3>4, <3>8 DEF AtMost
      <4> QED
        BY <1>3, <3>7, <3>8, <4>1, <4>2
    <3> QED
      BY <3>1, <3>2, <3>9
  <2>4. (p + 1) - 1 = p /\ p + 1 >= 1
    BY <1>1, <2>2
  <2> QED
    BY <1>0, <1>2, <1>3, <1>4, <2>3, <2>4, ReachesNext DEF HasRead, Meant
<1>9. HasRead(answer)' \/ whole' = FALSE
  BY <1>3, <1>6, <1>8
<1>10. SizeAsked(a) /\ Lasting(a)
  BY <1>0, <1>4 DEF SizeAsked, Lasting
<1> QED
  BY <1>3, <1>6, <1>7, <1>9, <1>10, NewAnswer

LEMMA ReadOnOffsetKeeps ==
  ASSUME IInv, ReadOn, answer.caller = "query"
  PROVE  IInv'
<1> PICK b : b = answer
  OBVIOUS
<1> PICK o, z : o = b.query.offset /\ z = LimitOf(b.query)
  OBVIOUS
<1> PICK next : next = [b.query EXCEPT !.offset = @ + LimitOf(b.query)]
  OBVIOUS
<1> PICK q : q = Timed(next, now)
  OBVIOUS
<1>0. b.caller = "query" /\ b.status = "rows" /\ answer # NoAnswer
  BY DEF ReadOn
<1>1. /\ b.query \in OffsetQuery /\ b.query.field = [f \in Field |-> Unset]
      /\ b.conds \in Conditions /\ o \in Int
  BY <1>0 DEF IInv, TypeOK, AskedFor, Caller, OffsetQuery
<1>2. z \in Nat \ {0} /\ z <= MaxInt
  BY <1>1, LimitFits
<1>0a. now \in Nat /\ now >= Launch
  BY DEF IInv, TypeOK
<1>3. /\ next \in OffsetQuery
      /\ q \in OffsetQuery /\ q.offset = o + z /\ q.field = b.query.field /\ LimitOf(q) = z
      /\ q.start = Resolve(b.query.range, now).start /\ q.end = Resolve(b.query.range, now).end
  BY <1>0a, <1>1, NextTimes
<1>4. /\ answer' \in Queried(q, b.conds) /\ got' = got + Cardinality(answer'.rows)
      /\ whole' = whole /\ UNCHANGED <<stored, isOpen, now>>
  BY <1>0 DEF ReadOn
<1> PICK a : a = answer'
  OBVIOUS
<1>5. a.caller = "query" /\ a.query = q /\ a.conds = b.conds
  BY <1>4, QueriedOf
<1>6. FromQuery(a)
  BY <1>1, <1>3, <1>4, <1>5 DEF FromQuery
<1>7. Made(a) /\ IsFiniteSet(stored) /\ got \in Nat /\ whole \in BOOLEAN
  BY <1>6 DEF Made, IInv, TypeOK
<1>8. got' \in Nat
  BY <1>4, <1>7, MadeRows
<1>9. ASSUME whole
      PROVE  HasRead(answer)'
  <2>1. /\ o >= 0 /\ (o \div z) * z = o
        /\ b.conds = <<>> /\ o + z <= MaxInt =>
             Reaches(b, o + z, o) /\ got = AtMost(o + z, b.total)
    <3>1. HasRead(b)
      BY <1>0, <1>9 DEF IInv, Progress
    <3> QED
      BY <1>0, <3>1 DEF HasRead
  <2>2. o + z >= 0 /\ ((o + z) \div z) * z = o + z
    <3>1. o \in Nat
      BY <1>1, <2>1
    <3> QED
      BY <1>2, <2>1, <3>1, PageOfOffset
  <2>3. ASSUME a.conds = <<>>, (o + z) + z <= MaxInt
        PROVE  got' = AtMost(o + z, Cardinality(Matching(a.query))) + Cardinality(a.rows)
    <3>1. o + z <= MaxInt
      BY <1>1, <1>2, <2>3, IntPositive
    <3>2. got = AtMost(o + z, b.total) /\ b.total = Cardinality(Matching(b.query))
      BY <1>5, <2>1, <2>3, <3>1 DEF Reaches
    <3>3. Matching(q) = Matching(b.query)
      <4>1. Matching(Timed(b.query, now)) = Matching(b.query)
        BY <1>0, <1>9 DEF IInv, Lasts, Lasting
      <4> PICK r : r = Timed(b.query, now)
        OBVIOUS
      <4>2. q.field = r.field /\ q.start = r.start /\ q.end = r.end
        BY <1>0a, <1>1, <1>3, TimesFit
      <4> QED
        BY <4>1, <4>2, MatchingSame
    <3> QED
      BY <1>4, <1>5, <3>2, <3>3
  <2> QED
    BY <1>3, <1>4, <1>5, <1>6, <2>2, <2>3, OffsetRead
<1>10. HasRead(answer)' \/ whole' = FALSE
  BY <1>4, <1>7, <1>9
<1>11. SizeAsked(a) /\ Lasting(a)
  BY <1>0a, <1>3, <1>5, TimedTwice DEF SizeAsked, Lasting
<1> QED
  BY <1>4, <1>7, <1>8, <1>10, <1>11, NewAnswer

LEMMA FinishKeeps ==
  ASSUME IInv, Finish
  PROVE  IInv'
BY DEF Finish, IInv, TypeOK, ValidatedNeverPanics, ExportCutOnlyBySize, FiltersLoseNothing,
       Progress, Lasts

\* A change of the store ends what is known of the reading.
LEMMA ChangeKeeps ==
  ASSUME IInv, NEW r \in Record, Create(r) \/ DeleteEvent(r)
  PROVE  IInv'
<1>1. stored' \subseteq Record /\ IsFiniteSet(stored')
  BY FS_AddElement, FS_RemoveElement DEF Create, DeleteEvent, IInv, TypeOK
<1>2. whole' = FALSE /\ UNCHANGED <<isOpen, now, answer, got>>
  BY DEF Create, DeleteEvent
<1>3. TypeOK'
  BY <1>1, <1>2 DEF IInv, TypeOK, AskedFor
<1>4. ValidatedNeverPanics' /\ ExportCutOnlyBySize'
  BY <1>2 DEF IInv, ValidatedNeverPanics, ExportCutOnlyBySize, Validated, LimitOf
<1>5. FiltersLoseNothing' /\ Progress' /\ Lasts'
  BY <1>2 DEF FiltersLoseNothing, Progress, Lasts
<1> QED
  BY <1>3, <1>4, <1>5 DEF IInv

\* The store's closing and the clock leave the answer; the clock ends the reading of a
\* query when its matches change.
LEMMA StillKeeps ==
  ASSUME IInv, UNCHANGED <<stored, answer, got>>, isOpen' \in BOOLEAN, whole' \in BOOLEAN,
         now' \in Nat, now' >= Launch, whole' => whole,
         answer # NoAnswer /\ answer.caller = "query" /\ whole' =>
           Matching(Timed(answer.query, now')) = Matching(Timed(answer.query, now))
  PROVE  IInv'
<1>1. TypeOK'
  BY DEF IInv, TypeOK, AskedFor
<1>2. ValidatedNeverPanics' /\ ExportCutOnlyBySize'
  BY DEF IInv, ValidatedNeverPanics, ExportCutOnlyBySize, Validated, LimitOf
<1>3. FiltersLoseNothing'
  BY DEF IInv, FiltersLoseNothing, CoversAll, Wanted, LimitOf
<1>4. Progress'
  BY DEF IInv, Progress, HasRead, Meant, Reaches, Matching, LimitOf
<1>5. Lasts'
  BY DEF IInv, Lasts, Lasting, Matching
<1> QED
  BY <1>1, <1>2, <1>3, <1>4, <1>5 DEF IInv

LEMMA TickKeeps ==
  ASSUME IInv, Tick
  PROVE  IInv'
<1>1. /\ UNCHANGED <<stored, isOpen, answer, got>> /\ now' = now + 1
      /\ whole' = (whole /\ ~AgesAt(now + 1))
  BY DEF Tick
<1>2. isOpen \in BOOLEAN /\ whole \in BOOLEAN /\ now \in Nat /\ now >= Launch
  BY DEF IInv, TypeOK
<1>3. Launch \in Nat
  BY ListingsAssumption
<1>4. whole' \in BOOLEAN /\ (whole' => whole /\ ~AgesAt(now + 1))
  BY <1>1, <1>2
<1>5. answer # NoAnswer /\ answer.caller = "query" /\ whole' =>
        Matching(Timed(answer.query, now')) = Matching(Timed(answer.query, now))
  BY <1>1, <1>4 DEF AgesAt
<1>6. isOpen' \in BOOLEAN /\ now' \in Nat /\ now' >= Launch
  BY <1>1, <1>2, <1>3
<1> QED
  BY <1>1, <1>4, <1>5, <1>6, StillKeeps

LEMMA CloseKeeps ==
  ASSUME IInv, Close \/ UNCHANGED vars
  PROVE  IInv'
<1>1. UNCHANGED <<stored, now, answer, got, whole>> /\ isOpen' \in BOOLEAN
  BY DEF Close, vars, IInv, TypeOK
<1>2. now \in Nat /\ now >= Launch /\ whole \in BOOLEAN
  BY DEF IInv, TypeOK
<1> QED
  BY <1>1, <1>2, StillKeeps

LEMMA NextHolds == IInv /\ [Next]_vars => IInv'
<1> SUFFICES ASSUME IInv, [Next]_vars PROVE IInv'
  OBVIOUS
<1>1. ASSUME NEW r \in Record, Create(r) \/ DeleteEvent(r) PROVE IInv'
  BY <1>1, ChangeKeeps
<1>2. ASSUME NEW caller \in Caller, NEW where \in Where,
             NEW page \in Ask \cup {Missing}, NEW size \in Ask \cup {Missing},
             Request(caller, where, page, size)
      PROVE  IInv'
  BY <1>2, RequestKeeps
<1>3. ASSUME NEW range \in TimeRange, NEW conds \in Conditions,
             NEW offset \in Ask, NEW limit \in Ask, ExecuteQuery(range, conds, offset, limit)
      PROVE  IInv'
  BY <1>3, ExecuteQueryKeeps
<1>4. ASSUME NEW where \in Where, NEW page \in Ask, NEW size \in Ask, NEW conds \in Conditions,
             NEW logic, ApplyFilters(where, conds, logic, page, size)
      PROVE  IInv'
  BY <1>4, ApplyFiltersKeeps
<1>5. CASE ReadOn
  BY <1>5, ReadOnPageKeeps, ReadOnOffsetKeeps
<1>6. CASE Finish
  BY <1>6, FinishKeeps
<1>7. CASE Close \/ UNCHANGED vars
  BY <1>7, CloseKeeps
<1>8. CASE Tick
  BY <1>8, TickKeeps
<1> QED
  BY <1>1, <1>2, <1>3, <1>4, <1>5, <1>6, <1>7, <1>8 DEF Next

LEMMA InvHolds == Spec => []IInv
BY InitHolds, NextHolds, PTL DEF Spec

-------------------------------------------------------------------------------
(* The counts by type. *)

\* The query with no field but the type.
OfType(where, type) ==
  [where EXCEPT !.field = [f \in Field |-> IF f = "type" THEN type ELSE Unset]]

CountedOf(where, type) ==
  {r \in stored : /\ attr[r]["type"] = type
                  /\ where.start = 0 \/ ~(at[r] < where.start)
                  /\ where.end = 0 \/ ~(at[r] > where.end)}

LEMMA ListedOfType ==
  ASSUME TypeOK, NEW where \in Where
  PROVE  /\ \A type \in Value : Matching(OfType(where, type)) = CountedOf(where, type)
         /\ Matching(OfType(where, Unset)) = UNION {CountedOf(where, type) : type \in Value}
<1>1. /\ "type" \in Field /\ Unset \notin Value /\ where.start \in Nat /\ where.end \in Nat
      /\ \A r \in stored : attr[r]["type"] \in Value /\ at[r] \in Nat
  BY ListingsAssumption DEF TypeOK
<1>2. \A type : /\ OfType(where, type).start = where.start /\ OfType(where, type).end = where.end
                /\ \A f \in Field : OfType(where, type).field[f] = IF f = "type" THEN type ELSE Unset
  BY ListingsAssumption DEF OfType
<1>3. ASSUME NEW r \in stored
      PROVE  /\ where.start = 0 \/ ~(at[r] < where.start) <=> where.start = 0 \/ at[r] >= where.start
             /\ where.end = 0 \/ ~(at[r] > where.end) <=> where.end = 0 \/ at[r] <= where.end
  BY <1>1
<1>4. ASSUME NEW r \in stored, NEW type \in Value
      PROVE  Matches(r, OfType(where, type)) <=> r \in CountedOf(where, type)
  <2>1. (\A f \in Field : \/ OfType(where, type).field[f] = Unset
                          \/ attr[r][f] = OfType(where, type).field[f])
          <=> attr[r]["type"] = type
    BY <1>1, <1>2
  <2>2. InRange(r, OfType(where, type)) <=>
          (where.start = 0 \/ at[r] >= where.start) /\ (where.end = 0 \/ at[r] <= where.end)
    BY <1>2 DEF InRange
  <2> QED
    BY <1>3, <2>1, <2>2 DEF Matches, CountedOf
<1>5. ASSUME NEW r \in stored
      PROVE  Matches(r, OfType(where, Unset)) <=> r \in CountedOf(where, attr[r]["type"])
  <2>1. \A f \in Field : OfType(where, Unset).field[f] = Unset
    BY <1>2
  <2>2. InRange(r, OfType(where, Unset)) <=>
          (where.start = 0 \/ at[r] >= where.start) /\ (where.end = 0 \/ at[r] <= where.end)
    BY <1>2 DEF InRange
  <2> QED
    BY <1>3, <2>1, <2>2 DEF Matches, CountedOf
<1>6. \A type \in Value : Matching(OfType(where, type)) = CountedOf(where, type)
  BY <1>4 DEF Matching, CountedOf
<1>7. \A type \in Value : \A r \in CountedOf(where, type) : r \in stored /\ attr[r]["type"] = type
  BY DEF CountedOf
<1>8. Matching(OfType(where, Unset)) = UNION {CountedOf(where, type) : type \in Value}
  BY <1>1, <1>5, <1>7 DEF Matching
<1> QED
  BY <1>6, <1>8

SumOfCounts(where) == MapThenSumSet(LAMBDA type : EventCountByType(type, where), Value)

\* What the sum over the types folds.
LEMMA CountsFold ==
  ASSUME IsFiniteSet(Value), NEW where,
         NEW h, h = [type \in Value |-> EventCountByType(type, where)], h \in [Value -> Int]
  PROVE  \E f : /\ IsSum(f, h, Value)
                /\ SumOfCounts(where) = f[Value]
<1> DEFINE F == CHOOSE f : f = [T \in SUBSET Value |->
                  IF T = {} THEN 0 ELSE EventCountByType(AnyOf(T), where) + f[T \ {AnyOf(T)}]]
<1>1. SumOfCounts(where) = F[Value]
  BY DEF SumOfCounts, MapThenSumSet, MapThenFoldSet, AnyOf
<1>2. \A T \in SUBSET Value : T # {} => h[AnyOf(T)] = EventCountByType(AnyOf(T), where)
  BY DEF AnyOf
<1>3. PICK g : IsSum(g, h, Value)
  BY SumExists
<1>4. g = [T \in SUBSET Value |->
             IF T = {} THEN 0 ELSE EventCountByType(AnyOf(T), where) + g[T \ {AnyOf(T)}]]
  BY <1>2, <1>3 DEF IsSum
<1>5. F = [T \in SUBSET Value |->
             IF T = {} THEN 0 ELSE EventCountByType(AnyOf(T), where) + F[T \ {AnyOf(T)}]]
  BY <1>4
<1> HIDE DEF F
<1>6. IsSum(F, h, Value)
  BY <1>2, <1>5 DEF IsSum
<1> QED
  BY <1>1, <1>6

LEMMA CountsHold ==
  ASSUME TypeOK
  PROVE  CountsAgree
<1> SUFFICES ASSUME NEW where \in Where
             PROVE  /\ \A type \in Value : EventCountByType(type, where)
                                             = Cardinality(Matching(OfType(where, type)))
                    /\ SumOfCounts(where)
                         = Cardinality(Matching(OfType(where, Unset)))
  BY DEF CountsAgree, OfType, SumOfCounts
<1>1. \A type : EventCountByType(type, where) = Cardinality(CountedOf(where, type))
  BY DEF EventCountByType, CountedOf
<1>2. \A type \in Value : EventCountByType(type, where) = Cardinality(Matching(OfType(where, type)))
  BY <1>1, ListedOfType
<1> PICK part : part = [type \in Value |-> CountedOf(where, type)]
  OBVIOUS
<1>3. /\ part \in [Value -> SUBSET stored]
      /\ \A x, y \in Value : x # y => part[x] \cap part[y] = {}
  BY DEF CountedOf
<1> PICK h : h = [type \in Value |-> EventCountByType(type, where)]
  OBVIOUS
<1>4. h \in [Value -> Int]
  <2>1. \A type : CountedOf(where, type) \subseteq stored
    BY DEF CountedOf
  <2>2. \A type : Cardinality(CountedOf(where, type)) \in Nat
    BY <2>1, FS_Subset, FS_CardinalityType DEF TypeOK
  <2> QED
    BY <1>1, <2>2
<1>5. h = [type \in Value |-> Cardinality(part[type])]
  BY <1>1
<1>0. IsFiniteSet(Value) /\ IsFiniteSet(stored)
  BY ListingsAssumption DEF TypeOK
<1>6. PICK f : /\ IsSum(f, h, Value)
               /\ SumOfCounts(where) = f[Value]
  BY <1>0, <1>4, CountsFold
<1>7. f[Value] = Cardinality(UNION {part[type] : type \in Value})
  BY <1>0, <1>3, <1>5, <1>6, SumOfParts
<1>8. UNION {part[type] : type \in Value} = Matching(OfType(where, Unset))
  BY ListedOfType
<1> QED
  BY <1>2, <1>6, <1>7, <1>8

-------------------------------------------------------------------------------
(* Theorems *)

\* The types are kept: the last answer is that of a request that the program may get.
THEOREM TypeCorrect == Spec => []TypeOK
BY InvHolds, PTL DEF IInv

\* A client that reads a listing from its first page for as long as has_more says so gets
\* as many rows as the total, and each page with more behind it brings some, while neither
\* the store changes nor, for a query, the clock what is in its time range.
THEOREM ReadsOnToTheTotalCorrect == Spec => []ReadsOnToTheTotal
<1>1. IInv => ReadsOnToTheTotal
  BY ReadsOnHolds
<1> QED
  BY <1>1, InvHolds, PTL

\* Validation and the reckoning of pages from offsets leave the store no page to panic
\* over whose end fits an int.
THEOREM ValidatedNeverPanicsCorrect == Spec => []ValidatedNeverPanics
BY InvHolds, PTL DEF IInv

\* An export of a first page that does not fail holds every match, unless its client asked
\* for fewer or named no size: then it holds a page of the default size.
THEOREM ExportCutOnlyBySizeCorrect == Spec => []ExportCutOnlyBySize
BY InvHolds, PTL DEF IInv

\* The counts by type are those of the listings by type, and add up to the listing of
\* all types.
THEOREM CountsAgreeCorrect == Spec => []CountsAgree
<1>1. IInv => CountsAgree
  BY CountsHold DEF IInv
<1> QED
  BY <1>1, InvHolds, PTL

\* Neither way of filtering loses an event that its conditions select, where it means
\* to select them.
THEOREM FiltersLoseNothingCorrect == Spec => []FiltersLoseNothing
BY InvHolds, PTL DEF IInv
===============================================================================
