-------------------------------- MODULE Listings --------------------------------
(***************************************************************************)
(* Listings: how requests read the store page by page.                     *)
(*                                                                         *)
(* ListEvents (internal/store/memory_store.go) and ListSessions            *)
(* (internal/store/session_store.go) are the same code over two maps; one  *)
(* set of records stands for either map.  They filter the map, cut one     *)
(* page out of the matches and count all of them.  A Go map is walked in a *)
(* new order by every call, so a page is any subset of the matches of the  *)
(* size that the arithmetic gives.  That arithmetic has the width of int,  *)
(* and a slice with a negative start panics; RecoveryMiddleware turns the  *)
(* panic into an answer.                                                   *)
(*                                                                         *)
(* What a request may ask for depends on who builds its query: listings    *)
(* and exports put numbers of their own for those a client leaves out, and *)
(* the listings validate the rest; the filter and custom export endpoints  *)
(* pass it on; the query service makes a page out of an offset and the     *)
(* times out of the clock; and the analysing services make their own, with *)
(* no page.                                                                *)
(***************************************************************************)
EXTENDS Integers, FiniteSetsExt, Sequences

CONSTANTS Record,
          Field,            \* the fields that queries compare: type, os, page, ...
          Value,
          Unset,            \* a query's empty string: the field is not compared
          NotString,        \* a JSON value of a filter condition that is no string
          Missing,          \* a page or a size that is not in the URL, or no number
          attr,             \* the fields of each record
          at,               \* its timestamp, from 1; 0 is the zero time
          Containing,       \* <<s, t>>: the string s contains t
          MaxPageSize,      \* [events |-> 1000, sessions |-> 500, query |-> 10000]
          DefaultPageSize,  \* 50
          DefaultLimit,     \* 100, of the query service
          AnalysisSize,     \* 50000
          CustomSize,       \* 10000
          MaxRecords,       \* config.Export.MaxRecords
          IntBits,          \* 64
          Span,             \* how far back each time range goes; "" is the default
          Day,
          Launch,           \* when the first request comes
          MaxNow,           \* bound: the last instant
          Ask,              \* bound: page numbers and sizes in requests
          Where,            \* bound: the fields and times that queries name
          Conditions        \* bound: lists of filter conditions

\* The greatest int.
MaxInt == 2^(IntBits - 1) - 1

ASSUME ListingsAssumption ==
  /\ {"type", "os", "page"} \subseteq Field
  /\ {Unset, NotString} \cap Value = {} /\ IsFiniteSet(Value)
  /\ attr \in [Record -> [Field -> Value]]
  /\ at \in [Record -> Nat \ {0}]
  /\ IntBits \in Nat \ {0}
  /\ MaxPageSize \in [{"events", "sessions", "query"} -> 1..MaxInt]
  /\ {DefaultPageSize, DefaultLimit, AnalysisSize, CustomSize, MaxRecords} \subseteq 1..MaxInt
  /\ Launch \in Nat /\ MaxNow \in Nat
  /\ Span \in [DOMAIN Span -> 0..(Launch - 1)]
  /\ Day \in Nat \ {0} /\ 2 * Day <= Launch
  /\ Ask \subseteq Int
  /\ Where \subseteq [field : [Field -> Value \cup {Unset}], start : Nat, end : Nat]
  /\ Conditions \subseteq Seq([dim : STRING, op : STRING, value : Value \cup {NotString}])

VARIABLES stored,     \* the records in the map
          isOpen,
          now,
          answer,     \* the last answer, with the request
          \* history
          got,        \* rows received since the client's first request
          whole       \* that was for page 1, and nothing that matters has changed since:
                      \* neither the store nor, with the clock, what a query matches

vars == <<stored, isOpen, now, answer, got, whole>>

\* The caller decides how its query is made. ("filter" and "query" have actions of
\* their own.)
Caller == {"events", "sessions", "export", "custom", "analysis"}

NoAnswer == [status |-> "none"]

Init ==
  /\ stored = {}
  /\ isOpen = TRUE
  /\ now = Launch
  /\ answer = NoAnswer
  /\ got = 0
  /\ whole = FALSE

-------------------------------------------------------------------------------
(* The store. *)

\* Go's int.
Wrap(n) ==
  ((n + MaxInt + 1) % (2 * (MaxInt + 1))) - (MaxInt + 1)

\* Mutant: the end of the range is left out.
InRangeOpen(r, q) ==
  /\ q.start = 0 \/ at[r] >= q.start
  /\ q.end = 0 \/ at[r] < q.end

InRange(r, q) ==
  /\ q.start = 0 \/ at[r] >= q.start
  /\ q.end = 0 \/ at[r] <= q.end

Matches(r, q) ==
  /\ \A f \in Field : q.field[f] = Unset \/ attr[r][f] = q.field[f]
  /\ InRange(r, q)

Matching(q) == {r \in stored : Matches(r, q)}

\* EventCountByType has its own loop over the map, and compares the type always.
EventCountByType(type, q) ==
  Cardinality({r \in stored : /\ attr[r]["type"] = type
                              /\ q.start = 0 \/ ~(at[r] < q.start)
                              /\ q.end = 0 \/ ~(at[r] > q.end)})

\* The first index of the page, counted from 0.
Start(q) == Wrap((q.page - 1) * q.size)

End(q, total) ==
  LET end == Wrap(Start(q) + q.size) IN IF end > total THEN total ELSE end

\* What ListEvents and ListSessions may return for q: a page of the matches in
\* some order, and the number of matches.
List(q) ==
  LET total == Cardinality(Matching(q))
      start == Start(q)
      end   == End(q, total)
      Result(status, rows) == [status |-> status, rows |-> rows, total |-> total]
  IN IF ~isOpen THEN {[status |-> "closed", rows |-> {}, total |-> 0]}
     ELSE IF start >= total THEN {Result("rows", {})}
     ELSE IF start < 0 \/ end < start THEN {Result("panic", {})}
     ELSE {Result("rows", page) : page \in kSubset(end - start, Matching(q))}

-------------------------------------------------------------------------------
(* The queries. *)

\* parseIntParam
param(number, default) == IF number = Missing THEN default ELSE number

\* buildEventQuery, buildSessionQuery; a custom export's number is in its body, where a
\* missing one is 0. (asked is what the client said, for the properties.)
buildQuery(caller, where, page, size) ==
  [field |-> where.field, start |-> where.start, end |-> where.end,
   page  |-> param(page, 1),
   size  |-> param(size, IF caller = "custom" THEN 0 ELSE DefaultPageSize),
   asked |-> size]

\* Mutant: no page is as good as any.
ValidatedSize(listing, q) ==
  [q EXCEPT !.size = IF @ \in 1..MaxPageSize[listing] THEN @ ELSE DefaultPageSize]

\* EventQuery.Validate, SessionQuery.Validate
Validated(listing, q) ==
  [q EXCEPT !.page = IF @ < 1 THEN 1 ELSE @,
            !.size = IF @ \in 1..MaxPageSize[listing] THEN @ ELSE DefaultPageSize]

BadRange(q) == q.start > q.end /\ q.end # 0

\* ExportEvents, ExportSessions
Limited(q) == [q EXCEPT !.size = IF @ \in 1..MaxRecords THEN @ ELSE MaxRecords]

\* The query that reaches the store.
QueryOf(caller, q) ==
  CASE caller \in {"events", "sessions"} -> Validated(caller, q)
    [] caller = "export"   -> Limited(q)
    [] caller = "custom"   -> Limited([q EXCEPT !.page = 0,
                                                !.size = IF @ > 0 THEN @ ELSE CustomSize])
    [] caller = "analysis" -> [q EXCEPT !.page = 0, !.size = AnalysisSize]

\* Mutant: another page while the rows so far do not exceed the total.
HasMoreInclusive(page, size, total) == Wrap(page * size) <= total

\* response.Paginated
HasMore(page, size, total) == Wrap(page * size) < total

\* The session handler keeps its own copy of the query, which is not validated.
ShownQuery(caller, q) == IF caller = "events" THEN Validated(caller, q) ELSE q

\* Mutant: an export of more than it may is cut.
ResponseUncapped(caller, q, result) ==
  LET shown == ShownQuery(caller, q)
  IN [caller |-> caller, query |-> q, status |-> result.status,
      rows |-> result.rows, total |-> result.total,
      more |-> HasMore(shown.page, shown.size, result.total)]

Response(caller, q, result) ==
  LET shown   == ShownQuery(caller, q)
      tooMany == /\ caller \in {"export", "custom"}
                 /\ result.status = "rows" /\ result.total > MaxRecords
  IN [caller |-> caller, query |-> q,
      status |-> IF tooMany THEN "tooMany" ELSE result.status,
      rows   |-> IF tooMany THEN {} ELSE result.rows,
      total  |-> result.total,
      more   |-> HasMore(shown.page, shown.size, result.total)]

Refused(caller, q) ==
  [caller |-> caller, query |-> q, status |-> "badRange", rows |-> {}, total |-> 0,
   more |-> FALSE]

Answers(caller, q) ==
  IF caller \in {"events", "sessions"} /\ BadRange(q)
  THEN {Refused(caller, q)}
  ELSE {Response(caller, q, result) : result \in List(QueryOf(caller, q))}

-------------------------------------------------------------------------------
(* Filters. *)

\* The fields that ApplyFilters copies into its query (here of os, browser, country
\* and device_type), whatever the operator; the
\* last condition on a field is the one that stays.
Pushed == {"os"}

\* The fields that it compares in memory.
Compared == {"os", "page"}

\* Mutant: every condition goes into the query's type.
PushedIntoType(conds) ==
  [f \in Field |->
     LET C == {i \in DOMAIN conds : conds[i].dim \in Pushed /\ conds[i].value # NotString}
     IN IF f = "type" /\ C # {} THEN conds[Max(C)].value ELSE Unset]

PushedDown(conds) ==
  [f \in Field |->
     LET C == {i \in DOMAIN conds : conds[i].dim = f /\ conds[i].value # NotString}
     IN IF f \in Pushed /\ C # {} THEN conds[Max(C)].value ELSE Unset]

\* Dimensions that are not compared, other values than strings and other
\* operators match every event.
matchesCondition(r, cond) ==
  \/ cond.dim \notin Compared
  \/ cond.value = NotString
  \/ CASE cond.op \in {"eq", "in"} -> attr[r][cond.dim] = cond.value
       [] cond.op = "neq"          -> attr[r][cond.dim] # cond.value
       [] cond.op = "contains"     -> <<attr[r][cond.dim], cond.value>> \in Containing
       [] OTHER                    -> TRUE

matchesAllConditions(r, conds, logic) ==
  \/ conds = <<>>
  \/ logic = "or" /\ \E i \in DOMAIN conds : matchesCondition(r, conds[i])
  \/ logic # "or" /\ \A i \in DOMAIN conds : matchesCondition(r, conds[i])

\* The page is cut before the conditions are looked at; the total is what is left
\* of the page.
Filtered(q, conds, logic) ==
  {LET rows == {r \in result.rows : matchesAllConditions(r, conds, logic)}
   IN [caller |-> "filter", query |-> q, conds |-> conds, logic |-> logic,
       status |-> result.status, rows |-> rows, total |-> Cardinality(rows), more |-> FALSE]
   : result \in List([q EXCEPT !.field = PushedDown(conds)])}

-------------------------------------------------------------------------------
(* QueryService. *)

TimeRange == DOMAIN Span \cup {"today", "yesterday"}

\* ResolveTimeRange, at time t.
Resolve(range, t) ==
  LET Midnight(u) == (u \div Day) * Day
  IN CASE range = "today"     -> [start |-> Midnight(t), end |-> Midnight(t) + Day]
       [] range = "yesterday" -> [start |-> Midnight(t - Day), end |-> Midnight(t - Day) + Day]
       [] OTHER               -> [start |-> t - Span[range], end |-> t]

\* A query has the times that its range means when it is executed.
Timed(q, t) == [q EXCEPT !.start = Resolve(q.range, t).start, !.end = Resolve(q.range, t).end]

LimitOf(q) == IF q.limit <= 0 THEN DefaultLimit ELSE Min({q.limit, MaxPageSize["query"]})

\* The page that the offset is in.
PageAt(q) == IF q.offset > 0 THEN (q.offset \div LimitOf(q)) + 1 ELSE 1

\* Events have no user type: it is empty. Unknown dimensions, other values than
\* strings and other operators, "in" among them, match no event.
queryMatchCondition(r, cond) ==
  /\ cond.dim \in Compared \cup {"user_type"}
  /\ cond.value # NotString
  /\ LET value == IF cond.dim = "user_type" THEN Unset ELSE attr[r][cond.dim]
     IN CASE cond.op = "eq"       -> value = cond.value
          [] cond.op = "neq"      -> value # cond.value
          [] cond.op = "contains" -> <<value, cond.value>> \in Containing
          [] OTHER                -> FALSE

queryMatchesFilters(r, conds) == \A i \in DOMAIN conds : queryMatchCondition(r, conds[i])

\* The conditions are looked at after the page is cut; total and has_more are those
\* of the listing.
Queried(q, conds) ==
  LET page == [field |-> q.field, start |-> q.start, end |-> q.end,
               page |-> PageAt(q), size |-> LimitOf(q)]
  IN {[caller |-> "query", query |-> q, conds |-> conds, status |-> result.status,
       rows   |-> {r \in result.rows : queryMatchesFilters(r, conds)},
       total  |-> result.total,
       more   |-> Wrap(q.offset + LimitOf(q)) < result.total]
      : result \in List(page)}

-------------------------------------------------------------------------------
(* Steps *)

\* The one client whose answers are followed asks for a page.
Request(caller, where, page, size) ==
  LET q == buildQuery(caller, where, page, size)
  IN /\ answer = NoAnswer
     /\ answer' \in Answers(caller, q)
     /\ got' = Cardinality(answer'.rows)
     /\ whole' = (q.page = 1)
     /\ UNCHANGED <<stored, isOpen, now>>

\* It was told that there is more, and asks for the next page. The query service reads
\* the clock again.
ReadOn ==
  /\ answer # NoAnswer
  /\ answer.caller \in {"events", "sessions", "query"} /\ answer.status = "rows" /\ answer.more
  /\ IF answer.caller = "query"
     THEN answer' \in Queried(Timed([answer.query EXCEPT !.offset = @ + LimitOf(answer.query)], now),
                              answer.conds)
     ELSE /\ answer.query.page + 1 \in Ask
          /\ answer' \in Answers(answer.caller, [answer.query EXCEPT !.page = @ + 1])
  /\ got' = got + Cardinality(answer'.rows)
  /\ UNCHANGED <<stored, isOpen, now, whole>>

\* It asks no more about this.
Finish ==
  /\ answer # NoAnswer
  /\ answer' = NoAnswer
  /\ got' = 0
  /\ whole' = FALSE
  /\ UNCHANGED <<stored, isOpen, now>>

\* The conditions of a request hold no other fields than its own.
ApplyFilters(where, conds, logic, page, size) ==
  LET q == [field |-> [f \in Field |-> Unset], start |-> where.start, end |-> where.end,
            page |-> page, size |-> size]
  IN /\ answer = NoAnswer
     /\ answer' \in Filtered(q, conds, logic)
     /\ got' = Cardinality(answer'.rows)
     /\ whole' = (page = 1)
     /\ UNCHANGED <<stored, isOpen, now>>

\* A range that has no name is refused before this.
ExecuteQuery(range, conds, offset, limit) ==
  LET q == [field |-> [f \in Field |-> Unset], start |-> 0, end |-> 0, range |-> range,
            offset |-> offset, limit |-> limit]
  IN /\ answer = NoAnswer
     /\ answer' \in Queried(Timed(q, now), conds)
     /\ got' = Cardinality(answer'.rows)
     /\ whole' = (offset = 0)
     /\ UNCHANGED <<stored, isOpen, now>>

Create(r) ==
  /\ isOpen /\ r \notin stored
  /\ stored' = stored \cup {r}
  /\ whole' = FALSE
  /\ UNCHANGED <<isOpen, now, answer, got>>

DeleteEvent(r) ==
  /\ isOpen /\ r \in stored
  /\ stored' = stored \ {r}
  /\ whole' = FALSE
  /\ UNCHANGED <<isOpen, now, answer, got>>

Close ==
  /\ isOpen
  /\ isOpen' = FALSE
  /\ UNCHANGED <<stored, now, answer, got, whole>>

\* Events come into or fall out of the time range that a query names.
AgesAt(t) ==
  /\ answer # NoAnswer /\ answer.caller = "query"
  /\ Matching(Timed(answer.query, t)) # Matching(Timed(answer.query, now))

Tick ==
  /\ now < MaxNow
  /\ now' = now + 1
  /\ whole' = (whole /\ ~AgesAt(now + 1))
  /\ UNCHANGED <<stored, isOpen, answer, got>>

Next ==
  \/ \E r \in Record : Create(r) \/ DeleteEvent(r)
  \/ \E caller \in Caller, where \in Where, page, size \in Ask \cup {Missing} :
       Request(caller, where, page, size)
  \/ \E conds \in Conditions, where \in Where, logic \in {"and", "or"}, page, size \in Ask :
       ApplyFilters(where, conds, logic, page, size)
  \/ \E conds \in Conditions, range \in TimeRange, offset, limit \in Ask :
       ExecuteQuery(range, conds, offset, limit)
  \/ ReadOn
  \/ Finish
  \/ Close
  \/ Tick

Spec == Init /\ [][Next]_vars

-------------------------------------------------------------------------------
(* Properties *)

\* The query as the listing endpoints mean it: a page that is there to ask for, of
\* a size they accept, within the width of int. A filtered query is not meant to bring
\* the total.
Proper(caller, q) ==
  IF caller = "query"
  THEN /\ answer.conds = <<>>
       /\ q.offset >= 0 /\ q.offset + LimitOf(q) <= MaxInt
  ELSE /\ q.page >= 1 /\ q.page * q.size <= MaxInt
       /\ q.size \in 1..MaxPageSize[caller]

\* A client that reads a listing from page 1 (or offset 0) for as long as has_more
\* says so has received exactly as many rows as the total when it stops; and every page
\* that has more behind it brings rows, so it stops. That is, as long as the store does
\* not change meanwhile and, for a query, whose time range follows the clock, no event
\* comes into the range or falls out of it. (Which rows is another matter: every call
\* walks the map in a new order.)
ReadsOnToTheTotal ==
  answer # NoAnswer /\ answer.caller \in {"events", "sessions", "query"}
    /\ whole /\ answer.status = "rows" /\ Proper(answer.caller, answer.query) =>
      IF answer.more
      THEN answer.rows # {} /\ got < answer.total
      ELSE got = answer.total

\* A listing endpoint or a query panics only when the page's start or end exceeds int:
\* validation leaves no other page or size for the store to stumble over, and no
\* offset makes a page below 1.
ValidatedNeverPanics ==
  answer # NoAnswer /\ answer.status = "panic" =>
    /\ answer.caller \in {"events", "sessions"} =>
         LET q == Validated(answer.caller, answer.query)
         IN q.page * q.size > MaxInt
    /\ answer.caller = "query" => answer.query.offset + LimitOf(answer.query) > MaxInt

\* An export of the first page that does not fail holds every match, unless the client
\* asked for fewer records: the server's limit is never met by dropping records. A
\* client that names no size gets a page of the default size, though, as if it had listed
\* the events, and nothing tells it that there are more.
ExportCutOnlyBySize ==
  answer # NoAnswer /\ answer.caller = "export" /\ answer.status = "rows"
    /\ answer.query.page = 1 =>
      LET asked == answer.query.asked
      IN /\ asked = Missing =>
              Cardinality(answer.rows) = Min({DefaultPageSize, answer.total})
         /\ asked # Missing /\ asked \notin 1..(answer.total - 1) =>
              Cardinality(answer.rows) = answer.total

\* The counts by type that the statistics show agree with the listings of the same
\* type and time range, and add up to the listing of all types.
CountsAgree ==
  \A where \in Where :
    LET listed(type) == [where EXCEPT !.field = [f \in Field |-> IF f = "type" THEN type ELSE Unset]]
        all == listed(Unset)
    IN /\ \A type \in Value : EventCountByType(type, where) = Cardinality(Matching(listed(type)))
       /\ MapThenSumSet(LAMBDA type : EventCountByType(type, where), Value)
            = Cardinality(Matching(all))

\* The events that a filter request is about.
Wanted(q, conds, logic) ==
  {r \in stored : InRange(r, q) /\ matchesAllConditions(r, conds, logic)}

CoversAll(q) == q.page = 1 /\ q.size \in Cardinality(stored)..MaxInt

\* Neither way of filtering loses an event. ApplyFilters' copying of conditions into
\* the store's query does not when all of them must hold and those on copied fields
\* are equalities; and ExecuteQuery, with its own reading of conditions, finds what
\* ApplyFilters' conditions mean, for the operators that both know.
FiltersLoseNothing ==
  answer # NoAnswer /\ answer.caller \in {"filter", "query"} /\ answer.status = "rows" /\ whole =>
    IF answer.caller = "filter"
    THEN /\ CoversAll(answer.query) /\ answer.logic = "and"
         /\ \A i \in DOMAIN answer.conds :
              answer.conds[i].dim \in Pushed => answer.conds[i].op \in {"eq", "in"}
         => answer.rows = Wanted(answer.query, answer.conds, answer.logic)
    ELSE /\ answer.query.offset = 0 /\ LimitOf(answer.query) >= Cardinality(stored)
         /\ \A i \in DOMAIN answer.conds :
              /\ answer.conds[i].dim \in Compared /\ answer.conds[i].value # NotString
              /\ answer.conds[i].op \in {"eq", "neq", "contains"}
         => answer.rows = Wanted(answer.query, answer.conds, "and")

\* What ApplyFilters' documentation says: it returns the matching results.
FilterReturnsMatches ==
  answer # NoAnswer /\ answer.caller = "filter" /\ answer.status = "rows"
    /\ whole /\ CoversAll(answer.query) =>
      answer.rows = Wanted(answer.query, answer.conds, answer.logic)

\* What GetEventStats' documentation says, and that of the other services that make
\* their own query: the analysis returns.
AnalysesReturn ==
  answer # NoAnswer /\ answer.caller = "analysis" => answer.status # "panic"
===============================================================================
