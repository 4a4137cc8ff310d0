-------------------------------- MODULE Analyses --------------------------------
(***************************************************************************)
(* Analyses: what the services compute from the rows that the store        *)
(* returns: conversion rates, paths and their statistics, and recent       *)
(* events.  They keep no state.  Counts are in module Statistics.          *)
(*                                                                         *)
(* The one variable is a listing, as events come and go.  Since the store  *)
(* returns events in no particular order, every order is a state, and a    *)
(* sort that leaves equal elements in any order (sort.Slice) can be taken  *)
(* to be stable.  A session is its user.                                   *)
(*                                                                         *)
(* The services ask for their listing with no page, which ends in a panic  *)
(* (module Listings); what is checked here is what they compute from the   *)
(* listing that page 1 gives.                                              *)
(***************************************************************************)
EXTENDS Integers, SequencesExt

CONSTANTS User,
          Page,
          Device, Country, \* NoString among them: left empty
          NoString,
          Event,           \* bound: the events that are created
          MaxEvents,       \* bound: length of the listing
          Second,          \* one second, in the unit of the events' time
          MaxPathLength,   \* config.Store.MaxPathLength, 100
          Hour,            \* one hour, likewise
          Goal,            \* bound: <<start page, end page>> of conversion queries
          Funnel,          \* bound: the pages of coverage queries
          Period           \* bound: <<start, end>> of queries; 0 is the zero time, no limit

\* EventType
EventTypes == <<"page_view", "click", "duration", "conversion", "custom">>

ASSUME AnalysesAssumption ==
  /\ Event \subseteq [user : User, type : ToSet(EventTypes), page : Page, time : Nat \ {0},
                      device : Device, country : Country, duration : Nat]
  /\ {NoString, " ", "->"} \cap Page = {}
  /\ IsFiniteSet(User)
  /\ {MaxEvents, Second, MaxPathLength, Hour} \subseteq Nat \ {0}
  /\ Goal \subseteq Page \X Page
  /\ Period \subseteq Nat \X Nat
  /\ Funnel \subseteq Seq(Page) \ {<<>>}

VARIABLE listing

Init == listing = <<>>

\* An event was created, or one was deleted, between two requests.
Create(e) == /\ Len(listing) < MaxEvents
             /\ listing' = Append(listing, e)

Delete(i) == listing' = RemoveAt(listing, i)

Next == \/ \E e \in Event : Create(e)
        \/ \E i \in DOMAIN listing : Delete(i)

Spec == Init /\ [][Next]_listing

IsView(e) == e.type = "page_view"

\* A query's range, of events and of paths.
InPeriod(t, period) ==
  /\ period[1] = 0 \/ t >= period[1]
  /\ period[2] = 0 \/ t <= period[2]

\* What s has of S, in the order of s.
Selected(s, S) ==
  FoldLeft(LAMBDA chosen, x : IF x \in S THEN Append(chosen, x) ELSE chosen, <<>>, s)

EventsOf(u) == Selected(listing, {e \in Event : e.user = u})

ViewsOf(u) == Selected(EventsOf(u), {e \in Event : IsView(e)})

\* x is put into s behind the last of the places I.
InsertBehind(s, I, x) == InsertAt(s, Max({0} \cup I) + 1, x)

SumOver(S, f(_)) == SumFunction([x \in S |-> f(x)])

\* Go's integer division, which cuts towards zero.
Quotient(n, d) == IF n >= 0 THEN n \div d ELSE -((-n) \div d)

-------------------------------------------------------------------------------
(* Conversions: CalculateConversionRate. *)

\* The first event of u on page p less than a second from t gives the time to
\* convert that is added.
TimeNear(u, p, t) ==
  LET near == {i \in DOMAIN listing :
                 /\ listing[i].user = u /\ listing[i].page = p
                 /\ listing[i].time \in (t - Second + 1)..(t + Second - 1)}
  IN IF near = {} THEN 0 ELSE listing[Min(near)].time - t

\* Mutant: the end page counts without the start page.
ScanAnyEnd(u, goal) ==
  LET pages == ViewsOf(u)
      Look(s, i) ==
        LET begun == IF pages[i].page # goal[1] THEN s
                     ELSE [s EXCEPT !.visits = @ + 1, !.start = listing[i].time]
        IN IF pages[i].page = goal[2] /\ ~begun.converted
           THEN [begun EXCEPT !.converted = TRUE, !.time = TimeNear(u, goal[1], begun.start)]
           ELSE begun
  IN FoldLeftDomain(Look, [visits |-> 0, start |-> 0, converted |-> FALSE, time |-> 0], pages)

\* One user's pages in the order of the listing. The time of the start page is taken
\* from the listing at the index that the page has among the user's own pages.
Scan(u, goal) ==
  LET pages == ViewsOf(u)
      Look(s, i) ==
        LET begun == IF pages[i].page # goal[1] THEN s
                     ELSE [s EXCEPT !.visits = @ + 1, !.start = listing[i].time]
        IN IF begun.visits > 0 /\ pages[i].page = goal[2] /\ ~begun.converted
           THEN [begun EXCEPT !.converted = TRUE, !.time = TimeNear(u, goal[1], begun.start)]
           ELSE begun
  IN FoldLeftDomain(Look, [visits |-> 0, start |-> 0, converted |-> FALSE, time |-> 0], pages)

CalculateConversionRate(goal) ==
  LET scan == [u \in User |-> Scan(u, goal)]
      visitors  == SumOver(User, LAMBDA u : scan[u].visits)
      converted == Cardinality({u \in User : scan[u].converted})
  IN [visitors  |-> visitors,
      converted |-> converted,
      dropOff   |-> IF visitors > 0 THEN visitors - converted ELSE 0,
      avgTime   |-> IF converted > 0
                    THEN Quotient(SumOver(User, LAMBDA u : scan[u].time), converted) ELSE 0]

-------------------------------------------------------------------------------
(* Paths: ComputePathSequence, ComputePathCoverage, PathStats. *)

\* Mutant: the events stay in the order of the listing.
PathUnsorted(u) ==
  SubSeq(ViewsOf(u), 1, Min({MaxPathLength, Len(ViewsOf(u))}))

\* sort.Slice, with events of one time in their order in the listing.
InsertByTime(sorted, e) ==
  InsertBehind(sorted, {i \in DOMAIN sorted : sorted[i].time <= e.time}, e)

ByTime(events) == FoldLeft(InsertByTime, <<>>, events)

\* The path of u's session: its page views by time, until the path is full.
PathOf(u) ==
  LET Visit(path, e) ==
        IF Len(path) >= MaxPathLength \/ ~IsView(e) THEN path ELSE Append(path, e)
  IN FoldLeft(Visit, <<>>, ByTime(EventsOf(u)))

ToURLSequence(path) == [i \in DOMAIN path |-> path[i].page]

\* An empty path keeps the zero time.
StartTime(path) == IF path = <<>> THEN 0 ELSE Head(path).time
EndTime(path) == IF path = <<>> THEN 0 ELSE Last(path).time

ComputeDuration(path) == EndTime(path) - StartTime(path)

StartsWithPage(path, p) == path # <<>> /\ Head(path).page = p
EndsWithPage(path, p) == path # <<>> /\ Last(path).page = p

\* ListPaths' conditions. A device is that of an event of the user's, of any session,
\* less than an hour from the path. (The zero time of an empty path is near no event.)
PathMatches(u, q) ==
  LET path == PathOf(u)
  IN /\ InPeriod(StartTime(path), q.period)
     /\ q.minLength <= 0 \/ Len(path) >= q.minLength
     /\ q.maxLength <= 0 \/ Len(path) <= q.maxLength
     /\ q.startPage # NoString => StartsWithPage(path, q.startPage)
     /\ q.endPage # NoString => EndsWithPage(path, q.endPage)
     /\ q.device # NoString =>
          \E e \in ToSet(EventsOf(u)) :
            /\ path # <<>> /\ e.device = q.device
            /\ e.time \in (StartTime(path) - Hour + 1)..(EndTime(path) + Hour - 1)

\* The paths that match, in the order in which the map gives all of them, walk; it
\* stops at the limit.
ListPaths(walk, q) ==
  LET matching == Selected(walk, {u \in User : PathMatches(u, q)})
  IN IF q.limit > 0 /\ Len(matching) >= q.limit THEN SubSeq(matching, 1, q.limit) ELSE matching

\* PathQuery.Validate, of a query that it does not refuse (MaxLength below MinLength)
ValidatedPaths(q) ==
  [q EXCEPT !.limit = IF @ \in 1..500 THEN @ ELSE 20,
            !.minLength = IF @ < 0 THEN 0 ELSE @]

\* A path string is a sequence of pages, " " and "->"; a step of it is what stands
\* between two arrows, less one space at each end, and what is left at the end as it is.
parsePathString(text) ==
  LET TrimEnd(s)   == IF s # <<>> /\ Last(s) = " " THEN Front(s) ELSE s
      TrimStart(s) == IF s # <<>> /\ Head(s) = " " THEN Tail(s) ELSE s
      Read(p, c) == IF c = "->"
                    THEN [steps |-> Append(p.steps, TrimStart(TrimEnd(p.current))), current |-> <<>>]
                    ELSE [p EXCEPT !.current = Append(@, c)]
      read == FoldLeft(Read, [steps |-> <<>>, current |-> <<>>], text)
  IN IF read.current = <<>> THEN read.steps ELSE Append(read.steps, read.current)

\* Mutant: a path counts again at a step it reached after one it missed.
StepsReachedApart(path, steps) ==
  {i \in DOMAIN steps : \E p \in ToSet(ToURLSequence(path)) : steps[i] = <<p>>}

\* The steps at which a path counts: it is on each page, and missed none before.
StepsReached(path, steps) ==
  LET pages == ToSet(ToURLSequence(path))
      Reach(s, i) ==
        IF s.matched /\ \E p \in pages : steps[i] = <<p>>
        THEN [s EXCEPT !.at = @ \cup {i}]
        ELSE [s EXCEPT !.matched = FALSE]
  IN FoldLeftDomain(Reach, [matched |-> TRUE, at |-> {}], steps).at

\* A query with no more than its dates.
PathsIn(period) ==
  [period |-> period, minLength |-> 0, maxLength |-> 0, startPage |-> NoString,
   endPage |-> NoString, device |-> NoString, limit |-> 0]

ComputePathCoverage(walk, text, period) ==
  LET steps == parsePathString(text)
      paths == ListPaths(walk, PathsIn(period))
  IN [i \in DOMAIN steps |->
        Cardinality({j \in DOMAIN paths : i \in StepsReached(PathOf(paths[j]), steps)})]

\* Mutant: ascending.
InsertAscending(sorted, row) ==
  InsertBehind(sorted, {i \in DOMAIN sorted : sorted[i].visits <= row.visits}, row)

\* One round of sortPathStatsByCount: the row goes behind the last one that has as
\* many visits.
Insert(sorted, row) ==
  InsertBehind(sorted, {i \in DOMAIN sorted : sorted[i].visits >= row.visits}, row)

PathsLike(urls) == {u \in User : ToURLSequence(PathOf(u)) = urls}

\* One row for every pattern of pages.
Patterns ==
  {[path   |-> urls,
    visits |-> Cardinality(PathsLike(urls)),
    time   |-> SumOver(PathsLike(urls), LAMBDA u : ComputeDuration(PathOf(u)))]
   : urls \in {ToURLSequence(PathOf(u)) : u \in User}}

\* The patterns in the order in which the map gave them, sorted and cut.
PathStats(rows, limit) ==
  LET sorted == FoldLeft(Insert, <<>>, rows)
  IN IF limit > 0 /\ Len(sorted) > limit THEN SubSeq(sorted, 1, limit) ELSE sorted

-------------------------------------------------------------------------------
(* RecentEvents. *)

\* The first of the oldest.
Oldest(recent) ==
  Min({i \in DOMAIN recent : \A j \in DOMAIN recent : recent[i].time <= recent[j].time})

\* Read from the user's index, which may have an event twice, or one that was deleted
\* (IndexBound of module EventService). limit is positive; with limit 0 the code looks at
\* an oldest event that is not there.
RecentEvents(index, limit) ==
  LET Keep(recent, e) ==
        IF Len(recent) < limit THEN Append(recent, e)
        ELSE IF e.time > recent[Oldest(recent)].time THEN [recent EXCEPT ![Oldest(recent)] = e]
        ELSE recent
  IN FoldLeft(Keep, <<>>, index)

-------------------------------------------------------------------------------
(* Properties *)

\* The scan counts as converted exactly the users who saw the end page at or after a
\* start page in the listing, so never more than it counts visits. And whatever event
\* the wrong index picks, the average time to convert stays below one second in either
\* direction: an event further away is not added.
ConversionsAddUp ==
  \A goal \in Goal :
    LET result == CalculateConversionRate(goal)
        Converted(u) == LET pages == ViewsOf(u)
                        IN \E i, j \in DOMAIN pages :
                             i <= j /\ pages[i].page = goal[1] /\ pages[j].page = goal[2]
    IN /\ result.converted = Cardinality({u \in User : Converted(u)})
       /\ result.dropOff >= 0
       /\ result.avgTime \in (1 - Second)..(Second - 1)

\* A path runs forward in time, is no longer than allowed and leaves out no page view
\* earlier than one it holds, so its duration is not negative.
PathsRunForward ==
  \A u \in User :
    LET path  == PathOf(u)
        views == ViewsOf(u)
    IN /\ \A i, j \in DOMAIN path : i < j => path[i].time <= path[j].time
       /\ Len(path) = Min({MaxPathLength, Len(views)})
       /\ path # <<>> =>
            Cardinality({i \in DOMAIN views : views[i].time < Last(path).time})
              < Len(path)

\* A funnel's pages as a path string: with the bare arrow, and as parsePathString's
\* documentation writes it, with a space on either side.
Bare(funnel) ==
  [k \in 1..(2 * Len(funnel) - 1) |-> IF k % 2 = 1 THEN funnel[(k + 1) \div 2] ELSE "->"]

Documented(funnel) ==
  [k \in 1..(4 * Len(funnel) - 3) |->
     IF k % 4 = 1 THEN funnel[(k + 3) \div 4] ELSE IF k % 4 = 3 THEN "->" ELSE " "]

\* The funnel never widens: a step counts the paths of the period that have its page and
\* all before. That is so of a path string with bare arrows; of one in the documented
\* format, the last step of several counts none, for its space is left on.
\* The listing that it reads can be searched: a path is found under one
\* start page, one end page, and the device of every view in it; and a listing that is
\* cut is as long as allowed, in whatever order the map gives the paths.
FunnelNarrows ==
  \A period \in Period :
    LET walk  == SetToSeq(User)
        asked == PathsIn(period)
        path  == [u \in User |-> PathOf(u)]
        begun == {u \in User : InPeriod(StartTime(path[u]), period) /\ path[u] # <<>>}
        Found(q)  == ToSet(ListPaths(walk, q))
        starting  == [p \in Page |-> Found([asked EXCEPT !.startPage = p])]
        ending    == [p \in Page |-> Found([asked EXCEPT !.endPage = p])]
        on        == [d \in Device |-> Found([asked EXCEPT !.device = d])]
    IN /\ \A funnel \in Funnel :
            LET HasAll(u, i) == \A j \in 1..i : \E k \in DOMAIN path[u] : path[u][k].page = funnel[j]
                reached == [i \in DOMAIN funnel |-> Cardinality({u \in begun : HasAll(u, i)})]
            IN /\ ComputePathCoverage(walk, Bare(funnel), period) = reached
               /\ ComputePathCoverage(walk, Documented(funnel), period)
                    = [i \in DOMAIN funnel |-> IF i = Len(funnel) /\ i > 1 THEN 0 ELSE reached[i]]
       /\ \A u \in begun :
            /\ Cardinality({p \in Page : u \in starting[p]}) = 1
            /\ Cardinality({p \in Page : u \in ending[p]}) = 1
            /\ \A i \in DOMAIN path[u] : u \in on[path[u][i].device]
       /\ \A order \in SetToSeqs(User), limit \in {1, 2} :
            LET shown == ListPaths(order, ValidatedPaths([asked EXCEPT !.limit = limit,
                                                                       !.minLength = 1]))
            IN ToSet(shown) \subseteq begun /\ Len(shown) = Min({limit, Cardinality(begun)})
===============================================================================
