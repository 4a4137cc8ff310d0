------------------------------- MODULE Statistics -------------------------------
(***************************************************************************)
(* Statistics: the counts that the services make of the listing of module  *)
(* Analyses (internal/service/stats_service.go, aggregation_service.go,    *)
(* and parts of event_service.go, path_service.go, dimension_service.go),  *)
(* and internal/store/stats_store.go, which has most of them once more.    *)
(*                                                                         *)
(* Most make one call to the store, and are functions of the listing.      *)
(* Some make several, with the lock released between them: such a request  *)
(* is a sequence of questions that the store answers one at a time, while  *)
(* events come and go.                                                     *)
(*                                                                         *)
(* An average or a percentage is a fraction <<n, d>>, and 0 is <<0, 1>>.   *)
(***************************************************************************)
EXTENDS Analyses

CONSTANTS hourOf, dayOf,  \* the hour of the day, and the day, of each instant
          Today,          \* the period of the day of the requests
          Periods,        \* bound: <<period, period>> of comparisons
          MaxIndex,       \* bound: length of a user's index
          MaxCounted,     \* bound: length of the listing while a request is under way
          MaxChanges      \* bound: events created and deleted meanwhile

ASSUME StatisticsAssumption ==
  /\ \A e \in Event : hourOf[e.time] \in 0..23 /\ dayOf[e.time] \in Nat
  /\ Today \in Nat \X Nat
  /\ Periods \subseteq Period \X Period
  /\ {MaxIndex, MaxCounted, MaxChanges} \subseteq Nat

VARIABLE request   \* [name, plan, got]: questions, and answers so far; as history,
                   \* the events created and deleted meanwhile

statsVars == <<listing, request>>

NoRequest == [name |-> "none"]

-------------------------------------------------------------------------------
(* Rows are positions in the listing. *)

Always == <<0, 0>>

RowsIn(period) == {i \in DOMAIN listing : InPeriod(listing[i].time, period)}

RowsOf(type, period) == {i \in RowsIn(period) : listing[i].type = type}

Users(S) == {listing[i].user : i \in S}
PagesOn(S) == {listing[i].page : i \in S}

\* The rows of S under each value of key.
Group(S, key(_)) == [v \in {key(i) : i \in S} |-> {i \in S : key(i) = v}]

TimeSpent(S) == SumOver(S, LAMBDA i : listing[i].duration)

Fraction(n, d) == IF d > 0 THEN <<n, d>> ELSE <<0, 1>>

EventCountByType(type, period) == Cardinality(RowsOf(type, period))

UniqueUsersCount(period) == Cardinality(Users(RowsIn(period)))

-------------------------------------------------------------------------------
(* Requests of one call to the store. *)

OnPage(i) == listing[i].page

\* One row for every page that was viewed.
PageRows(period) ==
  LET views == Group(RowsOf("page_view", period), OnPage)
  IN {[page        |-> p,
       visits      |-> Cardinality(views[p]),
       users       |-> Cardinality(Users(views[p])),
       avgDuration |-> Fraction(TimeSpent(views[p]), Cardinality(views[p]))]
      : p \in DOMAIN views}

\* The rows by visits, in some order of the map, cut at the limit, which is not
\* negative (a slice panics then); 0 rows are shown of limit 0.
GetPageStats(rows, limit) ==
  LET sorted == FoldLeft(Insert, <<>>, rows)
  IN IF Len(sorted) > limit THEN SubSeq(sorted, 1, limit) ELSE sorted

\* The same, where 20 stand for no limit.
GetPopularPages(rows, limit) == GetPageStats(rows, IF limit <= 0 THEN 20 ELSE limit)

\* The average of the duration events of each page that has any.
GetAverageDuration(period) ==
  LET stays == Group(RowsOf("duration", period), OnPage)
  IN [p \in DOMAIN stays |-> Fraction(TimeSpent(stays[p]), Cardinality(stays[p]))]

\* The same of StatsStore.
GetPageDurationStats(period) == GetAverageDuration(period)

DeviceOf(i) == IF listing[i].device = NoString THEN "other" ELSE listing[i].device

TypeOf(i) == listing[i].type

\* Counts by device, and by type under each.
GetDeviceBreakdown(period) ==
  LET rows == Group(RowsIn(period), DeviceOf)
  IN [d \in DOMAIN rows |->
        LET types == Group(rows[d], TypeOf)
        IN [t \in DOMAIN types |-> Cardinality(types[t])]]

\* Those of StatsStore are by device only.
GetDeviceTypeCounts(period) ==
  LET rows == Group(RowsIn(period), DeviceOf) IN [d \in DOMAIN rows |-> Cardinality(rows[d])]

HourOf(i) == hourOf[listing[i].time]

\* Page views by the hour of the day, every hour shown.
GetHourlyDistribution(period) ==
  [h \in 0..23 |-> Cardinality({i \in RowsOf("page_view", period) : HourOf(i) = h})]

\* The same of StatsStore.
GetHourlyCounts(period) == GetHourlyDistribution(period)

sumHourly(hourly) == SumOver(DOMAIN hourly, LAMBDA h : hourly[h])

\* All events by hour, with the views and the clicks among them.
GetHourlyAggregation(period) ==
  [h \in 0..23 |->
     LET Count(S) == Cardinality({i \in S : HourOf(i) = h})
     IN [events    |-> Count(RowsIn(period)),
         pageViews |-> Count(RowsOf("page_view", period)),
         clicks    |-> Count(RowsOf("click", period))]]

\* The days that have events. The average divides the duration of all of them by the
\* number of page views.
GetDailyAggregation(period) ==
  LET rows == Group(RowsIn(period), LAMBDA i : dayOf[listing[i].time])
  IN [d \in DOMAIN rows |->
        LET views == Cardinality(rows[d] \cap RowsOf("page_view", period))
        IN [pageViews   |-> views,
            users       |-> Cardinality(Users(rows[d])),
            avgDuration |-> Fraction(TimeSpent(rows[d]), views)]]

OrUnknown(s) == IF s = NoString THEN "unknown" ELSE s

CountryOf(i) == OrUnknown(listing[i].country)

\* The count and the number of users of every country.
GetCountryBreakdown(period) ==
  LET rows == Group(RowsIn(period), CountryOf)
  IN [v \in DOMAIN rows |->
        [count   |-> Cardinality(rows[v]),
         percent |-> Fraction(100 * Cardinality(rows[v]), Cardinality(RowsIn(period))),
         users   |-> Cardinality(Users(rows[v]))]]

\* Those of StatsStore are counts only.
GetCountryCounts(period) ==
  LET rows == Group(RowsIn(period), CountryOf) IN [v \in DOMAIN rows |-> Cardinality(rows[v])]

\* os and browser are left out; of a dimension that is no field of events, all values
\* are unknown.
ValueOf(dim, i) ==
  CASE dim = "page"    -> OrUnknown(listing[i].page)
    [] dim = "country" -> OrUnknown(listing[i].country)
    [] dim = "device"  -> OrUnknown(listing[i].device)
    [] OTHER           -> "unknown"

\* Mutant: a value is counted once for each user.
BreakdownByUser(dim, period) ==
  LET rows == Group(RowsIn(period), LAMBDA i : ValueOf(dim, i))
  IN [v \in DOMAIN rows |->
        [count   |-> Cardinality(Users(rows[v])),
         percent |-> Fraction(100 * Cardinality(rows[v]), Cardinality(RowsIn(period))),
         users   |-> Cardinality(Users(rows[v]))]]

GetDimensionBreakdown(dim, period) ==
  LET rows == Group(RowsIn(period), LAMBDA i : ValueOf(dim, i))
  IN [v \in DOMAIN rows |->
        [count   |-> Cardinality(rows[v]),
         percent |-> Fraction(100 * Cardinality(rows[v]), Cardinality(RowsIn(period))),
         users   |-> Cardinality(Users(rows[v]))]]

-------------------------------------------------------------------------------
(* Requests of several calls. *)

\* What the store is asked. Type "" is asked for by GetOverallStats; no event has it.
Count(type, period) == [ask |-> "count", type |-> type, period |-> period]
CountUsers(period)  == [ask |-> "users", period |-> period]
ListOf(type)        == [ask |-> "list", type |-> type]
Breakdown(period)   == [ask |-> "breakdown", period |-> period]

\* A list is answered by what GetEventStats makes of it: users, pages (no URL is
\* empty) and the total duration.
AnswerTo(q) ==
  CASE q.ask = "count"     -> EventCountByType(q.type, q.period)
    [] q.ask = "users"     -> UniqueUsersCount(q.period)
    [] q.ask = "list"      -> LET S == RowsOf(q.type, Always)
                              IN [users    |-> Cardinality(Users(S)),
                                  pages    |-> Cardinality(PagesOn(S)),
                                  duration |-> TimeSpent(S)]
    [] q.ask = "breakdown" -> GetDimensionBreakdown("page", q.period)

\* Mutant: custom events are left out, as GetEventDistribution leaves them out.
BreakdownWithoutCustom ==
  [i \in 1..4 |-> Count(EventTypes[i], Always)]

GetEventBreakdown == [i \in DOMAIN EventTypes |-> Count(EventTypes[i], Always)]

\* The same of StatsStore.
GetEventCountsByType == GetEventBreakdown

\* The counts, and the listing that the rest is computed from.
GetEventStats ==
  [i \in 1..(2 * Len(EventTypes)) |->
     LET type == EventTypes[(i + 1) \div 2]
     IN IF i % 2 = 1 THEN Count(type, Always) ELSE ListOf(type)]

\* The percentages of all types but the custom one, of the total without it.
GetEventDistribution == [i \in 1..4 |-> Count(EventTypes[i], Always)]

\* After the active sessions (module Sessions): all events and users, and today's.
GetOverallStats ==
  <<Count("", Always), CountUsers(Always), Count("", Today), CountUsers(Today)>>

\* The breakdown of two periods.
CompareDimensions(periods) == <<Breakdown(periods[1]), Breakdown(periods[2])>>

\* The changes, in percent, of the values that both have.
Changes(b1, b2) ==
  [v \in DOMAIN b1 \cap DOMAIN b2 |->
     Fraction(100 * (b2[v].count - b1[v].count), b1[v].count)]

Plans ==
  {<<"breakdown", GetEventBreakdown>>, <<"breakdown", GetEventCountsByType>>, <<"stats", GetEventStats>>,
   <<"distribution", GetEventDistribution>>, <<"overall", GetOverallStats>>}
  \cup {<<"compare", CompareDimensions(periods)>> : periods \in Periods}

Begin(name, plan) ==
  /\ request = NoRequest /\ Len(listing) <= MaxCounted
  /\ request' = [name |-> name, plan |-> plan, got |-> <<>>, created |-> 0, deleted |-> 0]
  /\ UNCHANGED listing

Complete == Len(request.got) = Len(request.plan)

\* The next question, with the read lock held.
Ask ==
  /\ request # NoRequest /\ ~Complete
  /\ request' = [request EXCEPT !.got = Append(@, AnswerTo(request.plan[Len(@) + 1]))]
  /\ UNCHANGED listing

Answer ==
  /\ request # NoRequest /\ Complete
  /\ request' = NoRequest
  /\ UNCHANGED listing

\* An event is created or deleted, by a request of its own.
Change ==
  /\ Next
  /\ IF request = NoRequest THEN UNCHANGED request
     ELSE /\ request.created + request.deleted < MaxChanges /\ Len(listing') <= MaxCounted
          /\ IF Len(listing') > Len(listing)
             THEN request' = [request EXCEPT !.created = @ + 1]
             ELSE request' = [request EXCEPT !.deleted = @ + 1]

StatsInit == Init /\ request = NoRequest

StatsNext ==
  \/ \E plan \in Plans : Begin(plan[1], plan[2])
  \/ Ask \/ Answer
  \/ Change

StatsSpec == StatsInit /\ [][StatsNext]_statsVars

-------------------------------------------------------------------------------
(* Properties *)

Falling(shown) ==
  \A i, j \in DOMAIN shown : i < j => shown[i] # shown[j] /\ shown[i].visits >= shown[j].visits

\* What the store's index of u may be, by IndexBound of module EventService: an event
\* that is listed is there once or twice, and a deleted one may be there, as row 0.
Indexes(u) ==
  LET rows  == {i \in DOMAIN listing : listing[i].user = u}
      entry == {[row |-> i, time |-> listing[i].time] : i \in rows}
      stale == {[row |-> 0, time |-> e.time] : e \in {e \in Event : e.user = u}}
  IN {index \in SeqOf(entry \cup stale, MaxIndex) :
        \A i \in rows : Cardinality({k \in DOMAIN index : index[k].row = i}) \in 1..2}

\* What a cut list leaves out is no better than what it shows. Hot paths and pages
\* fall in visits, for every order of the map and every limit; together the hot paths'
\* rows count every path once. RecentEvents gives as many entries of the user's index as
\* asked for, and none that it leaves out is later than one that it gives: so an event
\* that it does not show is no later than those it shows. But an event may be shown
\* twice, in the place of another, and a deleted one may be shown.
TopIsTop ==
  request = NoRequest =>
    /\ SumOver(Patterns, LAMBDA row : row.visits) = Cardinality(User)
    /\ \A limit \in 0..2 :
         LET IsTop(shown, all, most) ==
               /\ Len(shown) = Min({most, Cardinality(all)})
               /\ Falling(shown)
               /\ \A row \in all \ ToSet(shown), i \in DOMAIN shown : row.visits <= shown[i].visits
         IN /\ \A rows \in SetToSeqs(Patterns) :
                 IsTop(PathStats(rows, limit), Patterns, IF limit = 0 THEN Len(rows) ELSE limit)
            /\ \A rows \in SetToSeqs(PageRows(Always)) :
                 /\ IsTop(GetPageStats(rows, limit), PageRows(Always), limit)
                 /\ IsTop(GetPopularPages(rows, limit), PageRows(Always),
                          IF limit = 0 THEN 20 ELSE limit)
    /\ \A u \in User, limit \in 1..2 : \A index \in Indexes(u) :
         LET recent == RecentEvents(index, limit)
             Times(x, entries) == Cardinality({k \in DOMAIN entries : entries[k] = x})
         IN /\ Len(recent) = Min({limit, Len(index)})
            /\ \A x \in ToSet(index) :
                 /\ Times(x, recent) <= Times(x, index)
                 /\ Times(x, recent) < Times(x, index) =>
                      \A k \in DOMAIN recent : x.time <= recent[k].time
            /\ \A i \in DOMAIN listing : listing[i].user = u =>
                 LET shown == {k \in DOMAIN recent : recent[k].row = i}
                 IN /\ Cardinality(shown) <= 2
                    /\ shown = {} => \A k \in DOMAIN recent : listing[i].time <= recent[k].time

\* The services count the same events in different ways and agree. In every period,
\* page views are the same in number by type, page, hour and day; the breakdowns by
\* dimension, country, device and hour hold every event once, and each value no more
\* users than events; no user of the period is missing from the days; averages are over
\* every duration event.
CountsAddUp ==
  request = NoRequest => \A period \in Period :
    LET all    == Cardinality(RowsIn(period))
        views  == EventCountByType("page_view", period)
        pages  == PageRows(period)
        hours  == GetHourlyAggregation(period)
        days   == GetDailyAggregation(period)
        device == GetDeviceBreakdown(period)
    IN /\ SumOver(pages, LAMBDA row : row.visits) = views
       /\ sumHourly(GetHourlyDistribution(period)) = views
       /\ SumOver(0..23, LAMBDA h : hours[h].pageViews) = views
       /\ SumOver(0..23, LAMBDA h : hours[h].events) = all
       /\ \A h \in 0..23 : hours[h].pageViews + hours[h].clicks <= hours[h].events
       /\ SumOver(DOMAIN days, LAMBDA d : days[d].pageViews) = views
       /\ SumOver(DOMAIN days, LAMBDA d : days[d].users) \in UniqueUsersCount(period)..all
       /\ \A type \in ToSet(EventTypes) :
            SumOver({d \in DOMAIN device : type \in DOMAIN device[d]},
                    LAMBDA d : device[d][type]) = EventCountByType(type, period)
       /\ GetDeviceTypeCounts(period) =
            [d \in DOMAIN device |-> SumOver(DOMAIN device[d], LAMBDA t : device[d][t])]
       /\ SumOver(DOMAIN GetAverageDuration(period), LAMBDA p : GetAverageDuration(period)[p][2])
            = EventCountByType("duration", period)
       /\ GetCountryBreakdown(period) = GetDimensionBreakdown("country", period)
       /\ \A v \in DOMAIN GetCountryCounts(period) :
            GetCountryCounts(period)[v] = GetCountryBreakdown(period)[v].count
       /\ \A dim \in {"page", "country", "device", "user_type"} :
            LET b == GetDimensionBreakdown(dim, period)
            IN /\ SumOver(DOMAIN b, LAMBDA v : b[v].count) = all
               /\ SumOver(DOMAIN b, LAMBDA v : b[v].percent[1]) = 100 * all
               /\ \A v \in DOMAIN b : b[v].users \in 1..b[v].count

\* Period p is part of period q.
Within(p, q) ==
  /\ q[1] = 0 \/ (p[1] # 0 /\ q[1] <= p[1])
  /\ q[2] = 0 \/ (p[2] # 0 /\ p[2] <= q[2])

\* What a request of several calls puts together is off by no more than what came and
\* went while it ran, and so is exact when nothing did: the counts by type add up to
\* the events there are (the distribution's to those that are not custom), a type has
\* no more users and pages than events, today no more users than all days, and a
\* period no more events of a value than one that it is part of and compared to.
RequestsAddUp ==
  request # NoRequest /\ Complete =>
    LET got  == request.got
        came == request.created
        gone == request.deleted
        Near(n) == SumFunction(got) \in (n - came)..(n + gone)
        custom == EventCountByType("custom", Always)
    IN CASE request.name = "breakdown"    -> Near(Len(listing))
         [] request.name = "distribution" -> Near(Len(listing) - custom)
         [] request.name = "stats"        ->
              \A i \in DOMAIN EventTypes :
                LET count == got[2 * i - 1]  listed == got[2 * i]
                IN /\ listed.users <= count + came /\ listed.pages <= count + came
                   /\ listed.users = 0 => count <= gone
         [] request.name = "overall"      -> got[4] <= got[2] + came
         [] request.name = "compare"      ->
              LET changes == Changes(got[1], got[2])
              IN Within(request.plan[1].period, request.plan[2].period) =>
                   \A v \in DOMAIN changes : changes[v][1] >= - 100 * gone
===============================================================================
