# TLA+ models of UBAAS

UBAAS is a user behaviour analysis server in Go: clients post tracking events
over HTTP, the server keeps them in memory, and other endpoints list, aggregate
and analyse them. This directory models the parts of it that keep state and are
entered by several goroutines at once, model-checks them with TLC and proves
their main safety properties with TLAPS.

Every definition is translated from the Go source; `PROJECT.json` ("map") names
the lines behind each. The repository has no Go tests, so what the program
promises is taken from its code and doc comments.

## The system

| Component | State | Operations that change it | Entered by |
|---|---|---|---|
| Event store (`store/memory_store.go`) | `events` map, `eventsByUser`, `eventsBySession`, `isOpen`, one RWMutex | CreateEvent, CreateEvents, DeleteEvent, Close | every service |
| Event ingestion (`service/event_service.go`) | `buffer` under `bufferMu`, `stopCh`, wait group, ticker | CreateEvent, CreateEvents, DeleteEvent, flushBuffer, the batch goroutine, Stop | HTTP handlers, batch goroutine, main |
| Start and shutdown (`cmd/server/main.go`) | the process | signal, scheduler.Stop, eventSvc.Stop, server.Shutdown with a timeout, deferred store Close, log.Fatalf | main and the serve goroutine |
| Scheduler (`service/scheduler.go`) | `tasks`, `started`, `stopCh`, one `stopCh` per task, wait group | Start, Stop, GetTaskNames, the task goroutines | main |
| Sessions (`service/session_service.go`, `store/session_store.go`, `model/session.go`) | `sessions`, `sessionsByUser`; the records are shared by pointer | BuildSession, ReclassifyUserType, ExpireSessions | HTTP handlers, the session_cleanup task |
| LRU cache (`pkg/cache/lru.go`) | `items`, `order` | Get, Set, Delete, Cleanup, Flush | its callers |
| TTL cache (`pkg/cache/cache.go`) | `items` | Get (an expired entry), Set, Delete, Clear, Cleanup | conversions |
| Conversions (`service/conversion_service.go`, `store/conversion_store.go`) | `conversionGoals`, shared by pointer; a TTL cache of results | goal create, update, delete; rate, funnel, trends | HTTP handlers |
| Queries, statistics, export, dimension filters | none; they read the store, some several times in one request | list, count, page, filter, compare, format | HTTP handlers |
| Paths (`service/path_service.go`, `store/path_store.go`) | `paths`, `pathsByUser` | CreatePathSequence; statistics and coverage | HTTP handlers (read only) |
| Ad hoc queries, aggregation, statistics store | none; they read the store | list, count | nothing: never constructed |
| User dimensions, request metrics | indexes and counters | - | nothing: never constructed or called |

How they interact: a handler calls its service, and the service calls the store;
each store method holds the store's mutex from first to last. What a store
method returns are pointers into the store, which services read, and for
sessions and goals write, without the mutex. `EventService` has a buffer with a
mutex of its own, which handlers fill and which handlers, the batch goroutine and
`Stop` empty. `main` starts the scheduler and the server, and stops them in the
order scheduler, event service, HTTP server, store.

Some code is complete but reached by nothing in the running server: BuildSession,
path creation, the LRU cache, the TTL cache's Cleanup, the query and aggregation
services, GetTaskNames, a second scheduler Start. It is modelled as the library it is (callers in any order), not as the server uses it.

What is hard, and what makes each part correct:

- **Ingestion.** A single event is written to the store at once and then buffered,
  so every single event is written twice, the second time by a flush that may
  happen much later, cross a delete, cross other flushes, or fall after the store
  was closed. Correct means: an accepted event is found until it is deleted; no
  event is in two batches; the indexes follow the map; Stop leaves nothing behind;
  shutdown ends.
- **Scheduler.** `Stop` waits for goroutines with the mutex held; `Start` can come
  again. Correct means: nothing runs after Stop, nothing runs twice, every call
  returns.
- **Sessions.** Requests of one user write the same record without a lock while
  sessions expire. Correct means: expiry is final, events are counted, end time
  and user type are earned by events, and a user has one live session.
- **Conversions.** A goal is updated through a pointer that calculations read, the
  cache is cleared after and filled by calculations begun before, and its key does
  not hold the goal. Correct means: a rate in the cache is of the goal's present
  pages, or is stale for a known reason; a funnel shows the pages it counted; a
  goal is what its requests gave; a deleted goal stays deleted.
- **Listings and analyses.** A listing walks a Go map in a new order every time and
  cuts a page by arithmetic on numbers that come from the request or from another
  service; the analyses loop over what it returns. Correct means: a client that
  reads page after page gets everything counted while what it lists stays as it is, no
  page panics, an export leaves out only what the size of its query leaves out, filters
  drop nothing, and each computation agrees with a definition that does not depend on
  the order it is given.
- **Statistics.** The same events are counted by a dozen loops in four files, and
  some answers are put together of several store calls with the lock free between
  them. Correct means: the loops agree, and such an answer is off by no more than
  what came and went meanwhile.
- **LRU cache.** Get releases its lock between looking up and moving. Correct
  means: everything stored can be evicted, the limit holds, the least recent goes.

`PROJECT.json` ("hazards") lists each of these at its line, with the properties
that watch it.

## Modules

| Module | Models | Checked by | Proved in |
|---|---|---|---|
| `EventStore` | the event part of MemoryStore, one operator per method | through EventService | through EventService |
| `EventService` | ingestion, batch goroutine, requests, main's shutdown; EXTENDS EventStore | `event_service`, `event_service_live`, `delete_final` | `EventServiceProofs` |
| `EventLedger` | abstract specification of ingestion | refined by EventService (`LedgerSpec`) | `EventServiceProofs` (`LedgerImplemented`) |
| `Scheduler` | Start, Stop, GetTaskNames and task goroutines | `scheduler`, `scheduler_restart` | `SchedulerProofs` |
| `Sessions` | SessionService over the session store and Session record | `sessions` | `SessionsProofs` |
| `LRUCache` | the LRU cache with concurrent Gets | `lru` | `LRUCacheProofs` |
| `TTLCache` | the map of the cache with a time to live, one operator per method | through Conversions | through Conversions |
| `Conversions` | goals, their updates through shared pointers, rates and funnels through the cache; EXTENDS TTLCache | `conversions` | `ConversionsProofs` |
| `Listings` | queries, pagination, exports, filters and the query service over ListEvents and ListSessions | `listings`, `analyses_return`, `filter_matches` | `ListingsProofs` |
| `Analyses` | conversion rate, paths, coverage, hot paths, recent events, as functions of a listing | through Statistics | `StatisticsProofs` |
| `Statistics` | the counts of StatsService, StatsStore, aggregations and breakdowns, and requests of several store calls; EXTENDS Analyses | `analyses` | `StatisticsProofs` |
| `SetFolds` | no code: facts about finite sets, folds, loops and sums that the proofs cite | | itself |
| `MCEventService`, `MCSessions` | symmetry sets for TLC | | |
| `MCListings`, `MCAnalyses`, `MCConversions` | records, events, goals, queries and conditions for TLC | | |

### EventService and EventStore

State: the store's `events`, two indexes (as occurrence counts per event, since an
event belongs to one user and one session) and `isOpen`; the service's `buffer`;
`pc` and `work`, the place and the local slice of each goroutine. A step is what a
goroutine does between two points where another can run: one critical section of
the store's mutex or of `bufferMu`, or one channel operation. So `flushBuffer` is
two steps, `SwapBuffer` and `WriteBatch`, with the buffer unlocked between them,
and they are the same actions for a handler, the batch goroutine and main;
`AfterFlush` says where each goes on. `CreateEvent` is `StoreEvent`, `AppendEvent`
and, at the threshold, a flush. main's shutdown is a sequence of labels;
`DrainTimeout` is `server.Shutdown` giving up. `ServeFails` is `log.Fatalf`.
Invalid requests change nothing and are left out. `accepted`, `buffered`, `deleted`
and `owedAtStop` are history variables.

`EventLedger` says what a client can rely on: an event is new, owed one more write,
or settled; deletes remove what is stored; an owed write happens once; a closed
store is not written. `EventService` implements it by mapping "owed" to "in the
buffer, about to be appended, or in a batch being written".

### Scheduler

An entry of `s.tasks` is a task name and the Start that made it, so goroutines of
two registrations are told apart. `Start` and `GetTaskNames` are one step under
the mutex; `Stop` is two, before and after `wg.Wait`, with the mutex held between.
Closing a closed channel sets `crashed`, which ends the process.

### Sessions

BuildSession is split at each call to the store and at each unlocked access of the
shared record: list, choose, then create, or load the event count, store the
fields, and UpdateSession, which copies the record onto itself under the mutex.
That copy races with unlocked writers: `Assign` may put back any subset of the
fields they write, which covers every order of the copy's loads and stores. `raced`
records the sessions that two callers wrote at once; properties that the races
break are stated for the others. `crossed` records the users one of whose events
came with another time than the clock's, or whose BuildSession met another or the
clock moving: `OneLiveSession` is stated for the rest.

### LRUCache

Get is `LookUp` and then `Touch` or `DropExpired`, with the lock released between
them. Expiry is nondeterministic: a ttl is any duration. `ghosts` counts the times
a Get appended a key that was no longer in the order, and bounds the run.

### Conversions and TTLCache

`goals` is the memory behind the pointers and `index` the store's map from IDs into
it, so that a request can hold a goal which the map no longer has. UpdateGoal is
split at each field it writes: `UpdateGoal` (the store's Get), `WriteStart`,
`WriteEnd`, `UpdateConversionGoal` and `Copy` (the store copies the goal onto itself
with the mutex held, and may put back what another request wrote meanwhile), and
`ClearCache`. A calculation is `LookUp`, `DropExpired` (the key is deleted after the
read lock is gone), `GetGoal`, `ReadStart`, `ReadEnd` and `FinishRate`; a funnel gets
its goal before and reads it again after. Other fields than the two pages are left
out. The cache's key is a tuple of the query's pages and dates, where the code joins them
with ":" (a page with a colon in it could share a key with another pair). A page is
written as a whole: a Go string is two words, and a reader that sees
one of each is a torn read, which no property here is about. TTLCache's entries
expire at any time (`Expire`), since a ttl is any duration.

The result of a calculation is the pages it was computed for; what the rate is of a
listing, `Analyses` says. In the server as it is, CalculateConversionRate asks for
page 0 and panics before it reaches the cache (`AnalysesReturn`), so `FinishRate` may
fail so or succeed. What is checked is therefore what the cache guarantees once that
query is mended. `dirty` and `crossed` (history) say which goals changed without a
Clear since, and which calculations saw their goal change; `given` is what each goal
should be by its requests.

### Listings

ListEvents and ListSessions are the same code over two maps, so one set of records
stands for either. `List` gives every answer a call may return: since the map is
walked in any order, a page is any subset of the matches of the size that the
arithmetic gives (`Start`, `End`, in an int of `IntBits` bits), or a panic. `Caller`
says who made the query: listings and exports build it from the URL (`buildQuery`), where
a page or size that is `Missing` becomes 1 or 50; the two listing endpoints then validate
it, exports limit its size, analyses make their own with no page, filters pass the
request's page on unvalidated and copy conditions into it. One client's answers are followed from its
first page on (`got`, `whole`), while other requests create and delete records and
shutdown closes the store. Of the query's fields, three stand for all: `type` and
`page`, which are compared alike, and `os`, which is one of the four that
ApplyFilters copies; `page` is compared in memory only. QueryService's ExecuteQuery
makes a page of an offset, counts what the page is cut from, and filters after. It takes
no dates but the name of a time range, and resolves it by the clock at every call
(`Resolve`, `Timed`): "the last hour" moves on between two pages. `now` is that clock, and
`Tick` takes `whole` back when an event comes into the client's range or falls out of it.
A client of it reads on by offset += limit, and its conditions differ from the filter
endpoint's in what they do with an operator or a dimension they do not know (no
event, against every event).

### Analyses and Statistics

The variable is a listing, to which events are appended and from which any is
deleted, so that every order of every set of events up to the bound is a state. The
operations are operators named as in the code and evaluated by the invariants in
each state. Loops are folds. In the server these computations come after a
ListEvents with no page, which panics (`AnalysesReturn`); what is checked is what
they compute from the listing that page 1 gives, and that it holds no more events
than their page size (10000 or 50000). RecentEvents, ComputePathSequence and the path
statistics have no caller that gives them data in the running server; they are
modelled as the library they are, with the path of every user as the paths there
are. A session is its user, and a path string is a sequence of pages, spaces and
arrows, made of a funnel's pages in one of two ways: with bare arrows, and as the
documentation of parsePathString writes it. RecentEvents reads the user's index and not
the map, so it is an operator of its own, over every index of that user that
`EventService` can come to (`Indexes`, from `IndexBound`): each listed event once or twice,
in any order, and events that were deleted. Sorts leave equal rows in any order: the properties are checked for every
order of the map.

`Statistics` adds `request`, for the answers that are put together of several store
calls: the plan of a request is the sequence of its questions, `Ask` answers one of
them from the listing as it is then, and `Change` creates or deletes an event between
them. `Begin` and `Answer` are the request's two ends.

## Runs

| Run | Instance | Shows |
|---|---|---|
| `event_service` | 2 handlers, batch goroutine, main, 3 events (2 with a session), threshold 2 | all safety properties of ingestion, and `LedgerSpec` |
| `event_service_live` | 2 handlers, 2 events, threshold 2, fair | shutdown terminates, buffered events are flushed, requests are answered |
| `delete_final` (violation) | 1 handler, 2 events | a deleted event comes back by the flush it was owed |
| `scheduler` | 2 callers, both tasks, 2 starts, fair | quiet after Stop, one goroutine per task, listed tasks run, calls return |
| `scheduler_restart` (violation) | 1 caller | Start, Stop, Start, Stop panics |
| `sessions` | 1 user, 2 callers, 3 events, 3 instants (timestamps 0 and 2) | expiry is final, counts, end times, user types, one live session |
| `lru` | 2 Gets, 3 keys, limit 2, at most 2 ghosts | evictability, growth bound, LRU order |
| `conversions` | 2 clients, 2 goal IDs, 2 goals created, 2 pages, 1 period | stale rates have known causes, funnels match their goals, goals are as given, deletes are final, entries leave in time |
| `listings` | 3 records, ints of 5 bits, page numbers, sizes, offsets and limits 0, 1, 2, 3, 9, pages and sizes missing, a default size of 1, 4 ranges of dates, 4 time ranges at 2 instants, 7 lists of conditions | reading on reaches the total, validated pages do not panic, exports are cut only by their size, counts agree, filters lose nothing |
| `analyses_return` (violation) | the same | a query with no page panics |
| `filter_matches` (violation) | the same | a condition other than an equality loses its matches |
| `analyses` | 3 users, 2 pages, 8 events, listings of up to 4 (2 when a request begins, with 2 changes), 2 periods, comparisons with a longer period and with a shorter one, paths of up to 2 pages, 2 funnels in both formats, indexes of up to 3 entries | conversions, paths, funnels, listings of paths and rankings against reference definitions; statistics against each other; requests of several calls |

The bounds. Ingestion: with a threshold of 2 and three events, both handlers can
be in a flush at once while the batch goroutine or main has a batch of its own, an
event can be appended between a swap and its write, a batch of two can be in
flight when the store closes, and a delete can fall before, between and after.
Scheduler: two starts are what a restart needs, and the third one would be after a
panic. Sessions: with `ReturningAfter` and `MinSessions` 1 (3 and a configured
number in the code) three events and two callers cross both thresholds, a session
can expire at the present and by a client's date, and event timestamps can lie in
the past or at the end of time. `now` goes from 0 to 2, so events also come at the
time they carry, which `OneLiveSession` needs. LRU: three keys and a limit of two are the least
with which an eviction can pick the wrong key. Listings: three records and page sizes
of 1, 2 and 3 give full, partial, last and empty pages; in 5 bits the product of the
largest page and size overflows, as 2^62 times 2 does in the code; the limit of an
export (2) is below, at and above the total, and the default size (1) below it. At the
second instant one record has fallen out of the default time range, today has lost all
three and yesterday has gained two, and the longest range has what it had. Analyses: listings of four are enough
for a user to see a start page twice and an end page before, between and after, for
the wrong index to pick another user's event, for a path to be cut, and for two
patterns to differ in visits. An index of three entries can hold one event twice beside
another, so that with two places it takes both. A request of several calls meets up to two events that
come or go, on a listing of at most two: one change before and one after a question
is what separates two of its answers. Conversions: with two clients an update, a
delete or a calculation each meets every other at every step, a goal can be replaced
by CreateGoal while it is held, both goals share the cache entry of funnels over the
one period, and a query by pages has an entry of its own. The update exchanges both
pages, so half of it differs from none and all.

One type invariant is checked, that of `EventService`; it and those of Scheduler,
Conversions, Sessions, LRUCache and Listings (stated in the modules of their proofs)
are proved. Of Analyses and Statistics, whose properties read every field of
their states, the proofs state the types they need (`Listed` and `Started` in
`StatisticsProofs`).

The properties are stated so that the code breaks them if it is changed in a
plausible way; each run's properties come with such a change ("mutants" in
`PROJECT.json`, the definitions marked "Mutant" in the modules, used by nothing
else).

### What the violation runs show

- **A deleted event can come back** (`DeletedStaysDeleted`): POST, DELETE, then the
  timer's flush writes the event again. `GoneForGood` is what does hold: only once,
  and only by the write that was pending.
- **A restarted scheduler panics when stopped** (`StopIsGraceful`): `s.stopCh` is
  made once. For the same reason the tasks of a restarted scheduler end after one
  run, which is why `ListedTasksRun` is stated up to the first Stop.
- **A query with no page panics** (`AnalysesReturn`): `(Page-1)*PageSize` is
  negative, and `results[start:end]` panics even when nothing matches. Every service
  that builds its own query leaves Page at 0: event statistics, page statistics,
  breakdowns, conversion rates, path building and custom exports. The recovery
  middleware turns the panic into a 500. `ValidatedNeverPanics` is what does hold
  for the listing endpoints: with Page and PageSize validated, only an overflow of
  int is left.
- **Filters lose matches** (`FilterReturnsMatches`): ApplyFilters copies a
  condition's value into the store's query whatever its operator, so "os not equal
  x" asks the store for os x and then removes all it got; and with "or" the copied
  condition must hold anyway. `FiltersLoseNothing` is what does hold, for
  equalities joined by "and", and for the query service's conditions.

More disagreements are not runs of their own, most because a property that holds
says how far they go:

- A delete removes one of the two index entries an event may have, so a pointer to a
  deleted event can stay in `eventsByUser` (`memory_store.go:168` says "Clean up
  indexes"); `IndexBound` says it is at most one.
- The LRU cache can exceed its limit: a Get that crosses a Delete leaves a key without
  an item in the order, and evicting that key frees nothing; `GrowthBound` says by how
  much. Without such crossings (`ghosts` = 0) items and order hold the same keys.
- An event can join a session that expired after BuildSession chose it;
  `ExpiredIsFinal` says that the session stays expired all the same.
- Two goals queried without pages share a cache entry, whatever their pages, and a
  calculation that crosses an update caches the old rate after the update's Clear.
  `CachedIsCurrent` and `FunnelIsOfItsGoal` are stated around both: every other rate
  is current. CreateGoal takes the ID from the request and replaces a goal without
  clearing the cache.
- An update that a closed store refuses has changed the goal already
  (`GoalsAreAsGiven` counts it as made).
- `total_events` and `today_events` of the overall statistics count the type "", which
  no event has: they are always 0.
- An export whose client names no page_size is built like a listing
  (`export_handler.go:29`, `event_handler.go:173`) and holds the first 50 records of any
  number, with success; the limit of config.Export.MaxRecords and its error are for
  clients that ask for 0. `ExportCutOnlyBySize` says both.
- parsePathString's documentation gives "/home → /products → /cart"
  (`path_service.go:226`), and that is how path patterns are shown (`path_store.go:139`); but
  only what an arrow ends is trimmed (`path_service.go:237-242`), so the last step is
  " /cart" and counts no path. `FunnelNarrows` says so, and that with bare arrows every
  step counts what it should.
- RecentEvents reads the user's index (`memory_store.go:291`), in which a single-created
  event is twice after its flush: of two events and with two places it can give the
  later one twice and drop the other, and it can give a deleted one. `TopIsTop` says what
  holds: no entry that it drops is later than one it gives.
- The daily average divides the durations of all events by the number of page views.

### Fairness

`EventService!FairSpec`: weak fairness of main's shutdown steps, of the batch
goroutine and of each handler once it has a request, because the Go scheduler runs
every runnable goroutine; strong fairness of `TakeStop`, because Go's select
chooses at random among ready channels, so a ticker that keeps ticking does not
keep it from a closed channel for ever. Requests, signals, the failure of the
listener and the shutdown timeout need never come. `Scheduler!FairSpec`: strong
fairness of taking the mutex (a `sync.Mutex` starves nobody) and of leaving the
select loop; weak fairness of task bodies, which return (one store call, or two
log lines), and of `wg.Wait`.

## Proofs

All theorems hold for any sets of handlers, events, users, callers, tasks, clients,
goals, pages, keys, records, queries and conditions and for any thresholds and limits,
from the named assumptions of the modules only: `SessionAssumption`,
`ServiceAssumption` (the goroutines are distinct, the threshold is positive),
`SchedulerAssumption`, `SessionsAssumption`, `ConversionsAssumption` (no page, goal or
field has the name of an absent one), `CacheAssumption` (the cache's limit is
positive: with 0 or less it would still hold the one item that was put last), `ListingsAssumption` (the page sizes that
the program itself chooses are positive and fit an int, a list of conditions is a
sequence, records have finitely many values, since they have a finite memory, and the
clock begins late enough for every time range to begin after the zero time), `AnalysesAssumption`
(an event has the fields of its record, a type that is one of the five, and a time,
since CreateEvent fills in the present; there are finitely many users; no page has
the name of an absent one, or is a space or an arrow, for a URL has neither; and a
funnel has pages) and `StatisticsAssumption` (an hour is one of 24, and
what is compared are two periods).

`EventServiceProofs`. The inductive invariant is `RInv`: `TypeOK`, `Routing` and
`OneHolder`. `OneHolder` alone is not inductive: that a freshly received event is
nowhere else needs `Routing`, which ties what a goroutine holds to its label.
Given `RInv`, every step has one of four effects on events (`StepEffect`): nothing,
an accept, a settle (a batch is written or dropped) or a remove. `NoAcceptedEventLost`, `IndexBound`,
`GoneForGood` and the refinement of `EventLedger` are then proved from the effect
alone, without looking at goroutines again.

`StopSettles` needs what holds before Stop's own flush
(`StopInv`): the batch goroutine has exited by then, and appends only bring new
events. `BufferBound` needs that the buffer and the flushers are finite
(`BufferInv`), for cardinalities to mean something.

`SchedulerProofs`. The invariant adds two facts to the types: live goroutines
belong to the latest registration or to a Stop in progress (`LiveIsLatest`), and at
most one caller waits in Stop (`OneWaits`). `ListedTasksRun` is inductive on top.

`ConversionsProofs`. The inductive invariant is `IInv`. `CachedIsCurrent` alone is not
inductive: that a rate which is put into the cache is of its goal's present pages
needs `Kept`, which says of each calculation under way that has seen no change that
the goal and the pages it has read so far are the present ones, and of a funnel that
its goal is still the one in the map, and not dirty. `Filed` (the map holds a goal
under its own ID, and a goal that is being copied is in the map) says which goal a
write concerns. A step that changes goals has one of three effects on each
(`Effect`): none, on a goal that nobody had, or one that every calculation of that
goal sees; a step of a calculation concerns its own call and the cache. `Kept` and
`CachedIsCurrent` follow from those two facts, `FunnelIsOfItsGoal` from `Kept`.
`OnlyCreateBringsBack` and `LeavesInTime` are proved step by step under `IInv`.

`GoalsAreAsGiven` speaks of goals that nobody is updating.
`Orderly` adds what the others will come to: a goal with known pages is being changed
by one call at most, which holds that very goal, and the pages that it will leave
(`OnTheWay`) are those given. While it copies it has loaded what is still there, so
that the copy puts back nothing old.

`SessionsProofs`. `ExpiredIsFinal` follows from the types and from what each step does
to a session's state. `CountsEvents` and `EndFollowsLastEvent` are not inductive,
because a caller writes back what it loaded before: `Counted` adds that two callers
never write one session which is not `raced` (`WritersRace`), and that what a caller
has loaded is what the store still holds (`LoadedHolds`). `ReturningIsEarned` is about a
verdict that is reached in one step and written in another, so `TypesEarned` says that
a caller on its way with "returning" has counted enough sessions of that user, and that
this stays true, for sessions are never removed. `OneLiveSession` needs most (`LiveInv`): of a
user that is not `crossed`, one caller at most is putting an event into a session, at
the present time (`BuildsAreOrdered`), and from where it chooses to where it stores it
knows all of the user's sessions, and no other of them is live (`LiveInOrder`).

`LRUCacheProofs`. `EveryItemOrdered` and `GrowthBound` are inductive on top of the
types. `EvictsLeastRecent`, about every step that puts an item, needs `Recency`: as
long as no Get has crossed a removal (`ghosts` = 0), a key that comes later in the order is
another one and was used later, by `newer`.

`ListingsProofs`. `ValidatedNeverPanics`, `ExportCutOnlyBySize` and `FiltersLoseNothing` are
about one answer, and hold of every answer that `List` may give. `ReadsOnToTheTotal` is
about all the answers a client got: `Progress` says that as long as the client read on
and nothing changed, what it got is as many records as come before the end of its last page.
For a query the records counted are those of the time range at the clock's present, and
`Lasting` says what makes the earlier pages count: as long as `whole` holds, the query
matches now what it matched when it was answered (`TickKeeps`).
The proofs are by the arithmetic of pages, in an int of any width: a page that is
validated begins at a product which fits or has wrapped, and a page that an offset
falls into begins at or before it. `CountsAgree` then compares the two counts of a page.

`SetFolds`. The library's induction theorems take an operator for a parameter, which
the provers cannot instantiate. The properties and steps here are sets and functions
instead: a set of subsets that holds a set when it holds that less any one element
holds them all (`SubsetInduction`), the recursive function behind FoldSet exists
(`FoldExists`), and the sum it computes is that of the parts in any order
(`SumAnyOrder`); the sum of the sizes of disjoint parts is the size of their union
(`SumOfParts`). `ListingsProofs` and `StatisticsProofs` count with them, and `LRUCacheProofs`
uses the first. A fold over a sequence is, by its definition, a recursive function on
sets of places; `LoopExists` and `LoopUnfolds` say that it is a loop, that is, that there
is a sequence of what it has after 0, 1, ... and all elements, each got from the one
before. What a loop keeps is then proved by `InductionUpTo`.

`StatisticsProofs`. `CountsAddUp` holds of every listing that is a sequence of events
(`Listed`), of any length and in any order. Each table is a partition of the rows that
a period selects, by page, hour, day, device, duration or dimension, so its totals are the
size of their union (`TotalOfGroups`), and two loops agree because they part the same
rows. `RequestsAddUp` is about the end of a request, and not inductive:
`Started` says of each kind of request what its answers so far are worth in the listing
as it is now: each is within the number of events created and of events deleted since
the request began. An event that comes or goes moves every count by at most
one (`Moved`, `OneComes`, `OneGoes`), so a change keeps it (`ChangesKept`), and so does a
question, whose answer is the present count (`AnswersKept`). For a comparison this
needs that the one period is part of the other (`Within`): of periods that only overlap
the property says nothing, since nothing holds.

The other four properties hold of every listing that is a sequence of events, too, and so
in every state of Statistics (`RequestsKeepListing`: what requests do to the listing, Analyses
does). Their
operators are loops of the code, and each proof begins with what its loop has after
each element (the lemmas named `...Loop`). What these loops select, append and insert is
followed by the places it comes from: `Drawn` says that a sequence has the elements of
some places of another once each, and `Rising` that they are in its order. So a
selection has all it should (`SelectedIs`), an insertion sort has every element once
and never falls (`SortedIs`), and counts in the one are counts in the other.

- `ConversionsAddUp`: `ScannedTo` says what the scan of a user's views knows after k of
  them: whether one was of the start page, and one after it of the end page
  (`LookKeeps`); at the end that is the reference definition (`ScanIs`). The averages stay
  within what they average by `QuotientIs`.
- `PathsRunForward`: `FilledTo` says which views are in the path after k events: all of
  them until it is full, and none later (`VisitKeeps`).
- `FunnelNarrows`: what parsePathString has read after each page of a funnel is the steps
  before it and that page, and in the documented format a space that was put before it
  (`SpacedRead`, `BareIs`, `DocumentedIs`); a path
  reaches a step if it has the pages of all steps up to it (`StepsReachedIs`), and a page
  with a space before it is on no path (`DocumentedCounted`). The users are walked in any
  order, and a selection from any walk has each of its users once (`WalkSelected`), so a
  page of paths is cut from all that match (`CutIs`).
- `TopIsTop`: rows that are sorted by visits are the same rows (`SortedRows`), and cut to a
  number leave out none with more visits than one shown (`CutShowsTop`); `KeptTo` says
  that no entry which RecentEvents has dropped so far is later than one it keeps
  (`KeepKeeps`), each kept at a place of its own (`IsPlaced`), so an event that is not shown
  has an entry among those left out (`PlacesKept`); the patterns of paths are one
  for each sequence of pages, with as many visits as users on it (`PatternsAre`).

Only model-checked: the liveness properties (`ShutdownTerminates`,
`BufferedIsFlushed`, `RequestsAnswered`, `CallsReturn`), since liveness under
fairness is out of TLAPS's reach here. Every other property of a passing run is
proved. No module declares a RECURSIVE operator.

## Not modelled

Left out, and why:

- The user store (`store/user_store.go`) and request metrics (`model/metrics.go`):
  nothing constructs or calls them.
- `store/conversion_store_ext.go` (a second map of goals and funnels) and
  TimeRangeQuery: nothing uses them; the one is plain maps under a mutex, the other
  resolves a time range. Time zones: a day is `Day` long, and begins at its multiples.
- CreatePathSequence and the changes of the path index: nothing calls them; what is
  read from paths is modelled in `Analyses`.
- GetSessionStats, ActiveSessionCount, hit counts and statistics of the caches: they
  are read by no decision.
- HTTP routing, middleware and response bodies (no state of their own), the
  formatting of exports, configuration (read once; its values are CONSTANTS),
  logging, validation of strings, object pools, the time helpers that no service
  calls and the web front end.
