------------------------------ MODULE Conversions ------------------------------
(***************************************************************************)
(* Conversions: conversion goals (internal/store/conversion_store.go), the *)
(* requests that change them (internal/handler/conversion_handler.go), and *)
(* the rates computed from them, which ConversionService keeps in a cache  *)
(* (internal/service/conversion_service.go, module TTLCache).              *)
(*                                                                         *)
(* The store hands out pointers to its goals.  UpdateGoal writes a goal's  *)
(* fields through one, without a lock, and then has the store copy the     *)
(* goal onto itself; calculations read the fields through another.  Each   *)
(* such read and write is a step.  A page is written as a whole here.      *)
(*                                                                         *)
(* What a rate says of events is left out (module Analyses): a result is   *)
(* the pages it was computed for.  The service's ListEvents asks for page  *)
(* 0, which panics (module Listings), so in the server as it is no rate    *)
(* reaches the cache; FinishRate may fail so or succeed.                   *)
(***************************************************************************)
EXTENDS TTLCache, Sequences

CONSTANTS Client,    \* goroutines that serve requests
          Id, NoGoal,
          Page, NoPage,
          Absent,    \* a field that an update does not hold
          Unknown,   \* see given
          NoRate,
          Day,       \* the periods that queries name
          MaxGoals,  \* bound: goals created
          Pages,     \* bound: <<start page, end page>> of new goals
          Update,    \* bound: the same of updates, either may be Absent
          Query      \* bound: [id, start, end, day] records

ASSUME ConversionsAssumption ==
  /\ NoGoal \notin Id /\ {NoPage, Absent, Unknown} \cap Page = {}
  /\ Day \subseteq Nat /\ MaxGoals \in Nat
  /\ Pages \subseteq Page \X Page
  /\ Update \subseteq (Page \cup {Absent}) \X (Page \cup {Absent})
  /\ Query \subseteq [id : Id \cup {NoGoal}, start : Page \cup {NoPage},
                      end : Page \cup {NoPage}, day : Day]

VARIABLES goals,    \* every ConversionGoal created: the memory behind the pointers
          index,    \* the store's map, from IDs to positions in goals, or 0
          isOpen,
          call,     \* what each client is doing
          \* history
          dirty,    \* IDs whose pages have changed and the cache was not cleared since
          crossed,  \* clients whose call has seen the pages of its goal change
          given     \* the pages of each goal by its requests taken one at a time, or
                    \* Unknown once two of them overlapped

store == <<goals, index, isOpen>>
history == <<dirty, crossed, given>>
vars == <<items, store, call, history>>

Idle == [at |-> "idle"]

Init ==
  /\ New
  /\ goals = <<>>
  /\ index = [id \in Id |-> 0]
  /\ isOpen = TRUE
  /\ call = [c \in Client |-> Idle]
  /\ dirty = {} /\ crossed = {}
  /\ given = [id \in Id |-> Unknown]

PagesOf(g) == <<goals[g].start, goals[g].end>>

\* UpdateConversionGoal holds the store's mutex while it copies.
MutexFree == \A c \in Client : call[c].at # "copy"

At(c, label) == call[c].at = label

Goto(c, s) == call' = [call EXCEPT ![c] = s]

\* Clients between the first field that UpdateGoal writes and the end of the copy.
Updating(id) ==
  {c \in Client : /\ call[c].at \in {"writeStart", "writeEnd", "update", "copy"}
                  /\ goals[call[c].goal].id = id}

\* Clients that compute a rate.
Computing ==
  {c \in Client : call[c].at \in {"lookup", "drop", "goal", "start", "end", "list", "steps"}}

ComputingOf(id) == {c \in Computing : call[c].query.id = id}

\* The pages of goal id change, or which goal that is. An object that is no longer
\* in the map concerns only those who hold it.
Changed(id) ==
  /\ dirty' = dirty \cup {id}
  /\ crossed' = crossed \cup ComputingOf(id)

-------------------------------------------------------------------------------
(* Changing goals. *)

\* CreateGoal takes the ID from the request, and replaces the goal that has it.
CreateGoal(id, pages) ==
  /\ MutexFree /\ isOpen /\ Len(goals) < MaxGoals
  /\ goals' = Append(goals, [id |-> id, start |-> pages[1], end |-> pages[2]])
  /\ index' = [index EXCEPT ![id] = Len(goals')]
  /\ IF index[id] # 0 THEN Changed(id) ELSE UNCHANGED <<dirty, crossed>>
  /\ given' = [given EXCEPT ![id] = IF Updating(id) = {} THEN pages ELSE Unknown]
  /\ UNCHANGED <<items, isOpen, call>>

Merge(update, pages) ==
  [f \in 1..2 |-> IF update[f] = Absent THEN pages[f] ELSE update[f]]

\* UpdateGoal: GetConversionGoal ...
UpdateGoal(c, id, update) ==
  /\ At(c, "idle") /\ MutexFree /\ index[id] # 0
  /\ Goto(c, [at |-> "writeStart", goal |-> index[id], update |-> update])
  /\ given' = [given EXCEPT ![id] = IF Updating(id) = {} /\ @ # Unknown
                                    THEN Merge(update, @) ELSE Unknown]
  /\ UNCHANGED <<items, store, dirty, crossed>>

\* ... the fields, one by one ...
Write(c, field, page) ==
  LET g == call[c].goal
  IN IF page = Absent
     THEN UNCHANGED <<goals, dirty, crossed>>
     ELSE /\ goals' = [goals EXCEPT ![g][field] = page]
          /\ IF index[goals[g].id] = g THEN Changed(goals[g].id)
                                       ELSE UNCHANGED <<dirty, crossed>>

WriteStart(c) ==
  /\ At(c, "writeStart")
  /\ Write(c, "start", call[c].update[1])
  /\ Goto(c, [call[c] EXCEPT !.at = "writeEnd"])
  /\ UNCHANGED <<items, index, isOpen, given>>

\* Mutant: the end page goes where the start page is.
WriteEndAsStart(c) ==
  /\ At(c, "writeEnd")
  /\ Write(c, "start", call[c].update[2])
  /\ Goto(c, [call[c] EXCEPT !.at = "update"])
  /\ UNCHANGED <<items, index, isOpen, given>>

WriteEnd(c) ==
  /\ At(c, "writeEnd")
  /\ Write(c, "end", call[c].update[2])
  /\ Goto(c, [call[c] EXCEPT !.at = "update"])
  /\ UNCHANGED <<items, index, isOpen, given>>

\* Mutant: a goal that is not there is put there.
UpdateOrInsert(c) ==
  /\ At(c, "update") /\ MutexFree
  /\ LET g == call[c].goal
     IN /\ Goto(c, IF isOpen THEN [at |-> "clear"] ELSE Idle)
        /\ index' = IF isOpen /\ index[goals[g].id] = 0
                    THEN [index EXCEPT ![goals[g].id] = g] ELSE index
  /\ UNCHANGED <<items, goals, isOpen, history>>

\* ... and the store's UpdateConversionGoal, which loads what it will copy. A closed
\* store, or a goal that is gone, ends the request with an error.
UpdateConversionGoal(c) ==
  /\ At(c, "update") /\ MutexFree
  /\ LET g == call[c].goal
     IN Goto(c, IF isOpen /\ index[goals[g].id] # 0
                THEN [at |-> "copy", goal |-> g, loaded |-> goals[g]]
                ELSE Idle)
  /\ UNCHANGED <<items, store, history>>

\* It stores what it loaded. In a goal copied onto itself that undoes another's write
\* of a field that falls between the field's load and its store; a goal that has
\* replaced the one that UpdateGoal got is overwritten.
Copy(c) ==
  /\ At(c, "copy")
  /\ LET id == call[c].loaded.id
         g  == index[id]
     IN /\ \E F \in IF g = call[c].goal THEN SUBSET {"start", "end"} ELSE {{"start", "end"}} :
             goals' = [goals EXCEPT ![g] =
                         [f \in DOMAIN @ |-> IF f \in F THEN call[c].loaded[f] ELSE @[f]]]
        /\ IF goals' = goals THEN UNCHANGED <<dirty, crossed>> ELSE Changed(id)
  /\ Goto(c, [at |-> "clear"])
  /\ UNCHANGED <<items, index, isOpen, given>>

\* Mutant: the cache keeps the rates of the deleted goal.
DeleteGoalKeepRates(c, id) ==
  /\ At(c, "idle") /\ MutexFree /\ isOpen
  /\ index' = [index EXCEPT ![id] = 0]
  /\ crossed' = crossed \cup ComputingOf(id)
  /\ given' = [given EXCEPT ![id] = Unknown]
  /\ UNCHANGED <<items, goals, isOpen, call, dirty>>

\* DeleteConversionGoal; deleting what is not there succeeds.
DeleteGoal(c, id) ==
  /\ At(c, "idle") /\ MutexFree /\ isOpen
  /\ index' = [index EXCEPT ![id] = 0]
  /\ Changed(id)
  /\ given' = [given EXCEPT ![id] = Unknown]
  /\ Goto(c, [at |-> "clear"])
  /\ UNCHANGED <<items, goals, isOpen>>

\* Mutant: the service leaves the cache alone.
KeepCache(c) ==
  /\ At(c, "clear")
  /\ Goto(c, Idle)
  /\ dirty' = {}
  /\ UNCHANGED <<items, store, crossed, given>>

\* The service clears the cache after an update or a delete.
ClearCache(c) ==
  /\ At(c, "clear")
  /\ Clear
  /\ Goto(c, Idle)
  /\ dirty' = {}
  /\ UNCHANGED <<store, crossed, given>>

Close ==
  /\ MutexFree
  /\ isOpen' = FALSE
  /\ UNCHANGED <<items, goals, index, call, history>>

-------------------------------------------------------------------------------
(* Rates: CalculateConversionRate, for a request, a funnel, or a day of trends. *)

\* ConversionQuery.Validate
Valid(q) == q.start # NoPage \/ q.id # NoGoal

\* The goal is not in the key.
Key(q) == <<q.start, q.end, q.day>>

\* A calculation for a query: for a funnel of goal, or for a rate only (goal 0). It is
\* to read the pages of the goal it finds in the store, of.
Calculation(q, goal) ==
  [at |-> "lookup", query |-> q, goal |-> goal, of |-> 0, pages |-> <<NoPage, NoPage>>,
   result |-> NoRate]

\* It goes on with a result.
Proceed(c, s, rate) ==
  Goto(c, IF s.goal = 0 THEN Idle
          ELSE [Calculation(s.query, s.goal) EXCEPT !.at = "steps", !.result = rate])

\* It goes on without one: the pages are the query's, or those of the goal it names.
Compute(c, s) ==
  Goto(c, IF s.query.id = NoGoal
          THEN [s EXCEPT !.at = "list", !.pages = <<s.query.start, s.query.end>>]
          ELSE [s EXCEPT !.at = "goal"])

\* cache.Get looks the key up under the read lock and checks the time after. An entry
\* found is the result; an expired one is still to be deleted.
LookUp(c, s) ==
  LET k == Key(s.query)
  IN IF ~Has(k) THEN Compute(c, s)
     ELSE IF IsExpired(k) THEN Goto(c, [s EXCEPT !.at = "drop"])
     ELSE Proceed(c, s, items[k].value)

CalculateRate(c, q) ==
  /\ At(c, "idle") /\ Valid(q)
  /\ LookUp(c, Calculation(q, 0))
  /\ UNCHANGED <<items, store, history>>

\* GetConversionTrends asks for the rate of its goal's pages, as it reads them then,
\* for one day after the other, and leaves out the days that fail. It keeps nothing
\* from day to day but the pointer to the goal, so each day is a call of its own here.
TrendOfDay(c, g, q) ==
  /\ q.id = NoGoal /\ <<q.start, q.end>> = PagesOf(g)
  /\ CalculateRate(c, q)

\* BuildFunnelAnalysis gets the goal ...
BuildFunnel(c, id, day) ==
  /\ At(c, "idle") /\ MutexFree /\ index[id] # 0
  /\ Goto(c, Calculation([id |-> id, start |-> NoPage, end |-> NoPage, day |-> day],
                         index[id]))
  /\ crossed' = IF id \in dirty THEN crossed \cup {c} ELSE crossed
  /\ UNCHANGED <<items, store, dirty, given>>

\* ... and asks for its rate.
FunnelRate(c) ==
  /\ At(c, "lookup")
  /\ LookUp(c, call[c])
  /\ UNCHANGED <<items, store, history>>

\* Get deletes whatever is under the key by now.
DropExpired(c) ==
  /\ At(c, "drop")
  /\ Delete(Key(call[c].query))
  /\ Compute(c, call[c])
  /\ UNCHANGED <<store, history>>

\* The call is over, or goes on.
Forget(c) ==
  crossed' = IF call'[c] = Idle THEN crossed \ {c} ELSE crossed

\* GetConversionGoal ...
GetGoal(c) ==
  /\ At(c, "goal") /\ MutexFree
  /\ LET g == index[call[c].query.id]
     IN Goto(c, IF g = 0 THEN Idle ELSE [call[c] EXCEPT !.at = "start", !.of = g])
  /\ Forget(c)
  /\ UNCHANGED <<items, store, dirty, given>>

\* ... and its fields.
ReadStart(c) ==
  /\ At(c, "start")
  /\ Goto(c, [call[c] EXCEPT !.at = "end", !.pages[1] = goals[call[c].of].start])
  /\ UNCHANGED <<items, store, history>>

ReadEnd(c) ==
  /\ At(c, "end")
  /\ Goto(c, [call[c] EXCEPT !.at = "list", !.of = 0, !.pages[2] = goals[call[c].of].end])
  /\ UNCHANGED <<items, store, history>>

\* ListEvents fails, in a closed store or (module Listings) by a panic; or
\* the rate is computed and put into the cache. The query's ID and
\* whether the calculation saw its goal change are history.
FinishRate(c) ==
  /\ At(c, "list") /\ MutexFree
  /\ \/ Goto(c, Idle) /\ UNCHANGED items
     \/ LET rate == [pages |-> call[c].pages, id |-> call[c].query.id,
                     crossed |-> c \in crossed]
        IN /\ isOpen
           /\ Set(Key(call[c].query), rate)
           /\ Proceed(c, call[c], rate)
  /\ Forget(c)
  /\ UNCHANGED <<store, dirty, given>>

\* The funnel is built of the result and of the goal's pages, read now.
BuildSteps(c) ==
  /\ At(c, "steps")
  /\ Goto(c, Idle)
  /\ crossed' = crossed \ {c}
  /\ UNCHANGED <<items, store, dirty, given>>

-------------------------------------------------------------------------------
\* Time passes; Cleanup is called by nobody here, but is the cache's to offer.
CacheAlone ==
  /\ (\E k \in Keys : Expire(k)) \/ Cleanup
  /\ UNCHANGED <<store, call, history>>

Step(c) ==
  \/ \E id \in Id : \/ \E update \in Update : UpdateGoal(c, id, update)
                    \/ DeleteGoal(c, id)
                    \/ \E day \in Day : BuildFunnel(c, id, day)
  \/ \E q \in Query : CalculateRate(c, q) \/ \E g \in DOMAIN goals : TrendOfDay(c, g, q)
  \/ WriteStart(c) \/ WriteEnd(c) \/ UpdateConversionGoal(c) \/ Copy(c) \/ ClearCache(c)
  \/ FunnelRate(c) \/ DropExpired(c) \/ GetGoal(c) \/ ReadStart(c) \/ ReadEnd(c)
  \/ FinishRate(c) \/ BuildSteps(c)

Next ==
  \/ \E c \in Client : Step(c)
  \/ \E id \in Id, pages \in Pages : CreateGoal(id, pages)
  \/ CacheAlone
  \/ Close

Spec == Init /\ [][Next]_vars

-------------------------------------------------------------------------------
(* Properties *)

\* A rate in the cache is right for the query that computed it: of the pages that a
\* query without a goal names, and otherwise of the goal's present pages, unless they
\* changed during the calculation, or changed since with no Clear after (by an
\* update still under way, one that a closed store refused, or a CreateGoal).
CachedIsCurrent ==
  \A k \in Keys :
    LET rate == items[k].value
    IN IF rate.id = NoGoal
       THEN rate.pages = <<k[1], k[2]>>
       ELSE \/ rate.crossed \/ rate.id \in dirty
            \/ index[rate.id] # 0 /\ rate.pages = PagesOf(index[rate.id])

\* A funnel's counts are of the pages it shows, unless the goal changed meanwhile, or
\* the rate came from the cache and was another goal's or itself overtaken by a change.
FunnelIsOfItsGoal ==
  \A c \in Client :
    At(c, "steps") /\ c \notin crossed /\ call[c].result.id = call[c].query.id
      /\ ~call[c].result.crossed =>
        call[c].result.pages = PagesOf(call[c].goal)

\* A deleted goal stays deleted until it is created again: an update that got the
\* goal before the delete does not bring it back.
OnlyCreateBringsBack ==
  [][\A id \in Id : index[id] = 0 /\ index'[id] # 0 => Len(goals') > Len(goals)]_vars

\* A goal that requests have changed one at a time, however calculations and a
\* closing store cross them, has the pages that they gave; an update that a closed
\* store refuses has been made all the same.
GoalsAreAsGiven ==
  \A id \in Id :
    index[id] # 0 /\ given[id] # Unknown /\ Updating(id) = {} =>
      PagesOf(index[id]) = given[id]

\* A client that was clearing the cache, or deleting an expired entry of k, takes its step.
TakesOut(k) ==
  \E c \in Client : /\ call'[c] # call[c]
                   /\ \/ At(c, "clear")
                      \/ At(c, "drop") /\ Key(call[c].query) = k

\* An entry leaves the cache before its time only with all the others, or when it was
\* set between a Get's finding the previous one expired and deleting the key.
LeavesInTime == [][\A k \in Keys : k \notin DOMAIN items' => TakesOut(k)]_vars
===============================================================================
