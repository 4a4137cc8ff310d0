------------------------------- MODULE Sessions -------------------------------
(***************************************************************************)
(* Sessions: SessionService (internal/service/session_service.go) over the *)
(* session part of MemoryStore (internal/store/session_store.go) and the   *)
(* Session record (internal/model/session.go).                             *)
(*                                                                         *)
(* The store hands out pointers. BuildSession and ReclassifyUserType read  *)
(* and write the stored sessions through them, without the store's mutex,  *)
(* between their calls to the store. Such writes race: AddEvent loads the  *)
(* event count before it stores it, and UpdateSession, given the store's   *)
(* own pointer, copies a session onto itself, so that a write that falls   *)
(* between the copy's load and its store of a field is undone.             *)
(*                                                                         *)
(* A session is its number in the order of creation, which is the order of *)
(* every sessionsByUser slice. Pages, referrer and country are left out:   *)
(* they are written where the event count is, and nothing reads them back. *)
(***************************************************************************)
EXTENDS Integers, Sequences, FiniteSetsExt, Functions

CONSTANTS User,
          Caller,           \* goroutines that call the service
          Timeout,          \* config.Session.Timeout()
          ReturningAfter,   \* 3 in AddEvent
          MinSessions,      \* config.Session.MinEventsForSession
          MaxTime,          \* bound: the last instant
          Timestamp,        \* bound: the timestamps of events
          MaxEvents         \* bound: events put into sessions

ASSUME SessionsAssumption ==
  /\ Timeout \in Nat \ {0}
  /\ {ReturningAfter, MinSessions, MaxTime, MaxEvents} \subseteq Nat
  /\ Timestamp \subseteq 0..MaxTime

VARIABLES sessions,   \* the store's sessions: [user, state, type, last, end, count]
          isOpen,
          now,
          call,       \* what each caller is doing
          \* history
          added,      \* events put into each session, its first one included
          raced,      \* sessions that two callers have written at once
          crossed     \* users one of whose events crossed another in BuildSession, or
                      \* was not of the present until BuildSession was done with it

vars == <<sessions, isOpen, now, call, added, raced, crossed>>

Ids == DOMAIN sessions

Idle == [at |-> "idle"]

Init ==
  /\ sessions = <<>>
  /\ isOpen = TRUE
  /\ now = 0
  /\ call = [c \in Caller |-> Idle]
  /\ added = <<>>
  /\ raced = {} /\ crossed = {}

\* UpdateSession holds the store's mutex while it copies.
MutexFree == \A c \in Caller : call[c].at # "copy"

\* The sessions whose fields c has loaded and may still write.
Writing(c) == IF call[c].at \in {"store", "update", "copy"} THEN {call[c].session} ELSE {}

\* c goes on with state s; two callers that write one session race.
Goto(c, s) ==
  /\ call' = [call EXCEPT ![c] = s]
  /\ raced' = raced \cup (Writing(c)' \cap UNION {Writing(d) : d \in Caller \ {c}})

SumSeq(seq) == FoldFunction(+, 0, seq)

SessionsOf(u) == {s \in Ids : sessions[s].user = u}

IsActive(s) == sessions[s].state = "active" /\ now <= sessions[s].end

\* The user whose event c has still to put into a session.
UserOf(c) ==
  CASE call[c].at \in {"choose", "create"} -> {call[c].user}
    [] call[c].at \in {"load", "store"}    -> {sessions[call[c].session].user}
    [] OTHER                               -> {}

Building == UNION {UserOf(c) : c \in Caller}

-------------------------------------------------------------------------------
(* BuildSession, for an event of user u with timestamp ts, which the client may
   set. *)

\* Events put into sessions, or about to be.
Events == SumSeq(added)
          + Cardinality({c \in Caller : call[c].at \in {"choose", "create", "load", "store"}})

\* store.GetUserSessions
BuildSession(c, u, ts) ==
  /\ call[c] = Idle /\ MutexFree
  /\ Events < MaxEvents
  /\ Goto(c, [at |-> "choose", user |-> u, ts |-> ts, found |-> SessionsOf(u)])
  /\ crossed' = IF ts # now \/ u \in Building THEN crossed \cup {u} ELSE crossed
  /\ UNCHANGED <<sessions, isOpen, now, added>>

\* The session found active with the latest event, the first of them.
MostRecent(found) ==
  LET active == {s \in found : IsActive(s)}
  IN {s \in active : \A t \in active :
        \/ sessions[t].last < sessions[s].last
        \/ sessions[t].last = sessions[s].last /\ s <= t}

\* Mutant: the comparison is the wrong way round.
ChooseOld(c) ==
  /\ call[c].at = "choose"
  /\ LET ts == call[c].ts
         chosen == {s \in MostRecent(call[c].found) : ts - sessions[s].last > Timeout}
     IN Goto(c, IF chosen = {}
                THEN [at |-> "create", user |-> call[c].user, ts |-> ts]
                ELSE [at |-> "load", ts |-> ts, session |-> CHOOSE s \in chosen : TRUE])
  /\ UNCHANGED <<sessions, isOpen, now, added, crossed>>

\* Use it, or create one.
Choose(c) ==
  /\ call[c].at = "choose"
  /\ LET ts == call[c].ts
         chosen == {s \in MostRecent(call[c].found) : ts - sessions[s].last <= Timeout}
     IN Goto(c, IF chosen = {}
                THEN [at |-> "create", user |-> call[c].user, ts |-> ts]
                ELSE [at |-> "load", ts |-> ts, session |-> CHOOSE s \in chosen : TRUE])
  /\ UNCHANGED <<sessions, isOpen, now, added, crossed>>

\* Mutant: the first event is counted by BuildSession and once more.
NewSessionTwice(u, ts) ==
  [user |-> u, state |-> "active", type |-> "new",
   last |-> ts, end |-> now + Timeout, count |-> 2]

\* NewSession's fields, as BuildSession sets them for the first event.
NewSession(u, ts) ==
  [user |-> u, state |-> "active", type |-> "new",
   last |-> ts, end |-> now + Timeout, count |-> 1]

\* store.CreateSession; a closed store refuses.
CreateSession(c) ==
  /\ call[c].at = "create" /\ MutexFree
  /\ IF isOpen
     THEN sessions' = Append(sessions, NewSession(call[c].user, call[c].ts))
          /\ added' = Append(added, 1)
     ELSE UNCHANGED <<sessions, added>>
  /\ Goto(c, Idle)
  /\ UNCHANGED <<isOpen, now, crossed>>

\* AddEvent loads the event count ...
LoadCount(c) ==
  /\ call[c].at = "load"
  /\ LET s == call[c].session
     IN Goto(c, [at |-> "store", ts |-> call[c].ts, session |-> s,
                 count |-> sessions[s].count])
  /\ UNCHANGED <<sessions, isOpen, now, added, crossed>>

\* Mutant: the end time is counted from the present.
WithEventFromNow(s, ts, n) ==
  [s EXCEPT !.last = ts, !.end = now + Timeout, !.count = n + 1,
            !.type = IF n + 1 > ReturningAfter THEN "returning" ELSE @]

\* Mutant: an event makes its session active.
WithEventReactivating(s, ts, n) ==
  [s EXCEPT !.last = ts, !.end = ts + Timeout, !.count = n + 1, !.state = "active",
            !.type = IF n + 1 > ReturningAfter THEN "returning" ELSE @]

\* What AddEvent makes of session s, for an event at ts after n others.
WithEvent(s, ts, n) ==
  [s EXCEPT !.last = ts, !.end = ts + Timeout, !.count = n + 1,
            !.type = IF n + 1 > ReturningAfter THEN "returning" ELSE @]

\* ... and stores the fields.
AddEvent(c) ==
  /\ call[c].at = "store"
  /\ LET s == call[c].session
     IN /\ sessions' = [sessions EXCEPT ![s] = WithEvent(@, call[c].ts, call[c].count)]
        /\ added' = [added EXCEPT ![s] = @ + 1]
        /\ Goto(c, [at |-> "update", session |-> s, next |-> Idle])
  /\ UNCHANGED <<isOpen, now, crossed>>

-------------------------------------------------------------------------------
(* ReclassifyUserType, and UpdateSession for both. *)

\* Mutant: MinSessions sessions are enough.
ReclassifyEarly(c, u) ==
  /\ call[c] = Idle /\ MutexFree
  /\ Goto(c, [at |-> "classify", todo |-> SessionsOf(u),
              type |-> IF Cardinality(SessionsOf(u)) >= MinSessions
                       THEN "returning" ELSE "new"])
  /\ UNCHANGED <<sessions, isOpen, now, added, crossed>>

\* store.GetUserSessions; their number decides the user's type.
ReclassifyUserType(c, u) ==
  /\ call[c] = Idle /\ MutexFree
  /\ Goto(c, [at |-> "classify", todo |-> SessionsOf(u),
              type |-> IF Cardinality(SessionsOf(u)) > MinSessions
                       THEN "returning" ELSE "new"])
  /\ UNCHANGED <<sessions, isOpen, now, added, crossed>>

\* The loop: the next session gets the type, if it is active now.
Classify(c) ==
  /\ call[c].at = "classify"
  /\ IF call[c].todo = {}
     THEN Goto(c, Idle) /\ UNCHANGED sessions
     ELSE LET s == Min(call[c].todo)
              rest == [call[c] EXCEPT !.todo = @ \ {s}]
          IN IF sessions[s].state = "active"
             THEN /\ sessions' = [sessions EXCEPT ![s].type = call[c].type]
                  /\ Goto(c, [at |-> "update", session |-> s, next |-> rest])
             ELSE Goto(c, rest) /\ UNCHANGED sessions
  /\ UNCHANGED <<isOpen, now, added, crossed>>

\* UpdateSession locks the store and loads the session. A closed store refuses,
\* and the call ends with that error.
UpdateSession(c) ==
  /\ call[c].at = "update" /\ MutexFree
  /\ LET s == call[c].session
     IN Goto(c, IF isOpen
                THEN [at |-> "copy", session |-> s, loaded |-> sessions[s],
                      next |-> call[c].next]
                ELSE Idle)
  /\ UNCHANGED <<sessions, isOpen, now, added, crossed>>

\* The fields that AddEvent and ReclassifyUserType write without the mutex.
Unlocked == {"type", "last", "end", "count"}

\* It stores what it has loaded. Of a field written meanwhile that undoes the
\* write, unless it came before the field's load or after its store.
Assign(c) ==
  /\ call[c].at = "copy"
  /\ \E F \in SUBSET Unlocked :
       sessions' = [sessions EXCEPT ![call[c].session] =
                      [f \in DOMAIN @ |-> IF f \in F THEN call[c].loaded[f] ELSE @[f]]]
  /\ Goto(c, call[c].next)
  /\ UNCHANGED <<isOpen, now, added, crossed>>

-------------------------------------------------------------------------------
\* ExpireSessions, by the scheduler with the present or by a client with any
\* time: there is no isOpen check.
ExpireSessions(before) ==
  /\ MutexFree
  /\ sessions' = [s \in Ids |-> IF sessions[s].end < before
                                THEN [sessions[s] EXCEPT !.state = "expired"]
                                ELSE sessions[s]]
  /\ UNCHANGED <<isOpen, now, call, added, raced, crossed>>

Close ==
  /\ MutexFree
  /\ isOpen' = FALSE
  /\ UNCHANGED <<sessions, now, call, added, raced, crossed>>

Advance ==
  /\ now < MaxTime
  /\ now' = now + 1
  /\ crossed' = crossed \cup Building
  /\ UNCHANGED <<sessions, isOpen, call, added, raced>>

Step(c) ==
  \/ \E u \in User : (\E ts \in Timestamp : BuildSession(c, u, ts)) \/ ReclassifyUserType(c, u)
  \/ Choose(c) \/ CreateSession(c) \/ LoadCount(c) \/ AddEvent(c)
  \/ Classify(c) \/ UpdateSession(c) \/ Assign(c)

Next ==
  \/ \E c \in Caller : Step(c)
  \/ \E before \in 0..(MaxTime + Timeout + 1) : ExpireSessions(before)
  \/ Close
  \/ Advance

Spec == Init /\ [][Next]_vars

-------------------------------------------------------------------------------
(* Properties *)

\* An expired session stays expired, although calls that found it active still
\* write to it, move its end time into the future, and copy it onto itself.
ExpiredIsFinal ==
  [][\A s \in Ids : sessions[s].state = "expired" => sessions'[s].state = "expired"]_vars

\* A session never counts more events than were put into it, and counts each of
\* them unless two calls wrote it at once (EventCount++ loses updates then).
CountsEvents ==
  \A s \in Ids : /\ sessions[s].count <= added[s]
                 /\ s \notin raced => sessions[s].count = added[s]

\* The end time of a session with more than one event follows the last event, as
\* BuildSession's timeout check and ExpireSessions both assume, unless two calls
\* wrote the session at once.
EndFollowsLastEvent ==
  \A s \in Ids \ raced : added[s] > 1 => sessions[s].end = sessions[s].last + Timeout

\* A user is called returning only for enough events in that session, or for
\* enough sessions, however stale the count of them was when it was written.
ReturningIsEarned ==
  \A s \in Ids : sessions[s].type = "returning" =>
    \/ added[s] > ReturningAfter
    \/ Cardinality(SessionsOf(sessions[s].user)) > MinSessions

\* A user has one live session at most, as long as the user's events come one at a
\* time and as they happen: BuildSession makes another only when IsActive, which looks
\* at the clock, and its own timeout check, which looks at the last event, let it. An
\* event with another timestamp, or two at once, can leave two live sessions.
OneLiveSession ==
  \A u \in User \ crossed :
    SessionsOf(u) \cap raced = {} => Cardinality({s \in SessionsOf(u) : IsActive(s)}) <= 1
===============================================================================
