---------------------------- MODULE SessionsProofs ----------------------------
(* Proofs about Sessions, for any users, callers, timeout, thresholds and bounds. *)
EXTENDS Sessions, FiniteSetTheorems, SequenceTheorems, WellFoundedInduction, TLAPS

UserType == {"new", "returning"}

Session == [user: User, state: {"active", "expired"}, type: UserType,
            last: Int, end: Int, count: Nat]

\* What a caller does when the work at hand is done, and what it may be doing, when
\* the sessions are those of I.
Task(I) == {Idle} \cup [at: {"classify"}, todo: SUBSET I, type: UserType]

State(I) ==
  Task(I)
  \cup [at: {"choose"}, user: User, ts: Int, found: SUBSET I]
  \cup [at: {"create"}, user: User, ts: Int]
  \cup [at: {"load"}, ts: Int, session: I]
  \cup [at: {"store"}, ts: Int, session: I, count: Nat]
  \cup [at: {"update"}, session: I, next: Task(I)]
  \cup [at: {"copy"}, session: I, loaded: Session, next: Task(I)]

TypeOK ==
  /\ sessions \in Seq(Session)
  /\ isOpen \in BOOLEAN
  /\ now \in Nat
  /\ call \in [Caller -> State(Ids)]
  /\ added \in Seq(Nat) /\ Len(added) = Len(sessions)
  /\ raced \subseteq Ids

\* Two callers are never about to write one session that has not been raced.
WritersRace ==
  \A c, d \in Caller : \A s \in Ids \ raced :
    c # d => s \notin Writing(c) \/ s \notin Writing(d)

\* What the callers have loaded is what the store holds, of an unraced session, and
\* counts no event that was not put into the session, of any.
LoadedHolds ==
  \A c \in Caller :
    /\ call[c].at = "store" =>
         LET s == call[c].session
         IN call[c].count <= added[s] /\ (s \notin raced => call[c].count = added[s])
    /\ call[c].at = "copy" =>
         LET s == call[c].session
         IN /\ call[c].loaded.count <= added[s]
            /\ s \notin raced => call[c].loaded = sessions[s]

\* Session s may be called returning for its user's sessions, or at all.
Enough(s) == Cardinality(SessionsOf(sessions[s].user)) > MinSessions
Earned(s) == added[s] > ReturningAfter \/ Enough(s)

\* A classifying task that says "returning" has counted enough sessions of the user
\* of every session that it has still to classify.
TaskEarned(t) ==
  t.at = "classify" /\ t.type = "returning" =>
    \A s \in t.todo : Enough(s)

TypesEarned ==
  \A c \in Caller :
    /\ TaskEarned(call[c])
    /\ call[c].at \in {"update", "copy"} => TaskEarned(call[c].next)
    /\ call[c].at = "copy" /\ call[c].loaded.type = "returning" => Earned(call[c].session)

\* The users about whom OneLiveSession speaks.
InOrder(u) == u \notin crossed /\ SessionsOf(u) \cap raced = {}

\* Their events are put into sessions one at a time, at the present time.
BuildsAreOrdered ==
  \A u \in User \ crossed :
    /\ \A c \in Caller : UserOf(c) = {u} => call[c].ts = now
    /\ \A c, d \in Caller : UserOf(c) = {u} /\ UserOf(d) = {u} => c = d

\* Its end time then follows a session's last event, and no two of the sessions are
\* live; while an event waits for its session, none is but that one.
AloneFor(u, c) ==
  UserOf(c) = {u} =>
    /\ call[c].at = "choose" => call[c].found = SessionsOf(u)
    /\ call[c].at = "create" => \A s \in SessionsOf(u) : ~IsActive(s)
    /\ call[c].at \in {"load", "store"} =>
         \A s \in SessionsOf(u) : IsActive(s) => s = call[c].session

LiveInOrder(u) ==
  /\ \A s \in SessionsOf(u) : sessions[s].end = sessions[s].last + Timeout
  /\ \A s, t \in SessionsOf(u) : IsActive(s) /\ IsActive(t) => s = t
  /\ \A c \in Caller : AloneFor(u, c)

\* BuildSession chooses among the sessions of the event's user.
FoundOfUser ==
  \A c \in Caller : call[c].at = "choose" => call[c].found \subseteq SessionsOf(call[c].user)

LiveInv ==
  /\ FoundOfUser
  /\ BuildsAreOrdered
  /\ \A u \in User : InOrder(u) => LiveInOrder(u)

-------------------------------------------------------------------------------
(* What a caller's state holds. *)

LEMMA StateFields ==
  ASSUME NEW I, NEW x \in State(I)
  PROVE  /\ x.at = "choose" => x.user \in User /\ x.ts \in Int /\ x.found \subseteq I
         /\ x.at = "create" => x.user \in User /\ x.ts \in Int
         /\ x.at \in {"load", "store", "update", "copy"} => x.session \in I
         /\ x.at \in {"load", "store"} => x.ts \in Int
         /\ x.at = "store" => x.count \in Nat
         /\ x.at \in {"update", "copy"} => x.next \in Task(I)
         /\ x.at = "copy" => x.loaded \in Session
         /\ x.at = "classify" => x \in Task(I)
         /\ x.at \in {"idle", "choose", "create", "load", "store", "update", "copy", "classify"}
BY DEF State, Task, Idle

LEMMA TaskFields ==
  ASSUME NEW I, NEW x \in Task(I)
  PROVE  /\ x \in State(I)
         /\ x.at \in {"idle", "classify"}
         /\ x.at = "idle" => x = Idle
         /\ x.at = "classify" => x.todo \subseteq I /\ x.type \in UserType
BY DEF State, Task, Idle

LEMMA StateGrows ==
  ASSUME NEW I, NEW J, I \subseteq J
  PROVE  Task(I) \subseteq Task(J) /\ State(I) \subseteq State(J)
<1>1. Task(I) \subseteq Task(J)
  BY DEF Task
<1> QED
  BY <1>1 DEF State

\* Every nonempty set of naturals has a least element.
LEMMA MinOfNaturals ==
  ASSUME NEW S \in SUBSET Nat, S # {}
  PROVE  Min(S) \in S /\ \A y \in S : Min(S) <= y
<1>1. PICK x \in S : \A y \in S : <<y, x>> \notin OpToRel(<, Nat)
  BY NatLessThanWellFounded, WFMin
<1>2. \A y \in S : x <= y
  <2>1. \A y \in S : ~(y < x)
    BY <1>1 DEF OpToRel
  <2> QED
    BY <2>1
<1> QED
  BY <1>2 DEF Min

LEMMA GotoEffect ==
  ASSUME TypeOK, NEW c \in Caller, NEW x, Goto(c, x)
  PROVE  /\ call'[c] = x
         /\ \A d \in Caller : d # c => call'[d] = call[d] /\ Writing(d)' = Writing(d)
         /\ Writing(c)' = IF x.at \in {"store", "update", "copy"} THEN {x.session} ELSE {}
         /\ raced \subseteq raced' /\ raced' \subseteq raced \cup Writing(c)'
         /\ \A d \in Caller : d # c => Writing(c)' \cap Writing(d) \subseteq raced'
<1>1. /\ call'[c] = x
      /\ \A d \in Caller : d # c => call'[d] = call[d]
  BY DEF Goto, TypeOK
<1>2. /\ Writing(c)' = IF x.at \in {"store", "update", "copy"} THEN {x.session} ELSE {}
      /\ \A d \in Caller : d # c => Writing(d)' = Writing(d)
  BY <1>1 DEF Writing
<1>3. raced' = raced \cup (Writing(c)' \cap UNION {Writing(d) : d \in Caller \ {c}})
  BY DEF Goto
<1> HIDE DEF Writing
<1> QED
  BY <1>1, <1>2, <1>3

LEMMA GotoTypes ==
  ASSUME TypeOK, NEW c \in Caller, Ids \subseteq Ids',
         NEW x \in State(Ids'), Goto(c, x)
  PROVE  call' \in [Caller -> State(Ids')] /\ raced' \subseteq Ids'
<1>1. State(Ids) \subseteq State(Ids')
  BY StateGrows
<1>2. call' \in [Caller -> State(Ids')]
  BY <1>1 DEF Goto, TypeOK
<1>3. Writing(c)' \subseteq Ids'
  BY <1>2, StateFields DEF Writing
<1> QED
  BY <1>2, <1>3, GotoEffect DEF TypeOK

-------------------------------------------------------------------------------
(* Type correctness. *)

LEMMA SessionFields ==
  ASSUME TypeOK, NEW s \in Ids
  PROVE  /\ s \in Nat /\ sessions[s] \in Session
         /\ DOMAIN sessions[s] = {"user", "state", "type", "last", "end", "count"}
         /\ Ids = DOMAIN added /\ added[s] \in Nat
<1>1. s \in Nat /\ sessions[s] \in Session /\ Ids = DOMAIN added /\ added[s] \in Nat
  BY DEF TypeOK, Ids
<1>2. \A r \in Session : DOMAIN r = {"user", "state", "type", "last", "end", "count"}
  BY DEF Session
<1> QED
  BY <1>1, <1>2

LEMMA InitTypes == Init => TypeOK
BY DEF Init, TypeOK, State, Task

LEMMA BuildSessionTypes ==
  ASSUME TypeOK, NEW c \in Caller, NEW u \in User, NEW ts \in Timestamp, BuildSession(c, u, ts)
  PROVE  TypeOK'
<1>1. ts \in Int
  BY SessionsAssumption
<1>2. [at |-> "choose", user |-> u, ts |-> ts, found |-> SessionsOf(u)] \in State(Ids')
  BY <1>1 DEF State, SessionsOf, BuildSession, Ids
<1> QED
  BY <1>2, GotoTypes DEF BuildSession, TypeOK, Ids

LEMMA ReclassifyTypes ==
  ASSUME TypeOK, NEW c \in Caller, NEW u \in User, ReclassifyUserType(c, u)
  PROVE  TypeOK'
<1>1. PICK t \in UserType :
        Goto(c, [at |-> "classify", todo |-> SessionsOf(u), type |-> t])
  BY DEF ReclassifyUserType, UserType
<1>2. [at |-> "classify", todo |-> SessionsOf(u), type |-> t] \in State(Ids')
  BY DEF State, Task, SessionsOf, ReclassifyUserType, Ids
<1> QED
  BY <1>1, <1>2, GotoTypes DEF ReclassifyUserType, TypeOK, Ids

LEMMA ChooseTypes ==
  ASSUME TypeOK, NEW c \in Caller, Choose(c)
  PROVE  TypeOK'
<1>1. call[c].user \in User /\ call[c].ts \in Int /\ call[c].found \subseteq Ids
  BY StateFields DEF TypeOK, Choose
<1>2. PICK x \in State(Ids') : Goto(c, x)
  <2> DEFINE chosen == {s \in MostRecent(call[c].found) : call[c].ts - sessions[s].last <= Timeout}
  <2>1. chosen \subseteq Ids'
    BY <1>1 DEF MostRecent, Choose, Ids
  <2>2. [at |-> "create", user |-> call[c].user, ts |-> call[c].ts] \in State(Ids')
    BY <1>1 DEF State
  <2>3. chosen # {} => [at |-> "load", ts |-> call[c].ts, session |-> CHOOSE s \in chosen : TRUE] \in State(Ids')
    BY <1>1, <2>1 DEF State
  <2>4. Goto(c, IF chosen = {} THEN [at |-> "create", user |-> call[c].user, ts |-> call[c].ts]
                ELSE [at |-> "load", ts |-> call[c].ts, session |-> CHOOSE s \in chosen : TRUE])
    BY DEF Choose
  <2> HIDE DEF chosen
  <2> QED
    BY <2>2, <2>3, <2>4
<1> QED
  BY <1>2, GotoTypes DEF Choose, TypeOK, Ids

LEMMA CreateSessionTypes ==
  ASSUME TypeOK, NEW c \in Caller, CreateSession(c)
  PROVE  TypeOK'
<1>1. Idle \in State(Ids')
  BY DEF State, Task
<1>2. CASE isOpen
  <2>1. call[c].user \in User /\ call[c].ts \in Int
    BY StateFields DEF TypeOK, CreateSession
  <2>2. NewSession(call[c].user, call[c].ts) \in Session
    BY <2>1, SessionsAssumption DEF NewSession, Session, UserType, TypeOK
  <2>3. PICK r \in Session : sessions' = Append(sessions, r) /\ added' = Append(added, 1)
    BY <1>2, <2>2 DEF CreateSession
  <2>4. /\ sessions' \in Seq(Session) /\ added' \in Seq(Nat) /\ Len(added') = Len(sessions')
        /\ Ids \subseteq Ids'
    BY <2>3, AppendProperties DEF TypeOK, Ids
  <2> QED
    BY <1>1, <2>4, GotoTypes DEF CreateSession, TypeOK, Ids
<1>3. CASE ~isOpen
  BY <1>1, <1>3, GotoTypes DEF CreateSession, TypeOK, Ids
<1> QED
  BY <1>2, <1>3

LEMMA LoadCountTypes ==
  ASSUME TypeOK, NEW c \in Caller, LoadCount(c)
  PROVE  TypeOK'
<1>1. call[c].session \in Ids /\ call[c].ts \in Int
  BY StateFields DEF TypeOK, LoadCount
<1>2. sessions[call[c].session].count \in Nat
  BY <1>1, SessionFields DEF Session
<1>3. [at |-> "store", ts |-> call[c].ts, session |-> call[c].session,
       count |-> sessions[call[c].session].count] \in State(Ids')
  BY <1>1, <1>2 DEF State, LoadCount, Ids
<1> QED
  BY <1>3, GotoTypes DEF LoadCount, TypeOK, Ids

\* A step that changes fields of sessions, and adds none.
LEMMA FieldsTypes ==
  ASSUME TypeOK, NEW s \in Ids, NEW r \in Session, sessions' = [sessions EXCEPT ![s] = r]
  PROVE  sessions' \in Seq(Session) /\ Ids' = Ids /\ Len(sessions') = Len(sessions)
BY DEF TypeOK, Ids

LEMMA WithEventTypes ==
  ASSUME NEW r \in Session, NEW ts \in Int, NEW n \in Nat
  PROVE  /\ WithEvent(r, ts, n) \in Session
         /\ WithEvent(r, ts, n).user = r.user /\ WithEvent(r, ts, n).state = r.state
         /\ WithEvent(r, ts, n).last = ts /\ WithEvent(r, ts, n).end = ts + Timeout
         /\ WithEvent(r, ts, n).count = n + 1
         /\ WithEvent(r, ts, n).type = "returning" => r.type = "returning" \/ n + 1 > ReturningAfter
<1>1. PICK t \in UserType :
        /\ WithEvent(r, ts, n) = [r EXCEPT !.last = ts, !.end = ts + Timeout, !.count = n + 1, !.type = t]
        /\ t = "returning" => r.type = "returning" \/ n + 1 > ReturningAfter
  BY DEF WithEvent, Session, UserType
<1>2. ts + Timeout \in Int /\ n + 1 \in Nat
  BY SessionsAssumption
<1> QED
  BY <1>1, <1>2 DEF Session

LEMMA AddEventTypes ==
  ASSUME TypeOK, NEW c \in Caller, AddEvent(c)
  PROVE  TypeOK'
<1> PICK s : s = call[c].session
  OBVIOUS
<1>1. s \in Ids /\ call[c].ts \in Int /\ call[c].count \in Nat
  BY StateFields DEF TypeOK, AddEvent
<1>2. WithEvent(sessions[s], call[c].ts, call[c].count) \in Session
  BY <1>1, SessionFields, WithEventTypes
<1>3. sessions' \in Seq(Session) /\ Ids' = Ids /\ Len(sessions') = Len(sessions)
  BY <1>1, <1>2, FieldsTypes DEF AddEvent
<1>4. added' \in Seq(Nat) /\ Len(added') = Len(added)
  BY <1>1, SessionFields DEF AddEvent, TypeOK
<1>5. [at |-> "update", session |-> s, next |-> Idle] \in State(Ids')
  BY <1>1, <1>3 DEF State, Task
<1> QED
  BY <1>3, <1>4, <1>5, GotoTypes DEF AddEvent, TypeOK, Ids

\* The classifying task that is left when session s has had its turn.
Rest(c, s) == [call[c] EXCEPT !.todo = @ \ {s}]

LEMMA RestFields ==
  ASSUME TypeOK, NEW c \in Caller, call[c].at = "classify", NEW s
  PROVE  /\ call[c].todo \subseteq Ids /\ call[c].type \in UserType
         /\ Rest(c, s) \in Task(Ids) /\ Rest(c, s).at = "classify"
         /\ Rest(c, s).type = call[c].type /\ Rest(c, s).todo = call[c].todo \ {s}
<1>1. call[c] \in State(Ids)
  BY DEF TypeOK
<1>2. call[c] \in [at: {"classify"}, todo: SUBSET Ids, type: UserType]
  BY <1>1, StateFields DEF Task, Idle
<1> QED
  BY <1>2 DEF Rest, Task

LEMMA ClassifyCases ==
  ASSUME TypeOK, NEW c \in Caller, Classify(c)
  PROVE  \/ Goto(c, Idle) /\ sessions' = sessions
         \/ \E s \in call[c].todo : Goto(c, Rest(c, s)) /\ sessions' = sessions
         \/ \E s \in call[c].todo :
              /\ sessions[s].state = "active"
              /\ sessions' = [sessions EXCEPT ![s] = [sessions[s] EXCEPT !.type = call[c].type]]
              /\ Goto(c, [at |-> "update", session |-> s, next |-> Rest(c, s)])
<1>1. CASE call[c].todo = {}
  BY <1>1 DEF Classify
<1>2. CASE call[c].todo # {}
  <2>0. call[c].todo \subseteq Ids
    BY RestFields DEF Classify
  <2>1. call[c].todo \in SUBSET Nat
    BY <2>0 DEF TypeOK, Ids
  <2>2. Min(call[c].todo) \in call[c].todo
    BY <1>2, <2>1, MinOfNaturals
  <2>3. PICK s \in call[c].todo :
          IF sessions[s].state = "active"
          THEN /\ sessions' = [sessions EXCEPT ![s].type = call[c].type]
               /\ Goto(c, [at |-> "update", session |-> s, next |-> Rest(c, s)])
          ELSE Goto(c, Rest(c, s)) /\ UNCHANGED sessions
    BY <1>2, <2>2 DEF Classify, Rest
  <2> QED
    BY <2>3
<1> QED
  BY <1>1, <1>2

LEMMA TypeChangeFields ==
  ASSUME NEW r \in Session, NEW t \in UserType
  PROVE  LET q == [r EXCEPT !.type = t]
         IN /\ q \in Session /\ q.user = r.user /\ q.state = r.state /\ q.last = r.last
            /\ q.end = r.end /\ q.count = r.count /\ q.type = t
BY DEF Session

LEMMA ClassifyTypes ==
  ASSUME TypeOK, NEW c \in Caller, Classify(c)
  PROVE  TypeOK'
<1>1. /\ call[c].at = "classify" /\ UNCHANGED <<isOpen, now, added>>
      /\ call[c].todo \subseteq Ids /\ call[c].type \in UserType
  BY RestFields DEF Classify
<1>2. CASE Goto(c, Idle) /\ sessions' = sessions
  <2>1. Idle \in State(Ids')
    BY DEF State, Task
  <2> QED
    BY <1>1, <1>2, <2>1, GotoTypes DEF TypeOK, Ids
<1>3. ASSUME NEW s \in call[c].todo, Goto(c, Rest(c, s)), sessions' = sessions
      PROVE  TypeOK'
  <2>1. Rest(c, s) \in State(Ids')
    BY <1>1, <1>3, RestFields, TaskFields DEF Ids
  <2> QED
    BY <1>1, <1>3, <2>1, GotoTypes DEF TypeOK, Ids
<1>4. ASSUME NEW s \in call[c].todo,
             sessions' = [sessions EXCEPT ![s] = [sessions[s] EXCEPT !.type = call[c].type]],
             Goto(c, [at |-> "update", session |-> s, next |-> Rest(c, s)])
      PROVE  TypeOK'
  <2>1. sessions' \in Seq(Session) /\ Ids' = Ids /\ Len(sessions') = Len(sessions)
    BY <1>1, <1>4, SessionFields, TypeChangeFields, FieldsTypes
  <2>2. [at |-> "update", session |-> s, next |-> Rest(c, s)] \in State(Ids')
    BY <1>1, <2>1, RestFields DEF State
  <2> QED
    BY <1>1, <1>4, <2>1, <2>2, GotoTypes DEF TypeOK
<1> QED
  BY <1>2, <1>3, <1>4, ClassifyCases

LEMMA UpdateSessionCases ==
  ASSUME TypeOK, NEW c \in Caller, UpdateSession(c)
  PROVE  /\ call[c].session \in Ids /\ call[c].next \in Task(Ids)
         /\ \/ Goto(c, Idle)
            \/ Goto(c, [at |-> "copy", session |-> call[c].session,
                        loaded |-> sessions[call[c].session], next |-> call[c].next])
BY StateFields DEF TypeOK, UpdateSession

LEMMA UpdateSessionTypes ==
  ASSUME TypeOK, NEW c \in Caller, UpdateSession(c)
  PROVE  TypeOK'
<1>1. UNCHANGED <<sessions, isOpen, now, added>>
  BY DEF UpdateSession
<1>2. Idle \in State(Ids')
  BY DEF State, Task
<1>3. [at |-> "copy", session |-> call[c].session,
       loaded |-> sessions[call[c].session], next |-> call[c].next] \in State(Ids')
  BY <1>1, UpdateSessionCases, SessionFields DEF State, Ids
<1>4. call' \in [Caller -> State(Ids')] /\ raced' \subseteq Ids'
  BY <1>1, <1>2, <1>3, UpdateSessionCases, GotoTypes DEF Ids
<1> QED
  BY <1>1, <1>4 DEF TypeOK

\* What the copy leaves: each field is the loaded one or the present one, the user and
\* the state are the present ones, and a copy of what is there changes nothing.
LEMMA AssignEffect ==
  ASSUME TypeOK, NEW c \in Caller, Assign(c)
  PROVE  \E s \in Ids, r \in Session :
           /\ s = call[c].session /\ sessions' = [sessions EXCEPT ![s] = r]
           /\ r.user = sessions[s].user /\ r.state = sessions[s].state
           /\ r.count \in {call[c].loaded.count, sessions[s].count}
           /\ r.type \in {call[c].loaded.type, sessions[s].type}
           /\ call[c].loaded = sessions[s] => sessions' = sessions
<1> PICK s, l : s = call[c].session /\ l = call[c].loaded
  OBVIOUS
<1>1. s \in Ids /\ l \in Session
  BY StateFields DEF TypeOK, Assign
<1>2. sessions[s] \in Session /\ DOMAIN sessions[s] = {"user", "state", "type", "last", "end", "count"}
  BY <1>1, SessionFields
<1>3. PICK F \in SUBSET Unlocked :
        sessions' = [sessions EXCEPT ![s] = [f \in DOMAIN @ |-> IF f \in F THEN l[f] ELSE @[f]]]
  BY DEF Assign
<1> DEFINE r == [f \in {"user", "state", "type", "last", "end", "count"} |->
                  IF f \in F THEN l[f] ELSE sessions[s][f]]
<1>4. sessions' = [sessions EXCEPT ![s] = r]
  BY <1>2, <1>3
<1>5. /\ r.user = sessions[s].user /\ r.state = sessions[s].state
      /\ r.count \in {l.count, sessions[s].count} /\ r.type \in {l.type, sessions[s].type}
      /\ r.last \in {l.last, sessions[s].last} /\ r.end \in {l.end, sessions[s].end}
  BY DEF Unlocked
<1>6. r \in Session
  BY <1>1, <1>2, <1>5 DEF Session
<1>7. l = sessions[s] => sessions' = sessions
  <2>1. l = sessions[s] => r = sessions[s]
    BY <1>2 DEF Session
  <2> HIDE DEF r
  <2> QED
    BY <1>1, <1>4, <2>1 DEF TypeOK, Ids
<1> HIDE DEF r
<1> QED
  BY <1>1, <1>4, <1>5, <1>6, <1>7

LEMMA AssignTypes ==
  ASSUME TypeOK, NEW c \in Caller, Assign(c)
  PROVE  TypeOK'
<1>1. sessions' \in Seq(Session) /\ Ids' = Ids /\ Len(sessions') = Len(sessions)
  BY AssignEffect, FieldsTypes
<1>2. call[c].next \in State(Ids')
  BY <1>1, StateFields, TaskFields DEF TypeOK, Assign
<1> QED
  BY <1>1, <1>2, GotoTypes DEF Assign, TypeOK

LEMMA ExpireEffect ==
  ASSUME TypeOK, NEW before, ExpireSessions(before)
  PROVE  /\ sessions' \in Seq(Session) /\ Ids' = Ids /\ Len(sessions') = Len(sessions)
         /\ \A s \in Ids :
              /\ sessions'[s].user = sessions[s].user /\ sessions'[s].type = sessions[s].type
              /\ sessions'[s].last = sessions[s].last /\ sessions'[s].end = sessions[s].end
              /\ sessions'[s].count = sessions[s].count
              /\ sessions'[s].state \in {sessions[s].state, "expired"}
<1>1. /\ Ids = 1..Len(sessions) /\ Len(sessions) \in Nat
      /\ \A s \in Ids : sessions[s] \in Session
  BY DEF TypeOK, Ids
<1>2. \A r \in Session :
        LET q == [r EXCEPT !.state = "expired"]
        IN /\ q \in Session /\ q.user = r.user /\ q.state = "expired" /\ q.last = r.last
           /\ q.end = r.end /\ q.count = r.count /\ q.type = r.type
  BY DEF Session
<1>3. /\ DOMAIN sessions' = Ids
      /\ \A s \in Ids : sessions'[s] \in {sessions[s], [sessions[s] EXCEPT !.state = "expired"]}
      /\ sessions' = [s \in Ids |-> sessions'[s]]
  BY DEF ExpireSessions
<1>4. \A s \in Ids : sessions'[s] \in Session
  BY <1>1, <1>2, <1>3
<1>5. sessions' \in Seq(Session) /\ Len(sessions') = Len(sessions)
  BY <1>1, <1>3, <1>4, ElementOfSeq
<1>6. Ids' = Ids
  BY <1>3 DEF Ids
<1>7. ASSUME NEW s \in Ids
      PROVE  /\ sessions'[s].user = sessions[s].user /\ sessions'[s].type = sessions[s].type
             /\ sessions'[s].last = sessions[s].last /\ sessions'[s].end = sessions[s].end
             /\ sessions'[s].count = sessions[s].count
             /\ sessions'[s].state \in {sessions[s].state, "expired"}
  <2>1. CASE sessions'[s] = sessions[s]
    BY <2>1
  <2>2. CASE sessions'[s] = [sessions[s] EXCEPT !.state = "expired"]
    <3> PICK r : r = sessions[s]
      OBVIOUS
    <3>1. r \in Session /\ sessions'[s] = [r EXCEPT !.state = "expired"]
      BY <1>1, <2>2
    <3> QED
      BY <1>2, <3>1
  <2> QED
    BY <1>3, <2>1, <2>2
<1> QED
  BY <1>5, <1>6, <1>7

LEMMA ExpireTypes ==
  ASSUME TypeOK, NEW before, ExpireSessions(before)
  PROVE  TypeOK'
<1>1. sessions' \in Seq(Session) /\ Ids' = Ids /\ Len(sessions') = Len(sessions)
  BY ExpireEffect
<1>2. State(Ids') = State(Ids)
  BY <1>1
<1> QED
  BY <1>1, <1>2 DEF ExpireSessions, TypeOK

LEMMA NextCases ==
  ASSUME [Next]_vars
  PROVE  \/ \E c \in Caller, u \in User, ts \in Timestamp : BuildSession(c, u, ts)
         \/ \E c \in Caller, u \in User : ReclassifyUserType(c, u)
         \/ \E c \in Caller : Choose(c)
         \/ \E c \in Caller : CreateSession(c)
         \/ \E c \in Caller : LoadCount(c)
         \/ \E c \in Caller : AddEvent(c)
         \/ \E c \in Caller : Classify(c)
         \/ \E c \in Caller : UpdateSession(c)
         \/ \E c \in Caller : Assign(c)
         \/ \E before : ExpireSessions(before)
         \/ Close \/ Advance \/ UNCHANGED vars
BY DEF Next, Step

LEMMA QuietTypes ==
  ASSUME TypeOK, Close \/ Advance \/ UNCHANGED vars
  PROVE  TypeOK'
<1>1. UNCHANGED <<sessions, call, added, raced>> /\ isOpen' \in BOOLEAN /\ now' \in Nat
  <2>1. CASE Close
    BY <2>1 DEF Close, TypeOK
  <2>2. CASE Advance
    BY <2>2 DEF Advance, TypeOK
  <2>3. CASE UNCHANGED vars
    BY <2>3 DEF vars, TypeOK
  <2> QED
    BY <2>1, <2>2, <2>3
<1> QED
  BY <1>1 DEF TypeOK, Ids

LEMMA StepTypes == TypeOK /\ [Next]_vars => TypeOK'
BY NextCases, BuildSessionTypes, ReclassifyTypes, ChooseTypes, CreateSessionTypes, LoadCountTypes,
   AddEventTypes, ClassifyTypes, UpdateSessionTypes, AssignTypes, ExpireTypes, QuietTypes

\* Every call, session and event counter of the service is well formed at all times; a
\* call only ever names sessions that the store holds.
THEOREM TypeCorrect == Spec => []TypeOK
BY InitTypes, StepTypes, PTL DEF Spec

-------------------------------------------------------------------------------
(* What no step takes back. *)

LEMMA AddEventEffect ==
  ASSUME TypeOK, NEW c \in Caller, AddEvent(c)
  PROVE  \E s \in Ids, r \in Session :
           /\ s = call[c].session /\ sessions' = [sessions EXCEPT ![s] = r] /\ Ids' = Ids
           /\ r.user = sessions[s].user /\ r.state = sessions[s].state
           /\ r.last = call[c].ts /\ r.end = call[c].ts + Timeout
           /\ r.count = call[c].count + 1
           /\ r.type = "returning" => \/ sessions[s].type = "returning"
                                      \/ call[c].count + 1 > ReturningAfter
           /\ added' = [added EXCEPT ![s] = added[s] + 1]
           /\ Goto(c, [at |-> "update", session |-> s, next |-> Idle])
<1> PICK s : s = call[c].session
  OBVIOUS
<1>1. s \in Ids /\ call[c].ts \in Int /\ call[c].count \in Nat /\ sessions[s] \in Session
  BY StateFields, SessionFields DEF TypeOK, AddEvent
<1> PICK r : r = WithEvent(sessions[s], call[c].ts, call[c].count)
  OBVIOUS
<1>2. sessions' = [sessions EXCEPT ![s] = r]
  BY DEF AddEvent
<1>3. r \in Session
  BY <1>1, WithEventTypes
<1>4. Ids' = Ids
  BY <1>2 DEF Ids, TypeOK
<1>5. /\ added' = [added EXCEPT ![s] = added[s] + 1]
      /\ Goto(c, [at |-> "update", session |-> s, next |-> Idle])
  BY DEF AddEvent
<1>6. /\ r.user = sessions[s].user /\ r.state = sessions[s].state
      /\ r.last = call[c].ts /\ r.end = call[c].ts + Timeout /\ r.count = call[c].count + 1
      /\ r.type = "returning" => sessions[s].type = "returning" \/ call[c].count + 1 > ReturningAfter
  <2> PICK q, ts, n : q = sessions[s] /\ ts = call[c].ts /\ n = call[c].count
    OBVIOUS
  <2>1. q \in Session /\ ts \in Int /\ n \in Nat /\ r = WithEvent(q, ts, n)
    BY <1>1
  <2>2. /\ r.user = q.user /\ r.state = q.state /\ r.last = ts /\ r.end = ts + Timeout
        /\ r.count = n + 1
        /\ r.type = "returning" => q.type = "returning" \/ n + 1 > ReturningAfter
    BY <2>1, WithEventTypes
  <2> QED
    BY <2>2
<1> QED
  BY <1>1, <1>2, <1>3, <1>4, <1>5, <1>6

\* The steps of a caller that write no session.
Reads(c) ==
  \/ \E u \in User, ts \in Timestamp : BuildSession(c, u, ts)
  \/ \E u \in User : ReclassifyUserType(c, u)
  \/ Choose(c) \/ LoadCount(c) \/ UpdateSession(c)

LEMMA ReadsEffect ==
  ASSUME NEW c \in Caller, Reads(c)
  PROVE  UNCHANGED <<sessions, added, isOpen, now, Ids>> /\ raced \subseteq raced' /\ crossed \subseteq crossed'
BY DEF Reads, BuildSession, ReclassifyUserType, Choose, LoadCount, UpdateSession, Goto, Ids

LEMMA NextKinds ==
  ASSUME [Next]_vars
  PROVE  \/ \E c \in Caller : Reads(c) \/ CreateSession(c) \/ AddEvent(c) \/ Classify(c) \/ Assign(c)
         \/ \E before : ExpireSessions(before)
         \/ Close \/ Advance \/ UNCHANGED vars
BY NextCases DEF Reads

LEMMA CreateSessionCases ==
  ASSUME TypeOK, NEW c \in Caller, CreateSession(c)
  PROVE  /\ Goto(c, Idle)
         /\ \/ sessions' = sessions /\ added' = added
            \/ LET r == NewSession(call[c].user, call[c].ts)
                   n == Len(sessions) + 1
               IN /\ sessions' = Append(sessions, r) /\ added' = Append(added, 1) /\ r \in Session
                  /\ call[c].user \in User /\ call[c].ts \in Int
                  /\ Ids' = Ids \cup {n} /\ n \notin Ids /\ sessions'[n] = r /\ added'[n] = 1
                  /\ \A s \in Ids : sessions'[s] = sessions[s] /\ added'[s] = added[s]
<1>1. CASE ~isOpen
  BY <1>1 DEF CreateSession
<1>2. CASE isOpen
  <2> PICK r : r = NewSession(call[c].user, call[c].ts)
    OBVIOUS
  <2>1. call[c].user \in User /\ call[c].ts \in Int
    BY StateFields DEF TypeOK, CreateSession
  <2>2. r \in Session
    BY <2>1, SessionsAssumption DEF NewSession, Session, UserType, TypeOK
  <2>3. sessions' = Append(sessions, r) /\ added' = Append(added, 1) /\ Goto(c, Idle)
    BY <1>2 DEF CreateSession
  <2>4. /\ Ids' = Ids \cup {Len(sessions) + 1} /\ Len(sessions) + 1 \notin Ids
        /\ sessions'[Len(sessions) + 1] = r /\ added'[Len(sessions) + 1] = 1
        /\ \A s \in Ids : sessions'[s] = sessions[s] /\ added'[s] = added[s]
    BY <2>2, <2>3, AppendProperties DEF TypeOK, Ids
  <2> QED
    BY <2>1, <2>2, <2>3, <2>4
<1> QED
  BY <1>1, <1>2

LEMMA ClassifyEffect ==
  ASSUME TypeOK, NEW c \in Caller, Classify(c)
  PROVE  /\ Ids' = Ids /\ added' = added
         /\ \A s \in Ids :
              /\ sessions'[s].user = sessions[s].user /\ sessions'[s].state = sessions[s].state
              /\ sessions'[s].last = sessions[s].last /\ sessions'[s].end = sessions[s].end
              /\ sessions'[s].count = sessions[s].count
              /\ sessions'[s] # sessions[s] =>
                   s \in call[c].todo /\ s \in Writing(c)' /\ sessions'[s].type = call[c].type
<1>1. added' = added /\ call[c].todo \subseteq Ids /\ call[c].type \in UserType
  BY RestFields DEF Classify
<1>2. CASE sessions' = sessions
  BY <1>1, <1>2 DEF Ids
<1>3. ASSUME NEW t \in call[c].todo,
             sessions' = [sessions EXCEPT ![t] = [sessions[t] EXCEPT !.type = call[c].type]],
             Goto(c, [at |-> "update", session |-> t, next |-> Rest(c, t)])
      PROVE  /\ Ids' = Ids
             /\ t \in Writing(c)'
             /\ sessions'[t].user = sessions[t].user /\ sessions'[t].state = sessions[t].state
             /\ sessions'[t].last = sessions[t].last /\ sessions'[t].end = sessions[t].end
             /\ sessions'[t].count = sessions[t].count /\ sessions'[t].type = call[c].type
             /\ \A s \in Ids : s # t => sessions'[s] = sessions[s]
  <2>1. t \in Ids /\ sessions[t] \in Session
    BY <1>1, SessionFields
  <2>2. t \in Writing(c)'
    BY <1>3, GotoEffect
  <2>3. sessions'[t] = [sessions[t] EXCEPT !.type = call[c].type]
    BY <1>3, <2>1 DEF TypeOK, Ids
  <2>4. Ids' = Ids /\ \A s \in Ids : s # t => sessions'[s] = sessions[s]
    BY <1>3, <2>1 DEF TypeOK, Ids
  <2> QED
    BY <1>1, <2>1, <2>2, <2>3, <2>4, TypeChangeFields
<1> QED
  BY <1>1, <1>2, <1>3, ClassifyCases

LEMMA StepKeeps ==
  ASSUME TypeOK, [Next]_vars
  PROVE  /\ Ids \subseteq Ids' /\ raced \subseteq raced' /\ crossed \subseteq crossed'
         /\ \A s \in Ids : /\ sessions'[s].user = sessions[s].user
                           /\ sessions[s].state = "expired" => sessions'[s].state = "expired"
                           /\ added[s] <= added'[s]
<1>0. \A s \in Ids : added[s] \in Nat
  BY SessionFields
<1>1. ASSUME NEW c \in Caller, Reads(c)
      PROVE  UNCHANGED <<sessions, added, Ids>> /\ raced \subseteq raced' /\ crossed \subseteq crossed'
  BY <1>1, ReadsEffect
<1>2. ASSUME NEW c \in Caller, CreateSession(c)
      PROVE  /\ Ids \subseteq Ids' /\ raced \subseteq raced' /\ crossed' = crossed
             /\ \A s \in Ids : sessions'[s] = sessions[s] /\ added'[s] = added[s]
  <2>1. crossed' = crossed /\ raced \subseteq raced'
    BY <1>2, CreateSessionCases, GotoEffect DEF CreateSession
  <2> QED
    BY <1>2, <2>1, CreateSessionCases DEF Ids
<1>3. ASSUME NEW c \in Caller, AddEvent(c)
      PROVE  /\ Ids' = Ids /\ raced \subseteq raced' /\ crossed' = crossed
             /\ \A s \in Ids : /\ sessions'[s].user = sessions[s].user
                               /\ sessions'[s].state = sessions[s].state
                               /\ added[s] <= added'[s]
  <2>1. PICK t \in Ids, r \in Session :
          /\ sessions' = [sessions EXCEPT ![t] = r] /\ Ids' = Ids
          /\ r.user = sessions[t].user /\ r.state = sessions[t].state
          /\ added' = [added EXCEPT ![t] = added[t] + 1]
          /\ Goto(c, [at |-> "update", session |-> t, next |-> Idle])
    BY <1>3, AddEventEffect
  <2>2. raced \subseteq raced'
    BY <2>1, GotoEffect
  <2>3. \A s \in Ids : added[s] <= added'[s]
    BY <1>0, <2>1, SessionFields DEF TypeOK
  <2>4. \A s \in Ids : sessions'[s].user = sessions[s].user /\ sessions'[s].state = sessions[s].state
    BY <2>1 DEF TypeOK, Ids
  <2> QED
    BY <1>3, <2>1, <2>2, <2>3, <2>4 DEF AddEvent
<1>4. ASSUME NEW c \in Caller, Classify(c)
      PROVE  /\ Ids' = Ids /\ raced \subseteq raced' /\ crossed' = crossed /\ added' = added
             /\ \A s \in Ids : /\ sessions'[s].user = sessions[s].user
                               /\ sessions'[s].state = sessions[s].state
  <2>1. raced \subseteq raced'
    BY <1>4, ClassifyCases, GotoEffect
  <2> QED
    BY <1>4, <2>1, ClassifyEffect DEF Classify
<1>5. ASSUME NEW c \in Caller, Assign(c)
      PROVE  /\ Ids' = Ids /\ raced \subseteq raced' /\ crossed' = crossed /\ added' = added
             /\ \A s \in Ids : /\ sessions'[s].user = sessions[s].user
                               /\ sessions'[s].state = sessions[s].state
  <2>1. PICK t \in Ids, r \in Session :
          /\ sessions' = [sessions EXCEPT ![t] = r]
          /\ r.user = sessions[t].user /\ r.state = sessions[t].state
    BY <1>5, AssignEffect
  <2>2. raced \subseteq raced'
    BY <1>5, GotoEffect DEF Assign
  <2>3. Ids' = Ids /\ \A s \in Ids : sessions'[s].user = sessions[s].user /\ sessions'[s].state = sessions[s].state
    BY <2>1 DEF TypeOK, Ids
  <2> QED
    BY <1>5, <2>2, <2>3 DEF Assign
<1>6. ASSUME NEW before, ExpireSessions(before)
      PROVE  /\ Ids' = Ids /\ raced' = raced /\ crossed' = crossed /\ added' = added
             /\ \A s \in Ids : /\ sessions'[s].user = sessions[s].user
                               /\ sessions'[s].state \in {sessions[s].state, "expired"}
  BY <1>6, ExpireEffect DEF ExpireSessions
<1>7. ASSUME Close \/ Advance \/ UNCHANGED vars
      PROVE  /\ UNCHANGED <<sessions, added, raced, Ids>> /\ crossed \subseteq crossed'
  BY <1>7 DEF Close, Advance, vars, Ids
<1> QED
  BY <1>0, <1>1, <1>2, <1>3, <1>4, <1>5, <1>6, <1>7, NextKinds

\* ExpireSessions has the last word on a session's state: the callers that go on
\* writing the session's other fields, copy it onto itself or move its end time into
\* the future do not make it active again.
THEOREM ExpiredIsFinalCorrect == Spec => ExpiredIsFinal
<1>1. TypeOK /\ [Next]_vars =>
        [\A s \in Ids : sessions[s].state = "expired" => sessions'[s].state = "expired"]_vars
  BY StepKeeps
<1> QED
  BY <1>1, TypeCorrect, PTL DEF Spec, ExpiredIsFinal

-------------------------------------------------------------------------------
(* Event counts and end times. *)

Moves(c) == Reads(c) \/ CreateSession(c) \/ AddEvent(c) \/ Classify(c) \/ Assign(c)

LEMMA MovesGoto ==
  ASSUME TypeOK, NEW c \in Caller, Moves(c)
  PROVE  \E x : Goto(c, x)
<1>1. CASE Reads(c)
  BY <1>1 DEF Reads, BuildSession, ReclassifyUserType, Choose, LoadCount, UpdateSession
<1>2. CASE CreateSession(c)
  BY <1>2 DEF CreateSession
<1>3. CASE AddEvent(c)
  BY <1>3 DEF AddEvent
<1>4. CASE Classify(c)
  BY <1>4, ClassifyCases
<1>5. CASE Assign(c)
  BY <1>5 DEF Assign
<1> QED
  BY <1>1, <1>2, <1>3, <1>4, <1>5 DEF Moves

\* The callers that do not move keep their state, and race with the one that does.
LEMMA MovesEffect ==
  ASSUME TypeOK, NEW c \in Caller, Moves(c)
  PROVE  /\ \A d \in Caller : d # c => call'[d] = call[d] /\ Writing(d)' = Writing(d)
         /\ \A d \in Caller : d # c => Writing(c)' \cap Writing(d) \subseteq raced'
BY MovesGoto, GotoEffect

LEMMA StepKinds ==
  ASSUME [Next]_vars
  PROVE  \/ \E c \in Caller : Moves(c)
         \/ \E before : ExpireSessions(before)
         \/ Close \/ Advance \/ UNCHANGED vars
BY NextKinds DEF Moves

LEMMA QuietEffect ==
  ASSUME Close \/ Advance \/ UNCHANGED vars
  PROVE  UNCHANGED <<sessions, call, added, raced, Ids>>
BY DEF Close, Advance, vars, Ids

LEMMA WritingIds ==
  ASSUME TypeOK, NEW c \in Caller
  PROVE  Writing(c) \subseteq Ids
BY StateFields DEF TypeOK, Writing

LEMMA WritersRaceStep ==
  ASSUME TypeOK, WritersRace, [Next]_vars
  PROVE  WritersRace'
<1>0. raced \subseteq raced' /\ Ids \subseteq Ids'
  BY StepKeeps
<1>1. ASSUME NEW m \in Caller, Moves(m)
      PROVE  WritersRace'
  <2> SUFFICES ASSUME NEW c \in Caller, NEW d \in Caller, NEW s \in Ids' \ raced', c # d,
                      s \in Writing(c)', s \in Writing(d)'
               PROVE  FALSE
    BY DEF WritersRace
  <2>1. CASE c = m
    BY <1>1, <2>1, MovesEffect
  <2>2. CASE d = m
    BY <1>1, <2>2, MovesEffect
  <2>3. CASE c # m /\ d # m
    BY <1>0, <1>1, <2>3, MovesEffect, WritingIds DEF WritersRace
  <2> QED
    BY <2>1, <2>2, <2>3
<1>2. ASSUME UNCHANGED <<call, raced, Ids>>
      PROVE  WritersRace'
  BY <1>2 DEF WritersRace, Writing
<1>3. ASSUME NEW before, ExpireSessions(before)
      PROVE  UNCHANGED <<call, raced, Ids>>
  BY <1>3, ExpireEffect DEF ExpireSessions
<1> QED
  BY <1>1, <1>2, <1>3, StepKinds, QuietEffect

\* LoadedHolds, about one caller.
LoadedBy(c) ==
  /\ call[c].at = "store" =>
       LET s == call[c].session
       IN call[c].count <= added[s] /\ (s \notin raced => call[c].count = added[s])
  /\ call[c].at = "copy" =>
       LET s == call[c].session
       IN /\ call[c].loaded.count <= added[s]
          /\ s \notin raced => call[c].loaded = sessions[s]

LEMMA WritingIs ==
  ASSUME NEW c \in Caller, call[c].at \in {"store", "update", "copy"}
  PROVE  Writing(c) = {call[c].session}
BY DEF Writing

\* A caller that does not move keeps what it has loaded, if only raced sessions change.
LEMMA BystanderLoaded ==
  ASSUME TypeOK, NEW d \in Caller, LoadedBy(d), call'[d] = call[d], raced \subseteq raced',
         \A s \in Ids : added[s] <= added'[s] /\ added'[s] \in Nat,
         \A s \in Writing(d) : s \notin raced' => sessions'[s] = sessions[s] /\ added'[s] = added[s]
  PROVE  LoadedBy(d)'
<1> PICK x, s : x = call[d] /\ s = x.session
  OBVIOUS
<1>1. CASE x.at = "store"
  <2>1. s \in Ids /\ Writing(d) = {s} /\ x.count \in Nat /\ added[s] \in Nat
    BY <1>1, StateFields, WritingIs, SessionFields DEF TypeOK
  <2> QED
    BY <1>1, <2>1 DEF LoadedBy
<1>2. CASE x.at = "copy"
  <2>1. s \in Ids /\ Writing(d) = {s} /\ x.loaded \in Session /\ added[s] \in Nat
    BY <1>2, StateFields, WritingIs, SessionFields DEF TypeOK
  <2>2. x.loaded.count \in Nat
    BY <2>1 DEF Session
  <2> QED
    BY <1>2, <2>1, <2>2 DEF LoadedBy
<1>3. CASE x.at \notin {"store", "copy"}
  BY <1>3 DEF LoadedBy
<1> QED
  BY <1>1, <1>2, <1>3

\* What the steps below preserve together.
Counted == WritersRace /\ LoadedHolds /\ CountsEvents /\ EndFollowsLastEvent

LEMMA ReadsCounted ==
  ASSUME TypeOK, Counted, NEW c \in Caller, Reads(c)
  PROVE  LoadedHolds' /\ CountsEvents' /\ EndFollowsLastEvent'
<1>1. UNCHANGED <<sessions, added, Ids>> /\ raced \subseteq raced'
  BY ReadsEffect
<1>2. CountsEvents' /\ EndFollowsLastEvent'
  BY <1>1 DEF Counted, CountsEvents, EndFollowsLastEvent
<1>3. \A d \in Caller : d # c => call'[d] = call[d]
  BY MovesEffect DEF Moves
<1>4. \A d \in Caller : LoadedBy(d)
  BY DEF Counted, LoadedHolds, LoadedBy
<1>5. \A d \in Caller : d # c => LoadedBy(d)'
  BY <1>1, <1>3, <1>4, BystanderLoaded, SessionFields, WritingIds
<1>6. LoadedBy(c)'
  <2>1. CASE LoadCount(c)
    <3> PICK s : s = call[c].session
      OBVIOUS
    <3>1. s \in Ids
      BY <2>1, StateFields DEF TypeOK, LoadCount
    <3>2. call'[c] = [at |-> "store", ts |-> call[c].ts, session |-> s, count |-> sessions[s].count]
      BY <2>1, GotoEffect DEF LoadCount
    <3>3. sessions[s].count <= added[s] /\ (s \notin raced => sessions[s].count = added[s])
      BY <3>1 DEF Counted, CountsEvents
    <3> QED
      BY <1>1, <3>2, <3>3 DEF LoadedBy
  <2>2. CASE UpdateSession(c)
    <3> PICK s : s = call[c].session
      OBVIOUS
    <3>1. s \in Ids
      BY <2>2, UpdateSessionCases
    <3>2. \/ call'[c] = Idle
          \/ call'[c] = [at |-> "copy", session |-> s, loaded |-> sessions[s], next |-> call[c].next]
      BY <2>2, UpdateSessionCases, GotoEffect
    <3>3. sessions[s].count <= added[s]
      BY <3>1 DEF Counted, CountsEvents
    <3> QED
      BY <1>1, <3>2, <3>3 DEF LoadedBy, Idle
  <2>3. CASE Choose(c)
    <3>1. call'[c].at \in {"create", "load"}
      BY <2>3, GotoEffect DEF Choose
    <3> QED
      BY <3>1 DEF LoadedBy
  <2>4. CASE \E u \in User : ReclassifyUserType(c, u)
    <3>1. call'[c].at = "classify"
      BY <2>4, GotoEffect DEF ReclassifyUserType
    <3> QED
      BY <3>1 DEF LoadedBy
  <2>5. CASE \E u \in User, ts \in Timestamp : BuildSession(c, u, ts)
    <3>1. call'[c].at = "choose"
      BY <2>5, GotoEffect DEF BuildSession
    <3> QED
      BY <3>1 DEF LoadedBy
  <2> QED
    BY <2>1, <2>2, <2>3, <2>4, <2>5 DEF Reads
<1> QED
  BY <1>2, <1>5, <1>6 DEF LoadedHolds, LoadedBy

LEMMA CreateCounted ==
  ASSUME TypeOK, Counted, NEW c \in Caller, CreateSession(c)
  PROVE  LoadedHolds' /\ CountsEvents' /\ EndFollowsLastEvent'
<1>1. /\ raced \subseteq raced'
      /\ call'[c] = Idle /\ \A d \in Caller : d # c => call'[d] = call[d]
      /\ \A s \in Ids : sessions'[s] = sessions[s] /\ added'[s] = added[s]
      /\ \A s \in Ids' \ Ids : sessions'[s].count = 1 /\ added'[s] = 1
  <2>1. raced \subseteq raced' /\ call'[c] = Idle /\ \A d \in Caller : d # c => call'[d] = call[d]
    BY CreateSessionCases, GotoEffect
  <2>2. NewSession(call[c].user, call[c].ts).count = 1
    BY DEF NewSession
  <2> QED
    BY <2>1, <2>2, CreateSessionCases DEF Ids
<1>2. CountsEvents' /\ EndFollowsLastEvent'
  BY <1>1 DEF Counted, CountsEvents, EndFollowsLastEvent
<1>3. \A d \in Caller : LoadedBy(d)
  BY DEF Counted, LoadedHolds, LoadedBy
<1>4. \A d \in Caller : d # c => LoadedBy(d)'
  BY <1>1, <1>3, BystanderLoaded, SessionFields, WritingIds
<1>5. LoadedBy(c)'
  BY <1>1 DEF LoadedBy, Idle
<1> QED
  BY <1>2, <1>4, <1>5 DEF LoadedHolds, LoadedBy

LEMMA AddEventCounted ==
  ASSUME TypeOK, Counted, NEW c \in Caller, AddEvent(c)
  PROVE  LoadedHolds' /\ CountsEvents' /\ EndFollowsLastEvent'
<1>1. PICK s \in Ids, r \in Session :
        /\ s = call[c].session /\ sessions' = [sessions EXCEPT ![s] = r] /\ Ids' = Ids
        /\ r.last = call[c].ts /\ r.end = call[c].ts + Timeout /\ r.count = call[c].count + 1
        /\ added' = [added EXCEPT ![s] = added[s] + 1]
        /\ Goto(c, [at |-> "update", session |-> s, next |-> Idle])
  BY AddEventEffect
<1>2. /\ call[c].at = "store" /\ call[c].count \in Nat
      /\ raced \subseteq raced' /\ call'[c].at = "update"
      /\ \A d \in Caller : d # c => call'[d] = call[d]
  BY <1>1, GotoEffect, StateFields DEF TypeOK, AddEvent
<1>3. call[c].count <= added[s] /\ (s \notin raced => call[c].count = added[s]) /\ added[s] \in Nat
  BY <1>1, <1>2, SessionFields DEF Counted, LoadedHolds
<1>4. /\ sessions'[s] = r /\ added'[s] = added[s] + 1
      /\ \A t \in Ids : t # s => sessions'[t] = sessions[t] /\ added'[t] = added[t]
  BY <1>1, SessionFields DEF TypeOK, Ids
<1>5. CountsEvents'
  BY <1>1, <1>2, <1>3, <1>4 DEF Counted, CountsEvents
<1>6. EndFollowsLastEvent'
  BY <1>1, <1>2, <1>4 DEF Counted, EndFollowsLastEvent
<1>7. ASSUME NEW d \in Caller, d # c
      PROVE  LoadedBy(d)'
  <2>1. LoadedBy(d) /\ call'[d] = call[d] /\ raced \subseteq raced'
    BY <1>2, <1>7 DEF Counted, LoadedHolds, LoadedBy
  <2>2. \A t \in Ids : added[t] <= added'[t] /\ added'[t] \in Nat
    BY <1>3, <1>4, SessionFields
  <2>3. s \in Writing(d) => s \in raced'
    BY <1>1, <1>2, <1>7, WritingIs DEF Counted, WritersRace
  <2>4. \A t \in Writing(d) : t \notin raced' => sessions'[t] = sessions[t] /\ added'[t] = added[t]
    BY <1>4, <2>3, WritingIds
  <2> QED
    BY <2>1, <2>2, <2>4, BystanderLoaded
<1>8. LoadedBy(c)'
  BY <1>2 DEF LoadedBy
<1> QED
  BY <1>5, <1>6, <1>7, <1>8 DEF LoadedHolds, LoadedBy

LEMMA ClassifyCounted ==
  ASSUME TypeOK, Counted, NEW c \in Caller, Classify(c)
  PROVE  LoadedHolds' /\ CountsEvents' /\ EndFollowsLastEvent'
<1>1. /\ raced \subseteq raced' /\ call'[c].at \notin {"store", "copy"}
      /\ \A d \in Caller : d # c => call'[d] = call[d] /\ Writing(c)' \cap Writing(d) \subseteq raced'
  <2>0. \A s : Rest(c, s).at = "classify"
    BY RestFields DEF Classify
  <2>1. call'[c].at \in {"idle", "classify", "update"}
    <3>1. Goto(c, Idle) => call'[c].at = "idle"
      BY GotoEffect DEF Idle
    <3>2. \A s : Goto(c, Rest(c, s)) => call'[c].at = "classify"
      BY <2>0, GotoEffect
    <3>3. \A s : Goto(c, [at |-> "update", session |-> s, next |-> Rest(c, s)]) => call'[c].at = "update"
      BY GotoEffect
    <3> QED
      BY <3>1, <3>2, <3>3, ClassifyCases
  <2>2. raced \subseteq raced'
    BY ClassifyCases, GotoEffect
  <2> QED
    BY <2>1, <2>2, MovesEffect DEF Moves
<1>2. CountsEvents' /\ EndFollowsLastEvent'
  BY <1>1, ClassifyEffect DEF Counted, CountsEvents, EndFollowsLastEvent
<1>3. ASSUME NEW d \in Caller, d # c
      PROVE  LoadedBy(d)'
  <2>1. LoadedBy(d)
    BY DEF Counted, LoadedHolds, LoadedBy
  <2>2. \A s \in Ids : added[s] <= added'[s] /\ added'[s] \in Nat
    BY ClassifyEffect, SessionFields
  <2>3. \A s \in Writing(d) : s \notin raced' => sessions'[s] = sessions[s] /\ added'[s] = added[s]
    BY <1>1, <1>3, ClassifyEffect, WritingIds
  <2> QED
    BY <1>1, <1>3, <2>1, <2>2, <2>3, BystanderLoaded
<1>4. LoadedBy(c)'
  BY <1>1 DEF LoadedBy
<1> QED
  BY <1>2, <1>3, <1>4 DEF LoadedHolds, LoadedBy

LEMMA AssignCounted ==
  ASSUME TypeOK, Counted, NEW c \in Caller, Assign(c)
  PROVE  LoadedHolds' /\ CountsEvents' /\ EndFollowsLastEvent'
<1>1. PICK s \in Ids, r \in Session :
        /\ s = call[c].session /\ sessions' = [sessions EXCEPT ![s] = r]
        /\ r.count \in {call[c].loaded.count, sessions[s].count}
        /\ call[c].loaded = sessions[s] => sessions' = sessions
  BY AssignEffect
<1>2. /\ raced \subseteq raced' /\ call'[c] \in Task(Ids) /\ added' = added
      /\ \A d \in Caller : d # c => call'[d] = call[d]
  BY GotoEffect, StateFields DEF Assign, TypeOK
<1>3. call'[c].at \notin {"store", "copy"}
  BY <1>2, TaskFields
<1>4. call[c].loaded.count <= added[s] /\ (s \notin raced => call[c].loaded = sessions[s])
  BY <1>1 DEF Assign, Counted, LoadedHolds
<1>5. /\ Ids' = Ids /\ sessions'[s] = r
      /\ \A t \in Ids : t # s => sessions'[t] = sessions[t]
      /\ s \notin raced => sessions' = sessions
  BY <1>1, <1>4 DEF TypeOK, Ids
<1>6. CountsEvents' /\ EndFollowsLastEvent'
  BY <1>1, <1>2, <1>4, <1>5 DEF Counted, CountsEvents, EndFollowsLastEvent
<1>7. ASSUME NEW d \in Caller, d # c
      PROVE  LoadedBy(d)'
  <2>1. LoadedBy(d)
    BY DEF Counted, LoadedHolds, LoadedBy
  <2>2. \A t \in Ids : added[t] <= added'[t] /\ added'[t] \in Nat
    BY <1>2, SessionFields
  <2>3. \A t \in Writing(d) : t \notin raced' => sessions'[t] = sessions[t] /\ added'[t] = added[t]
    BY <1>2, <1>5, WritingIds
  <2> QED
    BY <1>2, <1>7, <2>1, <2>2, <2>3, BystanderLoaded
<1>8. LoadedBy(c)'
  BY <1>3 DEF LoadedBy
<1> QED
  BY <1>6, <1>7, <1>8 DEF LoadedHolds, LoadedBy

LEMMA ExpireCounted ==
  ASSUME TypeOK, Counted, NEW before, ExpireSessions(before)
  PROVE  LoadedHolds' /\ CountsEvents' /\ EndFollowsLastEvent'
<1>1. UNCHANGED <<call, added, raced, Ids>> /\ \A c \in Caller : call[c].at # "copy"
  BY ExpireEffect DEF ExpireSessions, MutexFree
<1>2. CountsEvents' /\ EndFollowsLastEvent'
  BY <1>1, ExpireEffect DEF Counted, CountsEvents, EndFollowsLastEvent
<1>3. LoadedHolds'
  BY <1>1 DEF Counted, LoadedHolds
<1> QED
  BY <1>2, <1>3

LEMMA StepCounted == TypeOK /\ Counted /\ [Next]_vars => Counted'
<1> SUFFICES ASSUME TypeOK, Counted, [Next]_vars PROVE Counted'
  OBVIOUS
<1>1. WritersRace'
  BY WritersRaceStep DEF Counted
<1>2. ASSUME UNCHANGED <<sessions, call, added, raced, Ids>>
      PROVE  LoadedHolds' /\ CountsEvents' /\ EndFollowsLastEvent'
  BY <1>2 DEF Counted, LoadedHolds, CountsEvents, EndFollowsLastEvent
<1>3. LoadedHolds' /\ CountsEvents' /\ EndFollowsLastEvent'
  BY <1>2, NextKinds, QuietEffect, ReadsCounted, CreateCounted, AddEventCounted, ClassifyCounted,
     AssignCounted, ExpireCounted
<1> QED
  BY <1>1, <1>3 DEF Counted

LEMMA InitCounted == Init => Counted
BY DEF Init, Counted, WritersRace, LoadedHolds, CountsEvents, EndFollowsLastEvent, Idle, Ids, Writing

LEMMA CountedHolds == Spec => []Counted
BY InitCounted, StepCounted, TypeCorrect, PTL DEF Spec

\* AddEvent's load and store of the event count, and UpdateSession's copy of a session
\* onto itself, may lose an event only when two calls write the session at once, and
\* never invent one.
THEOREM CountsEventsCorrect == Spec => []CountsEvents
<1>1. Counted => CountsEvents
  BY DEF Counted
<1> QED
  BY <1>1, CountedHolds, PTL

\* The end time and the last event, which AddEvent stores one after the other, stay
\* together however often the session is copied, classified or expired meanwhile.
THEOREM EndFollowsLastEventCorrect == Spec => []EndFollowsLastEvent
<1>1. Counted => EndFollowsLastEvent
  BY DEF Counted
<1> QED
  BY <1>1, CountedHolds, PTL

-------------------------------------------------------------------------------
(* Returning users. *)

LEMMA SessionsOfFinite ==
  ASSUME TypeOK, NEW u
  PROVE  IsFiniteSet(SessionsOf(u)) /\ Cardinality(SessionsOf(u)) \in Nat
<1>1. Ids = 1..Len(sessions) /\ Len(sessions) \in Nat /\ SessionsOf(u) \subseteq Ids
  BY DEF TypeOK, Ids, SessionsOf
<1>2. IsFiniteSet(Ids)
  BY <1>1, FS_Interval
<1> QED
  BY <1>1, <1>2, FS_Subset, FS_CardinalityType

AllFinite == \A u : IsFiniteSet(SessionsOf(u)) /\ Cardinality(SessionsOf(u)) \in Nat

LEMMA FiniteAfter == TypeOK' => AllFinite'
<1>1. TypeOK => AllFinite
  BY SessionsOfFinite DEF AllFinite
<1> QED
  BY <1>1, PTL

\* A user's sessions are never taken away, nor given to another user.
LEMMA SessionsOfGrows ==
  ASSUME TypeOK, [Next]_vars, NEW u
  PROVE  /\ SessionsOf(u) \subseteq SessionsOf(u)'
         /\ Cardinality(SessionsOf(u)) <= Cardinality(SessionsOf(u)')
<1>1. SessionsOf(u) \subseteq SessionsOf(u)'
  BY StepKeeps DEF SessionsOf
<1>2. TypeOK'
  BY StepTypes
<1>3. IsFiniteSet(SessionsOf(u)')
  BY <1>2, FiniteAfter DEF AllFinite
<1> QED
  BY <1>1, <1>3, FS_Subset

LEMMA EnoughStays ==
  ASSUME TypeOK, [Next]_vars, NEW s \in Ids
  PROVE  /\ Enough(s) => Enough(s)'
         /\ Earned(s) => Earned(s)'
<1> PICK u : u = sessions[s].user
  OBVIOUS
<1>1. sessions'[s].user = u /\ added[s] <= added'[s] /\ added[s] \in Nat /\ added'[s] \in Nat
  <2>1. sessions'[s].user = u /\ added[s] <= added'[s] /\ added[s] \in Nat
    BY StepKeeps, SessionFields
  <2>2. TypeOK' /\ s \in Ids'
    BY StepTypes, StepKeeps
  <2>3. added'[s] \in Nat
    BY <2>2 DEF TypeOK, Ids
  <2> QED
    BY <2>1, <2>3
<1>2. /\ Enough(s) <=> Cardinality(SessionsOf(u)) > MinSessions
      /\ Enough(s)' <=> Cardinality(SessionsOf(u)') > MinSessions
  BY <1>1 DEF Enough, SessionsOf
<1>3. /\ Cardinality(SessionsOf(u)) \in Nat /\ Cardinality(SessionsOf(u)') \in Nat
      /\ Cardinality(SessionsOf(u)) <= Cardinality(SessionsOf(u)')
  <2>1. TypeOK'
    BY StepTypes
  <2> QED
    BY <2>1, SessionsOfFinite, FiniteAfter, SessionsOfGrows DEF AllFinite
<1>4. Enough(s) => Enough(s)'
  <2> HIDE DEF SessionsOf
  <2> QED
    BY <1>2, <1>3, SessionsAssumption
<1> QED
  BY <1>1, <1>4, SessionsAssumption DEF Earned

LEMMA TaskEarnedStays ==
  ASSUME TypeOK, [Next]_vars, NEW t \in Task(Ids), TaskEarned(t)
  PROVE  TaskEarned(t)'
BY EnoughStays, TaskFields DEF TaskEarned

\* TypesEarned, about one caller, and the invariant of this part.
EarnedBy(c) ==
  /\ TaskEarned(call[c])
  /\ call[c].at \in {"update", "copy"} => TaskEarned(call[c].next)
  /\ call[c].at = "copy" /\ call[c].loaded.type = "returning" => Earned(call[c].session)

EarnedInv == TypesEarned /\ ReturningIsEarned

LEMMA ReturningIsEarnedBy ==
  ReturningIsEarned <=> \A s \in Ids : sessions[s].type = "returning" => Earned(s)
BY DEF ReturningIsEarned, Earned, Enough

LEMMA BystanderEarned ==
  ASSUME TypeOK, [Next]_vars, NEW d \in Caller, EarnedBy(d), call'[d] = call[d]
  PROVE  EarnedBy(d)'
<1> PICK x, s, t : x = call[d] /\ s = x.session /\ t = x.next
  OBVIOUS
<1>1. x \in State(Ids)
  BY DEF TypeOK
<1>2. TaskEarned(x)'
  <2>1. CASE x.at = "classify"
    BY <1>1, <2>1, StateFields, TaskEarnedStays DEF EarnedBy
  <2>2. CASE x.at # "classify"
    BY <2>2 DEF TaskEarned
  <2> QED
    BY <2>1, <2>2
<1>3. x.at \in {"update", "copy"} => TaskEarned(t)'
  BY <1>1, StateFields, TaskEarnedStays DEF EarnedBy
<1>4. x.at = "copy" /\ x.loaded.type = "returning" => Earned(s)'
  BY <1>1, StateFields, EnoughStays DEF EarnedBy
<1> QED
  BY <1>2, <1>3, <1>4 DEF EarnedBy, TaskEarned, Earned, Enough

\* A session whose type a step does not make "returning".
LEMMA SameTypeEarned ==
  ASSUME TypeOK, [Next]_vars, ReturningIsEarned, NEW s \in Ids,
         sessions'[s].type = "returning" => sessions[s].type = "returning"
  PROVE  sessions'[s].type = "returning" => Earned(s)'
BY EnoughStays, ReturningIsEarnedBy

\* Of the caller that moves: what it goes to says nothing unearned.
LEMMA QuietState ==
  ASSUME NEW c \in Caller, call'[c].at \in {"idle", "choose", "create", "load", "store"}
  PROVE  EarnedBy(c)'
BY DEF EarnedBy, TaskEarned

LEMMA ReadsEarned ==
  ASSUME TypeOK, EarnedInv, [Next]_vars, NEW c \in Caller, Reads(c)
  PROVE  EarnedInv'
<1>1. UNCHANGED <<sessions, added, Ids>>
  BY ReadsEffect
<1>2. ReturningIsEarned'
  BY <1>1 DEF EarnedInv, ReturningIsEarned, SessionsOf
<1>3. \A d \in Caller : EarnedBy(d)
  BY DEF EarnedInv, TypesEarned, EarnedBy
<1>4. \A d \in Caller : d # c => EarnedBy(d)'
  BY <1>3, MovesEffect, BystanderEarned DEF Moves
<1>5. EarnedBy(c)'
  <2>1. CASE Choose(c) \/ LoadCount(c) \/ \E u \in User, ts \in Timestamp : BuildSession(c, u, ts)
    <3>1. call'[c].at \in {"choose", "create", "load", "store"}
      <4>1. CASE Choose(c)
        BY <4>1, GotoEffect DEF Choose
      <4>2. CASE LoadCount(c)
        BY <4>2, GotoEffect DEF LoadCount
      <4>3. CASE \E u \in User, ts \in Timestamp : BuildSession(c, u, ts)
        BY <4>3, GotoEffect DEF BuildSession
      <4> QED
        BY <2>1, <4>1, <4>2, <4>3
    <3> QED
      BY <3>1, QuietState
  <2>2. ASSUME NEW u \in User, ReclassifyUserType(c, u)
        PROVE  EarnedBy(c)'
    <3>1. call'[c] = [at |-> "classify", todo |-> SessionsOf(u),
                      type |-> IF Cardinality(SessionsOf(u)) > MinSessions THEN "returning" ELSE "new"]
      BY <2>2, GotoEffect DEF ReclassifyUserType
    <3>2. Cardinality(SessionsOf(u)) > MinSessions => \A s \in SessionsOf(u) : Enough(s)'
      BY <1>1 DEF Enough, SessionsOf
    <3> QED
      BY <3>1, <3>2 DEF EarnedBy, TaskEarned
  <2>3. CASE UpdateSession(c)
    <3> PICK s, t : s = call[c].session /\ t = call[c].next
      OBVIOUS
    <3>1. s \in Ids /\ t \in Task(Ids)
      BY <2>3, UpdateSessionCases
    <3>2. \/ call'[c] = Idle
          \/ call'[c] = [at |-> "copy", session |-> s, loaded |-> sessions[s], next |-> t]
      BY <2>3, UpdateSessionCases, GotoEffect
    <3>3. TaskEarned(t)'
      BY <1>3, <2>3, <3>1, TaskEarnedStays DEF EarnedBy, UpdateSession
    <3>4. sessions[s].type = "returning" => Earned(s)'
      BY <3>1, ReturningIsEarnedBy, EnoughStays DEF EarnedInv
    <3> QED
      BY <3>2, <3>3, <3>4 DEF EarnedBy, TaskEarned, Earned, Enough, Idle
  <2> QED
    BY <2>1, <2>2, <2>3 DEF Reads
<1> QED
  BY <1>2, <1>4, <1>5 DEF EarnedInv, TypesEarned, EarnedBy

\* The other steps of a caller, by what they do to the types and to the caller itself.
LEMMA WritesEarned ==
  ASSUME TypeOK, EarnedInv, [Next]_vars, NEW c \in Caller, Moves(c),
         \A s \in Ids' : sessions'[s].type = "returning" => Earned(s)',
         EarnedBy(c)'
  PROVE  EarnedInv'
<1>1. \A d \in Caller : d # c => EarnedBy(d)'
  BY MovesEffect, BystanderEarned DEF EarnedInv, TypesEarned, EarnedBy
<1>2. ReturningIsEarned'
  BY DEF ReturningIsEarned, Earned, Enough
<1> QED
  BY <1>1, <1>2 DEF EarnedInv, TypesEarned, EarnedBy

LEMMA CreateEarned ==
  ASSUME TypeOK, EarnedInv, [Next]_vars, NEW c \in Caller, CreateSession(c)
  PROVE  EarnedInv'
<1>1. EarnedBy(c)'
  BY CreateSessionCases, GotoEffect, QuietState DEF Idle
<1>2. \A s \in Ids : sessions'[s] = sessions[s]
  BY CreateSessionCases
<1>3. \A s \in Ids' \ Ids : sessions'[s].type = "new"
  <2>1. NewSession(call[c].user, call[c].ts).type = "new"
    BY DEF NewSession
  <2> QED
    BY <2>1, CreateSessionCases DEF Ids
<1>4. \A s \in Ids' : sessions'[s].type = "returning" => Earned(s)'
  BY <1>2, <1>3, SameTypeEarned DEF EarnedInv
<1> QED
  BY <1>1, <1>4, WritesEarned DEF Moves

LEMMA AddEventEarned ==
  ASSUME TypeOK, Counted, EarnedInv, [Next]_vars, NEW c \in Caller, AddEvent(c)
  PROVE  EarnedInv'
<1>1. PICK s \in Ids, r \in Session :
        /\ s = call[c].session /\ sessions' = [sessions EXCEPT ![s] = r] /\ Ids' = Ids
        /\ r.type = "returning" => \/ sessions[s].type = "returning"
                                   \/ call[c].count + 1 > ReturningAfter
        /\ added' = [added EXCEPT ![s] = added[s] + 1]
        /\ Goto(c, [at |-> "update", session |-> s, next |-> Idle])
  BY AddEventEffect
<1>2. call'[c] = [at |-> "update", session |-> s, next |-> Idle]
  BY <1>1, GotoEffect
<1>3. EarnedBy(c)'
  BY <1>2 DEF EarnedBy, TaskEarned, Idle
<1>4. call[c].count <= added[s] /\ call[c].count \in Nat /\ added[s] \in Nat
  BY <1>1, StateFields, SessionFields DEF TypeOK, AddEvent, Counted, LoadedHolds
<1>5. /\ sessions'[s] = r /\ added'[s] = added[s] + 1
      /\ \A t \in Ids : t # s => sessions'[t] = sessions[t]
  BY <1>1, SessionFields DEF TypeOK, Ids
<1>6. call[c].count + 1 > ReturningAfter => Earned(s)'
  BY <1>4, <1>5, SessionsAssumption DEF Earned
<1>7. \A t \in Ids' : sessions'[t].type = "returning" => Earned(t)'
  BY <1>1, <1>5, <1>6, SameTypeEarned DEF EarnedInv
<1> QED
  BY <1>3, <1>7, WritesEarned DEF Moves

LEMMA ClassifyEarned ==
  ASSUME TypeOK, EarnedInv, [Next]_vars, NEW c \in Caller, Classify(c)
  PROVE  EarnedInv'
<1>1. TaskEarned(call[c]) /\ call[c].at = "classify"
  BY DEF EarnedInv, TypesEarned, Classify
<1>2. \A s \in call[c].todo : call[c].type = "returning" => s \in Ids /\ Enough(s)'
  BY <1>1, EnoughStays, RestFields DEF TaskEarned
<1>3. \A s \in Ids' : sessions'[s].type = "returning" => Earned(s)'
  <2> TAKE s \in Ids'
  <2>1. s \in Ids
    BY ClassifyEffect
  <2>2. CASE sessions'[s] = sessions[s]
    BY <2>1, <2>2, SameTypeEarned DEF EarnedInv
  <2>3. CASE sessions'[s] # sessions[s]
    BY <1>2, <2>1, <2>3, ClassifyEffect DEF Earned
  <2> QED
    BY <2>2, <2>3
<1>4. ASSUME NEW s
      PROVE  /\ Rest(c, s).at = "classify"
             /\ \A t : t = Rest(c, s) => TaskEarned(t)'
  <2>1. /\ Rest(c, s).at = "classify"
        /\ Rest(c, s).type = call[c].type /\ Rest(c, s).todo = call[c].todo \ {s}
    BY <1>1, RestFields
  <2> QED
    BY <1>2, <2>1 DEF TaskEarned
<1>5. EarnedBy(c)'
  <2>1. CASE Goto(c, Idle)
    BY <2>1, GotoEffect, QuietState DEF Idle
  <2>2. ASSUME NEW s, Goto(c, Rest(c, s))
        PROVE  EarnedBy(c)'
    <3> PICK t : t = Rest(c, s)
      OBVIOUS
    <3>1. call'[c] = t /\ t.at = "classify" /\ TaskEarned(t)'
      BY <1>4, <2>2, GotoEffect
    <3> QED
      BY <3>1 DEF EarnedBy, TaskEarned, Enough
  <2>3. ASSUME NEW s, Goto(c, [at |-> "update", session |-> s, next |-> Rest(c, s)])
        PROVE  EarnedBy(c)'
    <3> PICK t : t = Rest(c, s)
      OBVIOUS
    <3>1. call'[c] = [at |-> "update", session |-> s, next |-> t] /\ TaskEarned(t)'
      BY <1>4, <2>3, GotoEffect
    <3> QED
      BY <3>1 DEF EarnedBy, TaskEarned, Enough
  <2> QED
    BY <2>1, <2>2, <2>3, ClassifyCases
<1> QED
  BY <1>3, <1>5, WritesEarned DEF Moves

LEMMA AssignEarned ==
  ASSUME TypeOK, EarnedInv, [Next]_vars, NEW c \in Caller, Assign(c)
  PROVE  EarnedInv'
<1>1. PICK s \in Ids, r \in Session :
        /\ s = call[c].session /\ sessions' = [sessions EXCEPT ![s] = r]
        /\ r.type \in {call[c].loaded.type, sessions[s].type}
  BY AssignEffect
<1>2. Ids' = Ids /\ sessions'[s] = r /\ \A t \in Ids : t # s => sessions'[t] = sessions[t]
  BY <1>1 DEF TypeOK, Ids
<1>3. call[c].loaded.type = "returning" => Earned(s)'
  BY <1>1, EnoughStays DEF EarnedInv, TypesEarned, Assign
<1>4. \A t \in Ids' : sessions'[t].type = "returning" => Earned(t)'
  BY <1>1, <1>2, <1>3, SameTypeEarned DEF EarnedInv
<1>5. EarnedBy(c)'
  <2> PICK t : t = call[c].next
    OBVIOUS
  <2>1. call'[c] = t
    BY GotoEffect DEF Assign
  <2>2. t \in Task(Ids) /\ TaskEarned(t)
    BY StateFields DEF TypeOK, Assign, EarnedInv, TypesEarned
  <2>3. TaskEarned(t)' /\ t.at \in {"idle", "classify"}
    BY <2>2, TaskEarnedStays, TaskFields
  <2> QED
    BY <2>1, <2>3 DEF EarnedBy, TaskEarned, Enough
<1> QED
  BY <1>4, <1>5, WritesEarned DEF Moves

LEMMA StepEarned == TypeOK /\ Counted /\ EarnedInv /\ [Next]_vars => EarnedInv'
<1> SUFFICES ASSUME TypeOK, Counted, EarnedInv, [Next]_vars PROVE EarnedInv'
  OBVIOUS
<1>1. ASSUME NEW before, ExpireSessions(before)
      PROVE  EarnedInv'
  <2>1. UNCHANGED <<call, Ids>> /\ \A s \in Ids : sessions'[s].type = sessions[s].type
    BY <1>1, ExpireEffect DEF ExpireSessions
  <2>2. \A d \in Caller : EarnedBy(d)'
    BY <2>1, BystanderEarned DEF EarnedInv, TypesEarned, EarnedBy
  <2>3. \A s \in Ids' : sessions'[s].type = "returning" => Earned(s)'
    BY <2>1, SameTypeEarned DEF EarnedInv
  <2> QED
    BY <2>2, <2>3 DEF EarnedInv, TypesEarned, EarnedBy, ReturningIsEarned, Earned, Enough
<1>2. ASSUME UNCHANGED <<sessions, call, added, raced, Ids>>
      PROVE  EarnedInv'
  BY <1>2 DEF EarnedInv, TypesEarned, TaskEarned, ReturningIsEarned, Earned, Enough, SessionsOf
<1> QED
  BY <1>1, <1>2, NextKinds, QuietEffect, ReadsEarned, CreateEarned, AddEventEarned, ClassifyEarned,
     AssignEarned

\* No reclassification that was decided on an old list of sessions, no copy of a
\* session and no event that was counted twice calls a user returning too early.
THEOREM ReturningIsEarnedCorrect == Spec => []ReturningIsEarned
<1>1. Init => EarnedInv
  BY DEF Init, EarnedInv, TypesEarned, TaskEarned, ReturningIsEarned, Idle, Ids
<1>2. EarnedInv => ReturningIsEarned
  BY DEF EarnedInv
<1> QED
  BY <1>1, <1>2, StepEarned, TypeCorrect, CountedHolds, PTL DEF Spec

-------------------------------------------------------------------------------
(* One live session. *)

LEMMA InOrderBefore ==
  ASSUME TypeOK, [Next]_vars, NEW u, InOrder(u)'
  PROVE  InOrder(u)
BY StepKeeps, SessionsOfGrows DEF InOrder

\* The caller that does not move builds for the same user.
LEMMA BystanderUser ==
  ASSUME TypeOK, [Next]_vars, NEW d \in Caller, call'[d] = call[d]
  PROVE  UserOf(d)' = UserOf(d)
<1> PICK x, s : x = call[d] /\ s = x.session
  OBVIOUS
<1>1. CASE x.at \in {"load", "store"}
  <2>1. s \in Ids
    BY <1>1, StateFields DEF TypeOK
  <2>2. sessions'[s].user = sessions[s].user
    BY <2>1, StepKeeps
  <2> QED
    BY <1>1, <2>2 DEF UserOf
<1>2. CASE x.at \notin {"load", "store"}
  BY <1>2 DEF UserOf
<1> QED
  BY <1>1, <1>2

LEMMA UserOfIs ==
  ASSUME TypeOK, NEW c \in Caller
  PROVE  /\ call[c].at \in {"choose", "create"} => UserOf(c) = {call[c].user}
         /\ call[c].at \in {"load", "store"} => UserOf(c) = {sessions[call[c].session].user}
         /\ call[c].at \notin {"choose", "create", "load", "store"} => UserOf(c) = {}
BY DEF UserOf

\* A caller that stops building.
LEMMA NotBuilding ==
  ASSUME NEW c \in Caller, call'[c].at \notin {"choose", "create", "load", "store"}
  PROVE  UserOf(c)' = {}
BY DEF UserOf

\* The moves of a caller, by what they mean for the event that it puts into a session.
\* It has none afterwards:
LEMMA Done ==
  ASSUME TypeOK, NEW c \in Caller,
         \/ \E u \in User : ReclassifyUserType(c, u)
         \/ CreateSession(c) \/ AddEvent(c) \/ Classify(c) \/ UpdateSession(c) \/ Assign(c)
  PROVE  /\ UserOf(c)' = {} /\ call'[c].at # "choose"
         /\ now' = now /\ crossed' = crossed
<1>1. call'[c].at \in {"idle", "classify", "update", "copy"}
  <2>1. CASE \E u \in User : ReclassifyUserType(c, u)
    BY <2>1, GotoEffect DEF ReclassifyUserType
  <2>2. CASE CreateSession(c)
    BY <2>2, GotoEffect, CreateSessionCases DEF Idle
  <2>3. CASE AddEvent(c)
    BY <2>3, GotoEffect DEF AddEvent
  <2>4. CASE Classify(c)
    <3>1. \A s : Rest(c, s).at = "classify"
      BY <2>4, RestFields DEF Classify
    <3>2. Goto(c, Idle) => call'[c].at = "idle"
      BY GotoEffect DEF Idle
    <3>3. \A s : Goto(c, Rest(c, s)) => call'[c].at = "classify"
      BY <3>1, GotoEffect
    <3>4. \A s : Goto(c, [at |-> "update", session |-> s, next |-> Rest(c, s)]) => call'[c].at = "update"
      BY GotoEffect
    <3> QED
      BY <2>4, <3>2, <3>3, <3>4, ClassifyCases
  <2>5. CASE UpdateSession(c)
    <3>1. Goto(c, Idle) => call'[c].at = "idle"
      BY GotoEffect DEF Idle
    <3>2. Goto(c, [at |-> "copy", session |-> call[c].session,
                   loaded |-> sessions[call[c].session], next |-> call[c].next])
            => call'[c].at = "copy"
      BY GotoEffect
    <3> QED
      BY <2>5, <3>1, <3>2, UpdateSessionCases
  <2>6. CASE Assign(c)
    <3>1. call'[c] \in Task(Ids)
      BY <2>6, GotoEffect, StateFields DEF Assign, TypeOK
    <3> QED
      BY <3>1, TaskFields
  <2> QED
    BY <2>1, <2>2, <2>3, <2>4, <2>5, <2>6
<1>2. now' = now /\ crossed' = crossed
  BY DEF ReclassifyUserType, CreateSession, AddEvent, Classify, UpdateSession, Assign
<1> QED
  BY <1>1, <1>2, NotBuilding

\* It has the one it had:
LEMMA StillBuilding ==
  ASSUME TypeOK, FoundOfUser, NEW c \in Caller, Choose(c) \/ LoadCount(c)
  PROVE  /\ UserOf(c)' = UserOf(c) /\ call'[c].ts = call[c].ts /\ call'[c].at # "choose"
         /\ now' = now /\ crossed' = crossed
<1>1. CASE Choose(c)
  <2> DEFINE chosen == {s \in MostRecent(call[c].found) : call[c].ts - sessions[s].last <= Timeout}
  <2>1. call'[c] = IF chosen = {}
                   THEN [at |-> "create", user |-> call[c].user, ts |-> call[c].ts]
                   ELSE [at |-> "load", ts |-> call[c].ts, session |-> CHOOSE s \in chosen : TRUE]
    BY <1>1, GotoEffect DEF Choose
  <2>2. sessions' = sessions /\ now' = now /\ crossed' = crossed /\ call[c].at = "choose"
    BY <1>1 DEF Choose
  <2>3. chosen \subseteq call[c].found
    BY DEF MostRecent
  <2>4. \A s \in call[c].found : sessions[s].user = call[c].user
    BY <2>2 DEF FoundOfUser, SessionsOf
  <2> HIDE DEF chosen
  <2> PICK s : s = CHOOSE t \in chosen : TRUE
    OBVIOUS
  <2>5. chosen # {} => sessions[s].user = call[c].user
    BY <2>3, <2>4
  <2>6. CASE chosen = {}
    BY <2>1, <2>2, <2>6 DEF UserOf
  <2>7. CASE chosen # {}
    <3>1. call'[c] = [at |-> "load", ts |-> call[c].ts, session |-> s]
      BY <2>1, <2>7
    <3>2. call'[c].at = "load" /\ call'[c].ts = call[c].ts /\ sessions'[call'[c].session].user = call[c].user
      BY <2>2, <2>5, <2>7, <3>1
    <3>3. UserOf(c) = {call[c].user}
      BY <2>2 DEF UserOf
    <3>4. UserOf(c)' = {sessions'[call'[c].session].user}
      BY <3>2 DEF UserOf
    <3> QED
      BY <2>2, <3>2, <3>3, <3>4
  <2> QED
    BY <2>6, <2>7
<1>2. CASE LoadCount(c)
  <2> PICK s : s = call[c].session
    OBVIOUS
  <2>1. call'[c] = [at |-> "store", ts |-> call[c].ts, session |-> s, count |-> sessions[s].count]
    BY <1>2, GotoEffect DEF LoadCount
  <2>2. sessions' = sessions /\ now' = now /\ crossed' = crossed /\ call[c].at = "load"
    BY <1>2 DEF LoadCount
  <2> QED
    BY <2>1, <2>2 DEF UserOf
<1> QED
  BY <1>1, <1>2

\* It is new:
LEMMA StartsBuilding ==
  ASSUME TypeOK, NEW c \in Caller, NEW u \in User, NEW ts \in Timestamp, BuildSession(c, u, ts)
  PROVE  /\ UserOf(c)' = {u} /\ now' = now /\ UNCHANGED <<sessions, Ids>>
         /\ call'[c].at = "choose" /\ call'[c].user = u /\ call'[c].ts = ts
         /\ call'[c].found = SessionsOf(u)
         /\ u \notin crossed' => ts = now /\ u \notin Building
<1>1. call'[c] = [at |-> "choose", user |-> u, ts |-> ts, found |-> SessionsOf(u)]
  BY GotoEffect DEF BuildSession
<1>2. UserOf(c)' = {u}
  BY <1>1 DEF UserOf
<1> QED
  BY <1>1, <1>2 DEF BuildSession, Ids

LEMMA FoundOfUserStep ==
  ASSUME TypeOK, FoundOfUser, [Next]_vars
  PROVE  FoundOfUser'
<1>1. ASSUME NEW c \in Caller, Moves(c)
      PROVE  FoundOfUser'
  <2>1. ASSUME NEW d \in Caller, call'[d].at = "choose"
        PROVE  (call[d].found \subseteq SessionsOf(call[d].user))'
    <3>1. CASE d # c
      <4>1. call'[d] = call[d]
        BY <1>1, <3>1, MovesEffect
      <4>2. call[d].found \subseteq SessionsOf(call[d].user)
        BY <2>1, <4>1 DEF FoundOfUser
      <4> PICK u : u = call[d].user
        OBVIOUS
      <4>3. call'[d].found \subseteq SessionsOf(u)' /\ call'[d].user = u
        BY <4>1, <4>2, SessionsOfGrows
      <4> QED
        BY <4>3 DEF SessionsOf
    <3>2. CASE d = c
      <4>1. PICK u \in User, ts \in Timestamp : BuildSession(c, u, ts)
        BY <1>1, <2>1, <3>2, Done, StillBuilding DEF Moves, Reads
      <4> QED
        BY <3>2, <4>1, StartsBuilding DEF SessionsOf, Ids
    <3> QED
      BY <3>1, <3>2
  <2> QED
    BY <2>1 DEF FoundOfUser, SessionsOf
<1>2. ASSUME NEW before, ExpireSessions(before)
      PROVE  FoundOfUser'
  <2>1. UNCHANGED <<call, Ids>> /\ \A s \in Ids : sessions'[s].user = sessions[s].user
    BY <1>2, ExpireEffect DEF ExpireSessions
  <2> QED
    BY <2>1 DEF FoundOfUser, SessionsOf
<1>3. ASSUME UNCHANGED <<sessions, call, Ids>>
      PROVE  FoundOfUser'
  BY <1>3 DEF FoundOfUser, SessionsOf
<1> QED
  BY <1>1, <1>2, <1>3, StepKinds, QuietEffect

LEMMA BuildsStep ==
  ASSUME TypeOK, FoundOfUser, BuildsAreOrdered, [Next]_vars
  PROVE  BuildsAreOrdered'
<1>0. crossed \subseteq crossed'
  BY StepKeeps
<1>1. ASSUME NEW c \in Caller, Moves(c)
      PROVE  BuildsAreOrdered'
  <2>1. /\ now' = now
        /\ \A d \in Caller : d # c => call'[d] = call[d] /\ UserOf(d)' = UserOf(d)
    <3>1. now' = now
      BY <1>1, Done, ReadsEffect DEF Moves, Reads
    <3> QED
      BY <1>1, <3>1, MovesEffect, BystanderUser
  <2>2. CASE \E u \in User, ts \in Timestamp : BuildSession(c, u, ts)
    <3> PICK u \in User, ts \in Timestamp : BuildSession(c, u, ts)
      BY <2>2
    <3>1. /\ UserOf(c)' = {u} /\ call'[c].ts = ts
          /\ u \notin crossed' => ts = now /\ \A d \in Caller : UserOf(d) # {u}
      BY StartsBuilding DEF Building
    <3> QED
      BY <1>0, <2>1, <3>1 DEF BuildsAreOrdered
  <2>3. CASE UserOf(c)' = UserOf(c) /\ call'[c].ts = call[c].ts
    BY <1>0, <2>1, <2>3 DEF BuildsAreOrdered
  <2>4. CASE UserOf(c)' = {}
    BY <1>0, <2>1, <2>4 DEF BuildsAreOrdered
  <2> QED
    BY <1>1, <2>2, <2>3, <2>4, Done, StillBuilding DEF Moves, Reads
<1>2. ASSUME UNCHANGED <<call, now>>
      PROVE  BuildsAreOrdered'
  <2>1. \A d \in Caller : UserOf(d)' = UserOf(d)
    BY <1>2, BystanderUser
  <2> QED
    BY <1>0, <1>2, <2>1 DEF BuildsAreOrdered
<1>3. CASE Advance
  <2>1. \A d \in Caller : UserOf(d)' = UserOf(d)
    BY <1>3, BystanderUser DEF Advance
  <2>2. \A d \in Caller : UserOf(d) \subseteq crossed'
    BY <1>3 DEF Advance, Building
  <2> QED
    BY <2>1, <2>2 DEF BuildsAreOrdered
<1> QED
  BY <1>1, <1>2, <1>3, StepKinds DEF ExpireSessions, Close, vars

\* A step after which no session of u is new, or live when it was not.
LEMMA CalmLive ==
  ASSUME TypeOK, [Next]_vars, NEW u, LiveInOrder(u),
         \A s \in SessionsOf(u)' :
           /\ s \in SessionsOf(u) /\ sessions'[s].end = sessions'[s].last + Timeout
           /\ IsActive(s)' => IsActive(s),
         \A d \in Caller : call'[d] = call[d] \/ AloneFor(u, d)'
  PROVE  LiveInOrder(u)'
<1>1. SessionsOf(u)' = SessionsOf(u)
  BY SessionsOfGrows
<1>2. ASSUME NEW d \in Caller, call'[d] = call[d]
      PROVE  AloneFor(u, d)'
  <2>1. UserOf(d)' = UserOf(d) /\ AloneFor(u, d)
    BY <1>2, BystanderUser DEF LiveInOrder
  <2> HIDE DEF UserOf, SessionsOf, IsActive
  <2> QED
    BY <1>1, <1>2, <2>1 DEF AloneFor
<1>3. \A s \in SessionsOf(u)' : sessions'[s].end = sessions'[s].last + Timeout
  OBVIOUS
<1>4. \A s, t \in SessionsOf(u)' : IsActive(s)' /\ IsActive(t)' => s = t
  BY DEF LiveInOrder
<1>5. \A d \in Caller : AloneFor(u, d)'
  BY <1>2
<1> QED
  BY <1>3, <1>4, <1>5 DEF LiveInOrder

LEMMA NoneFor ==
  ASSUME NEW u, NEW c \in Caller, UserOf(c)' = {}
  PROVE  AloneFor(u, c)'
BY DEF AloneFor

\* A step that leaves sessions, and time, as they are.
LEMMA SameSessionsLive ==
  ASSUME TypeOK, [Next]_vars, NEW u, LiveInOrder(u), UNCHANGED <<sessions, now, Ids>>,
         \A d \in Caller : call'[d] = call[d] \/ AloneFor(u, d)'
  PROVE  LiveInOrder(u)'
<1>1. \A s \in SessionsOf(u)' :
        /\ s \in SessionsOf(u) /\ sessions'[s].end = sessions'[s].last + Timeout
        /\ IsActive(s)' => IsActive(s)
  BY DEF SessionsOf, IsActive, LiveInOrder
<1> QED
  BY <1>1, CalmLive

LEMMA ChooseAlone ==
  ASSUME TypeOK, LiveInv, NEW u \in User, InOrder(u), NEW c \in Caller, Choose(c),
         UserOf(c) = {u}
  PROVE  AloneFor(u, c)'
<1> DEFINE chosen == {s \in MostRecent(call[c].found) : call[c].ts - sessions[s].last <= Timeout}
<1>1. call'[c] = IF chosen = {}
                 THEN [at |-> "create", user |-> call[c].user, ts |-> call[c].ts]
                 ELSE [at |-> "load", ts |-> call[c].ts, session |-> CHOOSE s \in chosen : TRUE]
  BY GotoEffect DEF Choose
<1>2. /\ call[c].at = "choose" /\ call[c].ts = now /\ call[c].found = SessionsOf(u)
      /\ u \notin crossed /\ LiveInOrder(u)
  BY DEF Choose, LiveInv, InOrder, LiveInOrder, AloneFor, BuildsAreOrdered
<1>3. UNCHANGED <<sessions, now, Ids>>
  BY DEF Choose, Ids
<1>4. chosen \subseteq {s \in SessionsOf(u) : IsActive(s)}
  BY <1>2 DEF MostRecent
<1>5. ASSUME NEW s \in SessionsOf(u), IsActive(s)
      PROVE  s \in chosen
  <2>1. s \in Nat /\ sessions[s].last \in Int /\ now \in Nat
    BY SessionFields DEF SessionsOf, Session, TypeOK
  <2>2. \A t \in SessionsOf(u) : IsActive(t) => t = s
    BY <1>2, <1>5 DEF LiveInOrder
  <2>3. s \in MostRecent(SessionsOf(u))
    BY <1>5, <2>1, <2>2 DEF MostRecent
  <2>4. sessions[s].end = sessions[s].last + Timeout /\ now <= sessions[s].end
    BY <1>2, <1>5 DEF LiveInOrder, IsActive
  <2>5. now - sessions[s].last <= Timeout
    BY <2>1, <2>4, SessionsAssumption
  <2> QED
    BY <1>2, <2>3, <2>5
<1> HIDE DEF chosen
<1>6. CASE chosen = {}
  <2>1. call'[c].at = "create"
    BY <1>1, <1>6
  <2>2. \A s \in SessionsOf(u)' : ~IsActive(s)'
    BY <1>3, <1>5, <1>6 DEF SessionsOf, IsActive
  <2> QED
    BY <2>1, <2>2 DEF AloneFor
<1>7. CASE chosen # {}
  <2> PICK s : s = CHOOSE t \in chosen : TRUE
    OBVIOUS
  <2>1. s \in SessionsOf(u) /\ IsActive(s)
    BY <1>4, <1>7
  <2>2. call'[c].at = "load" /\ call'[c].session = s
    BY <1>1, <1>7
  <2>3. \A t \in SessionsOf(u) : IsActive(t) => t = s
    BY <1>2, <2>1 DEF LiveInOrder
  <2>4. \A t \in SessionsOf(u)' : IsActive(t)' => t = s
    BY <1>3, <2>3 DEF SessionsOf, IsActive
  <2> QED
    BY <2>2, <2>4 DEF AloneFor
<1> QED
  BY <1>6, <1>7

LEMMA ReadsLive ==
  ASSUME TypeOK, LiveInv, [Next]_vars, NEW u \in User, InOrder(u)', NEW c \in Caller, Reads(c)
  PROVE  LiveInOrder(u)'
<1>1. UNCHANGED <<sessions, now, Ids>> /\ InOrder(u) /\ LiveInOrder(u)
  BY ReadsEffect, InOrderBefore DEF LiveInv
<1>2. \A d \in Caller : d # c => call'[d] = call[d]
  BY MovesEffect DEF Moves
<1>3. AloneFor(u, c)'
  <2>1. CASE \E v \in User, ts \in Timestamp : BuildSession(c, v, ts)
    <3> PICK v \in User, ts \in Timestamp : BuildSession(c, v, ts)
      BY <2>1
    <3>1. /\ UserOf(c)' = {v} /\ call'[c].at = "choose" /\ call'[c].found = SessionsOf(v)
          /\ SessionsOf(u)' = SessionsOf(u)
      BY <1>1, StartsBuilding DEF SessionsOf
    <3> QED
      BY <3>1 DEF AloneFor
  <2>2. CASE Choose(c)
    <3>1. UserOf(c)' = UserOf(c)
      BY <2>2, StillBuilding DEF LiveInv
    <3>2. CASE UserOf(c) = {u}
      BY <1>1, <2>2, <3>2, ChooseAlone
    <3>3. CASE UserOf(c) # {u}
      BY <3>1, <3>3 DEF AloneFor
    <3> QED
      BY <3>2, <3>3
  <2>3. CASE LoadCount(c)
    <3>1. UserOf(c)' = UserOf(c)
      BY <2>3, StillBuilding DEF LiveInv
    <3>2. call'[c].at = "store" /\ call'[c].session = call[c].session /\ call[c].at = "load"
      BY <2>3, GotoEffect DEF LoadCount
    <3>3. UserOf(c) = {u} => \A s \in SessionsOf(u) : IsActive(s) => s = call[c].session
      BY <1>1, <3>2 DEF LiveInOrder, AloneFor
    <3>4. UserOf(c) = {u} => \A s \in SessionsOf(u)' : IsActive(s)' => s = call[c].session
      BY <1>1, <3>3 DEF SessionsOf, IsActive
    <3> QED
      BY <3>1, <3>2, <3>4 DEF AloneFor
  <2> QED
    BY <2>1, <2>2, <2>3, Done, NoneFor DEF Reads
<1> QED
  BY <1>1, <1>2, <1>3, SameSessionsLive

\* A session of u, of a step that leaves its end time and last event, and does not make
\* it active.
LEMMA SameEndLive ==
  ASSUME TypeOK, NEW u, LiveInOrder(u), NEW s \in SessionsOf(u), now' = now,
         sessions'[s].end = sessions[s].end, sessions'[s].last = sessions[s].last,
         sessions'[s].state \in {sessions[s].state, "expired"}
  PROVE  /\ sessions'[s].end = sessions'[s].last + Timeout
         /\ IsActive(s)' => IsActive(s)
BY DEF LiveInOrder, IsActive

LEMMA CreateLive ==
  ASSUME TypeOK, LiveInv, [Next]_vars, NEW u \in User, InOrder(u)', NEW c \in Caller,
         CreateSession(c)
  PROVE  LiveInOrder(u)'
<1>1. /\ InOrder(u) /\ LiveInOrder(u) /\ u \notin crossed
      /\ UserOf(c) = {call[c].user} /\ UserOf(c)' = {} /\ now' = now
  BY InOrderBefore, Done, UserOfIs DEF LiveInv, CreateSession, InOrder
<1>2. \A d \in Caller : call'[d] = call[d] \/ AloneFor(u, d)'
  BY <1>1, MovesEffect, NoneFor DEF Moves
<1>3. CASE sessions' = sessions
  BY <1>1, <1>2, <1>3, SameSessionsLive DEF Ids
<1>4. CASE sessions' # sessions
  <2> PICK n, r : n = Len(sessions) + 1 /\ r = NewSession(call[c].user, call[c].ts)
    OBVIOUS
  <2>1. /\ Ids' = Ids \cup {n} /\ n \notin Ids /\ sessions'[n] = r
        /\ \A s \in Ids : sessions'[s] = sessions[s]
    BY <1>4, CreateSessionCases
  <2>2. r.user = call[c].user /\ r.last = call[c].ts /\ r.end = now + Timeout
    BY DEF NewSession
  <2>3. CASE call[c].user # u
    <3>1. \A s \in SessionsOf(u)' : s \in SessionsOf(u) /\ sessions'[s] = sessions[s]
      BY <2>1, <2>2, <2>3 DEF SessionsOf
    <3>2. \A s \in SessionsOf(u)' :
            /\ s \in SessionsOf(u) /\ sessions'[s].end = sessions'[s].last + Timeout
            /\ IsActive(s)' => IsActive(s)
      BY <1>1, <3>1, SameEndLive
    <3> QED
      BY <1>1, <1>2, <3>2, CalmLive
  <2>4. CASE call[c].user = u
    <3>1. call[c].ts = now /\ \A d \in Caller : d # c => UserOf(d) # {u}
      BY <1>1, <2>4 DEF LiveInv, BuildsAreOrdered
    <3>2. \A s \in SessionsOf(u) : ~IsActive(s)
      BY <1>1, <2>4 DEF CreateSession, LiveInOrder, AloneFor
    <3>3. SessionsOf(u)' = SessionsOf(u) \cup {n}
      BY <2>1, <2>2, <2>4 DEF SessionsOf
    <3>4. \A s \in SessionsOf(u) :
            sessions'[s].end = sessions'[s].last + Timeout /\ (IsActive(s)' => IsActive(s))
      <4>1. \A s \in SessionsOf(u) : sessions'[s] = sessions[s]
        BY <2>1 DEF SessionsOf
      <4> QED
        BY <1>1, <4>1, SameEndLive
    <3>5. sessions'[n].end = sessions'[n].last + Timeout
      BY <2>1, <2>2, <3>1
    <3>6. \A d \in Caller : UserOf(d)' # {u}
      BY <1>1, <3>1, MovesEffect, BystanderUser DEF Moves
    <3>7. \A d \in Caller : AloneFor(u, d)'
      BY <3>6 DEF AloneFor
    <3> HIDE DEF SessionsOf, IsActive
    <3>8. \A s, t \in SessionsOf(u)' : IsActive(s)' /\ IsActive(t)' => s = t
      BY <3>2, <3>3, <3>4
    <3>9. \A s \in SessionsOf(u)' : sessions'[s].end = sessions'[s].last + Timeout
      BY <3>3, <3>4, <3>5
    <3> QED
      BY <3>7, <3>8, <3>9 DEF LiveInOrder
  <2> QED
    BY <2>3, <2>4
<1> QED
  BY <1>3, <1>4

LEMMA AddEventLive ==
  ASSUME TypeOK, LiveInv, [Next]_vars, NEW u \in User, InOrder(u)', NEW c \in Caller, AddEvent(c)
  PROVE  LiveInOrder(u)'
<1>1. /\ InOrder(u) /\ LiveInOrder(u) /\ u \notin crossed
      /\ UserOf(c)' = {} /\ now' = now
  BY InOrderBefore, Done DEF LiveInv, InOrder
<1>2. PICK s \in Ids, r \in Session :
        /\ s = call[c].session /\ sessions' = [sessions EXCEPT ![s] = r] /\ Ids' = Ids
        /\ r.user = sessions[s].user /\ r.state = sessions[s].state
        /\ r.last = call[c].ts /\ r.end = call[c].ts + Timeout
  BY AddEventEffect
<1>3. sessions'[s] = r /\ \A t \in Ids : t # s => sessions'[t] = sessions[t]
  BY <1>2 DEF TypeOK, Ids
<1>4. SessionsOf(u)' = SessionsOf(u)
  BY <1>2, <1>3 DEF SessionsOf
<1>5. \A t \in SessionsOf(u) : t # s =>
        sessions'[t].end = sessions'[t].last + Timeout /\ (IsActive(t)' => IsActive(t))
  <2>1. \A t \in SessionsOf(u) : t # s => sessions'[t] = sessions[t]
    BY <1>3 DEF SessionsOf
  <2> QED
    BY <1>1, <2>1, SameEndLive
<1>6. sessions'[s].end = sessions'[s].last + Timeout
  BY <1>2, <1>3
<1>7. \A d \in Caller : d # c => call'[d] = call[d] /\ UserOf(d)' = UserOf(d)
  BY MovesEffect, BystanderUser DEF Moves
<1>8. CASE s \notin SessionsOf(u)
  BY <1>1, <1>4, <1>5, <1>7, <1>8, NoneFor, CalmLive
<1>9. CASE s \in SessionsOf(u)
  <2>1. UserOf(c) = {u} /\ call[c].at = "store"
    BY <1>2, <1>9, UserOfIs DEF SessionsOf, AddEvent
  <2>2. \A d \in Caller : d # c => UserOf(d) # {u}
    BY <1>1, <2>1 DEF LiveInv, BuildsAreOrdered
  <2>3. \A t \in SessionsOf(u) : IsActive(t) => t = s
    BY <1>1, <1>2, <2>1 DEF LiveInOrder, AloneFor
  <2>4. \A d \in Caller : AloneFor(u, d)'
    BY <1>1, <1>7, <2>2 DEF AloneFor
  <2> HIDE DEF SessionsOf, IsActive
  <2>5. \A t \in SessionsOf(u)' : IsActive(t)' => t = s
    BY <1>4, <1>5, <2>3
  <2>6. \A t \in SessionsOf(u)' : sessions'[t].end = sessions'[t].last + Timeout
    BY <1>4, <1>5, <1>6
  <2> QED
    BY <2>4, <2>5, <2>6 DEF LiveInOrder
<1> QED
  BY <1>8, <1>9

\* The other steps leave every end time, last event and user of an unraced session.
LEMMA OtherLive ==
  ASSUME TypeOK, Counted, LiveInv, [Next]_vars, NEW u \in User, InOrder(u)',
         \/ \E c \in Caller : Classify(c) \/ Assign(c)
         \/ \E before : ExpireSessions(before)
  PROVE  LiveInOrder(u)'
<1>1. InOrder(u) /\ LiveInOrder(u)
  BY InOrderBefore DEF LiveInv
<1>2. now' = now /\ \A d \in Caller : call'[d] = call[d] \/ AloneFor(u, d)'
  <2>1. ASSUME NEW c \in Caller, Classify(c) \/ Assign(c)
        PROVE  now' = now /\ \A d \in Caller : call'[d] = call[d] \/ AloneFor(u, d)'
    BY <2>1, MovesEffect, Done, NoneFor DEF Moves
  <2> QED
    BY <2>1 DEF ExpireSessions
<1>3. /\ Ids' = Ids
      /\ \A s \in SessionsOf(u) :
           /\ sessions'[s].end = sessions[s].end /\ sessions'[s].last = sessions[s].last
           /\ sessions'[s].state \in {sessions[s].state, "expired"}
  <2>1. ASSUME NEW c \in Caller, Classify(c)
        PROVE  <1>3!:
    BY <2>1, ClassifyEffect DEF SessionsOf
  <2>2. ASSUME NEW c \in Caller, Assign(c)
        PROVE  <1>3!:
    <3>1. PICK s \in Ids, r \in Session :
            /\ s = call[c].session /\ sessions' = [sessions EXCEPT ![s] = r]
            /\ call[c].loaded = sessions[s] => sessions' = sessions
      BY <2>2, AssignEffect
    <3>2. s \notin raced => sessions' = sessions
      BY <2>2, <3>1 DEF Assign, Counted, LoadedHolds
    <3>3. Ids' = Ids /\ \A t \in Ids : t # s => sessions'[t] = sessions[t]
      BY <3>1 DEF TypeOK, Ids
    <3> QED
      BY <1>1, <3>2, <3>3 DEF InOrder, SessionsOf
  <2>3. ASSUME NEW before, ExpireSessions(before)
        PROVE  <1>3!:
    BY <2>3, ExpireEffect DEF SessionsOf
  <2> QED
    BY <2>1, <2>2, <2>3
<1>4. \A s \in SessionsOf(u)' : s \in SessionsOf(u)
  BY <1>3, StepKeeps DEF SessionsOf
<1> QED
  BY <1>1, <1>2, <1>3, <1>4, SameEndLive, CalmLive

LEMMA QuietLive ==
  ASSUME TypeOK, LiveInv, [Next]_vars, NEW u \in User, InOrder(u)',
         Close \/ Advance \/ UNCHANGED vars
  PROVE  LiveInOrder(u)'
<1>1. LiveInOrder(u) /\ UNCHANGED <<sessions, call, Ids>>
  BY InOrderBefore, QuietEffect DEF LiveInv
<1>2. now' >= now /\ now \in Nat /\ now' \in Nat
  BY DEF Close, Advance, vars, TypeOK
<1>3. \A s \in SessionsOf(u)' :
        /\ s \in SessionsOf(u) /\ sessions'[s].end = sessions'[s].last + Timeout
        /\ sessions[s].end \in Int
  BY <1>1, SessionFields DEF SessionsOf, LiveInOrder, Session
<1>4. \A s \in SessionsOf(u)' : IsActive(s)' => IsActive(s)
  BY <1>1, <1>2, <1>3 DEF IsActive
<1> QED
  BY <1>1, <1>3, <1>4, CalmLive

LEMMA StepLive == TypeOK /\ Counted /\ LiveInv /\ [Next]_vars => LiveInv'
<1> SUFFICES ASSUME TypeOK, Counted, LiveInv, [Next]_vars PROVE LiveInv'
  OBVIOUS
<1>1. FoundOfUser' /\ BuildsAreOrdered'
  BY FoundOfUserStep, BuildsStep DEF LiveInv
<1>2. \A u \in User : InOrder(u)' => LiveInOrder(u)'
  BY NextKinds, ReadsLive, CreateLive, AddEventLive, OtherLive, QuietLive
<1> QED
  BY <1>1, <1>2 DEF LiveInv

LEMMA OneLiveFromInv == TypeOK /\ LiveInv => OneLiveSession
<1> SUFFICES ASSUME TypeOK, LiveInv, NEW u \in User \ crossed, SessionsOf(u) \cap raced = {}
             PROVE  Cardinality({s \in SessionsOf(u) : IsActive(s)}) <= 1
  BY DEF OneLiveSession
<1> DEFINE live == {s \in SessionsOf(u) : IsActive(s)}
<1>1. \A s, t \in live : s = t
  BY DEF LiveInv, InOrder, LiveInOrder
<1> HIDE DEF live
<1>2. CASE live = {}
  BY <1>2, FS_EmptySet DEF live
<1>3. CASE live # {}
  <2>1. PICK s : live = {s}
    BY <1>1, <1>3
  <2>2. Cardinality({s}) = 1
    BY FS_Singleton
  <2> QED
    BY <2>1, <2>2 DEF live
<1> QED
  BY <1>2, <1>3

\* BuildSession's two tests, of the session's end time against the clock and of its last
\* event against the new one, agree for events that come one at a time and as they
\* happen: it opens another session only when the last one is over.
THEOREM OneLiveSessionCorrect == Spec => []OneLiveSession
<1>1. Init => LiveInv
  BY DEF Init, LiveInv, FoundOfUser, BuildsAreOrdered, UserOf, LiveInOrder, AloneFor, SessionsOf, Idle, Ids
<1> QED
  BY <1>1, OneLiveFromInv, StepLive, TypeCorrect, CountedHolds, PTL DEF Spec
===============================================================================
