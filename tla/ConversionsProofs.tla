--------------------------- MODULE ConversionsProofs ---------------------------
(* Proofs about Conversions, for any clients, goals, pages, queries and bounds. *)
EXTENDS Conversions, TLAPS

Goal == [id : Id, start : Page, end : Page]
Asked == [id : Id \cup {NoGoal}, start : Page \cup {NoPage}, end : Page \cup {NoPage}, day : Day]
Counted == (Page \cup {NoPage}) \X (Page \cup {NoPage})
Rate == [pages : Counted, id : Id \cup {NoGoal}, crossed : BOOLEAN]

UpdateCall == [at : {"writeStart", "writeEnd", "update"}, goal : Nat, update : Update]
CopyCall == [at : {"copy"}, goal : Nat, loaded : Goal]
RateCall ==
  [at : {"lookup", "drop", "goal", "start", "end", "list", "steps"}, query : Asked,
   goal : Nat, of : Nat, pages : Counted, result : Rate \cup {NoRate}]
Call == {Idle} \cup [at : {"clear"}] \cup UpdateCall \cup CopyCall \cup RateCall

\* What a call holds is a goal that was created; without a goal it is the query's pages.
Held(s, n) ==
  /\ s \in UpdateCall \cup CopyCall => s.goal \in 1..n
  /\ s \in RateCall => /\ s.goal \in 0..n /\ s.of \in 0..n
                       /\ s.at \in {"start", "end"} => s.of # 0
                       /\ s.at \in {"goal", "start", "end"} \/ s.goal # 0 => s.query.id # NoGoal
                       /\ s.at = "steps" => s.goal # 0 /\ s.result \in Rate
                       /\ s.at = "list" /\ s.query.id = NoGoal =>
                            s.pages = <<s.query.start, s.query.end>>

TypeOK ==
  /\ items \in [DOMAIN items -> [value : Rate, expired : BOOLEAN]]
  /\ goals \in Seq(Goal)
  /\ index \in [Id -> 0..Len(goals)]
  /\ call \in [Client -> Call]
  /\ \A c \in Client : Held(call[c], Len(goals))

LEMMA GotoType ==
  ASSUME TypeOK, NEW c \in Client, NEW s \in Call, Goto(c, s),
         Len(goals') \in Nat, Len(goals') >= Len(goals), Held(s, Len(goals'))
  PROVE  call' \in [Client -> Call] /\ \A d \in Client : Held(call'[d], Len(goals'))
<1>1. call' = [call EXCEPT ![c] = s] /\ call \in [Client -> Call]
  BY DEF Goto, TypeOK
<1>2. Len(goals) \in Nat
  BY DEF TypeOK
<1>3. ASSUME NEW d \in Client PROVE Held(call'[d], Len(goals'))
  <2>1. CASE d = c
    BY <2>1, <1>1
  <2>2. CASE d # c
    <3>1. call'[d] = call[d] /\ Held(call[d], Len(goals))
      BY <2>2, <1>1 DEF TypeOK
    <3> QED
      BY <3>1, <1>2 DEF Held
  <2> QED
    BY <2>1, <2>2
<1> QED
  BY <1>1, <1>3

LEMMA Shapes ==
  ASSUME NEW s \in Call
  PROVE  /\ s.at = "idle" => s = Idle
         /\ s.at \in {"writeStart", "writeEnd", "update"} <=> s \in UpdateCall
         /\ s.at = "copy" <=> s \in CopyCall
         /\ s.at \in {"lookup", "drop", "goal", "start", "end", "list", "steps"} <=> s \in RateCall
BY DEF Call, UpdateCall, CopyCall, RateCall, Idle

\* The map holds a goal under its own ID, and what is being copied is in the map.
Filed ==
  /\ \A id \in Id : index[id] # 0 => goals[index[id]].id = id
  /\ \A c \in Client : At(c, "copy") => index[call[c].loaded.id] # 0

\* What a calculation holds that has not seen its goal change: the goal and the pages
\* are the present ones, and a funnel's are those that its result was computed for.
Right(s) ==
  LET id == s.query.id
  IN s \in RateCall =>
       /\ s.at \in {"start", "end"} => s.of = index[id]
       /\ s.at = "end" => s.pages[1] = goals[s.of].start
       /\ s.at = "list" /\ id # NoGoal => index[id] # 0 /\ s.pages = PagesOf(index[id])
       /\ s.goal # 0 => s.goal = index[id] /\ id \notin dirty
       /\ s.at = "steps" /\ s.result.id = id /\ ~s.result.crossed =>
            s.result.pages = PagesOf(s.goal)

Kept == \A c \in Client \ crossed : Right(call[c])

IInv == TypeOK /\ Filed /\ Kept /\ CachedIsCurrent

LEMMA InitType == Init => TypeOK
<1> SUFFICES ASSUME Init PROVE TypeOK
  OBVIOUS
<1>1. items \in [DOMAIN items -> [value : Rate, expired : BOOLEAN]]
  BY DEF Init, New
<1>2. goals \in Seq(Goal) /\ Len(goals) = 0
  BY DEF Init
<1>3. index \in [Id -> 0..Len(goals)]
  BY <1>2 DEF Init
<1>4. call \in [Client -> Call] /\ \A c \in Client : Held(call[c], Len(goals))
  BY DEF Init, Call, Held, Idle, UpdateCall, CopyCall, RateCall
<1> QED
  BY <1>1, <1>2, <1>3, <1>4 DEF TypeOK

\* The steps that leave the store alone.
LEMMA CallType ==
  ASSUME TypeOK, NEW c \in Client, NEW s \in Call, Goto(c, s), Held(s, Len(goals)),
         UNCHANGED <<goals, index>>, items' \in [DOMAIN items' -> [value : Rate, expired : BOOLEAN]]
  PROVE  TypeOK'
<1>1. Len(goals) \in Nat /\ Len(goals') = Len(goals)
  BY DEF TypeOK
<1>2. call' \in [Client -> Call] /\ \A d \in Client : Held(call'[d], Len(goals'))
  BY <1>1, GotoType
<1> QED
  BY <1>1, <1>2 DEF TypeOK

\* Clear, Close, and labels with no data.
LEMMA PlainCalls == Idle \in Call /\ [at |-> "clear"] \in Call
                    /\ \A n : Held(Idle, n) /\ Held([at |-> "clear"], n)
BY DEF Idle, Call, Held, UpdateCall, CopyCall, RateCall

LEMMA CreateGoalType ==
  ASSUME TypeOK, NEW id \in Id, NEW pages \in Pages, CreateGoal(id, pages)
  PROVE  TypeOK'
<1>1. pages[1] \in Page /\ pages[2] \in Page
  BY ConversionsAssumption
<1>2. goals' \in Seq(Goal) /\ Len(goals') = Len(goals) + 1 /\ Len(goals) \in Nat
  BY <1>1 DEF CreateGoal, TypeOK, Goal
<1>3. index' \in [Id -> 0..Len(goals')]
  BY <1>2 DEF CreateGoal, TypeOK
<1>4. \A c \in Client : Held(call[c], Len(goals'))
  BY <1>2 DEF TypeOK, Held
<1> QED
  BY <1>2, <1>3, <1>4 DEF CreateGoal, TypeOK

\* Goals change in place.
LEMMA SameGoals ==
  ASSUME TypeOK, NEW g \in 1..Len(goals), NEW new \in Goal, goals' = [goals EXCEPT ![g] = new]
  PROVE  goals' \in Seq(Goal) /\ Len(goals') = Len(goals) /\ Len(goals) \in Nat
BY DEF TypeOK

LEMMA UpdateGoalType ==
  ASSUME TypeOK, NEW c \in Client, NEW id \in Id, NEW update \in Update, UpdateGoal(c, id, update)
  PROVE  TypeOK'
<1> DEFINE s == [at |-> "writeStart", goal |-> index[id], update |-> update]
<1>1. s.goal \in 1..Len(goals) /\ Len(goals) \in Nat
  BY DEF UpdateGoal, TypeOK
<1>2. s \in UpdateCall
  BY <1>1 DEF UpdateCall
<1>3. s \in Call /\ Held(s, Len(goals))
  BY <1>1, <1>2, Shapes DEF Call, Held, UpdateCall, CopyCall, RateCall
<1> QED
  BY <1>3, CallType DEF UpdateGoal, store, TypeOK

LEMMA WriteType ==
  ASSUME TypeOK, NEW c \in Client, NEW field \in {"start", "end"}, NEW page \in Page \cup {Absent},
         call[c] \in UpdateCall, Write(c, field, page)
  PROVE  goals' \in Seq(Goal) /\ Len(goals') = Len(goals) /\ Len(goals) \in Nat
<1> DEFINE g == call[c].goal
<1>1. g \in 1..Len(goals)
  BY DEF TypeOK, Held
<1>2. CASE page = Absent
  BY <1>2 DEF Write, TypeOK
<1>3. CASE page # Absent
  <2>1. page \in Page /\ goals[g] \in Goal
    BY <1>1, <1>3 DEF TypeOK
  <2>2. [goals[g] EXCEPT ![field] = page] \in Goal
    BY <2>1 DEF Goal
  <2>3. goals' = [goals EXCEPT ![g] = [goals[g] EXCEPT ![field] = page]]
    BY <1>3 DEF Write
  <2> QED
    BY <1>1, <2>2, <2>3, SameGoals
<1> QED
  BY <1>2, <1>3

\* The next label of an update.
LEMMA UpdateLabel ==
  ASSUME TypeOK, NEW c \in Client, call[c] \in UpdateCall,
         NEW label \in {"writeEnd", "update"}
  PROVE  /\ [call[c] EXCEPT !.at = label] \in Call
         /\ Held([call[c] EXCEPT !.at = label], Len(goals))
<1> DEFINE s == [call[c] EXCEPT !.at = label]
<1>1. call[c].goal \in 1..Len(goals)
  BY DEF TypeOK, Held
<1>2. s \in UpdateCall /\ s.goal = call[c].goal
  BY DEF UpdateCall
<1> QED
  BY <1>1, <1>2 DEF Call, Held, UpdateCall, CopyCall, RateCall

LEMMA UpdatePages ==
  ASSUME NEW s \in UpdateCall
  PROVE  s.update[1] \in Page \cup {Absent} /\ s.update[2] \in Page \cup {Absent}
BY ConversionsAssumption DEF UpdateCall

LEMMA WriteStepType ==
  ASSUME TypeOK, NEW c \in Client, WriteStart(c) \/ WriteEnd(c)
  PROVE  TypeOK'
<1>1. call[c] \in UpdateCall
  BY Shapes DEF WriteStart, WriteEnd, At, TypeOK
<1>2. goals' \in Seq(Goal) /\ Len(goals') = Len(goals) /\ Len(goals) \in Nat
  BY <1>1, UpdatePages, WriteType DEF WriteStart, WriteEnd
<1>3. PICK label \in {"writeEnd", "update"} : Goto(c, [call[c] EXCEPT !.at = label])
  BY DEF WriteStart, WriteEnd
<1> DEFINE s == [call[c] EXCEPT !.at = label]
<1>4. s \in Call /\ Held(s, Len(goals'))
  BY <1>1, <1>2, UpdateLabel
<1>5. call' \in [Client -> Call] /\ \A d \in Client : Held(call'[d], Len(goals'))
  BY <1>2, <1>3, <1>4, GotoType
<1> QED
  BY <1>2, <1>5 DEF WriteStart, WriteEnd, TypeOK

LEMMA UpdateConversionGoalType ==
  ASSUME TypeOK, NEW c \in Client, UpdateConversionGoal(c)
  PROVE  TypeOK'
<1> DEFINE g == call[c].goal
           s == [at |-> "copy", goal |-> g, loaded |-> goals[g]]
<1>1. call[c] \in UpdateCall /\ g \in 1..Len(goals) /\ Len(goals) \in Nat
  BY Shapes DEF UpdateConversionGoal, At, TypeOK, Held
<1>2. s \in CopyCall
  BY <1>1 DEF CopyCall, TypeOK
<1>3. s \in Call /\ Held(s, Len(goals))
  BY <1>1, <1>2 DEF Call, Held, UpdateCall, CopyCall, RateCall
<1> QED
  BY <1>3, CallType, PlainCalls DEF UpdateConversionGoal, store, TypeOK

LEMMA CopyType ==
  ASSUME TypeOK, Filed, NEW c \in Client, Copy(c)
  PROVE  TypeOK'
<1> DEFINE loaded == call[c].loaded
           g == index[loaded.id]
<1>1. call[c] \in CopyCall /\ loaded \in Goal
  BY Shapes DEF Copy, At, TypeOK, CopyCall
<1>2. g \in 1..Len(goals) /\ goals[g] \in Goal
  <2>1. loaded.id \in Id /\ g # 0
    BY <1>1 DEF Goal, Copy, Filed
  <2> QED
    BY <2>1 DEF TypeOK
<1>3. PICK F \in SUBSET {"start", "end"} :
        goals' = [goals EXCEPT ![g] =
                    [f \in DOMAIN goals[g] |-> IF f \in F THEN loaded[f] ELSE goals[g][f]]]
  BY DEF Copy
<1> DEFINE new == [f \in DOMAIN goals[g] |-> IF f \in F THEN loaded[f] ELSE goals[g][f]]
<1>4. new \in Goal
  <2> HIDE DEF g, loaded
  <2> QED
    BY <1>1, <1>2 DEF Goal
<1>5. goals' \in Seq(Goal) /\ Len(goals') = Len(goals) /\ Len(goals) \in Nat
  <2> HIDE DEF g, new
  <2> QED
    BY <1>2, <1>3, <1>4, SameGoals DEF new
<1>6. Goto(c, [at |-> "clear"])
  BY DEF Copy
<1>7. call' \in [Client -> Call] /\ \A d \in Client : Held(call'[d], Len(goals'))
  BY <1>5, <1>6, PlainCalls, GotoType
<1> QED
  BY <1>5, <1>7 DEF Copy, TypeOK

LEMMA DeleteGoalType ==
  ASSUME TypeOK, NEW c \in Client, NEW id \in Id, DeleteGoal(c, id)
  PROVE  TypeOK'
<1>1. Len(goals) \in Nat /\ goals' = goals
  BY DEF DeleteGoal, TypeOK
<1>2. index' \in [Id -> 0..Len(goals)]
  BY <1>1 DEF DeleteGoal, TypeOK
<1>3. call' \in [Client -> Call] /\ \A d \in Client : Held(call'[d], Len(goals'))
  BY <1>1, PlainCalls, GotoType DEF DeleteGoal
<1> QED
  BY <1>1, <1>2, <1>3 DEF DeleteGoal, TypeOK

LEMMA ClearCacheType ==
  ASSUME TypeOK, NEW c \in Client, ClearCache(c)
  PROVE  TypeOK'
<1>1. Len(goals) \in Nat /\ goals' = goals /\ index' = index
  BY DEF ClearCache, TypeOK, store
<1>2. call' \in [Client -> Call] /\ \A d \in Client : Held(call'[d], Len(goals'))
  BY <1>1, PlainCalls, GotoType DEF ClearCache
<1>3. items' \in [DOMAIN items' -> [value : Rate, expired : BOOLEAN]]
  BY DEF ClearCache, Clear
<1> QED
  BY <1>1, <1>2, <1>3 DEF TypeOK

\* The cache keeps its type when entries are removed, or one is put in.
LEMMA RestrictType ==
  ASSUME TypeOK, NEW K \in SUBSET DOMAIN items, items' = Restrict(items, K)
  PROVE  items' \in [DOMAIN items' -> [value : Rate, expired : BOOLEAN]]
BY DEF TypeOK, Restrict

LEMMA SetType ==
  ASSUME TypeOK, NEW k, NEW rate \in Rate, Set(k, rate)
  PROVE  /\ items' \in [DOMAIN items' -> [value : Rate, expired : BOOLEAN]]
         /\ DOMAIN items' = DOMAIN items \cup {k}
         /\ items'[k] = [value |-> rate, expired |-> FALSE]
         /\ \A j \in DOMAIN items \ {k} : items'[j] = items[j]
BY DEF TypeOK, Set

LEMMA CacheAloneType ==
  ASSUME TypeOK, CacheAlone
  PROVE  TypeOK'
<1>1. items' \in [DOMAIN items' -> [value : Rate, expired : BOOLEAN]]
  <2>1. CASE Cleanup
    BY <2>1, RestrictType DEF Cleanup, Keys
  <2>2. ASSUME NEW k \in Keys, Expire(k)
        PROVE  items' \in [DOMAIN items' -> [value : Rate, expired : BOOLEAN]]
    BY <2>2 DEF Expire, Keys, TypeOK
  <2> QED
    BY <2>1, <2>2 DEF CacheAlone
<1> QED
  BY <1>1 DEF CacheAlone, TypeOK, store

(* The calculation of a rate. *)

RateStep(c) ==
  \/ \E q \in Query : CalculateRate(c, q)
  \/ \E id \in Id, day \in Day : BuildFunnel(c, id, day)
  \/ FunnelRate(c) \/ DropExpired(c) \/ GetGoal(c) \/ ReadStart(c) \/ ReadEnd(c)
  \/ FinishRate(c) \/ BuildSteps(c)

\* The calculation goes on, or the call is over.
GoesOn(c, t) == Goto(c, t) /\ t \in RateCall \cup {Idle} /\ Held(t, Len(goals))

LEMMA OverIsRight == Right(Idle) /\ \A n : Held(Idle, n)
BY PlainCalls DEF Right, Idle, RateCall

LEMMA CalculationType ==
  ASSUME TypeOK, NEW q \in Asked, NEW goal \in 0..Len(goals), goal # 0 => q.id # NoGoal
  PROVE  /\ Calculation(q, goal) \in RateCall
         /\ Held(Calculation(q, goal), Len(goals))
         /\ (goal # 0 => goal = index[q.id] /\ q.id \notin dirty) => Right(Calculation(q, goal))
BY DEF TypeOK, Calculation, RateCall, Held, Counted, UpdateCall, CopyCall, Right

LEMMA ComputeCall ==
  ASSUME TypeOK, NEW c \in Client, NEW s \in RateCall, Held(s, Len(goals)), Compute(c, s)
  PROVE  \E t : GoesOn(c, t) /\ (Right(s) => Right(t))
<1>1. CASE s.query.id = NoGoal
  <2> DEFINE t == [s EXCEPT !.at = "list", !.pages = <<s.query.start, s.query.end>>]
  <2>1. t \in RateCall
    BY DEF RateCall, Asked, Counted
  <2>2. Held(t, Len(goals))
    BY <1>1, <2>1 DEF Held, RateCall, UpdateCall, CopyCall
  <2>3. Right(s) => Right(t)
    BY <1>1, <2>1 DEF Right, RateCall
  <2> QED
    BY <1>1, <2>1, <2>2, <2>3 DEF Compute, GoesOn
<1>2. CASE s.query.id # NoGoal
  <2> DEFINE t == [s EXCEPT !.at = "goal"]
  <2>1. t \in RateCall
    BY DEF RateCall
  <2>2. Held(t, Len(goals))
    BY <1>2, <2>1 DEF Held, RateCall, UpdateCall, CopyCall
  <2>3. Right(s) => Right(t)
    BY <2>1 DEF Right, RateCall
  <2> QED
    BY <1>2, <2>1, <2>2, <2>3 DEF Compute, GoesOn
<1> QED
  BY <1>1, <1>2

LEMMA ProceedCall ==
  ASSUME TypeOK, NEW c \in Client, NEW s \in RateCall, Held(s, Len(goals)),
         NEW rate \in Rate, Proceed(c, s, rate),
         Right(s) /\ s.goal # 0 /\ rate.id = s.query.id /\ ~rate.crossed =>
           rate.pages = PagesOf(s.goal)
  PROVE  \E t : GoesOn(c, t) /\ (Right(s) => Right(t))
<1>1. CASE s.goal = 0
  BY <1>1, OverIsRight DEF Proceed, GoesOn
<1>2. CASE s.goal # 0
  <2> DEFINE t == [Calculation(s.query, s.goal) EXCEPT !.at = "steps", !.result = rate]
  <2>1. s.query.id # NoGoal /\ s.goal \in 0..Len(goals) /\ s.query \in Asked
    BY <1>2 DEF Held, RateCall
  <2>2. t \in RateCall
    BY <2>1, CalculationType DEF RateCall
  <2>3. t.at = "steps" /\ t.goal = s.goal /\ t.query = s.query /\ t.result = rate /\ t.of = 0
    BY DEF Calculation
  <2>4. Held(t, Len(goals))
    <3> HIDE DEF t
    <3> QED
      BY <1>2, <2>1, <2>2, <2>3 DEF Held, RateCall, UpdateCall, CopyCall
  <2>5. Right(s) => Right(t)
    <3> HIDE DEF t
    <3> QED
      BY <1>2, <2>2, <2>3 DEF Right
  <2> QED
    BY <1>2, <2>2, <2>4, <2>5 DEF Proceed, GoesOn
<1> QED
  BY <1>1, <1>2

\* A funnel's rate is looked up after its goal; one from the cache that is that goal's
\* and saw no change is of the present pages.
LEMMA LookUpCall ==
  ASSUME TypeOK, CachedIsCurrent, NEW c \in Client, NEW s \in RateCall, Held(s, Len(goals)),
         s.at = "lookup", LookUp(c, s)
  PROVE  \E t : GoesOn(c, t) /\ (Right(s) => Right(t))
<1> DEFINE k == Key(s.query)
<1>1. CASE ~Has(k)
  BY <1>1, ComputeCall DEF LookUp
<1>2. CASE Has(k) /\ IsExpired(k)
  <2> DEFINE t == [s EXCEPT !.at = "drop"]
  <2>1. t \in RateCall
    BY DEF RateCall
  <2>2. Held(t, Len(goals))
    BY <2>1 DEF Held, RateCall, UpdateCall, CopyCall
  <2>3. Right(s) => Right(t)
    BY <2>1 DEF Right, RateCall
  <2> QED
    BY <1>2, <2>1, <2>2, <2>3 DEF LookUp, GoesOn
<1>3. CASE Has(k) /\ ~IsExpired(k)
  <2> DEFINE rate == items[k].value
  <2>1. rate \in Rate /\ k \in Keys
    BY <1>3 DEF Has, TypeOK, Keys
  <2>2. Right(s) /\ s.goal # 0 /\ rate.id = s.query.id /\ ~rate.crossed =>
          rate.pages = PagesOf(s.goal)
    BY <2>1 DEF CachedIsCurrent, Right, Held
  <2>3. Proceed(c, s, rate)
    BY <1>3 DEF LookUp
  <2> HIDE DEF rate
  <2> QED
    BY <2>1, <2>2, <2>3, ProceedCall
<1> QED
  BY <1>1, <1>2, <1>3

LEMMA PagesRead ==
  ASSUME NEW s \in RateCall, NEW goal \in Goal
  PROVE  /\ [s EXCEPT !.at = "end", !.pages[1] = goal.start] \in RateCall
         /\ [s EXCEPT !.at = "list", !.of = 0, !.pages[2] = goal.end] \in RateCall
         /\ [s.pages EXCEPT ![1] = goal.start][1] = goal.start
         /\ [s.pages EXCEPT ![2] = goal.end] = <<s.pages[1], goal.end>>
<1>1. s.pages \in Counted /\ goal.start \in Page /\ goal.end \in Page
  BY DEF RateCall, Goal
<1>2. /\ [s.pages EXCEPT ![1] = goal.start] \in Counted
      /\ [s.pages EXCEPT ![2] = goal.end] \in Counted
  BY <1>1 DEF Counted
<1>3. /\ [s.pages EXCEPT ![1] = goal.start][1] = goal.start
      /\ [s.pages EXCEPT ![2] = goal.end] = <<s.pages[1], goal.end>>
  BY <1>1 DEF Counted
<1> QED
  BY <1>2, <1>3 DEF RateCall

LEMMA SetCurrent ==
  ASSUME TypeOK, CachedIsCurrent, NEW k, NEW rate \in Rate, Set(k, rate),
         UNCHANGED <<goals, index, dirty>>,
         IF rate.id = NoGoal
         THEN rate.pages = <<k[1], k[2]>>
         ELSE \/ rate.crossed
              \/ index[rate.id] # 0 /\ rate.pages = PagesOf(index[rate.id])
  PROVE  CachedIsCurrent'
<1> SUFFICES ASSUME NEW j \in Keys'
             PROVE  LET r == items'[j].value
                    IN IF r.id = NoGoal THEN r.pages = <<j[1], j[2]>>
                       ELSE \/ r.crossed \/ r.id \in dirty
                            \/ index[r.id] # 0 /\ r.pages = PagesOf(index[r.id])
  BY DEF CachedIsCurrent, PagesOf
<1>0. /\ DOMAIN items' = DOMAIN items \cup {k}
      /\ items'[k] = [value |-> rate, expired |-> FALSE]
      /\ \A i \in DOMAIN items \ {k} : items'[i] = items[i]
  BY SetType
<1>1. CASE j = k
  <2>1. items'[j].value = rate
    BY <1>0, <1>1
  <2> QED
    BY <1>1, <2>1
<1>2. CASE j # k
  <2>1. j \in Keys /\ items'[j] = items[j]
    BY <1>0, <1>2 DEF Keys, IsExpired
  <2> QED
    BY <2>1 DEF CachedIsCurrent
<1> QED
  BY <1>1, <1>2

\* The cache loses entries, or they expire, and nothing else happens.
LEMMA FewerCurrent ==
  ASSUME CachedIsCurrent, UNCHANGED <<goals, index, dirty>>,
         \A j \in Keys' : j \in Keys /\ items'[j].value = items[j].value
  PROVE  CachedIsCurrent'
BY DEF CachedIsCurrent, PagesOf

LEMMA RateStepCall ==
  ASSUME IInv, NEW c \in Client, RateStep(c)
  PROVE  /\ \E t : GoesOn(c, t) /\ (c \notin crossed' => Right(t))
         /\ items' \in [DOMAIN items' -> [value : Rate, expired : BOOLEAN]]
         /\ UNCHANGED <<goals, index, dirty>>
         /\ crossed \ {c} = crossed' \ {c}
         /\ CachedIsCurrent'
<1> DEFINE s == call[c]
           n == Len(goals)
<1>1. Held(s, n) /\ s \in Call /\ n \in Nat /\ TypeOK /\ CachedIsCurrent
  BY DEF IInv, TypeOK
<1>2. c \notin crossed => Right(s)
  BY DEF IInv, Kept
<1>3. ASSUME UNCHANGED <<items, store, dirty>>, crossed \ {c} = crossed' \ {c},
             NEW t, GoesOn(c, t), c \notin crossed' => Right(t)
      PROVE  /\ \E u : GoesOn(c, u) /\ (c \notin crossed' => Right(u))
             /\ items' \in [DOMAIN items' -> [value : Rate, expired : BOOLEAN]]
             /\ UNCHANGED <<goals, index, dirty>>
             /\ crossed \ {c} = crossed' \ {c}
             /\ CachedIsCurrent'
  BY <1>1, <1>3, FewerCurrent DEF store, TypeOK, Keys, IsExpired
<1>4. ASSUME NEW q \in Query, CalculateRate(c, q)
      PROVE  \E t : GoesOn(c, t) /\ (c \notin crossed' => Right(t))
  <2>1. q \in Asked
    BY ConversionsAssumption DEF Asked
  <2>2. /\ Calculation(q, 0) \in RateCall /\ Held(Calculation(q, 0), n)
        /\ Right(Calculation(q, 0))
    BY <1>1, <2>1, CalculationType
  <2>3. Calculation(q, 0).at = "lookup"
    BY DEF Calculation
  <2> QED
    BY <1>1, <1>4, <2>2, <2>3, LookUpCall DEF CalculateRate
<1>5. ASSUME NEW id \in Id, NEW day \in Day, BuildFunnel(c, id, day)
      PROVE  \E t : GoesOn(c, t) /\ (c \notin crossed' => Right(t))
  <2> DEFINE q == [id |-> id, start |-> NoPage, end |-> NoPage, day |-> day]
             t == Calculation(q, index[id])
  <2>1. q \in Asked /\ q.id # NoGoal
    BY ConversionsAssumption DEF Asked
  <2>2. index[id] \in 0..n
    BY <1>1 DEF TypeOK
  <2>3. c \notin crossed' => id \notin dirty
    BY <1>5 DEF BuildFunnel
  <2>4. t \in RateCall /\ Held(t, n) /\ (c \notin crossed' => Right(t))
    BY <1>1, <2>1, <2>2, <2>3, CalculationType
  <2>5. Goto(c, t)
    BY <1>5 DEF BuildFunnel
  <2> HIDE DEF t
  <2> QED
    BY <2>4, <2>5 DEF GoesOn
<1>6. CASE FunnelRate(c)
  <2>1. s \in RateCall /\ s.at = "lookup"
    BY <1>1, <1>6, Shapes DEF FunnelRate, At
  <2>2. LookUp(c, s) /\ crossed' = crossed
    BY <1>6 DEF FunnelRate, history
  <2>3. \E t : GoesOn(c, t) /\ (c \notin crossed' => Right(t))
    BY <1>1, <1>2, <2>1, <2>2, LookUpCall
  <2> QED
    BY <1>3, <1>6, <2>3 DEF FunnelRate, history
<1>7. CASE DropExpired(c)
  <2>1. s \in RateCall /\ Compute(c, s) /\ crossed' = crossed
    BY <1>1, <1>7, Shapes DEF DropExpired, At, history
  <2>2. \E t : GoesOn(c, t) /\ (c \notin crossed' => Right(t))
    BY <1>1, <1>2, <2>1, ComputeCall
  <2>3. items' \in [DOMAIN items' -> [value : Rate, expired : BOOLEAN]]
    BY <1>1, <1>7, RestrictType DEF DropExpired, Delete
  <2>4. CachedIsCurrent'
    BY <1>1, <1>7, FewerCurrent DEF DropExpired, Delete, Restrict, Keys, IsExpired, store, history
  <2> QED
    BY <1>7, <2>1, <2>2, <2>3, <2>4 DEF DropExpired, store, history
<1>8. CASE GetGoal(c)
  <2> DEFINE g == index[s.query.id]
             t == [s EXCEPT !.at = "start", !.of = g]
  <2>1. s \in RateCall /\ s.query.id \in Id /\ s.query.id # NoGoal
    BY <1>1, <1>8, Shapes, ConversionsAssumption DEF GetGoal, At, Held, RateCall, Asked
  <2>2. g \in 0..n /\ g \in Nat
    BY <1>1, <2>1 DEF TypeOK
  <2>3. CASE g = 0
    BY <1>3, <1>8, <2>3, OverIsRight DEF GetGoal, GoesOn, Forget
  <2>4. CASE g # 0
    <3>1. t \in RateCall /\ t.at = "start" /\ t.of = g /\ t.goal = s.goal /\ t.query = s.query
      <4> HIDE DEF g
      <4> QED
        BY <2>1, <2>2 DEF RateCall
    <3>2. Held(t, n)
      <4> HIDE DEF t, g
      <4> QED
        BY <1>1, <2>1, <2>2, <2>4, <3>1 DEF Held, RateCall, UpdateCall, CopyCall
    <3>3. Right(s) => Right(t)
      <4> HIDE DEF t
      <4> QED
        BY <2>1, <3>1 DEF Right
    <3>4. Goto(c, t) /\ t # Idle
      BY <1>8, <2>4, <3>1 DEF GetGoal, Idle
    <3>5. call'[c] = t
      <4> HIDE DEF t
      <4> QED
        BY <1>1, <3>4 DEF Goto, TypeOK
    <3>6. crossed' = crossed
      BY <1>8, <3>4, <3>5 DEF GetGoal, Forget
    <3> HIDE DEF t
    <3>7. GoesOn(c, t)
      BY <3>1, <3>2, <3>4 DEF GoesOn
    <3> QED
      BY <1>2, <1>3, <1>8, <3>3, <3>6, <3>7 DEF GetGoal
  <2> QED
    BY <2>3, <2>4
<1>9. CASE ReadStart(c) \/ ReadEnd(c)
  <2>1. /\ s \in RateCall /\ s.of \in 1..n /\ s.at \in {"start", "end"} /\ s.query.id # NoGoal
        /\ UNCHANGED <<items, store, dirty, crossed>>
    BY <1>1, <1>9, Shapes DEF ReadStart, ReadEnd, At, Held, history
  <2>2. goals[s.of] \in Goal
    BY <1>1, <2>1 DEF TypeOK
  <2>3. CASE ReadStart(c)
    <3> DEFINE t == [s EXCEPT !.at = "end", !.pages[1] = goals[s.of].start]
    <3>1. t \in RateCall
      BY <2>1, <2>2, PagesRead
    <3>2. t.at = "end" /\ t.of = s.of /\ t.query = s.query /\ t.goal = s.goal
          /\ t.pages = [s.pages EXCEPT ![1] = goals[s.of].start]
      BY <2>1 DEF RateCall
    <3>3. Goto(c, t) /\ s.at = "start"
      BY <2>3 DEF ReadStart, At
    <3>4. t.pages[1] = goals[s.of].start
      BY <2>1, <2>2, <3>2, PagesRead
    <3> HIDE DEF t
    <3>5. Held(t, n)
      BY <1>1, <2>1, <3>1, <3>2 DEF Held, RateCall, UpdateCall, CopyCall
    <3>6. Right(s) => Right(t)
      BY <2>1, <3>2, <3>3, <3>4 DEF Right
    <3>7. GoesOn(c, t)
      BY <3>1, <3>3, <3>5 DEF GoesOn
    <3> QED
      BY <1>2, <1>3, <2>1, <3>6, <3>7
  <2>4. CASE ReadEnd(c)
    <3> DEFINE t == [s EXCEPT !.at = "list", !.of = 0, !.pages[2] = goals[s.of].end]
    <3>1. t \in RateCall
      BY <2>1, <2>2, PagesRead
    <3>2. t.at = "list" /\ t.of = 0 /\ t.query = s.query /\ t.goal = s.goal
          /\ t.pages = [s.pages EXCEPT ![2] = goals[s.of].end]
      BY <2>1 DEF RateCall
    <3>3. Goto(c, t) /\ s.at = "end"
      BY <2>4 DEF ReadEnd, At
    <3>4. t.pages = <<s.pages[1], goals[s.of].end>>
      BY <2>1, <2>2, <3>2, PagesRead
    <3> HIDE DEF t
    <3>5. Held(t, n)
      BY <1>1, <2>1, <3>1, <3>2 DEF Held, RateCall, UpdateCall, CopyCall
    <3>6. Right(s) => Right(t)
      BY <1>1, <2>1, <3>2, <3>3, <3>4 DEF Right, PagesOf
    <3>7. GoesOn(c, t)
      BY <3>1, <3>3, <3>5 DEF GoesOn
    <3> QED
      BY <1>2, <1>3, <2>1, <3>6, <3>7
  <2> QED
    BY <1>9, <2>3, <2>4
<1>10. CASE FinishRate(c)
  <2> DEFINE rate == [pages |-> s.pages, id |-> s.query.id, crossed |-> c \in crossed]
             k == Key(s.query)
  <2>1. s \in RateCall /\ s.at = "list" /\ UNCHANGED <<goals, index, dirty>> /\ Forget(c)
    BY <1>1, <1>10, Shapes DEF FinishRate, At, store
  <2>2. rate \in Rate
    BY <2>1 DEF Rate, RateCall, Asked
  <2>3. CASE Goto(c, Idle) /\ UNCHANGED items
    BY <1>3, <1>10, <2>3, OverIsRight DEF FinishRate, GoesOn, Forget
  <2>4. CASE Set(k, rate) /\ Proceed(c, s, rate)
    <3>1. c \notin crossed /\ s.query.id # NoGoal =>
            index[s.query.id] # 0 /\ s.pages = PagesOf(index[s.query.id])
      BY <1>2, <2>1 DEF Right
    <3>2. Right(s) /\ s.goal # 0 /\ rate.id = s.query.id /\ ~rate.crossed =>
            rate.pages = PagesOf(s.goal)
      BY <1>1, <2>1, <3>1 DEF Right, Held
    <3>3. PICK t : GoesOn(c, t) /\ (Right(s) => Right(t))
      <4> HIDE DEF rate
      <4> QED
        BY <1>1, <2>1, <2>2, <2>4, <3>2, ProceedCall
    <3>4. call'[c] = t
      BY <1>1, <3>3 DEF GoesOn, Goto, TypeOK
    <3>5. c \notin crossed' => Right(t)
      BY <1>2, <2>1, <3>3, <3>4, OverIsRight DEF Forget
    <3>6. IF rate.id = NoGoal
          THEN rate.pages = <<k[1], k[2]>>
          ELSE \/ rate.crossed
               \/ index[rate.id] # 0 /\ rate.pages = PagesOf(index[rate.id])
      BY <1>1, <2>1, <3>1 DEF Held, Key
    <3>7. CachedIsCurrent'
      <4> HIDE DEF rate, k
      <4> QED
        BY <1>1, <2>1, <2>2, <2>4, <3>6, SetCurrent
    <3>8. items' \in [DOMAIN items' -> [value : Rate, expired : BOOLEAN]]
      <4> HIDE DEF rate, k
      <4> QED
        BY <1>1, <2>2, <2>4, SetType
    <3> QED
      BY <2>1, <3>3, <3>5, <3>7, <3>8 DEF Forget
  <2> QED
    BY <1>10, <2>3, <2>4 DEF FinishRate
<1>11. CASE BuildSteps(c)
  BY <1>3, <1>11, OverIsRight DEF BuildSteps, GoesOn
<1>12. ASSUME NEW q \in Query, CalculateRate(c, q) PROVE UNCHANGED <<items, store, dirty, crossed>>
  BY <1>12 DEF CalculateRate, history
<1>13. ASSUME NEW id \in Id, NEW day \in Day, BuildFunnel(c, id, day)
       PROVE  UNCHANGED <<items, store, dirty>> /\ crossed \ {c} = crossed' \ {c}
  BY <1>13 DEF BuildFunnel
<1> QED
  BY <1>3, <1>4, <1>5, <1>6, <1>7, <1>8, <1>9, <1>10, <1>11, <1>12, <1>13 DEF RateStep

(* The requests that change goals. *)

\* What becomes of a goal: nothing, or nobody had it, or those who compute its rate see
\* the change.
Effect(id) ==
  \/ /\ index'[id] = index[id] /\ (index[id] # 0 => goals'[index[id]] = goals[index[id]])
     /\ id \in dirty' => id \in dirty
  \/ index[id] = 0 /\ (id \in dirty' => id \in dirty)
  \/ id \in dirty' /\ ComputingOf(id) \subseteq crossed'

GoalStep ==
  /\ UNCHANGED items
  /\ crossed \subseteq crossed' /\ dirty \subseteq dirty'
  /\ \A c \in Client : call'[c] = call[c] \/ call'[c] \notin RateCall
  /\ \A id \in Id : Effect(id)

LEMMA GoalStepKeeps ==
  ASSUME IInv, GoalStep
  PROVE  Kept' /\ CachedIsCurrent'
<1>1. Kept'
  <2> SUFFICES ASSUME NEW c \in Client, c \notin crossed', call'[c] \in RateCall
               PROVE  Right(call[c])'
    BY DEF Kept, Right
  <2> DEFINE s == call[c]
             id == s.query.id
  <2>1. s \in RateCall /\ call'[c] = s /\ c \notin crossed
    BY DEF GoalStep
  <2>2. Right(s) /\ Held(s, Len(goals)) /\ id \in Id \cup {NoGoal}
    BY <2>1 DEF IInv, Kept, TypeOK, RateCall, Asked
  <2>3. id \in Id => c \in ComputingOf(id)
    BY <2>1, Shapes DEF ComputingOf, Computing, Call
  <2>4. ASSUME id \in Id, index[id] # 0
        PROVE  /\ index'[id] = index[id] /\ goals'[index[id]] = goals[index[id]]
               /\ id \in dirty' => id \in dirty
    BY <2>1, <2>3, <2>4 DEF GoalStep, Effect
  <2>5. id # NoGoal /\ (s.at \in {"start", "end", "list"} \/ s.goal # 0) => index[id] # 0
    BY <2>1, <2>2 DEF Right, Held
  <2>6. s.at \in {"start", "end"} \/ s.goal # 0 => id # NoGoal
    BY <2>1, <2>2 DEF Held
  <2>7. s.at = "steps" => s.goal # 0
    BY <2>1, <2>2 DEF Held
  <2> HIDE DEF s
  <2>8. Right(s)'
    BY <2>1, <2>2, <2>4, <2>5, <2>6, <2>7 DEF Right, PagesOf, s
  <2> QED
    BY <2>8 DEF s
<1>2. CachedIsCurrent'
  <2> SUFFICES ASSUME NEW k \in Keys
               PROVE  LET r == items[k].value
                      IN IF r.id = NoGoal THEN r.pages = <<k[1], k[2]>>
                         ELSE \/ r.crossed \/ r.id \in dirty'
                              \/ index'[r.id] # 0 /\ r.pages = PagesOf(index[r.id])'
    BY DEF GoalStep, CachedIsCurrent, Keys, IsExpired
  <2> DEFINE r == items[k].value
  <2>1. r \in Rate
    BY DEF IInv, TypeOK, Keys
  <2>2. CASE r.id \notin Id \/ r.crossed \/ r.id \in dirty'
    BY <2>1, <2>2 DEF IInv, CachedIsCurrent, Rate
  <2>3. CASE r.id \in Id /\ ~r.crossed /\ r.id \notin dirty'
    <3>1. index[r.id] # 0 /\ r.pages = PagesOf(index[r.id])
      BY <2>3, ConversionsAssumption DEF IInv, CachedIsCurrent, GoalStep
    <3>2. index'[r.id] = index[r.id] /\ goals'[index[r.id]] = goals[index[r.id]]
      BY <2>3, <3>1 DEF GoalStep, Effect
    <3>3. r.pages = PagesOf(index[r.id])'
      BY <3>1, <3>2 DEF PagesOf, GoalStep
    <3>4. index'[r.id] # 0 /\ r.id # NoGoal
      BY <2>3, <3>1, <3>2, ConversionsAssumption
    <3> QED
      BY <3>3, <3>4
  <2> QED
    BY <2>2, <2>3
<1> QED
  BY <1>1, <1>2

\* What an update's call becomes is not a rate's.
LEMMA OtherCall ==
  ASSUME TypeOK, NEW c \in Client, NEW s, Goto(c, s), s \notin RateCall
  PROVE  /\ call'[c] = s
         /\ \A d \in Client : call'[d] = call[d] \/ call'[d] \notin RateCall
         /\ \A d \in Client \ {c} : call'[d] = call[d]
BY DEF Goto, TypeOK

LEMMA CreateGoalStep ==
  ASSUME IInv, NEW id \in Id, NEW pages \in Pages, CreateGoal(id, pages)
  PROVE  GoalStep /\ Filed'
<1>1. /\ Len(goals) \in Nat /\ Len(goals') = Len(goals) + 1 /\ index \in [Id -> 0..Len(goals)]
      /\ goals'[Len(goals')].id = id
      /\ \A g \in 1..Len(goals) : goals'[g] = goals[g]
  BY DEF IInv, TypeOK, CreateGoal
<1>2. index'[id] = Len(goals') /\ \A j \in Id \ {id} : index'[j] = index[j]
  BY <1>1 DEF CreateGoal
<1>3. \A c \in Client : ~At(c, "copy") /\ call'[c] = call[c]
  BY DEF CreateGoal, MutexFree, At
<1>4. \A j \in Id : index[j] \in 0..Len(goals)
  BY <1>1
<1>5. crossed \subseteq crossed' /\ dirty \subseteq dirty'
      /\ \A j \in Id \ {id} : j \in dirty' => j \in dirty
  BY DEF CreateGoal, Changed
<1>6. Effect(id)
  BY DEF CreateGoal, Changed, Effect
<1>7. ASSUME NEW j \in Id \ {id} PROVE Effect(j)
  BY <1>1, <1>2, <1>4, <1>5 DEF Effect
<1>8. Filed'
  BY <1>1, <1>2, <1>3, <1>4 DEF IInv, Filed, At
<1> QED
  BY <1>3, <1>5, <1>6, <1>7, <1>8 DEF GoalStep, CreateGoal

LEMMA UpdateGoalStep ==
  ASSUME IInv, NEW c \in Client, NEW id \in Id, NEW update \in Update, UpdateGoal(c, id, update)
  PROVE  GoalStep /\ Filed'
<1> DEFINE s == [at |-> "writeStart", goal |-> index[id], update |-> update]
<1>1. s \notin RateCall /\ s.at # "copy"
  BY DEF RateCall
<1>2. /\ call'[c] = s
      /\ \A d \in Client : call'[d] = call[d] \/ call'[d] \notin RateCall
      /\ \A d \in Client \ {c} : call'[d] = call[d]
  <2> HIDE DEF s
  <2> QED
    BY <1>1, OtherCall DEF UpdateGoal, IInv, s
<1> HIDE DEF s
<1> QED
  BY <1>1, <1>2 DEF GoalStep, Effect, UpdateGoal, store, IInv, Filed, At

LEMMA WriteEffect ==
  ASSUME IInv, NEW c \in Client, NEW field \in {"start", "end"}, NEW page \in Page \cup {Absent},
         call[c] \in UpdateCall, Write(c, field, page), index' = index
  PROVE  /\ \A id \in Id : Effect(id)
         /\ crossed \subseteq crossed' /\ dirty \subseteq dirty'
         /\ \A g \in 1..Len(goals) : goals'[g].id = goals[g].id
<1> DEFINE g == call[c].goal
           id == goals[g].id
<1>1. CASE page = Absent
  BY <1>1 DEF Write, Effect
<1>2. CASE page # Absent
  <2>1. g \in 1..Len(goals) /\ goals \in Seq(Goal) /\ index \in [Id -> 0..Len(goals)]
    BY DEF IInv, TypeOK, Held
  <2>2. id \in Id /\ goals[g] \in Goal /\ Len(goals) \in Nat
    <3> HIDE DEF g
    <3>1. goals[g] \in Goal /\ Len(goals) \in Nat
      BY <2>1
    <3> QED
      BY <3>1 DEF Goal
  <2>3. goals' = [goals EXCEPT ![g] = [goals[g] EXCEPT ![field] = page]]
    BY <1>2 DEF Write
  <2>4. [goals[g] EXCEPT ![field] = page].id = id
    BY <2>2 DEF Goal
  <2>5. \A h \in 1..Len(goals) : (h # g => goals'[h] = goals[h]) /\ goals'[h].id = goals[h].id
    BY <2>1, <2>2, <2>3, <2>4
  <2>6. \A j \in Id : index[j] = g => j = id
    BY <2>1 DEF IInv, Filed
  <2>7. CASE index[id] = g
    <3>1. Changed(id)
      BY <1>2, <2>7 DEF Write
    <3>2. Effect(id)
      BY <3>1 DEF Changed, Effect
    <3>3. ASSUME NEW j \in Id \ {id} PROVE Effect(j)
      <4>1. index[j] \in 0..Len(goals) /\ index[j] # g
        BY <2>1, <2>6
      <4>2. index[j] # 0 => goals'[index[j]] = goals[index[j]]
        BY <2>2, <2>5, <4>1
      <4> QED
        BY <3>1, <4>2 DEF Changed, Effect
    <3> QED
      BY <2>5, <3>1, <3>2, <3>3 DEF Changed
  <2>8. CASE index[id] # g
    <3>1. UNCHANGED <<dirty, crossed>>
      BY <1>2, <2>8 DEF Write
    <3>2. ASSUME NEW j \in Id PROVE Effect(j)
      <4>1. index[j] \in 0..Len(goals) /\ index[j] # g
        BY <2>1, <2>6, <2>8
      <4>2. index[j] # 0 => goals'[index[j]] = goals[index[j]]
        BY <2>2, <2>5, <4>1
      <4> QED
        BY <3>1, <4>2 DEF Effect
    <3> QED
      BY <2>5, <3>1, <3>2
  <2> QED
    BY <2>7, <2>8
<1> QED
  BY <1>1, <1>2

LEMMA WriteGoalStep ==
  ASSUME IInv, NEW c \in Client, WriteStart(c) \/ WriteEnd(c)
  PROVE  GoalStep /\ Filed'
<1>1. call[c] \in UpdateCall /\ UNCHANGED <<items, index>>
  BY Shapes DEF WriteStart, WriteEnd, At, IInv, TypeOK
<1>2. /\ \A id \in Id : Effect(id)
      /\ crossed \subseteq crossed' /\ dirty \subseteq dirty'
      /\ \A g \in 1..Len(goals) : goals'[g].id = goals[g].id
  BY <1>1, UpdatePages, WriteEffect DEF WriteStart, WriteEnd
<1>3. PICK label \in {"writeEnd", "update"} : Goto(c, [call[c] EXCEPT !.at = label])
  BY DEF WriteStart, WriteEnd
<1> DEFINE s == [call[c] EXCEPT !.at = label]
<1>4. s.at = label /\ s \notin RateCall
  BY <1>1 DEF UpdateCall, RateCall
<1>5. /\ call'[c] = s
      /\ \A d \in Client : call'[d] = call[d] \/ call'[d] \notin RateCall
      /\ \A d \in Client \ {c} : call'[d] = call[d]
  <2> HIDE DEF s
  <2> QED
    BY <1>3, <1>4, OtherCall DEF IInv, s
<1>6. \A j \in Id : index[j] \in 0..Len(goals) /\ Len(goals) \in Nat
  BY DEF IInv, TypeOK
<1> HIDE DEF s
<1>7. Filed'
  BY <1>1, <1>2, <1>4, <1>5, <1>6 DEF IInv, Filed, At
<1> QED
  BY <1>1, <1>2, <1>5, <1>7 DEF GoalStep

LEMMA UpdateConversionGoalStep ==
  ASSUME IInv, NEW c \in Client, UpdateConversionGoal(c)
  PROVE  GoalStep /\ Filed'
<1> DEFINE g == call[c].goal
           s == IF isOpen /\ index[goals[g].id] # 0
                THEN [at |-> "copy", goal |-> g, loaded |-> goals[g]] ELSE Idle
<1>1. s \notin RateCall /\ (s.at = "copy" => index[s.loaded.id] # 0)
  BY DEF RateCall, Idle
<1>2. /\ call'[c] = s
      /\ \A d \in Client : call'[d] = call[d] \/ call'[d] \notin RateCall
      /\ \A d \in Client \ {c} : call'[d] = call[d]
  <2>1. Goto(c, s)
    BY DEF UpdateConversionGoal
  <2> HIDE DEF s
  <2> QED
    BY <1>1, <2>1, OtherCall DEF IInv
<1> HIDE DEF s
<1> QED
  BY <1>1, <1>2 DEF GoalStep, Effect, UpdateConversionGoal, store, history, IInv, Filed, At

LEMMA CopyStep ==
  ASSUME IInv, NEW c \in Client, Copy(c)
  PROVE  GoalStep /\ Filed'
<1> DEFINE loaded == call[c].loaded
           id == loaded.id
           g == index[id]
<1>1. call[c] \in CopyCall /\ loaded \in Goal /\ id \in Id
  BY Shapes DEF Copy, At, IInv, TypeOK, CopyCall, Goal
<1>2. /\ g \in 1..Len(goals) /\ goals[g] \in Goal /\ goals[g].id = id /\ Len(goals) \in Nat
      /\ index \in [Id -> 0..Len(goals)] /\ goals \in Seq(Goal)
  BY <1>1 DEF IInv, TypeOK, Filed, Copy
<1>3. PICK F \in SUBSET {"start", "end"} :
        goals' = [goals EXCEPT ![g] =
                    [f \in DOMAIN goals[g] |-> IF f \in F THEN loaded[f] ELSE goals[g][f]]]
  BY DEF Copy
<1> DEFINE new == [f \in DOMAIN goals[g] |-> IF f \in F THEN loaded[f] ELSE goals[g][f]]
<1>4. new.id = id
  <2> HIDE DEF g, loaded
  <2> QED
    BY <1>1, <1>2 DEF Goal
<1>5. \A h \in 1..Len(goals) : (h # g => goals'[h] = goals[h]) /\ goals'[h].id = goals[h].id
  <2> HIDE DEF g, new
  <2> QED
    BY <1>2, <1>3, <1>4 DEF new
<1>6. \A j \in Id \ {id} : index[j] \in 0..Len(goals) /\ index[j] # g
  BY <1>2 DEF IInv, Filed
<1>7. /\ index' = index /\ items' = items
      /\ \/ goals' = goals /\ UNCHANGED <<dirty, crossed>>
         \/ Changed(id)
  BY DEF Copy
<1>8. \A j \in Id : Effect(j)
  <2>1. ASSUME NEW j \in Id \ {id} PROVE Effect(j)
    <3>1. index[j] # 0 => goals'[index[j]] = goals[index[j]]
      BY <1>2, <1>5, <1>6
    <3>2. j \in dirty' => j \in dirty
      BY <1>7 DEF Changed
    <3> QED
      BY <1>7, <3>1, <3>2 DEF Effect
  <2>2. Effect(id)
    BY <1>7 DEF Changed, Effect
  <2> QED
    BY <2>1, <2>2
<1>9. /\ call'[c] = [at |-> "clear"]
      /\ \A d \in Client : call'[d] = call[d] \/ call'[d] \notin RateCall
      /\ \A d \in Client \ {c} : call'[d] = call[d]
  <2>1. [at |-> "clear"] \notin RateCall
    BY DEF RateCall
  <2> QED
    BY <2>1, OtherCall DEF Copy, IInv
<1>10. \A j \in Id : index[j] \in 0..Len(goals)
  BY <1>2
<1>11. Filed'
  BY <1>2, <1>5, <1>7, <1>9, <1>10 DEF IInv, Filed, At
<1> QED
  BY <1>7, <1>8, <1>9, <1>11 DEF GoalStep, Changed

LEMMA DeleteGoalStep ==
  ASSUME IInv, NEW c \in Client, NEW id \in Id, DeleteGoal(c, id)
  PROVE  GoalStep /\ Filed'
<1>1. /\ call'[c] = [at |-> "clear"]
      /\ \A d \in Client : call'[d] = call[d] \/ call'[d] \notin RateCall
      /\ \A d \in Client \ {c} : call'[d] = call[d]
  <2>1. [at |-> "clear"] \notin RateCall
    BY DEF RateCall
  <2> QED
    BY <2>1, OtherCall DEF DeleteGoal, IInv
<1>2. goals' = goals /\ index'[id] = 0 /\ \A j \in Id \ {id} : index'[j] = index[j]
  BY DEF DeleteGoal, IInv, TypeOK
<1>3. \A d \in Client : call[d].at # "copy"
  BY DEF DeleteGoal, MutexFree
<1>4. Changed(id)
  BY DEF DeleteGoal
<1>5. Filed'
  BY <1>1, <1>2, <1>3 DEF IInv, Filed, At
<1> QED
  BY <1>1, <1>2, <1>4, <1>5 DEF GoalStep, Effect, DeleteGoal, Changed

(* The invariant and the theorems. *)

LEMMA InitInv == Init => IInv
<1> SUFFICES ASSUME Init PROVE IInv
  OBVIOUS
<1>1. TypeOK
  BY InitType
<1>2. Filed
  BY DEF Init, Filed, At, Idle
<1>3. Kept
  BY OverIsRight DEF Init, Kept
<1>4. CachedIsCurrent
  BY DEF Init, New, CachedIsCurrent, Keys
<1> QED
  BY <1>1, <1>2, <1>3, <1>4 DEF IInv

\* What a step that leaves the store alone preserves.
LEMMA SameStoreFiled ==
  ASSUME Filed, UNCHANGED <<goals, index>>,
         \A c \in Client : call'[c] = call[c] \/ call'[c].at # "copy"
  PROVE  Filed'
BY DEF Filed, At

LEMMA RateStepInv ==
  ASSUME IInv, NEW c \in Client, RateStep(c)
  PROVE  IInv'
<1>1. PICK t : GoesOn(c, t) /\ (c \notin crossed' => Right(t))
  BY RateStepCall
<1>2. /\ items' \in [DOMAIN items' -> [value : Rate, expired : BOOLEAN]]
      /\ UNCHANGED <<goals, index, dirty>>
      /\ crossed \ {c} = crossed' \ {c}
      /\ CachedIsCurrent'
  BY RateStepCall
<1>3. t \in Call /\ Goto(c, t) /\ Held(t, Len(goals)) /\ t.at # "copy"
  BY <1>1 DEF GoesOn, Call, RateCall, Idle
<1>4. TypeOK'
  BY <1>2, <1>3, CallType DEF IInv
<1>5. call'[c] = t /\ \A d \in Client \ {c} : call'[d] = call[d]
  BY <1>3 DEF Goto, IInv, TypeOK
<1>6. Filed'
  BY <1>2, <1>3, <1>5, SameStoreFiled DEF IInv
<1>7. Kept'
  <2> SUFFICES ASSUME NEW d \in Client \ crossed' PROVE Right(call[d])'
    BY DEF Kept
  <2>1. Right(call'[d])
    <3>1. CASE d = c
      BY <1>1, <1>5, <3>1
    <3>2. CASE d # c
      BY <1>2, <1>5, <3>2 DEF IInv, Kept
    <3> QED
      BY <3>1, <3>2
  <2> QED
    BY <1>2, <2>1 DEF Right, PagesOf
<1> QED
  BY <1>2, <1>4, <1>6, <1>7 DEF IInv

LEMMA ClearCacheInv ==
  ASSUME IInv, NEW c \in Client, ClearCache(c)
  PROVE  IInv'
<1>1. TypeOK'
  BY ClearCacheType DEF IInv
<1>2. /\ call'[c] = Idle
      /\ \A d \in Client \ {c} : call'[d] = call[d]
      /\ UNCHANGED <<goals, index, crossed>> /\ dirty' = {} /\ items' = <<>>
  BY DEF ClearCache, Clear, Goto, IInv, TypeOK, store
<1>3. Filed'
  BY <1>2, SameStoreFiled DEF IInv, Idle
<1>4. Kept'
  <2> SUFFICES ASSUME NEW d \in Client \ crossed PROVE Right(call[d])'
    BY <1>2 DEF Kept
  <2>1. Right(call'[d])
    BY <1>2, OverIsRight DEF IInv, Kept
  <2> QED
    BY <1>2, <2>1 DEF Right, PagesOf
<1>5. CachedIsCurrent'
  BY <1>2 DEF CachedIsCurrent, Keys
<1> QED
  BY <1>1, <1>3, <1>4, <1>5 DEF IInv

LEMMA AloneInv ==
  ASSUME IInv, CacheAlone \/ Close
  PROVE  IInv'
<1>1. UNCHANGED <<goals, index, call, dirty, crossed>>
  BY DEF CacheAlone, Close, store, history
<1>2. TypeOK'
  BY CacheAloneType, <1>1 DEF IInv, TypeOK, Close
<1>3. Filed' /\ Kept'
  BY <1>1 DEF IInv, Filed, Kept, At, Right, PagesOf
<1>4. \A j \in Keys' : j \in Keys /\ items'[j].value = items[j].value
  <2>1. CASE Close
    BY <2>1 DEF Close, Keys, IsExpired
  <2>2. CASE Cleanup
    BY <2>2 DEF Cleanup, Restrict, Keys, IsExpired
  <2>3. ASSUME NEW k \in Keys, Expire(k)
        PROVE  \A j \in Keys' : j \in Keys /\ items'[j].value = items[j].value
    BY <2>3 DEF Expire, Keys, IsExpired, IInv, TypeOK
  <2> QED
    BY <2>1, <2>2, <2>3 DEF CacheAlone
<1> QED
  BY <1>1, <1>2, <1>3, <1>4, FewerCurrent DEF IInv

LEMMA GoalStepInv ==
  ASSUME IInv, TypeOK', Filed', GoalStep
  PROVE  IInv'
BY GoalStepKeeps DEF IInv

\* One disjunct of Next after the other.
LEMMA NextCases ==
  ASSUME Next
  PROVE  \/ \E c \in Client : \/ RateStep(c) \/ ClearCache(c) \/ WriteStart(c) \/ WriteEnd(c)
                              \/ UpdateConversionGoal(c) \/ Copy(c)
                              \/ \E id \in Id : \/ \E update \in Update : UpdateGoal(c, id, update)
                                                \/ DeleteGoal(c, id)
         \/ \E id \in Id, pages \in Pages : CreateGoal(id, pages)
         \/ CacheAlone \/ Close
<1> SUFFICES ASSUME NEW c \in Client, Step(c)
             PROVE  \/ RateStep(c) \/ ClearCache(c) \/ WriteStart(c) \/ WriteEnd(c)
                    \/ UpdateConversionGoal(c) \/ Copy(c)
                    \/ \E id \in Id : \/ \E update \in Update : UpdateGoal(c, id, update)
                                      \/ DeleteGoal(c, id)
  BY DEF Next
<1>1. ASSUME NEW q \in Query, NEW g \in DOMAIN goals, TrendOfDay(c, g, q) PROVE RateStep(c)
  BY <1>1 DEF TrendOfDay, RateStep
<1> QED
  BY <1>1 DEF Step, RateStep

LEMMA NextInv == IInv /\ [Next]_vars => IInv'
<1> SUFFICES ASSUME IInv, [Next]_vars PROVE IInv'
  OBVIOUS
<1>1. ASSUME NEW id \in Id, NEW pages \in Pages, CreateGoal(id, pages) PROVE IInv'
  BY <1>1, CreateGoalType, CreateGoalStep, GoalStepInv DEF IInv
<1>2. CASE CacheAlone \/ Close
  BY <1>2, AloneInv
<1>3. ASSUME NEW c \in Client, RateStep(c) \/ ClearCache(c) PROVE IInv'
  BY <1>3, RateStepInv, ClearCacheInv
<1>4. ASSUME NEW c \in Client, WriteStart(c) \/ WriteEnd(c) PROVE IInv'
  BY <1>4, WriteStepType, WriteGoalStep, GoalStepInv DEF IInv
<1>5. ASSUME NEW c \in Client, UpdateConversionGoal(c) PROVE IInv'
  BY <1>5, UpdateConversionGoalType, UpdateConversionGoalStep, GoalStepInv DEF IInv
<1>6. ASSUME NEW c \in Client, Copy(c) PROVE IInv'
  BY <1>6, CopyType, CopyStep, GoalStepInv DEF IInv
<1>7. ASSUME NEW c \in Client, NEW id \in Id, NEW update \in Update, UpdateGoal(c, id, update)
      PROVE  IInv'
  BY <1>7, UpdateGoalType, UpdateGoalStep, GoalStepInv DEF IInv
<1>8. ASSUME NEW c \in Client, NEW id \in Id, DeleteGoal(c, id) PROVE IInv'
  BY <1>8, DeleteGoalType, DeleteGoalStep, GoalStepInv DEF IInv
<1>9. CASE UNCHANGED vars
  <2>1. UNCHANGED <<items, goals, index, call, dirty, crossed>>
    BY <1>9 DEF vars, store, history
  <2> QED
    BY <2>1 DEF IInv, TypeOK, Filed, Kept, At, Right, PagesOf, CachedIsCurrent, Keys, IsExpired
<1> QED
  BY <1>1, <1>2, <1>3, <1>4, <1>5, <1>6, <1>7, <1>8, <1>9, NextCases

LEMMA InvHolds == Spec => []IInv
BY InitInv, NextInv, PTL DEF Spec

\* The types of the store's goals, of the cache's rates and of what each request holds.
THEOREM TypeCorrect == Spec => []TypeOK
<1>1. IInv => TypeOK
  BY DEF IInv
<1> QED
  BY <1>1, InvHolds, PTL

\* A cached rate is right for the query that computed it, unless its goal's pages changed
\* during the calculation or since: UpdateGoal and DeleteGoal clear the cache once the
\* change is made, and what CalculateConversionRate reads in between is its own.
THEOREM CachedIsCurrentCorrect == Spec => []CachedIsCurrent
<1>1. IInv => CachedIsCurrent
  BY DEF IInv
<1> QED
  BY <1>1, InvHolds, PTL

\* BuildFunnelAnalysis shows the pages that its rate was computed for, unless the goal
\* changed meanwhile or the cache gave it another's rate, or one overtaken by a change.
THEOREM FunnelIsOfItsGoalCorrect == Spec => []FunnelIsOfItsGoal
<1>1. IInv => FunnelIsOfItsGoal
  <2> SUFFICES ASSUME IInv, NEW c \in Client, At(c, "steps"), c \notin crossed,
                      call[c].result.id = call[c].query.id, ~call[c].result.crossed
               PROVE  call[c].result.pages = PagesOf(call[c].goal)
    BY DEF FunnelIsOfItsGoal
  <2>1. call[c] \in RateCall /\ Right(call[c])
    BY Shapes DEF At, IInv, TypeOK, Kept
  <2> QED
    BY <2>1 DEF Right, At
<1> QED
  BY <1>1, InvHolds, PTL

\* No update of a deleted goal brings it back: the store's UpdateConversionGoal looks the
\* ID up again under its mutex.
THEOREM OnlyCreateBringsBackCorrect == Spec => OnlyCreateBringsBack
<1>1. ASSUME IInv, [Next]_vars
      PROVE  [\A id \in Id : index[id] = 0 /\ index'[id] # 0 => Len(goals') > Len(goals)]_vars
  <2> SUFFICES ASSUME Next, NEW id \in Id, index[id] = 0, index'[id] # 0
               PROVE  Len(goals') > Len(goals)
    BY <1>1
  <2>1. ASSUME NEW j \in Id, NEW pages \in Pages, CreateGoal(j, pages)
        PROVE  Len(goals') > Len(goals)
    BY <1>1, <2>1 DEF CreateGoal, IInv, TypeOK
  <2>2. ASSUME NEW c \in Client, NEW j \in Id, DeleteGoal(c, j) PROVE FALSE
    BY <1>1, <2>2 DEF DeleteGoal, IInv, TypeOK
  <2>3. ASSUME NEW c \in Client, RateStep(c) PROVE FALSE
    BY <1>1, <2>3, RateStepCall
  <2> QED
    BY <2>1, <2>2, <2>3, NextCases DEF ClearCache, WriteStart, WriteEnd, UpdateConversionGoal,
       Copy, UpdateGoal, CacheAlone, Close, store
<1> QED
  BY <1>1, InvHolds, PTL DEF Spec, OnlyCreateBringsBack

\* Entries leave the cache before their time by a Clear, or by a Get that deletes what it
\* has found expired. FinishRate puts entries in, and time and Cleanup leave the others.
THEOREM LeavesInTimeCorrect == Spec => LeavesInTime
<1>1. ASSUME IInv, [Next]_vars
      PROVE  [\A k \in Keys : k \notin DOMAIN items' => TakesOut(k)]_vars
  <2> SUFFICES ASSUME Next, NEW k \in Keys, k \notin DOMAIN items'
               PROVE  TakesOut(k)
    BY <1>1
  <2>1. CASE items' = items
    BY <2>1 DEF Keys
  <2>2. ASSUME NEW c \in Client, ClearCache(c) PROVE At(c, "clear") /\ call'[c] # call[c]
    BY <1>1, <2>2 DEF ClearCache, At, Goto, Idle, IInv, TypeOK
  <2>3. ASSUME NEW c \in Client, DropExpired(c), items' # items
        PROVE  /\ At(c, "drop") /\ Key(call[c].query) = k /\ call'[c] # call[c]
    <3>1. At(c, "drop") /\ Key(call[c].query) = k
      BY <2>3 DEF DropExpired, Delete, Restrict, Keys
    <3>2. call[c] \in RateCall /\ call'[c].at \in {"list", "goal"}
      BY <1>1, <2>3, <3>1, Shapes DEF DropExpired, Compute, Goto, RateCall, At, IInv, TypeOK
    <3> QED
      BY <3>1, <3>2 DEF At
  <2>4. ASSUME NEW c \in Client, FinishRate(c) PROVE FALSE
    BY <2>1, <2>4 DEF FinishRate, Set, Keys
  <2>5. CASE CacheAlone
    <3>1. ~Cleanup
      BY DEF Cleanup, Restrict
    <3> QED
      BY <2>5, <3>1 DEF CacheAlone, Expire, Keys, IInv, TypeOK
  <2>6. ASSUME NEW c \in Client, RateStep(c) PROVE DropExpired(c) \/ FinishRate(c) \/ items' = items
    BY <2>6 DEF RateStep, CalculateRate, BuildFunnel, FunnelRate, GetGoal, ReadStart, ReadEnd,
       BuildSteps
  <2>7. \/ \E c \in Client : RateStep(c) \/ ClearCache(c)
        \/ CacheAlone \/ items' = items
    BY NextCases DEF WriteStart, WriteEnd, UpdateConversionGoal, Copy, UpdateGoal, DeleteGoal,
       CreateGoal, Close
  <2> QED
    <3>1. CASE CacheAlone \/ items' = items
      BY <3>1, <2>1, <2>5
    <3>2. ASSUME NEW c \in Client, ClearCache(c) PROVE TakesOut(k)
      BY <2>2, <3>2 DEF TakesOut
    <3>3. ASSUME NEW c \in Client, RateStep(c) PROVE TakesOut(k)
      <4>1. CASE DropExpired(c)
        BY <2>1, <2>3, <4>1 DEF TakesOut
      <4> QED
        BY <2>1, <2>4, <2>6, <3>3, <4>1
    <3> QED
      BY <2>7, <3>1, <3>2, <3>3
<1> QED
  BY <1>1, InvHolds, PTL DEF Spec, LeavesInTime

-------------------------------------------------------------------------------
(* The goals as the requests gave them. *)

\* The pages that a call leaves behind when it is the only one to change its goal.
OnTheWay(s) ==
  LET now == PagesOf(s.goal)
  IN IF s.at = "writeStart" THEN Merge(s.update, now)
     ELSE IF s.at = "writeEnd" THEN Merge(<<Absent, s.update[2]>>, now)
     ELSE now

\* A goal whose pages are known is changed by one call at most, and that will leave them.
Orderly(id) ==
  given[id] # Unknown =>
    /\ index[id] # 0
    /\ Updating(id) = {} => given[id] = PagesOf(index[id])
    /\ \A c \in Updating(id) :
         /\ call[c].goal = index[id]
         /\ given[id] = OnTheWay(call[c])
         /\ At(c, "copy") => call[c].loaded = goals[index[id]]
         /\ \A d \in Updating(id) : d = c

\* A call copies to the goal of the ID that it got.
Loaded == \A c \in Client : At(c, "copy") => call[c].loaded.id = goals[call[c].goal].id

GInv ==
  /\ IInv /\ Loaded
  /\ given \in [Id -> Page \X Page \cup {Unknown}]
  /\ \A id \in Id : Orderly(id)

LEMMA MergePages ==
  ASSUME NEW update \in Update, NEW pages \in Page \X Page
  PROVE  /\ Merge(update, pages) = <<IF update[1] = Absent THEN pages[1] ELSE update[1],
                                     IF update[2] = Absent THEN pages[2] ELSE update[2]>>
         /\ Merge(update, pages) \in Page \X Page
         /\ Merge(<<Absent, update[2]>>, pages) =
              <<pages[1], IF update[2] = Absent THEN pages[2] ELSE update[2]>>
<1> DEFINE u1 == update[1]
           u2 == update[2]
           p1 == pages[1]
           p2 == pages[2]
<1>1. /\ u1 \in Page \cup {Absent} /\ u2 \in Page \cup {Absent}
      /\ p1 \in Page /\ p2 \in Page
  BY ConversionsAssumption
<1>2. Merge(update, pages) = [f \in 1..2 |-> IF update[f] = Absent THEN pages[f] ELSE update[f]]
  BY DEF Merge
<1>3. Merge(update, pages) = <<IF u1 = Absent THEN p1 ELSE u1, IF u2 = Absent THEN p2 ELSE u2>>
  BY <1>2
<1>4. Merge(<<Absent, u2>>, pages) = <<p1, IF u2 = Absent THEN p2 ELSE u2>>
  BY DEF Merge
<1> QED
  BY <1>1, <1>3, <1>4

LEMMA WhoUpdates ==
  ASSUME TypeOK, NEW id \in Id, NEW c \in Client
  PROVE  c \in Updating(id) <=> /\ call[c] \in UpdateCall \cup CopyCall
                                /\ goals[call[c].goal].id = id
BY Shapes DEF TypeOK, Updating

\* A goal that a step does not concern.
LEMMA Bystander ==
  ASSUME TypeOK, TypeOK', NEW id \in Id, Orderly(id),
         given'[id] = given[id], index'[id] = index[id],
         index[id] # 0 => goals'[index[id]] = goals[index[id]],
         \A g \in 1..Len(goals) : goals'[g].id = goals[g].id,
         \A c \in Client : \/ call'[c] = call[c]
                           \/ c \notin Updating(id) /\ c \notin Updating(id)'
  PROVE  Orderly(id)'
<1>1. ASSUME NEW c \in Client, call'[c] = call[c]
      PROVE  c \in Updating(id)' <=> c \in Updating(id)
  <2>1. call[c] \in UpdateCall \cup CopyCall => goals'[call[c].goal].id = goals[call[c].goal].id
    BY DEF TypeOK, Held
  <2>2. c \in Updating(id) <=> /\ call[c] \in UpdateCall \cup CopyCall
                               /\ goals[call[c].goal].id = id
    BY WhoUpdates
  <2>3. c \in Updating(id)' <=> /\ call'[c] \in UpdateCall \cup CopyCall
                                /\ goals'[call'[c].goal].id = id
    BY Shapes DEF TypeOK, Updating
  <2> QED
    BY <1>1, <2>1, <2>2, <2>3
<1>2. Updating(id)' = Updating(id)
  BY <1>1 DEF Updating
<1> SUFFICES ASSUME given[id] # Unknown
             PROVE  Orderly(id)'
  BY DEF Orderly
<1>3. ASSUME NEW c \in Updating(id)
      PROVE  /\ call'[c].goal = index'[id]
             /\ given'[id] = OnTheWay(call[c])'
             /\ At(c, "copy")' => call'[c].loaded = goals'[index'[id]]
             /\ \A d \in Updating(id) : d = c
  <2>1. c \in Client /\ call'[c] = call[c]
    BY <1>2 DEF Updating
  <2>2. call[c].goal = index[id] /\ index[id] # 0
    BY DEF Orderly
  <2>3. PagesOf(call[c].goal)' = PagesOf(call[c].goal)
    BY <2>1, <2>2 DEF PagesOf
  <2>4. OnTheWay(call[c])' = OnTheWay(call[c])
    BY <2>1, <2>3 DEF OnTheWay
  <2> QED
    BY <2>1, <2>2, <2>4 DEF Orderly, At
<1>4. Updating(id) = {} => given'[id] = PagesOf(index[id])'
  BY DEF Orderly, PagesOf
<1>5. index'[id] # 0
  BY DEF Orderly
<1> QED
  BY <1>2, <1>3, <1>4, <1>5 DEF Orderly

\* A step of a call that neither was nor becomes an update's, on the same goals.
LEMMA NoUpdate ==
  ASSUME GInv, IInv', UNCHANGED <<goals, index, given>>,
         \A c \in Client : \/ call'[c] = call[c]
                           \/ call[c] \notin UpdateCall \cup CopyCall
                              /\ call'[c] \notin UpdateCall \cup CopyCall
  PROVE  GInv'
<1>1. TypeOK /\ TypeOK'
  BY DEF GInv, IInv
<1>2. ASSUME NEW id \in Id PROVE Orderly(id)'
  <2>1. ASSUME NEW c \in Client, call[c] \notin UpdateCall \cup CopyCall,
               call'[c] \notin UpdateCall \cup CopyCall
        PROVE  c \notin Updating(id) /\ c \notin Updating(id)'
    BY <1>1, <2>1, Shapes DEF Updating, TypeOK
  <2> QED
    BY <1>1, <2>1, Bystander DEF GInv
<1>3. Loaded'
  <2> SUFFICES ASSUME NEW c \in Client, At(c, "copy")'
               PROVE  call'[c].loaded.id = goals[call'[c].goal].id
    BY DEF Loaded
  <2>1. call'[c] \in CopyCall
    BY <1>1, Shapes DEF At, TypeOK
  <2> QED
    BY <2>1 DEF GInv, Loaded, At
<1> QED
  BY <1>2, <1>3 DEF GInv

\* What a calculation's call is, before and after.
LEMMA RateStepGiven ==
  ASSUME GInv, IInv', NEW c \in Client, RateStep(c) \/ ClearCache(c)
  PROVE  GInv'
<1>1. IInv /\ call[c] \in Call
  BY DEF GInv, IInv, TypeOK
<1>2. call[c].at \in {"idle", "clear", "lookup", "drop", "goal", "start", "end", "list", "steps"}
  BY DEF RateStep, CalculateRate, BuildFunnel, FunnelRate, DropExpired, GetGoal, ReadStart,
     ReadEnd, FinishRate, BuildSteps, ClearCache, At
<1>3. call[c] \notin UpdateCall \cup CopyCall
  BY <1>1, <1>2, Shapes
<1>4. UNCHANGED <<goals, index>>
  BY <1>1, RateStepCall DEF ClearCache, store
<1>5. given' = given
  BY DEF RateStep, CalculateRate, BuildFunnel, FunnelRate, DropExpired, GetGoal, ReadStart,
     ReadEnd, FinishRate, BuildSteps, ClearCache, history
<1>6. \E t : Goto(c, t) /\ t \notin UpdateCall \cup CopyCall
  <2>1. CASE ClearCache(c)
    BY <2>1 DEF ClearCache, Idle, UpdateCall, CopyCall
  <2>2. CASE RateStep(c)
    BY <1>1, <2>2, RateStepCall DEF GoesOn, RateCall, Idle, UpdateCall, CopyCall
  <2> QED
    BY <2>1, <2>2
<1>7. call'[c] \notin UpdateCall \cup CopyCall /\ \A d \in Client \ {c} : call'[d] = call[d]
  BY <1>1, <1>6 DEF Goto, IInv, TypeOK
<1> QED
  BY <1>3, <1>4, <1>5, <1>7, NoUpdate

LEMMA CreateGoalGiven ==
  ASSUME GInv, IInv', NEW id \in Id, NEW pages \in Pages, CreateGoal(id, pages)
  PROVE  GInv'
<1>1. /\ TypeOK /\ TypeOK' /\ call' = call /\ Len(goals) \in Nat
      /\ index \in [Id -> 0..Len(goals)] /\ pages \in Page \X Page
      /\ pages[1] \in Page /\ pages[2] \in Page
  BY ConversionsAssumption DEF GInv, IInv, TypeOK, CreateGoal
<1>2. /\ Len(goals') = Len(goals) + 1
      /\ goals'[Len(goals')] = [id |-> id, start |-> pages[1], end |-> pages[2]]
      /\ \A g \in 1..Len(goals) : goals'[g] = goals[g]
  BY <1>1 DEF TypeOK, CreateGoal
<1>3. /\ index'[id] = Len(goals') /\ \A j \in Id \ {id} : index'[j] = index[j]
      /\ given'[id] = IF Updating(id) = {} THEN pages ELSE Unknown
      /\ \A j \in Id \ {id} : given'[j] = given[j]
      /\ given' \in [Id -> Page \X Page \cup {Unknown}]
  BY <1>1, <1>2 DEF CreateGoal, GInv
<1>4. ASSUME NEW j \in Id \ {id} PROVE Orderly(j)'
  <2>1. index[j] \in 0..Len(goals)
    BY <1>1
  <2>2. index[j] # 0 => goals'[index[j]] = goals[index[j]]
    BY <1>1, <1>2, <2>1
  <2> QED
    BY <1>1, <1>2, <1>3, <2>2, Bystander DEF GInv
<1>5. Orderly(id)'
  <2>1. CASE Updating(id) = {}
    <3>1. ASSUME NEW c \in Client PROVE c \notin Updating(id)'
      <4>1. call[c] \in UpdateCall \cup CopyCall => goals'[call[c].goal].id = goals[call[c].goal].id
        BY <1>1, <1>2 DEF TypeOK, Held
      <4> QED
        BY <1>1, <2>1, <4>1, Shapes DEF TypeOK, Updating
    <3>2. Updating(id)' = {}
      BY <3>1 DEF Updating
    <3>3. PagesOf(index[id])' = pages
      BY <1>1, <1>2, <1>3 DEF PagesOf
    <3> QED
      BY <1>1, <1>2, <1>3, <2>1, <3>2, <3>3 DEF Orderly
  <2>2. CASE Updating(id) # {}
    BY <1>3, <2>2 DEF Orderly
  <2> QED
    BY <2>1, <2>2
<1>6. Loaded'
  BY <1>1 DEF Loaded, CreateGoal, MutexFree, At
<1> QED
  BY <1>3, <1>4, <1>5, <1>6 DEF GInv

LEMMA UpdateGoalGiven ==
  ASSUME GInv, IInv', NEW c \in Client, NEW id \in Id, NEW update \in Update,
         UpdateGoal(c, id, update)
  PROVE  GInv'
<1> DEFINE s == [at |-> "writeStart", goal |-> index[id], update |-> update]
<1>1. /\ TypeOK /\ TypeOK' /\ UNCHANGED <<goals, index>>
      /\ index[id] \in 1..Len(goals) /\ goals[index[id]] \in Goal /\ goals[index[id]].id = id
  BY DEF GInv, IInv, TypeOK, UpdateGoal, store, Filed
<1>2. call'[c] = s /\ \A d \in Client \ {c} : call'[d] = call[d]
  BY DEF UpdateGoal, Goto, GInv, IInv, TypeOK
<1>3. c \notin UNION {Updating(j) : j \in Id}
  BY DEF UpdateGoal, Updating, At
<1>4. /\ given'[id] = IF Updating(id) = {} /\ given[id] # Unknown
                      THEN Merge(update, given[id]) ELSE Unknown
      /\ \A j \in Id \ {id} : given'[j] = given[j]
  BY DEF UpdateGoal, GInv
<1>5. given' \in [Id -> Page \X Page \cup {Unknown}]
  BY MergePages DEF UpdateGoal, GInv
<1> HIDE DEF s
<1>6. ASSUME NEW j \in Id \ {id} PROVE Orderly(j)'
  <2>1. c \notin Updating(j) /\ c \notin Updating(j)'
    BY <1>1, <1>2, <1>3 DEF Updating, s
  <2> QED
    BY <1>1, <1>2, <1>4, <2>1, Bystander DEF GInv
<1>7. Orderly(id)'
  <2> SUFFICES ASSUME Updating(id) = {}, given[id] # Unknown PROVE Orderly(id)'
    BY <1>4 DEF Orderly
  <2>1. given[id] = PagesOf(index[id]) /\ given'[id] = Merge(update, given[id])
    BY <1>4 DEF GInv, Orderly
  <2>2. Updating(id)' = {c}
    BY <1>1, <1>2 DEF Updating, s
  <2>3. OnTheWay(call[c])' = Merge(update, PagesOf(index[id]))
    BY <1>1, <1>2 DEF OnTheWay, PagesOf, s
  <2>4. call'[c].goal = index'[id] /\ ~At(c, "copy")' /\ index'[id] # 0
    BY <1>1, <1>2 DEF At, s
  <2> QED
    BY <2>1, <2>2, <2>3, <2>4 DEF Orderly
<1>8. Loaded'
  BY <1>1, <1>2 DEF GInv, Loaded, At, s
<1> QED
  BY <1>5, <1>6, <1>7, <1>8 DEF GInv

LEMMA DeleteGoalGiven ==
  ASSUME GInv, IInv', NEW c \in Client, NEW id \in Id, DeleteGoal(c, id)
  PROVE  GInv'
<1>1. /\ TypeOK /\ TypeOK' /\ goals' = goals
      /\ \A j \in Id \ {id} : index'[j] = index[j] /\ given'[j] = given[j]
      /\ given'[id] = Unknown /\ given' \in [Id -> Page \X Page \cup {Unknown}]
  BY DEF GInv, IInv, TypeOK, DeleteGoal
<1>2. call'[c] = [at |-> "clear"] /\ \A d \in Client \ {c} : call'[d] = call[d]
  BY DEF DeleteGoal, Goto, GInv, IInv, TypeOK
<1>3. ASSUME NEW j \in Id \ {id} PROVE Orderly(j)'
  <2>1. c \notin Updating(j) /\ c \notin Updating(j)'
    BY <1>2 DEF DeleteGoal, Updating, At
  <2> QED
    BY <1>1, <1>2, <2>1, Bystander DEF GInv
<1>4. Orderly(id)'
  BY <1>1 DEF Orderly
<1>5. Loaded'
  BY <1>1, <1>2 DEF GInv, Loaded, At
<1> QED
  BY <1>1, <1>3, <1>4, <1>5 DEF GInv

\* UpdateGoal's two writes: the goal has the pages given once the second is made.
LEMMA WriteGiven ==
  ASSUME GInv, IInv', NEW c \in Client, WriteStart(c) \/ WriteEnd(c)
  PROVE  GInv'
<1> DEFINE s == call[c]
<1> PICK g, id : g = s.goal /\ id = goals[g].id
  OBVIOUS
<1>1. /\ TypeOK /\ TypeOK' /\ UNCHANGED <<index, given>> /\ s \in UpdateCall
      /\ s.at = IF WriteStart(c) THEN "writeStart" ELSE "writeEnd"
  BY Shapes DEF GInv, IInv, TypeOK, WriteStart, WriteEnd, At
<1>2. g \in 1..Len(goals) /\ goals[g] \in Goal /\ id \in Id /\ Len(goals) \in Nat
  <2>1. g \in 1..Len(goals)
    BY <1>1 DEF TypeOK, Held
  <2>2. goals[g] \in Goal /\ Len(goals) \in Nat
    BY <1>1, <2>1 DEF TypeOK
  <2> QED
    BY <2>1, <2>2 DEF Goal
<1> DEFINE field == IF WriteStart(c) THEN "start" ELSE "end"
           page == IF WriteStart(c) THEN s.update[1] ELSE s.update[2]
           new == IF page = Absent THEN goals[g] ELSE [goals[g] EXCEPT ![field] = page]
<1>3. page \in Page \cup {Absent} /\ Write(c, field, page)
  BY <1>1, UpdatePages DEF WriteStart, WriteEnd
<1>4. /\ new.id = id
      /\ WriteStart(c) => /\ new.start = IF page = Absent THEN goals[g].start ELSE page
                          /\ new.end = goals[g].end
      /\ ~WriteStart(c) => /\ new.end = IF page = Absent THEN goals[g].end ELSE page
                           /\ new.start = goals[g].start
  <2> HIDE DEF page, s
  <2> QED
    BY <1>2 DEF Goal
<1>5. /\ goals'[g] = new
      /\ \A h \in 1..Len(goals) : (h # g => goals'[h] = goals[h]) /\ goals'[h].id = goals[h].id
  <2> HIDE DEF page, field
  <2>1. goals' = IF page = Absent THEN goals ELSE [goals EXCEPT ![g] = [goals[g] EXCEPT ![field] = page]]
    BY <1>3 DEF Write
  <2>2. goals'[g] = new /\ \A h \in 1..Len(goals) : h # g => goals'[h] = goals[h]
    BY <1>1, <1>2, <2>1 DEF TypeOK
  <2> HIDE DEF new
  <2> QED
    BY <1>4, <2>2
<1>6. /\ call'[c].goal = g /\ call'[c].update = s.update
      /\ call'[c].at = IF WriteStart(c) THEN "writeEnd" ELSE "update"
      /\ \A d \in Client \ {c} : call'[d] = call[d]
  BY <1>1 DEF WriteStart, WriteEnd, Goto, TypeOK, UpdateCall, At
<1> HIDE DEF new, page, field
<1>7. ASSUME NEW j \in Id \ {id} PROVE Orderly(j)'
  <2>1. c \notin Updating(j) /\ c \notin Updating(j)'
    BY <1>2, <1>4, <1>5, <1>6 DEF Updating
  <2>2. index[j] # 0 => index[j] \in 1..Len(goals) /\ index[j] # g
    BY <1>1 DEF GInv, IInv, Filed, TypeOK
  <2> QED
    BY <1>1, <1>5, <1>6, <2>1, <2>2, Bystander DEF GInv
<1>8. Orderly(id)'
  <2> SUFFICES ASSUME given[id] # Unknown PROVE Orderly(id)'
    BY <1>1 DEF Orderly
  <2>1. c \in Updating(id)
    BY <1>1 DEF Updating
  <2>2. /\ index[id] = g /\ given[id] = OnTheWay(s) /\ \A d \in Updating(id) : d = c
        /\ given[id] \in Page \X Page
    BY <1>2, <2>1 DEF GInv, Orderly
  <2>3. Updating(id)' = {c}
    <3>1. ASSUME NEW d \in Client \ {c} PROVE d \notin Updating(id)'
      <4>1. d \notin Updating(id)
        BY <2>2
      <4>2. call[d] \in UpdateCall \cup CopyCall => goals'[call[d].goal].id = goals[call[d].goal].id
        BY <1>1, <1>5 DEF TypeOK, Held
      <4> QED
        BY <1>1, <1>6, <4>1, <4>2, Shapes DEF Updating, TypeOK
    <3>2. c \in Updating(id)'
      BY <1>4, <1>5, <1>6 DEF Updating
    <3> QED
      BY <3>1, <3>2 DEF Updating
  <2>4. given[id] = OnTheWay(call[c])'
    <3>1. PagesOf(g) = <<goals[g].start, goals[g].end>> /\ PagesOf(g) \in Page \X Page
      BY <1>2 DEF PagesOf, Goal
    <3>2. s.update \in Update
      BY <1>1 DEF UpdateCall
    <3>3. PagesOf(call[c].goal)' = <<new.start, new.end>>
      BY <1>5, <1>6 DEF PagesOf
    <3> DEFINE u1 == s.update[1]
               u2 == s.update[2]
    <3>4. /\ Merge(s.update, PagesOf(g)) = <<IF u1 = Absent THEN goals[g].start ELSE u1,
                                             IF u2 = Absent THEN goals[g].end ELSE u2>>
          /\ Merge(<<Absent, u2>>, PagesOf(g)) =
               <<goals[g].start, IF u2 = Absent THEN goals[g].end ELSE u2>>
      <4>1. PagesOf(g)[1] = goals[g].start /\ PagesOf(g)[2] = goals[g].end
        BY <3>1
      <4> HIDE DEF s
      <4> QED
        BY <3>1, <3>2, <4>1, MergePages
    <3>5. CASE WriteStart(c)
      <4>1. OnTheWay(s) = Merge(s.update, PagesOf(g))
        BY <1>1, <3>5 DEF OnTheWay
      <4>2. OnTheWay(call[c])' = Merge(<<Absent, s.update[2]>>, <<new.start, new.end>>)
        BY <1>6, <3>3, <3>5 DEF OnTheWay
      <4>3. new.start = (IF s.update[1] = Absent THEN goals[g].start ELSE s.update[1])
            /\ new.end = goals[g].end
        BY <1>4, <3>5 DEF page
      <4>4. <<new.start, new.end>> \in Page \X Page
        BY <1>2, <1>3, <3>5, <4>3 DEF Goal, page
      <4>5. Merge(s.update, PagesOf(g)) =
              <<new.start, IF s.update[2] = Absent THEN new.end ELSE s.update[2]>>
        BY <3>4, <4>3
      <4>6. Merge(<<Absent, s.update[2]>>, <<new.start, new.end>>) =
              <<new.start, IF s.update[2] = Absent THEN new.end ELSE s.update[2]>>
        BY <3>2, <4>4, MergePages
      <4> QED
        BY <2>2, <4>1, <4>2, <4>5, <4>6
    <3>6. CASE ~WriteStart(c)
      <4>1. OnTheWay(s) = Merge(<<Absent, s.update[2]>>, PagesOf(g))
        BY <1>1, <3>6 DEF OnTheWay
      <4>2. OnTheWay(call[c])' = <<new.start, new.end>>
        BY <1>6, <3>3, <3>6 DEF OnTheWay
      <4>3. new.end = (IF s.update[2] = Absent THEN goals[g].end ELSE s.update[2])
            /\ new.start = goals[g].start
        BY <1>4, <3>6 DEF page
      <4> QED
        BY <2>2, <3>4, <4>1, <4>2, <4>3
    <3> QED
      BY <3>5, <3>6
  <2>5. call'[c].goal = index'[id] /\ ~At(c, "copy")' /\ index'[id] # 0
    BY <1>1, <1>2, <1>6, <2>2 DEF At
  <2> QED
    BY <1>1, <2>3, <2>4, <2>5 DEF Orderly
<1>9. Loaded'
  <2> SUFFICES ASSUME NEW d \in Client, At(d, "copy")'
               PROVE  call'[d].loaded.id = goals'[call'[d].goal].id
    BY DEF Loaded
  <2>1. d # c /\ call'[d] = call[d] /\ At(d, "copy")
    BY <1>6 DEF At
  <2>2. call[d].goal \in 1..Len(goals)
    BY <1>1, <2>1, Shapes DEF TypeOK, At, Held
  <2> QED
    BY <1>5, <2>1, <2>2 DEF GInv, Loaded
<1> QED
  BY <1>1, <1>7, <1>8, <1>9 DEF GInv

LEMMA UpdateConversionGoalGiven ==
  ASSUME GInv, IInv', NEW c \in Client, UpdateConversionGoal(c)
  PROVE  GInv'
<1> PICK g, id : g = call[c].goal /\ id = goals[g].id
  OBVIOUS
<1> DEFINE s == IF isOpen /\ index[id] # 0
                THEN [at |-> "copy", goal |-> g, loaded |-> goals[g]] ELSE Idle
<1>1. /\ TypeOK /\ TypeOK' /\ UNCHANGED <<goals, index, given>> /\ call[c] \in UpdateCall
      /\ call[c].at = "update"
  BY Shapes DEF GInv, IInv, TypeOK, UpdateConversionGoal, At, store, history
<1>2. g \in 1..Len(goals) /\ goals[g] \in Goal /\ id \in Id
  <2>1. g \in 1..Len(goals)
    BY <1>1 DEF TypeOK, Held
  <2>2. goals[g] \in Goal
    BY <1>1, <2>1 DEF TypeOK
  <2> QED
    BY <2>1, <2>2 DEF Goal
<1>3. call'[c] = s /\ \A d \in Client \ {c} : call'[d] = call[d]
  BY <1>1 DEF UpdateConversionGoal, Goto, TypeOK
<1>4. s.at \in {"copy", "idle"} /\ (s.at = "copy" => s.goal = g /\ s.loaded = goals[g])
  BY DEF Idle
<1> HIDE DEF s
<1>5. ASSUME NEW j \in Id \ {id} PROVE Orderly(j)'
  <2>1. c \notin Updating(j) /\ c \notin Updating(j)'
    BY <1>1, <1>3, <1>4 DEF Updating
  <2> QED
    BY <1>1, <1>3, <2>1, Bystander DEF GInv
<1>6. Orderly(id)'
  <2> SUFFICES ASSUME given[id] # Unknown PROVE Orderly(id)'
    BY <1>1 DEF Orderly
  <2>1. c \in Updating(id)
    BY <1>1 DEF Updating
  <2>2. /\ index[id] = g /\ index[id] # 0 /\ given[id] = PagesOf(g)
        /\ \A d \in Updating(id) : d = c
    BY <1>1, <1>2, <2>1 DEF GInv, Orderly, OnTheWay
  <2>3. Updating(id)' \subseteq {c}
    BY <1>1, <1>3, <2>2 DEF Updating
  <2>4. PagesOf(g)' = PagesOf(g)
    BY <1>1, <1>2, <1>3, <1>4 DEF PagesOf
  <2>5. c \in Updating(id)' => call'[c].at = "copy"
    BY <1>3, <1>4 DEF Updating
  <2> QED
    BY <1>1, <1>3, <1>4, <2>2, <2>3, <2>4, <2>5 DEF Orderly, OnTheWay, At, PagesOf
<1>7. Loaded'
  BY <1>1, <1>3, <1>4 DEF GInv, Loaded, At
<1> QED
  BY <1>1, <1>5, <1>6, <1>7 DEF GInv

\* A goal that only this call changes is copied as it is.
LEMMA CopyGiven ==
  ASSUME GInv, IInv', NEW c \in Client, Copy(c)
  PROVE  GInv'
<1> PICK id, g : id = call[c].loaded.id /\ g = index[id]
  OBVIOUS
<1>1. /\ TypeOK /\ TypeOK' /\ UNCHANGED <<index, given>> /\ call[c] \in CopyCall /\ At(c, "copy")
      /\ call[c].loaded \in Goal /\ id \in Id
  BY Shapes DEF GInv, IInv, TypeOK, Copy, At, CopyCall, Goal
<1>2. /\ g \in 1..Len(goals) /\ goals[g].id = id /\ goals[call[c].goal].id = id
      /\ goals[g] \in Goal
  <2>1. g \in 1..Len(goals) /\ goals[g].id = id
    BY <1>1 DEF GInv, IInv, Filed, TypeOK
  <2>2. goals[call[c].goal].id = id
    BY <1>1 DEF GInv, Loaded
  <2>3. goals[g] \in Goal
    BY <1>1, <2>1 DEF TypeOK
  <2> QED
    BY <2>1, <2>2, <2>3
<1>3. PICK F, new :
        LET old == goals[index[call[c].loaded.id]]
        IN /\ F \in SUBSET {"start", "end"}
           /\ new = [f \in DOMAIN old |-> IF f \in F THEN call[c].loaded[f] ELSE old[f]]
           /\ goals' = [goals EXCEPT ![index[call[c].loaded.id]] = new]
  BY DEF Copy
<1>4. new.id = id /\ (call[c].loaded = goals[g] => new = goals[g])
  BY <1>1, <1>2, <1>3 DEF Goal
<1>5. /\ goals'[g] = new
      /\ \A h \in 1..Len(goals) : (h # g => goals'[h] = goals[h]) /\ goals'[h].id = goals[h].id
  <2>1. goals'[g] = new /\ \A h \in 1..Len(goals) : h # g => goals'[h] = goals[h]
    <3>1. goals' = [goals EXCEPT ![g] = new]
      BY <1>3
    <3>2. goals \in Seq(Goal)
      BY <1>1 DEF TypeOK
    <3> QED
      BY <1>2, <3>1, <3>2
  <2> QED
    BY <1>2, <1>4, <2>1
<1>6. call'[c] = [at |-> "clear"] /\ \A d \in Client \ {c} : call'[d] = call[d]
  BY DEF Copy, Goto, GInv, IInv, TypeOK
<1>7. c \in Updating(id) /\ \A j \in Id : c \notin Updating(j)'
  BY <1>1, <1>2, <1>6 DEF Updating, At
<1>8. ASSUME NEW j \in Id \ {id} PROVE Orderly(j)'
  <2>1. c \notin Updating(j)
    BY <1>2 DEF Updating
  <2>2. index[j] # 0 => index[j] \in 1..Len(goals) /\ index[j] # g
    BY <1>1, <1>2 DEF GInv, IInv, Filed, TypeOK
  <2> QED
    BY <1>1, <1>5, <1>6, <1>7, <2>1, <2>2, Bystander DEF GInv
<1>9. Orderly(id)'
  <2> SUFFICES ASSUME given[id] # Unknown PROVE Orderly(id)'
    BY <1>1 DEF Orderly
  <2>1. /\ call[c].goal = g /\ g # 0 /\ given[id] = OnTheWay(call[c]) /\ call[c].loaded = goals[g]
        /\ \A d \in Updating(id) : d = c
    BY <1>1, <1>7 DEF GInv, Orderly
  <2>2. given[id] = PagesOf(g)
    BY <1>1, <2>1 DEF OnTheWay, At
  <2>3. PagesOf(index[id])' = PagesOf(g)
    BY <1>1, <1>4, <1>5, <2>1 DEF PagesOf
  <2>4. ASSUME NEW d \in Client \ {c} PROVE d \notin Updating(id)'
    <3>1. d \notin Updating(id)
      BY <2>1
    <3>2. call[d] \in UpdateCall \cup CopyCall => goals'[call[d].goal].id = goals[call[d].goal].id
      BY <1>1, <1>5 DEF TypeOK, Held
    <3> QED
      BY <1>1, <1>6, <3>1, <3>2, Shapes DEF Updating, TypeOK
  <2>5. Updating(id)' = {}
    BY <1>1, <1>7, <2>4 DEF Updating
  <2> QED
    BY <1>1, <2>1, <2>2, <2>3, <2>5 DEF Orderly
<1>10. Loaded'
  <2> SUFFICES ASSUME NEW d \in Client, At(d, "copy")'
               PROVE  call'[d].loaded.id = goals'[call'[d].goal].id
    BY DEF Loaded
  <2>1. d # c /\ call'[d] = call[d] /\ At(d, "copy")
    BY <1>6 DEF At
  <2>2. call[d].goal \in 1..Len(goals)
    BY <1>1, <2>1, Shapes DEF TypeOK, At, Held
  <2> QED
    BY <1>5, <2>1, <2>2 DEF GInv, Loaded
<1> QED
  BY <1>1, <1>8, <1>9, <1>10 DEF GInv

LEMMA GInit == Init => GInv
<1> SUFFICES ASSUME Init PROVE GInv
  OBVIOUS
<1>1. IInv
  BY InitInv
<1> QED
  BY <1>1 DEF Init, GInv, Loaded, At, Idle, Orderly

LEMMA GNext == GInv /\ IInv' /\ [Next]_vars => GInv'
<1> SUFFICES ASSUME GInv, IInv', [Next]_vars PROVE GInv'
  OBVIOUS
<1>1. CASE CacheAlone \/ Close \/ UNCHANGED vars
  BY <1>1, NoUpdate DEF CacheAlone, Close, vars, store, history
<1>2. ASSUME NEW c \in Client, RateStep(c) \/ ClearCache(c) PROVE GInv'
  BY <1>2, RateStepGiven
<1>3. ASSUME NEW c \in Client, WriteStart(c) \/ WriteEnd(c) PROVE GInv'
  BY <1>3, WriteGiven
<1>4. ASSUME NEW c \in Client, UpdateConversionGoal(c) \/ Copy(c) PROVE GInv'
  BY <1>4, UpdateConversionGoalGiven, CopyGiven
<1> QED
  BY <1>1, <1>2, <1>3, <1>4, CreateGoalGiven, UpdateGoalGiven, DeleteGoalGiven, NextCases

\* A goal that the requests changed one at a time has the pages that they gave, however
\* the copy of a goal onto itself, calculations and a closing store cross them.
THEOREM GoalsAreAsGivenCorrect == Spec => []GoalsAreAsGiven
<1>1. GInv => GoalsAreAsGiven
  <2> SUFFICES ASSUME GInv, NEW id \in Id, given[id] # Unknown, Updating(id) = {}
               PROVE  PagesOf(index[id]) = given[id]
    BY DEF GoalsAreAsGiven
  <2> QED
    BY DEF GInv, Orderly
<1> QED
  BY <1>1, GInit, GNext, InvHolds, PTL DEF Spec
===============================================================================
