---------------------------- MODULE StatisticsProofs ----------------------------
(* Proofs about Analyses and Statistics, for any events, users, periods, path strings,
   hours and days of instants. *)
EXTENDS Statistics, SetFolds, SequenceTheorems

-------------------------------------------------------------------------------
(* Sums and counts. *)

\* SumFunction computes a sum, whatever the order it takes the elements in.
LEMMA SumFunctionIs ==
  ASSUME NEW S, IsFiniteSet(S), NEW h \in [S -> Int]
  PROVE  \E f : IsSum(f, h, S) /\ SumFunction(h) = f[S]
<1> DEFINE F == CHOOSE f : f = [T \in SUBSET S |->
                  IF T = {} THEN 0 ELSE h[AnyOf(T)] + f[T \ {AnyOf(T)}]]
<1>1. SumFunction(h) = F[S]
  BY DEF SumFunction, SumFunctionOnSet, FoldFunctionOnSet, MapThenFoldSet, AnyOf
<1>2. \E f : f = [T \in SUBSET S |->
                  IF T = {} THEN 0 ELSE h[AnyOf(T)] + f[T \ {AnyOf(T)}]]
  <2>1. PICK f : IsSum(f, h, S)
    BY SumExists
  <2> QED
    BY <2>1 DEF IsSum
<1>3. IsSum(F, h, S)
  BY <1>2 DEF IsSum
<1> QED
  BY <1>1, <1>3

\* The total of the sizes of disjoint parts is the size of the whole.
LEMMA TotalOfParts ==
  ASSUME NEW S, IsFiniteSet(S), NEW C, IsFiniteSet(C), NEW part \in [S -> SUBSET C],
         \A x, y \in S : x # y => part[x] \cap part[y] = {},
         NEW h, h = [x \in S |-> Cardinality(part[x])]
  PROVE  SumFunction(h) = Cardinality(UNION {part[x] : x \in S})
<1>1. h \in [S -> Int]
  <2>1. \A x \in S : Cardinality(part[x]) \in Int
    BY FS_Subset, FS_CardinalityType
  <2> QED
    BY <2>1
<1>2. PICK f : IsSum(f, h, S) /\ SumFunction(h) = f[S]
  BY <1>1, SumFunctionIs
<1> QED
  BY <1>2, SumOfParts

\* Rows that are counted under the values of a key are all counted.
LEMMA TotalOfGroups ==
  ASSUME NEW S, IsFiniteSet(S), NEW D, IsFiniteSet(D), NEW key \in [S -> D],
         NEW h, h = [v \in D |-> Cardinality({i \in S : key[i] = v})]
  PROVE  SumFunction(h) = Cardinality(S)
<1> PICK part : part = [v \in D |-> {i \in S : key[i] = v}]
  OBVIOUS
<1>1. /\ part \in [D -> SUBSET S]
      /\ \A v, w \in D : v # w => part[v] \cap part[w] = {}
      /\ h = [v \in D |-> Cardinality(part[v])]
      /\ UNION {part[v] : v \in D} = S
  OBVIOUS
<1> QED
  BY <1>1, TotalOfParts

\* Sums are in the order of what is summed.
LEMMA SumsInOrder ==
  ASSUME NEW S, IsFiniteSet(S), NEW h \in [S -> Int], NEW k \in [S -> Int],
         \A x \in S : h[x] <= k[x]
  PROVE  SumFunction(h) \in Int /\ SumFunction(k) \in Int /\ SumFunction(h) <= SumFunction(k)
<1>1. PICK f : IsSum(f, h, S) /\ SumFunction(h) = f[S]
  BY SumFunctionIs
<1>2. PICK g : IsSum(g, k, S) /\ SumFunction(k) = g[S]
  BY SumFunctionIs
<1>3. SumsUp(f, h, S) /\ SumsUp(g, k, S)
  BY <1>1, <1>2, SumAnyOrder
<1> DEFINE Q == {T \in SUBSET S : f[T] <= g[T]}
<1>4. {} \in Q
  BY <1>3 DEF SumsUp
<1>5. ASSUME NEW T \in SUBSET S, T # {}, \A x \in T : T \ {x} \in Q
      PROVE  T \in Q
  <2> PICK a \in T : TRUE
    BY <1>5
  <2>1. f[T] = h[a] + f[T \ {a}] /\ g[T] = k[a] + g[T \ {a}]
    BY <1>3 DEF SumsUp
  <2>2. f[T \ {a}] <= g[T \ {a}] /\ h[a] <= k[a]
    BY <1>5
  <2>3. f[T \ {a}] \in Int /\ g[T \ {a}] \in Int /\ h[a] \in Int /\ k[a] \in Int
    BY <1>3 DEF SumsUp
  <2> QED
    BY <2>1, <2>2, <2>3
<1>6. Inductive(Q, S)
  BY <1>4, <1>5 DEF Inductive
<1>7. S \in Q
  <2> HIDE DEF Q
  <2> QED
    BY <1>6, SubsetInduction
<1> QED
  BY <1>1, <1>2, <1>3, <1>7 DEF SumsUp

\* Summing a hundred times each.
LEMMA SumOfHundreds ==
  ASSUME NEW S, IsFiniteSet(S), NEW h \in [S -> Int], NEW k, k = [x \in S |-> 100 * h[x]]
  PROVE  SumFunction(k) = 100 * SumFunction(h)
<1>0. k \in [S -> Int]
  OBVIOUS
<1>1. PICK f : IsSum(f, h, S) /\ SumFunction(h) = f[S]
  BY SumFunctionIs
<1>2. PICK g : IsSum(g, k, S) /\ SumFunction(k) = g[S]
  BY <1>0, SumFunctionIs
<1>3. SumsUp(f, h, S) /\ SumsUp(g, k, S)
  BY <1>0, <1>1, <1>2, SumAnyOrder
<1> DEFINE Q == {T \in SUBSET S : g[T] = 100 * f[T]}
<1>4. {} \in Q
  BY <1>3 DEF SumsUp
<1>5. ASSUME NEW T \in SUBSET S, T # {}, \A x \in T : T \ {x} \in Q
      PROVE  T \in Q
  <2> PICK a \in T : TRUE
    BY <1>5
  <2>1. f[T] = h[a] + f[T \ {a}] /\ g[T] = k[a] + g[T \ {a}]
    BY <1>3 DEF SumsUp
  <2>2. g[T \ {a}] = 100 * f[T \ {a}] /\ k[a] = 100 * h[a]
    BY <1>5
  <2>3. f[T \ {a}] \in Int /\ h[a] \in Int
    BY <1>3 DEF SumsUp
  <2> QED
    BY <2>1, <2>2, <2>3
<1>6. Inductive(Q, S)
  BY <1>4, <1>5 DEF Inductive
<1>7. S \in Q
  <2> HIDE DEF Q
  <2> QED
    BY <1>6, SubsetInduction
<1> QED
  BY <1>1, <1>2, <1>7

\* A whole is no larger than the total of the sizes of its parts, disjoint or not.
LEMMA TotalOfCover ==
  ASSUME NEW S, IsFiniteSet(S), NEW C, IsFiniteSet(C), NEW part \in [S -> SUBSET C],
         NEW h, h = [x \in S |-> Cardinality(part[x])]
  PROVE  Cardinality(UNION {part[x] : x \in S}) <= SumFunction(h)
<1>0. h \in [S -> Int]
  <2>1. \A x \in S : Cardinality(part[x]) \in Int
    BY FS_Subset, FS_CardinalityType
  <2> QED
    BY <2>1
<1>1. PICK f : IsSum(f, h, S) /\ SumFunction(h) = f[S]
  BY <1>0, SumFunctionIs
<1>2. SumsUp(f, h, S)
  BY <1>0, <1>1, SumAnyOrder
<1> DEFINE All(T) == UNION {part[x] : x \in T}
           Q == {T \in SUBSET S : Cardinality(All(T)) <= f[T]}
<1>3. \A T \in SUBSET S : IsFiniteSet(All(T)) /\ Cardinality(All(T)) \in Int
  <2>1. \A T \in SUBSET S : All(T) \in SUBSET C
    OBVIOUS
  <2> HIDE DEF All
  <2> QED
    BY <2>1, FS_Subset, FS_CardinalityType
<1>4. {} \in Q
  <2>1. All({}) = {}
    OBVIOUS
  <2> HIDE DEF All
  <2>2. Cardinality(All({})) = 0 /\ f[{}] = 0
    BY <1>2, <2>1, FS_EmptySet DEF SumsUp
  <2> QED
    BY <2>2
<1>5. ASSUME NEW T \in SUBSET S, T # {}, \A x \in T : T \ {x} \in Q
      PROVE  T \in Q
  <2> PICK a \in T : TRUE
    BY <1>5
  <2> PICK P, R : P = part[a] /\ R = All(T \ {a})
    OBVIOUS
  <2>1. P \cup R = All(T)
    OBVIOUS
  <2>2. IsFiniteSet(P) /\ IsFiniteSet(R)
    BY <1>3, FS_Subset
  <2>3. Cardinality(P \cup R) <= Cardinality(P) + Cardinality(R)
    <3>1. /\ IsFiniteSet(P \cap R) /\ Cardinality(P) \in Nat /\ Cardinality(R) \in Nat
          /\ Cardinality(P \cap R) \in Nat
      BY <2>2, FS_Intersection, FS_CardinalityType
    <3>2. Cardinality(P \cup R) = Cardinality(P) + Cardinality(R) - Cardinality(P \cap R)
      BY <2>2, FS_Union
    <3> QED
      BY <3>1, <3>2
  <2>4. f[T] = h[a] + f[T \ {a}] /\ h[a] = Cardinality(P) /\ f[T \ {a}] \in Int
    BY <1>2 DEF SumsUp
  <2>5. Cardinality(R) <= f[T \ {a}]
    BY <1>5
  <2>6. Cardinality(P) \in Int /\ Cardinality(R) \in Int /\ Cardinality(P \cup R) \in Int
    <3>1. IsFiniteSet(P \cup R)
      BY <2>2, FS_Union
    <3> QED
      BY <2>2, <3>1, FS_CardinalityType
  <2>7. Cardinality(P \cup R) <= f[T]
    BY <2>3, <2>4, <2>5, <2>6
  <2>8. Cardinality(All(T)) <= f[T]
    BY <2>1, <2>7
  <2> QED
    BY <2>8
<1>6. Inductive(Q, S)
  BY <1>4, <1>5 DEF Inductive
<1>7. S \in Q
  <2> HIDE DEF Q
  <2> QED
    BY <1>6, SubsetInduction
<1> QED
  BY <1>1, <1>7

\* The values of a key.
LEMMA ValuesOfKey ==
  ASSUME NEW S, IsFiniteSet(S), NEW key, NEW T, T = {key[i] : i \in S}
  PROVE  /\ IsFiniteSet(T) /\ Cardinality(T) \in Nat /\ Cardinality(T) <= Cardinality(S)
         /\ S # {} => Cardinality(T) >= 1
<1> DEFINE k == [i \in S |-> key[i]]
<1>1. k \in Surjection(S, T)
  BY DEF Surjection
<1>2. IsFiniteSet(T) /\ Cardinality(T) <= Cardinality(S)
  <2> HIDE DEF k
  <2> QED
    BY <1>1, FS_Surjection
<1>3. Cardinality(T) \in Nat /\ (Cardinality(T) = 0 <=> T = {})
  BY <1>2, FS_CardinalityType, FS_EmptySet
<1>4. S # {} => T # {}
  OBVIOUS
<1> QED
  BY <1>2, <1>3, <1>4

-------------------------------------------------------------------------------
(* Rows of the listing. *)

Listed == listing \in Seq(Event)

\* The listing stays a sequence of events when one is created or deleted.
LEMMA ListedKept == Listed /\ [Next]_listing => Listed'
<1> SUFFICES ASSUME Listed, [Next]_listing PROVE Listed'
  OBVIOUS
<1>1. ASSUME NEW e \in Event, Create(e)
      PROVE  Listed'
  BY <1>1, AppendProperties DEF Create, Listed
<1>2. ASSUME NEW i \in DOMAIN listing, Delete(i)
      PROVE  Listed'
  <2>1. Len(listing) \in Nat /\ i \in 1..Len(listing)
    BY DEF Listed
  <2>2. /\ SubSeq(listing, 1, i - 1) \in Seq(Event)
        /\ SubSeq(listing, i + 1, Len(listing)) \in Seq(Event)
    BY <2>1, SubSeqProperties DEF Listed
  <2> QED
    BY <1>2, <2>2, ConcatProperties DEF Delete, RemoveAt, Listed
<1>3. CASE UNCHANGED listing
  BY <1>3 DEF Listed
<1> QED
  BY <1>1, <1>2, <1>3 DEF Next

\* So it is one in every state of Analyses.
LEMMA AnalysesListed == Spec => []Listed
<1>1. Init => Listed
  BY DEF Init, Listed
<1> QED
  BY <1>1, ListedKept, PTL DEF Spec

\* The requests of Statistics change the listing as Analyses does, or not at all: what
\* holds of every listing of Analyses holds while requests are under way.
THEOREM RequestsKeepListing == StatsSpec => Spec
<1>1. StatsInit => Init
  BY DEF StatsInit, Init
<1>2. [StatsNext]_statsVars => [Next]_listing
  BY DEF StatsNext, Begin, Ask, Answer, Change, statsVars
<1> QED
  BY <1>1, <1>2, PTL DEF StatsSpec, Spec

\* And so it is in every state of Statistics.
LEMMA ListedHolds == StatsSpec => []Listed
BY RequestsKeepListing, AnalysesListed

\* What a row of the listing is.
LEMMA RowTypes ==
  ASSUME Listed, NEW i \in DOMAIN listing
  PROVE  /\ listing[i] \in Event /\ listing[i].type \in ToSet(EventTypes)
         /\ hourOf[listing[i].time] \in 0..23 /\ dayOf[listing[i].time] \in Nat
<1>1. listing[i] \in Event
  BY DEF Listed
<1>2. listing[i].type \in ToSet(EventTypes)
  BY <1>1, AnalysesAssumption
<1> QED
  BY <1>1, <1>2, StatisticsAssumption

\* Sets of rows can be counted.
LEMMA RowsFinite ==
  ASSUME Listed, NEW R \in SUBSET DOMAIN listing
  PROVE  IsFiniteSet(R) /\ Cardinality(R) \in Nat
<1>1. DOMAIN listing = 1..Len(listing) /\ Len(listing) \in Nat
  BY DEF Listed
<1>2. IsFiniteSet(DOMAIN listing)
  BY <1>1, FS_Interval
<1> QED
  BY <1>2, FS_Subset, FS_CardinalityType

\* The rows of a type are those rows of the period that have it.
LEMMA RowsOfTypes ==
  ASSUME NEW period
  PROVE  /\ RowsIn(period) \in SUBSET DOMAIN listing
         /\ \A type : /\ RowsOf(type, period) \in SUBSET RowsIn(period)
                      /\ \A i \in RowsIn(period) :
                           i \in RowsOf(type, period) <=> listing[i].type = type
BY DEF RowsIn, RowsOf

\* The rows of S under the values of a key, as all the breakdowns count them.
LEMMA GroupsAddUp ==
  ASSUME Listed, NEW S \in SUBSET DOMAIN listing, NEW key, NEW D, D = {key[i] : i \in S},
         NEW h, h = [v \in D |-> Cardinality({i \in S : key[i] = v})]
  PROVE  SumFunction(h) = Cardinality(S)
<1> PICK k : k = [i \in S |-> key[i]]
  OBVIOUS
<1>1. IsFiniteSet(S)
  BY RowsFinite
<1>2. IsFiniteSet(D)
  BY <1>1, ValuesOfKey
<1>3. k \in [S -> D] /\ h = [v \in D |-> Cardinality({i \in S : k[i] = v})]
  OBVIOUS
<1> QED
  BY <1>1, <1>2, <1>3, TotalOfGroups

-------------------------------------------------------------------------------
(* What the services count, part by part. *)

\* The table of pages has every page view of its period once.
LEMMA PageRowsAddUp ==
  ASSUME Listed, NEW period
  PROVE  SumOver(PageRows(period), LAMBDA row : row.visits)
           = EventCountByType("page_view", period)
<1> PICK V : V = RowsOf("page_view", period)
  OBVIOUS
<1> PICK P : P = PageRows(period)
  OBVIOUS
<1>1. V \in SUBSET DOMAIN listing /\ IsFiniteSet(V)
  BY RowsOfTypes, RowsFinite
<1> PICK pages : pages = {listing[i].page : i \in V}
  OBVIOUS
<1>a. PICK views : views = [p \in pages |-> {i \in V : listing[i].page = p}]
  OBVIOUS
<1>b. PICK row : row = [p \in pages |->
     [page        |-> p,
      visits      |-> Cardinality(views[p]),
      users       |-> Cardinality(Users(views[p])),
      avgDuration |-> Fraction(TimeSpent(views[p]), Cardinality(views[p]))]]
  OBVIOUS
<1>2. P = {row[p] : p \in pages}
  <2>1. views = Group(V, OnPage) /\ DOMAIN views = pages
    BY <1>a DEF Group, OnPage
  <2>2. P = {[page        |-> p,
              visits      |-> Cardinality(views[p]),
              users       |-> Cardinality(Users(views[p])),
              avgDuration |-> Fraction(TimeSpent(views[p]), Cardinality(views[p]))]
             : p \in DOMAIN views}
    BY <2>1, Zenon DEF PageRows
  <2> QED
    BY <1>b, <2>1, <2>2, Zenon
<1>c. \A p \in pages : row[p].page = p
                        /\ row[p].visits = Cardinality({i \in V : listing[i].page = p})
  <2> SUFFICES ASSUME NEW p \in pages
               PROVE  /\ row[p].page = p
                      /\ row[p].visits = Cardinality({i \in V : listing[i].page = p})
    OBVIOUS
  <2>1. \E u, d : row[p] = [page |-> p, visits |-> Cardinality(views[p]), users |-> u, avgDuration |-> d]
    BY <1>b
  <2>2. views[p] = {i \in V : listing[i].page = p}
    BY <1>a
  <2> QED
    BY <2>1, <2>2
<1>3. /\ \A r \in P : r.visits = Cardinality({i \in V : listing[i].page = r.page})
      /\ \A q, r \in P : q.page = r.page => q = r
      /\ \A i \in V : \E r \in P : r.page = listing[i].page
  <2>1. ASSUME NEW r \in P
        PROVE  /\ r.page \in pages /\ r = row[r.page]
               /\ r.visits = Cardinality({i \in V : listing[i].page = r.page})
    <3>1. PICK p \in pages : r = row[p]
      BY <1>2
    <3>2. r.page = p
      BY <1>c, <3>1
    <3> QED
      BY <1>c, <3>1, <3>2
  <2>2. \A p \in pages : row[p] \in P
    BY <1>2
  <2>3. \A i \in V : listing[i].page \in pages
    OBVIOUS
  <2>5. \A i \in V : \E r \in P : r.page = listing[i].page
    BY <1>c, <2>2, <2>3
  <2> QED
    BY <2>1, <2>5
<1>4. IsFiniteSet(P)
  <2>1. IsFiniteSet(pages)
    <3> PICK page : page = [i \in V |-> listing[i].page]
      OBVIOUS
    <3>1. pages = {page[i] : i \in V}
      OBVIOUS
    <3> QED
      BY <1>1, <3>1, ValuesOfKey
  <2> QED
    BY <1>2, <2>1, ValuesOfKey
<1> PICK part : part = [r \in P |-> {i \in V : listing[i].page = r.page}]
  OBVIOUS
<1> PICK h : h = [r \in P |-> r.visits]
  OBVIOUS
<1>5. /\ part \in [P -> SUBSET V]
      /\ \A q, r \in P : q # r => part[q] \cap part[r] = {}
      /\ UNION {part[r] : r \in P} = V
  BY <1>3
<1>6. h = [r \in P |-> Cardinality(part[r])]
  BY <1>3
<1>7. SumFunction(h) = Cardinality(V)
  BY <1>1, <1>4, <1>5, <1>6, TotalOfParts
<1> QED
  BY <1>7 DEF SumOver, EventCountByType

\* Every row has an hour of the day.
LEMMA HoursAddUp ==
  ASSUME Listed, NEW S \in SUBSET DOMAIN listing
  PROVE  SumFunction([h \in 0..23 |-> Cardinality({i \in S : HourOf(i) = h})]) = Cardinality(S)
<1>a. PICK hour : hour = [i \in S |-> hourOf[listing[i].time]]
  OBVIOUS
<1>b. PICK H : H = 0..23
  OBVIOUS
<1>1. hour \in [S -> H]
  BY <1>a, <1>b, RowTypes
<1>2. \A h : {i \in S : HourOf(i) = h} = {i \in S : hour[i] = h}
  BY <1>a DEF HourOf
<1>3. IsFiniteSet(S) /\ IsFiniteSet(H)
  <2>1. 0 \in Int /\ 23 \in Int
    OBVIOUS
  <2> QED
    BY <1>b, <2>1, RowsFinite, FS_Interval
<1>c. PICK count : count = [h \in H |-> Cardinality({i \in S : hour[i] = h})]
  OBVIOUS
<1>4. SumFunction(count) = Cardinality(S)
  BY <1>1, <1>3, <1>c, TotalOfGroups
<1>5. count = [h \in 0..23 |-> Cardinality({i \in S : HourOf(i) = h})]
  BY <1>2, <1>b, <1>c
<1> QED
  BY <1>4, <1>5

\* So have both tables of hours, the one of StatsService and the one of the aggregation.
LEMMA HourlyAddsUp ==
  ASSUME Listed, NEW period
  PROVE  LET views == EventCountByType("page_view", period)
             hours == GetHourlyAggregation(period)
         IN /\ sumHourly(GetHourlyDistribution(period)) = views
            /\ SumOver(0..23, LAMBDA h : hours[h].pageViews) = views
            /\ SumOver(0..23, LAMBDA h : hours[h].events) = Cardinality(RowsIn(period))
            /\ \A h \in 0..23 : hours[h].pageViews + hours[h].clicks <= hours[h].events
<1> PICK V, C, R : /\ V = RowsOf("page_view", period) /\ C = RowsOf("click", period)
                   /\ R = RowsIn(period)
  OBVIOUS
<1>1. /\ V \in SUBSET DOMAIN listing /\ C \in SUBSET DOMAIN listing
      /\ R \in SUBSET DOMAIN listing /\ V \subseteq R /\ C \subseteq R /\ V \cap C = {}
  BY RowsOfTypes
<1> PICK hours : hours = GetHourlyAggregation(period)
  OBVIOUS
<1>2. \A h \in 0..23 : /\ hours[h].events = Cardinality({i \in R : HourOf(i) = h})
                       /\ hours[h].pageViews = Cardinality({i \in V : HourOf(i) = h})
                       /\ hours[h].clicks = Cardinality({i \in C : HourOf(i) = h})
  BY DEF GetHourlyAggregation
<1>3. sumHourly(GetHourlyDistribution(period)) = Cardinality(V)
  <2>1. sumHourly(GetHourlyDistribution(period))
          = SumFunction([h \in 0..23 |-> Cardinality({i \in V : HourOf(i) = h})])
    BY DEF sumHourly, SumOver, GetHourlyDistribution
  <2> QED
    BY <1>1, <2>1, HoursAddUp
<1>4. SumOver(0..23, LAMBDA h : hours[h].pageViews) = Cardinality(V)
  <2>1. SumOver(0..23, LAMBDA h : hours[h].pageViews)
          = SumFunction([h \in 0..23 |-> Cardinality({i \in V : HourOf(i) = h})])
    BY <1>2 DEF SumOver
  <2> QED
    BY <1>1, <2>1, HoursAddUp
<1>5. SumOver(0..23, LAMBDA h : hours[h].events) = Cardinality(R)
  <2>1. SumOver(0..23, LAMBDA h : hours[h].events)
          = SumFunction([h \in 0..23 |-> Cardinality({i \in R : HourOf(i) = h})])
    BY <1>2 DEF SumOver
  <2> QED
    BY <1>1, <2>1, HoursAddUp
<1>6. ASSUME NEW h \in 0..23
      PROVE  hours[h].pageViews + hours[h].clicks <= hours[h].events
  <2> PICK v, c, r : /\ v = {i \in V : HourOf(i) = h} /\ c = {i \in C : HourOf(i) = h}
                     /\ r = {i \in R : HourOf(i) = h}
    OBVIOUS
  <2>1. v \cap c = {} /\ v \cup c \in SUBSET r
    BY <1>1
  <2>2. IsFiniteSet(v) /\ IsFiniteSet(c) /\ IsFiniteSet(r)
    BY <1>1, RowsFinite
  <2>3. Cardinality(v \cup c) <= Cardinality(r)
    BY <2>1, <2>2, FS_Subset
  <2>4. Cardinality(v \cup c) = Cardinality(v) + Cardinality(c)
    <3>1. Cardinality(v \cap c) = 0 /\ Cardinality(v) \in Nat /\ Cardinality(c) \in Nat
      BY <2>1, <2>2, FS_EmptySet, FS_CardinalityType
    <3>2. Cardinality(v \cup c) = Cardinality(v) + Cardinality(c) - Cardinality(v \cap c)
      BY <2>2, FS_Union
    <3> QED
      BY <3>1, <3>2
  <2> QED
    BY <1>2, <2>3, <2>4
<1> QED
  BY <1>3, <1>4, <1>5, <1>6 DEF EventCountByType

\* The days have every page view once, and every user of the period.
LEMMA DaysAddUp ==
  ASSUME Listed, NEW period
  PROVE  LET days == GetDailyAggregation(period)
         IN /\ SumOver(DOMAIN days, LAMBDA d : days[d].pageViews)
                 = EventCountByType("page_view", period)
            /\ SumOver(DOMAIN days, LAMBDA d : days[d].users)
                 \in UniqueUsersCount(period)..Cardinality(RowsIn(period))
<1> PICK V, R : V = RowsOf("page_view", period) /\ R = RowsIn(period)
  OBVIOUS
<1>d. PICK day : day = [i \in R |-> dayOf[listing[i].time]]
  OBVIOUS
<1>c. PICK D : D = {day[i] : i \in R}
  OBVIOUS
<1>1. /\ V \in SUBSET R /\ R \in SUBSET DOMAIN listing
      /\ IsFiniteSet(R) /\ IsFiniteSet(V) /\ IsFiniteSet(D)
  <2>1. V \in SUBSET R /\ R \in SUBSET DOMAIN listing
    BY RowsOfTypes
  <2>2. IsFiniteSet(R) /\ IsFiniteSet(V)
    BY <2>1, RowsFinite
  <2> QED
    BY <1>c, <2>1, <2>2, ValuesOfKey
<1>a. PICK on : on = [d \in D |-> {i \in R : day[i] = d}]
  OBVIOUS
<1>b. on \in [D -> SUBSET R] /\ \A d \in D : on[d] = {i \in R : day[i] = d}
  BY <1>a, <1>c
<1> PICK days : days = GetDailyAggregation(period)
  OBVIOUS
<1>2. /\ DOMAIN days = D
      /\ \A d \in D : /\ days[d].pageViews = Cardinality(on[d] \cap V)
                      /\ days[d].users = Cardinality(Users(on[d]))
  <2> PICK rows : rows = Group(R, LAMBDA i : dayOf[listing[i].time])
    OBVIOUS
  <2>1. rows = on
    BY <1>a, <1>c, <1>d DEF Group
  <2>2. days = [d \in DOMAIN rows |->
                  LET views == Cardinality(rows[d] \cap V)
                  IN [pageViews   |-> views,
                      users       |-> Cardinality(Users(rows[d])),
                      avgDuration |-> Fraction(TimeSpent(rows[d]), views)]]
    BY Zenon DEF GetDailyAggregation
  <2>3. DOMAIN days = D
    BY <1>b, <2>1, <2>2
  <2>4. ASSUME NEW d \in D
        PROVE  /\ days[d].pageViews = Cardinality(on[d] \cap V)
               /\ days[d].users = Cardinality(Users(on[d]))
    <3>1. \E f : days[d] = [pageViews   |-> Cardinality(on[d] \cap V),
                            users       |-> Cardinality(Users(on[d])),
                            avgDuration |-> f]
      BY <1>b, <2>1, <2>2
    <3> QED
      BY <3>1
  <2> QED
    BY <2>3, <2>4
<1>3. SumOver(DOMAIN days, LAMBDA d : days[d].pageViews) = Cardinality(V)
  <2>a. PICK key : key = [i \in V |-> day[i]]
    OBVIOUS
  <2>b. PICK h : h = [d \in D |-> Cardinality({i \in V : key[i] = d})]
    OBVIOUS
  <2>1. key \in [V -> D]
    BY <1>1, <1>c, <2>a
  <2>2. SumFunction(h) = Cardinality(V)
    BY <1>1, <2>1, <2>b, TotalOfGroups
  <2>3. \A d \in D : on[d] \cap V = {i \in V : key[i] = d}
    BY <1>1, <1>b, <2>a
  <2>4. h = [d \in D |-> days[d].pageViews]
    BY <1>2, <2>3, <2>b
  <2> QED
    BY <1>2, <2>2, <2>4 DEF SumOver
<1>4. PICK users : users = [d \in D |-> Users(on[d])]
  OBVIOUS
<1>e. PICK h, k : h = [d \in D |-> Cardinality(users[d])] /\ k = [d \in D |-> Cardinality(on[d])]
  OBVIOUS
<1>5. SumOver(DOMAIN days, LAMBDA d : days[d].users) = SumFunction(h)
  <2>1. h = [d \in D |-> days[d].users]
    BY <1>2, <1>4, <1>e
  <2> QED
    BY <1>2, <2>1 DEF SumOver
<1>6. /\ IsFiniteSet(Users(R))
      /\ users \in [D -> SUBSET Users(R)] /\ UNION {users[d] : d \in D} = Users(R)
      /\ \A d \in D : Cardinality(users[d]) \in Nat /\ Cardinality(users[d]) <= Cardinality(on[d])
  <2>a. PICK user : user = [i \in R |-> listing[i].user]
    OBVIOUS
  <2>1. \A S \in SUBSET R : /\ Users(S) = {user[i] : i \in S}
                            /\ IsFiniteSet(Users(S)) /\ Cardinality(Users(S)) \in Nat
                            /\ Cardinality(Users(S)) <= Cardinality(S)
    <3> SUFFICES ASSUME NEW S \in SUBSET R
                 PROVE  /\ Users(S) = {user[i] : i \in S}
                        /\ IsFiniteSet(Users(S)) /\ Cardinality(Users(S)) \in Nat
                        /\ Cardinality(Users(S)) <= Cardinality(S)
      OBVIOUS
    <3>1. Users(S) = {user[i] : i \in S}
      BY <2>a DEF Users
    <3>2. IsFiniteSet(S)
      BY <1>1, FS_Subset
    <3>a. PICK T : T = Users(S)
      OBVIOUS
    <3> QED
      BY <3>1, <3>2, <3>a, ValuesOfKey
  <2>2. \A d \in D : on[d] \in SUBSET R
    BY <1>b
  <2>3. \A i \in R : day[i] \in D /\ i \in on[day[i]]
    BY <1>b, <1>c
  <2>4. users \in [D -> SUBSET Users(R)]
    BY <1>4, <2>2 DEF Users
  <2>5. Users(R) \subseteq UNION {users[d] : d \in D}
    BY <1>4, <2>3 DEF Users
  <2> QED
    BY <1>4, <2>1, <2>2, <2>4, <2>5
<1>7. Cardinality(Users(R)) <= SumFunction(h)
  BY <1>1, <1>6, <1>e, TotalOfCover
<1>8. SumFunction(h) \in Int /\ SumFunction(h) <= Cardinality(R)
  <2>1. \A d \in D : Cardinality(on[d]) \in Nat
    BY <1>1, <1>b, RowsFinite
  <2>2. h \in [D -> Int] /\ k \in [D -> Int] /\ \A d \in D : h[d] <= k[d]
    BY <1>6, <2>1, <1>e
  <2>3. SumFunction(k) = Cardinality(R)
    <3>1. day \in [R -> D] /\ k = [d \in D |-> Cardinality({i \in R : day[i] = d})]
      BY <1>b, <1>c, <1>d, <1>e
    <3> QED
      BY <1>1, <3>1, TotalOfGroups
  <2> QED
    BY <1>1, <2>2, <2>3, SumsInOrder
<1>9. Cardinality(Users(R)) \in Nat /\ Cardinality(R) \in Nat
  BY <1>1, <1>6, FS_CardinalityType
<1> QED
  BY <1>3, <1>5, <1>7, <1>8, <1>9 DEF EventCountByType, UniqueUsersCount

\* Under each device the types hold every row of the device once, and under each type
\* the devices hold every row of the type.
LEMMA DevicesAddUp ==
  ASSUME Listed, NEW period
  PROVE  LET device == GetDeviceBreakdown(period)
         IN /\ \A type \in ToSet(EventTypes) :
                 SumOver({d \in DOMAIN device : type \in DOMAIN device[d]},
                         LAMBDA d : device[d][type]) = EventCountByType(type, period)
            /\ GetDeviceTypeCounts(period) =
                 [d \in DOMAIN device |-> SumOver(DOMAIN device[d], LAMBDA t : device[d][t])]
<1>a. PICK R : R = RowsIn(period)
  OBVIOUS
<1>b. PICK D : D = {DeviceOf(i) : i \in R}
  OBVIOUS
<1>c. PICK on : on = [d \in D |-> {i \in R : DeviceOf(i) = d}]
  OBVIOUS
<1>1. R \in SUBSET DOMAIN listing /\ IsFiniteSet(R) /\ \A d \in D : on[d] \in SUBSET R
  BY <1>a, <1>c, RowsOfTypes, RowsFinite
<1>2. Group(RowsIn(period), DeviceOf) = on
  BY <1>a, <1>b, <1>c DEF Group
<1>d. PICK device : device = GetDeviceBreakdown(period)
  OBVIOUS
<1>3. device = [d \in D |-> [t \in {TypeOf(i) : i \in on[d]} |->
                               Cardinality({i \in on[d] : TypeOf(i) = t})]]
  <2>1. \A d \in D : Group(on[d], TypeOf) = [t \in {TypeOf(i) : i \in on[d]} |->
                                                {i \in on[d] : TypeOf(i) = t}]
    BY DEF Group
  <2>2. \A d \in D : DOMAIN Group(on[d], TypeOf) = {TypeOf(i) : i \in on[d]}
    BY <2>1
  <2>3. DOMAIN on = D
    BY <1>c
  <2>4. device = [d \in DOMAIN on |->
                    LET types == Group(on[d], TypeOf)
                    IN [t \in DOMAIN types |-> Cardinality(types[t])]]
    BY <1>2, <1>d, Zenon DEF GetDeviceBreakdown
  <2>5. ASSUME NEW d \in D
        PROVE  device[d] = [t \in {TypeOf(i) : i \in on[d]} |->
                              Cardinality({i \in on[d] : TypeOf(i) = t})]
    <3>1. PICK types : types = Group(on[d], TypeOf)
      BY Zenon
    <3>2. device[d] = [t \in DOMAIN types |-> Cardinality(types[t])]
      BY <2>3, <2>4, <3>1, Zenon
    <3>3. types = [t \in {TypeOf(i) : i \in on[d]} |-> {i \in on[d] : TypeOf(i) = t}]
      BY <2>1, <3>1, Zenon
    <3> QED
      BY <3>2, <3>3
  <2>6. device = [d \in D |-> device[d]]
    BY <2>3, <2>4
  <2> QED
    BY <2>5, <2>6
<1>4. DOMAIN device = D
  BY <1>3
<1>5. \A d \in D : /\ DOMAIN device[d] = {TypeOf(i) : i \in on[d]}
                   /\ \A t \in DOMAIN device[d] :
                        device[d][t] = Cardinality({i \in on[d] : TypeOf(i) = t})
  BY <1>3
<1>6. ASSUME NEW type \in ToSet(EventTypes)
      PROVE  SumOver({d \in DOMAIN device : type \in DOMAIN device[d]},
                     LAMBDA d : device[d][type]) = EventCountByType(type, period)
  <2>a. PICK V : V = RowsOf(type, period)
    OBVIOUS
  <2>b. PICK key : key = [i \in V |-> DeviceOf(i)]
    OBVIOUS
  <2>c. PICK B : B = {d \in DOMAIN device : type \in DOMAIN device[d]}
    OBVIOUS
  <2>d. PICK h : h = [d \in B |-> Cardinality({i \in V : key[i] = d})]
    OBVIOUS
  <2>1. V \in SUBSET R /\ \A i \in R : i \in V <=> TypeOf(i) = type
    BY <1>a, <2>a, RowsOfTypes DEF TypeOf
  <2>2. \A d \in D : on[d] = {i \in R : DeviceOf(i) = d}
    BY <1>c
  <2>3. key \in [V -> B]
    <3>1. ASSUME NEW i \in V
          PROVE  DeviceOf(i) \in B
      <4>1. DeviceOf(i) \in D
        BY <1>b, <2>1
      <4>2. i \in on[DeviceOf(i)] /\ TypeOf(i) = type
        BY <2>1, <2>2, <4>1
      <4> QED
        BY <1>4, <1>5, <2>c, <4>1, <4>2
    <3> QED
      BY <2>b, <3>1
  <2>4. IsFiniteSet(V) /\ IsFiniteSet(B)
    <3>1. IsFiniteSet(V)
      BY <1>1, <2>1, FS_Subset
    <3>2. B = {key[i] : i \in V}
      <4>1. ASSUME NEW d \in B
            PROVE  \E i \in V : key[i] = d
        <5>1. d \in D /\ type \in {TypeOf(i) : i \in on[d]}
          BY <1>4, <1>5, <2>c
        <5> QED
          BY <2>1, <2>2, <2>b, <5>1
      <4> QED
        BY <2>3, <4>1
    <3> QED
      BY <3>1, <3>2, ValuesOfKey
  <2>5. SumFunction(h) = Cardinality(V)
    BY <2>3, <2>4, <2>d, TotalOfGroups
  <2>6. h = [d \in B |-> device[d][type]]
    <3>1. ASSUME NEW d \in B
          PROVE  device[d][type] = Cardinality({i \in V : key[i] = d})
      <4>1. d \in D /\ type \in DOMAIN device[d]
        BY <1>4, <2>c
      <4>2. {i \in on[d] : TypeOf(i) = type} = {i \in V : key[i] = d}
        BY <2>1, <2>2, <2>b, <4>1
      <4> QED
        BY <1>5, <4>1, <4>2
    <3> QED
      BY <2>d, <3>1
  <2> QED
    BY <2>5, <2>6, <2>a, <2>c DEF SumOver, EventCountByType
<1>7. ASSUME NEW d \in D
      PROVE  SumOver(DOMAIN device[d], LAMBDA t : device[d][t]) = Cardinality(on[d])
  <2>a. PICK type : type = [i \in on[d] |-> TypeOf(i)]
    OBVIOUS
  <2>b. PICK T : T = {type[i] : i \in on[d]}
    OBVIOUS
  <2>c. PICK h : h = [t \in T |-> Cardinality({i \in on[d] : type[i] = t})]
    OBVIOUS
  <2>1. on[d] \in SUBSET DOMAIN listing
    BY <1>1
  <2>2. SumFunction(h) = Cardinality(on[d])
    BY <2>1, <2>b, <2>c, GroupsAddUp
  <2>3. T = DOMAIN device[d]
    BY <1>5, <2>a, <2>b
  <2>4. h = [t \in DOMAIN device[d] |-> device[d][t]]
    BY <1>5, <2>3, <2>a, <2>c
  <2> QED
    BY <2>2, <2>4 DEF SumOver
<1>8. GetDeviceTypeCounts(period) = [d \in D |-> Cardinality(on[d])]
  <2>1. DOMAIN on = D
    BY <1>c
  <2>2. GetDeviceTypeCounts(period) = [d \in DOMAIN on |-> Cardinality(on[d])]
    BY <1>2, Zenon DEF GetDeviceTypeCounts
  <2> QED
    BY <2>1, <2>2
<1>9. GetDeviceTypeCounts(period)
        = [d \in DOMAIN device |-> SumOver(DOMAIN device[d], LAMBDA t : device[d][t])]
  <2> DEFINE S(d) == SumOver(DOMAIN device[d], LAMBDA t : device[d][t])
  <2>1. \A d \in D : S(d) = Cardinality(on[d])
    BY <1>7
  <2> HIDE DEF S
  <2>2. GetDeviceTypeCounts(period) = [d \in D |-> S(d)]
    BY <1>8, <2>1
  <2> QED
    BY <1>4, <2>2 DEF S
<1> QED
  BY <1>6, <1>9, <1>d DEF SumOver

\* Averages of durations are over every duration event.
LEMMA DurationsAddUp ==
  ASSUME Listed, NEW period
  PROVE  SumOver(DOMAIN GetAverageDuration(period), LAMBDA p : GetAverageDuration(period)[p][2])
           = EventCountByType("duration", period)
<1>a. PICK V : V = RowsOf("duration", period)
  OBVIOUS
<1>b. PICK page : page = [i \in V |-> listing[i].page]
  OBVIOUS
<1>c. PICK P : P = {page[i] : i \in V}
  OBVIOUS
<1>d. PICK stays : stays = [p \in P |-> {i \in V : page[i] = p}]
  OBVIOUS
<1>e. PICK h : h = [p \in P |-> Cardinality({i \in V : page[i] = p})]
  OBVIOUS
<1>f. PICK average : average = GetAverageDuration(period)
  OBVIOUS
<1>1. V \in SUBSET DOMAIN listing
  BY <1>a, RowsOfTypes
<1>2. SumFunction(h) = Cardinality(V)
  BY <1>1, <1>c, <1>e, GroupsAddUp
<1>3. Group(RowsOf("duration", period), OnPage) = stays
  BY <1>a, <1>b, <1>c, <1>d DEF Group, OnPage
<1>4. average = [p \in P |-> Fraction(TimeSpent(stays[p]), Cardinality(stays[p]))]
  <2>1. DOMAIN stays = P
    BY <1>d
  <2>2. average = [p \in DOMAIN stays |-> Fraction(TimeSpent(stays[p]), Cardinality(stays[p]))]
    BY <1>3, <1>f, Zenon DEF GetAverageDuration
  <2> QED
    BY <2>1, <2>2
<1>5. ASSUME NEW p \in P
      PROVE  average[p][2] = Cardinality({i \in V : page[i] = p})
  <2>1. stays[p] = {i \in V : page[i] = p} /\ stays[p] # {}
    BY <1>c, <1>d
  <2>2. Cardinality(stays[p]) > 0
    <3>1. IsFiniteSet(stays[p]) /\ Cardinality(stays[p]) \in Nat
      BY <1>1, <2>1, RowsFinite
    <3> QED
      BY <2>1, <3>1, FS_EmptySet
  <2>3. average[p] = <<TimeSpent(stays[p]), Cardinality(stays[p])>>
    BY <1>4, <2>2 DEF Fraction
  <2> QED
    BY <2>1, <2>3
<1>6. h = [p \in DOMAIN average |-> average[p][2]]
  BY <1>4, <1>5, <1>e
<1> QED
  BY <1>2, <1>6, <1>a, <1>f DEF SumOver, EventCountByType

\* The breakdown by a dimension holds every row once, its percentages add up, and a value
\* has no more users than rows.
LEMMA DimensionAddsUp ==
  ASSUME Listed, NEW period, NEW dim
  PROVE  LET b == GetDimensionBreakdown(dim, period)
             all == Cardinality(RowsIn(period))
         IN /\ SumOver(DOMAIN b, LAMBDA v : b[v].count) = all
            /\ SumOver(DOMAIN b, LAMBDA v : b[v].percent[1]) = 100 * all
            /\ \A v \in DOMAIN b : b[v].users \in 1..b[v].count
<1>a. PICK R : R = RowsIn(period)
  OBVIOUS
<1>b. PICK key : key = [i \in R |-> ValueOf(dim, i)]
  OBVIOUS
<1>c. PICK D : D = {key[i] : i \in R}
  OBVIOUS
<1>d. PICK rows : rows = [v \in D |-> {i \in R : key[i] = v}]
  OBVIOUS
<1>e. PICK h : h = [v \in D |-> Cardinality({i \in R : key[i] = v})]
  OBVIOUS
<1>f. PICK b : b = GetDimensionBreakdown(dim, period)
  OBVIOUS
<1>1. R \in SUBSET DOMAIN listing /\ IsFiniteSet(R) /\ IsFiniteSet(D)
  <2>1. R \in SUBSET DOMAIN listing
    BY <1>a, RowsOfTypes
  <2>2. IsFiniteSet(R)
    BY <2>1, RowsFinite
  <2> QED
    BY <1>c, <2>1, <2>2, ValuesOfKey
<1>2. SumFunction(h) = Cardinality(R)
  BY <1>1, <1>c, <1>e, GroupsAddUp
<1>3. b = [v \in D |-> [count   |-> Cardinality(rows[v]),
                        percent |-> Fraction(100 * Cardinality(rows[v]), Cardinality(R)),
                        users   |-> Cardinality(Users(rows[v]))]]
  <2>1. Group(R, LAMBDA i : ValueOf(dim, i)) = rows /\ DOMAIN rows = D
    BY <1>b, <1>c, <1>d DEF Group
  <2>2. b = [v \in DOMAIN rows |->
               [count   |-> Cardinality(rows[v]),
                percent |-> Fraction(100 * Cardinality(rows[v]), Cardinality(R)),
                users   |-> Cardinality(Users(rows[v]))]]
    BY <1>a, <1>f, <2>1, Zenon DEF GetDimensionBreakdown, Group
  <2> QED
    BY <2>1, <2>2
<1>4. ASSUME NEW v \in D
      PROVE  /\ b[v].count = h[v] /\ h[v] \in Nat
             /\ b[v].percent[1] = 100 * h[v]
             /\ b[v].users \in 1..h[v]
  <2>1. rows[v] = {i \in R : key[i] = v} /\ rows[v] # {}
    BY <1>c, <1>d
  <2>2. IsFiniteSet(rows[v]) /\ h[v] = Cardinality(rows[v]) /\ h[v] \in Nat /\ h[v] > 0
    <3>1. IsFiniteSet(rows[v]) /\ Cardinality(rows[v]) \in Nat
      BY <1>1, <2>1, RowsFinite
    <3>2. Cardinality(rows[v]) # 0
      BY <2>1, <3>1, FS_EmptySet
    <3> QED
      BY <1>e, <2>1, <3>1, <3>2
  <2>3. Cardinality(R) > 0
    <3>1. R # {} /\ Cardinality(R) \in Nat
      BY <1>1, <2>1, RowsFinite
    <3> QED
      BY <1>1, <3>1, FS_EmptySet
  <2>4. Cardinality(Users(rows[v])) \in 1..h[v]
    <3>a. PICK user : user = [i \in rows[v] |-> listing[i].user]
      OBVIOUS
    <3>b. PICK T : T = Users(rows[v])
      OBVIOUS
    <3>1. T = {user[i] : i \in rows[v]}
      BY <3>a, <3>b DEF Users
    <3>2. /\ Cardinality(T) \in Nat /\ Cardinality(T) <= Cardinality(rows[v])
          /\ Cardinality(T) >= 1
      BY <2>1, <2>2, <3>1, ValuesOfKey
    <3> QED
      BY <2>2, <3>2, <3>b
  <2>a. PICK n, p, u : /\ n = Cardinality(rows[v]) /\ u = Cardinality(Users(rows[v]))
                       /\ p = Fraction(100 * Cardinality(rows[v]), Cardinality(R))
    OBVIOUS
  <2>5. b[v] = [count |-> n, percent |-> p, users |-> u]
    BY <1>3, <2>a
  <2>6. p = <<100 * h[v], Cardinality(R)>>
    BY <2>2, <2>3, <2>a DEF Fraction
  <2>7. b[v].count = n /\ b[v].percent = p /\ b[v].users = u
    BY <2>5
  <2> QED
    BY <2>2, <2>4, <2>6, <2>7, <2>a
<1>5. DOMAIN b = D
  BY <1>3
<1>6. h = [v \in DOMAIN b |-> b[v].count]
  BY <1>4, <1>5, <1>e
<1>g. PICK k : k = [v \in D |-> 100 * h[v]]
  OBVIOUS
<1>7. SumFunction(k) = 100 * SumFunction(h)
  <2>1. h \in [D -> Int]
    BY <1>4, <1>e
  <2> QED
    BY <1>1, <2>1, <1>g, SumOfHundreds
<1>8. k = [v \in DOMAIN b |-> b[v].percent[1]]
  BY <1>4, <1>5, <1>g
<1>9. \A v \in DOMAIN b : b[v].users \in 1..b[v].count
  BY <1>4, <1>5
<1> QED
  BY <1>2, <1>6, <1>7, <1>8, <1>9, <1>a, <1>f DEF SumOver

\* The three breakdowns by country say the same.
LEMMA CountriesAgree ==
  ASSUME NEW period
  PROVE  /\ GetCountryBreakdown(period) = GetDimensionBreakdown("country", period)
         /\ \A v \in DOMAIN GetCountryCounts(period) :
              GetCountryCounts(period)[v] = GetCountryBreakdown(period)[v].count
<1>a. PICK rows : rows = Group(RowsIn(period), CountryOf)
  BY Zenon
<1>1. \A i : ValueOf("country", i) = CountryOf(i)
  BY DEF ValueOf, CountryOf
<1>2. Group(RowsIn(period), LAMBDA i : ValueOf("country", i)) = rows
  BY <1>1, <1>a DEF Group
<1>3. GetCountryBreakdown(period) =
        [v \in DOMAIN rows |->
           [count   |-> Cardinality(rows[v]),
            percent |-> Fraction(100 * Cardinality(rows[v]), Cardinality(RowsIn(period))),
            users   |-> Cardinality(Users(rows[v]))]]
  BY <1>a, Zenon DEF GetCountryBreakdown
<1>4. GetDimensionBreakdown("country", period) =
        [v \in DOMAIN rows |->
           [count   |-> Cardinality(rows[v]),
            percent |-> Fraction(100 * Cardinality(rows[v]), Cardinality(RowsIn(period))),
            users   |-> Cardinality(Users(rows[v]))]]
  BY <1>2, Zenon DEF GetDimensionBreakdown, Group
<1>5. GetCountryCounts(period) = [v \in DOMAIN rows |-> Cardinality(rows[v])]
  BY <1>a, Zenon DEF GetCountryCounts
<1>6. ASSUME NEW v \in DOMAIN rows
      PROVE  GetCountryBreakdown(period)[v].count = Cardinality(rows[v])
  <2>1. \E p, u : GetCountryBreakdown(period)[v]
                    = [count |-> Cardinality(rows[v]), percent |-> p, users |-> u]
    BY <1>3
  <2> QED
    BY <2>1
<1> QED
  BY <1>3, <1>4, <1>5, <1>6


-------------------------------------------------------------------------------
(* Requests of several calls: what they have when they are under way. *)

\* How many events of s are in E, and whose they are.
Among(s, E) == Cardinality({i \in DOMAIN s : s[i] \in E})
UsersIn(s) == {s[i].user : i \in DOMAIN s}

OfTypes(T) == {e \in Event : e.type \in T}

FirstTypes(n) == {EventTypes[i] : i \in 1..n}

\* The events that a breakdown by pages counts under v.
Valued(v, period) == {e \in Event : InPeriod(e.time, period) /\ OrUnknown(e.page) = v}

\* n was m, before c events came and d went.
Near(n, m, c, d) == n \in (m - c)..(m + d)

\* The counts so far are those of the types so far.
TypesCounted(s, got, c, d) ==
  /\ \A i \in DOMAIN got : got[i] \in Nat
  /\ Near(SumFunction(got), Among(s, OfTypes(FirstTypes(Len(got)))), c, d)

\* A type is counted first, and listed next.
TypeCounted(s, type, count, c, d) ==
  count \in Nat /\ Near(count, Among(s, OfTypes({type})), c, d)

TypeListed(count, listed, c, d) ==
  /\ listed.users \in Nat /\ listed.pages \in Nat
  /\ listed.users <= count + c /\ listed.pages <= count + c
  /\ listed.users = 0 => count <= d

TypesListed(s, got, c, d) ==
  \A i \in DOMAIN EventTypes :
    /\ 2 * i - 1 <= Len(got) => TypeCounted(s, EventTypes[i], got[2 * i - 1], c, d)
    /\ 2 * i <= Len(got) => TypeListed(got[2 * i - 1], got[2 * i], c, d)

\* All users are counted before those of today.
UsersCounted(s, got, c) ==
  /\ Len(got) >= 2 => got[2] \in Nat /\ Cardinality(UsersIn(s)) <= got[2] + c
  /\ Len(got) >= 4 => got[4] \in Nat /\ got[4] <= got[2] + c

\* What the first breakdown counted is there, or was deleted since.
ValueCounted(s, v, count, d, period) ==
  count \in Nat \ {0} /\ count <= Among(s, Valued(v, period)) + d

ValuesCompared(b1, b2, d) ==
  \A v \in DOMAIN b1 \cap DOMAIN b2 : b2[v].count \in Nat /\ b1[v].count <= b2[v].count + d

ValuesCounted(s, got, d, p, q) ==
  /\ Len(got) >= 1 => \A v \in DOMAIN got[1] : ValueCounted(s, v, got[1][v].count, d, p)
  /\ Len(got) >= 2 /\ Within(p, q) => ValuesCompared(got[1], got[2], d)

Answered(name, plan, got, c, d) ==
  /\ name \in {"breakdown", "distribution"} => TypesCounted(listing, got, c, d)
  /\ name = "stats" => TypesListed(listing, got, c, d)
  /\ name = "overall" => UsersCounted(listing, got, c)
  /\ name = "compare" => ValuesCounted(listing, got, d, plan[1].period, plan[2].period)

\* A request is under way by one of the plans, and has some of the answers.
UnderWay(plan, got, c, d) ==
  request = [name |-> plan[1], plan |-> plan[2], got |-> got, created |-> c, deleted |-> d]

Started ==
  \/ request = NoRequest
  \/ \E plan \in Plans, c \in Nat, d \in Nat : \E S : \E got \in Seq(S) :
       /\ UnderWay(plan, got, c, d)
       /\ Len(got) <= Len(plan[2])
       /\ Answered(plan[1], plan[2], got, c, d)

-------------------------------------------------------------------------------
(* An event that comes, and one that goes. *)

\* An event made s to t, and c and d to ct and dt.
Moved(s, c, d, t, ct, dt) ==
  \/ /\ ct = c + 1 /\ dt = d
     /\ \A E : Among(t, E) \in Among(s, E)..(Among(s, E) + 1)
     /\ Cardinality(UsersIn(t)) <= Cardinality(UsersIn(s)) + 1
  \/ /\ ct = c /\ dt = d + 1
     /\ \A E : Among(t, E) \in (Among(s, E) - 1)..Among(s, E)
     /\ Cardinality(UsersIn(t)) <= Cardinality(UsersIn(s))

\* What is counted of a sequence is finite.
LEMMA SeqFinite ==
  ASSUME NEW X, NEW s \in Seq(X)
  PROVE  /\ IsFiniteSet(DOMAIN s) /\ IsFiniteSet(UsersIn(s)) /\ Cardinality(UsersIn(s)) \in Nat
         /\ \A E : IsFiniteSet({i \in DOMAIN s : s[i] \in E}) /\ Among(s, E) \in Nat
<1>1. DOMAIN s = 1..Len(s) /\ Len(s) \in Nat
  OBVIOUS
<1>2. IsFiniteSet(DOMAIN s)
  BY <1>1, FS_Interval
<1>3. \A E : IsFiniteSet({i \in DOMAIN s : s[i] \in E}) /\ Among(s, E) \in Nat
  <2> SUFFICES ASSUME NEW E
               PROVE  IsFiniteSet({i \in DOMAIN s : s[i] \in E}) /\ Among(s, E) \in Nat
    OBVIOUS
  <2>a. PICK A : A = {i \in DOMAIN s : s[i] \in E}
    OBVIOUS
  <2>1. IsFiniteSet(A)
    BY <1>2, <2>a, FS_Subset
  <2> QED
    BY <2>1, <2>a, FS_CardinalityType DEF Among
<1>a. PICK user : user = [i \in DOMAIN s |-> s[i].user]
  OBVIOUS
<1>b. PICK T : T = UsersIn(s)
  OBVIOUS
<1>4. T = {user[i] : i \in DOMAIN s}
  BY <1>a, <1>b DEF UsersIn
<1>5. IsFiniteSet(T) /\ Cardinality(T) \in Nat
  BY <1>2, <1>4, ValuesOfKey
<1> QED
  BY <1>2, <1>3, <1>5, <1>b

\* An event that comes moves every count by at most one,
LEMMA OneComes ==
  ASSUME NEW s \in Seq(Event), NEW e \in Event, NEW c, NEW d
  PROVE  Moved(s, c, d, Append(s, e), c + 1, d)
<1>a. PICK t, n : t = Append(s, e) /\ n = Len(s) + 1
  OBVIOUS
<1>1. /\ t \in Seq(Event) /\ DOMAIN t = DOMAIN s \cup {n} /\ n \notin DOMAIN s
      /\ t[n] = e /\ \A i \in DOMAIN s : t[i] = s[i]
  <2>1. Len(s) \in Nat /\ DOMAIN s = 1..Len(s)
    OBVIOUS
  <2>2. t \in Seq(Event) /\ Len(t) = n /\ DOMAIN t = 1..n
        /\ t[n] = e /\ \A i \in 1..Len(s) : t[i] = s[i]
    BY <1>a, AppendProperties
  <2>3. 1..n = (1..Len(s)) \cup {n} /\ n \notin 1..Len(s)
    BY <1>a, <2>1
  <2> QED
    BY <2>1, <2>2, <2>3
<1>2. ASSUME NEW E
      PROVE  Among(t, E) \in Among(s, E)..(Among(s, E) + 1)
  <2>a. PICK A, B : A = {i \in DOMAIN s : s[i] \in E} /\ B = {i \in DOMAIN t : t[i] \in E}
    OBVIOUS
  <2>1. IsFiniteSet(A) /\ Among(s, E) \in Nat /\ Cardinality(A) = Among(s, E)
    BY <2>a, SeqFinite DEF Among
  <2>2. B = A \/ B = A \cup {n}
    BY <1>1, <2>a
  <2>3. Cardinality(A \cup {n}) \in Cardinality(A)..(Cardinality(A) + 1)
    <3>1. Cardinality(A \cup {n}) = IF n \in A THEN Cardinality(A) ELSE Cardinality(A) + 1
      BY <2>1, FS_AddElement
    <3> QED
      BY <2>1, <3>1
  <2>4. Among(t, E) = Cardinality(B)
    BY <2>a DEF Among
  <2>5. Cardinality(B) \in Cardinality(A)..(Cardinality(A) + 1)
    <3>1. Cardinality(A) \in Cardinality(A)..(Cardinality(A) + 1)
      BY <2>1
    <3> QED
      BY <2>2, <2>3, <3>1
  <2> QED
    BY <2>1, <2>4, <2>5
<1>3. Cardinality(UsersIn(t)) <= Cardinality(UsersIn(s)) + 1
  <2>1. UsersIn(t) = UsersIn(s) \cup {e.user}
    BY <1>1 DEF UsersIn
  <2>2. IsFiniteSet(UsersIn(s)) /\ Cardinality(UsersIn(s)) \in Nat
    BY SeqFinite
  <2>a. PICK U : U = UsersIn(s)
    OBVIOUS
  <2>3. Cardinality(U \cup {e.user}) = IF e.user \in U THEN Cardinality(U) ELSE Cardinality(U) + 1
    BY <2>2, <2>a, FS_AddElement
  <2> QED
    BY <2>1, <2>2, <2>3, <2>a
<1> QED
  BY <1>2, <1>3, <1>a DEF Moved

\* and so does an event that goes.
LEMMA OneGoes ==
  ASSUME NEW s \in Seq(Event), NEW p \in DOMAIN s, NEW c, NEW d
  PROVE  /\ RemoveAt(s, p) \in Seq(Event) /\ Len(RemoveAt(s, p)) = Len(s) - 1
         /\ Moved(s, c, d, RemoveAt(s, p), c, d + 1)
<1>a. PICK t : t = RemoveAt(s, p)
  OBVIOUS
<1>0. /\ Len(s) \in Nat /\ p \in 1..Len(s) /\ DOMAIN s = 1..Len(s)
      /\ p \in Int /\ 1 <= p /\ p <= Len(s)
  OBVIOUS
<1>1. /\ t \in Seq(Event) /\ Len(t) = Len(s) - 1
      /\ \A i \in 1..(Len(s) - 1) : t[i] = IF i < p THEN s[i] ELSE s[i + 1]
  <2>a. PICK a, b : a = SubSeq(s, 1, p - 1) /\ b = SubSeq(s, p + 1, Len(s))
    OBVIOUS
  <2>1. /\ a \in Seq(Event) /\ Len(a) = p - 1 /\ \A i \in 1..(p - 1) : a[i] = s[i]
        /\ b \in Seq(Event) /\ Len(b) = Len(s) - p /\ \A i \in 1..(Len(s) - p) : b[i] = s[p + i]
    <3>1. a \in Seq(Event) /\ Len(a) = p - 1 /\ \A i \in 1..(p - 1) : a[i] = s[i]
      BY <1>0, <2>a, SubSeqProperties
    <3>2. b \in Seq(Event) /\ Len(b) = Len(s) - p /\ \A i \in 1..(Len(s) - p) : b[i] = s[p + i]
      BY <1>0, <2>a, SubSeqProperties
    <3> QED
      BY <3>1, <3>2
  <2>2. t = a \o b
    BY <1>a, <2>a DEF RemoveAt
  <2>3. t \in Seq(Event) /\ Len(t) = Len(a) + Len(b)
    BY <2>1, <2>2, ConcatProperties
  <2>4. Len(a) + Len(b) = Len(s) - 1
    BY <1>0, <2>1
  <2>5. ASSUME NEW i \in 1..(Len(s) - 1)
        PROVE  t[i] = IF i < p THEN s[i] ELSE s[i + 1]
    <3>0. i \in 1..(Len(a) + Len(b))
      BY <2>4, <2>5
    <3>1. t[i] = IF i <= Len(a) THEN a[i] ELSE b[i - Len(a)]
      <4>1. a \in Seq(Event) /\ b \in Seq(Event)
        BY <2>1
      <4>2. \A j \in 1..(Len(a) + Len(b)) :
              (a \o b)[j] = IF j <= Len(a) THEN a[j] ELSE b[j - Len(a)]
        BY <4>1, ConcatProperties
      <4> QED
        BY <2>2, <3>0, <4>2
    <3>2. CASE i < p
      <4>1. i <= Len(a) /\ i \in 1..(p - 1)
        BY <1>0, <2>1, <3>2
      <4> QED
        BY <2>1, <3>1, <3>2, <4>1
    <3>3. CASE ~(i < p)
      <4>1. /\ ~(i <= Len(a)) /\ i - Len(a) \in 1..(Len(s) - p)
            /\ p + (i - Len(a)) = i + 1
        BY <1>0, <2>1, <3>3
      <4>2. b[i - Len(a)] = s[i + 1]
        BY <2>1, <4>1
      <4> QED
        BY <3>1, <3>3, <4>1, <4>2
    <3> QED
      BY <3>2, <3>3
  <2> QED
    BY <2>3, <2>4, <2>5
<1>2. DOMAIN t = 1..(Len(s) - 1)
  BY <1>1
<1>3. ASSUME NEW E
      PROVE  Among(t, E) \in (Among(s, E) - 1)..Among(s, E)
  <2>a. PICK A, B : A = {i \in DOMAIN s : s[i] \in E} /\ B = {i \in DOMAIN t : t[i] \in E}
    OBVIOUS
  <2>b. PICK back : back = [i \in B |-> IF i < p THEN i ELSE i + 1]
    OBVIOUS
  <2>1. IsFiniteSet(A) /\ Among(s, E) \in Nat /\ Cardinality(A) = Among(s, E)
    BY <2>a, SeqFinite DEF Among
  <2>2. back \in Bijection(B, A \ {p})
    <3>1. ASSUME NEW i \in B
          PROVE  back[i] \in A \ {p}
      BY <1>0, <1>1, <1>2, <2>a, <2>b
    <3>2. ASSUME NEW j \in A \ {p}
          PROVE  \E i \in B : back[i] = j
      <4>1. CASE j < p
        <5>1. j \in B
          BY <1>0, <1>1, <1>2, <2>a, <4>1
        <5> QED
          BY <2>b, <4>1, <5>1
      <4>2. CASE ~(j < p)
        <5>1. j - 1 \in 1..(Len(s) - 1) /\ ~(j - 1 < p) /\ (j - 1) + 1 = j
          BY <1>0, <2>a, <4>2
        <5>2. j - 1 \in B
          BY <1>1, <1>2, <2>a, <5>1
        <5> QED
          BY <2>b, <5>1, <5>2
      <4> QED
        BY <4>1, <4>2
    <3>3. ASSUME NEW i \in B, NEW j \in B, back[i] = back[j]
          PROVE  i = j
      <4>1. i \in Int /\ j \in Int
        BY <1>0, <1>2, <2>a
      <4> QED
        BY <1>0, <2>b, <3>3, <4>1
    <3>4. back \in [B -> A \ {p}]
      BY <2>b, <3>1
    <3>5. back \in Injection(B, A \ {p})
      BY <3>3, <3>4 DEF Injection, IsInjective
    <3>6. back \in Surjection(B, A \ {p})
      BY <3>2, <3>4 DEF Surjection
    <3> QED
      BY <3>5, <3>6 DEF Bijection
  <2>3. IsFiniteSet(A \ {p}) /\ Cardinality(A \ {p}) \in (Cardinality(A) - 1)..Cardinality(A)
    <3>1. /\ IsFiniteSet(A \ {p})
          /\ Cardinality(A \ {p}) = IF p \in A THEN Cardinality(A) - 1 ELSE Cardinality(A)
      BY <2>1, FS_RemoveElement
    <3> QED
      BY <2>1, <3>1
  <2>4. Cardinality(B) = Cardinality(A \ {p})
    <3>1. IsFiniteSet(B)
      BY <1>1, <2>a, SeqFinite
    <3>2. ExistsBijection(B, A \ {p})
      BY <2>2 DEF ExistsBijection
    <3> QED
      BY <3>1, <3>2, FS_Bijection
  <2> QED
    BY <2>1, <2>3, <2>4, <2>a DEF Among
<1>4. Cardinality(UsersIn(t)) <= Cardinality(UsersIn(s))
  <2>1. UsersIn(t) \in SUBSET UsersIn(s)
    BY <1>0, <1>1, <1>2 DEF UsersIn
  <2> QED
    BY <2>1, SeqFinite, FS_Subset
<1> QED
  BY <1>1, <1>3, <1>4, <1>a DEF Moved

-------------------------------------------------------------------------------
(* What a request has stays so near when an event comes or goes. *)

\* What was near a count stays near it, with the change counted.
LEMMA NearMoved ==
  ASSUME NEW s \in Seq(Event), NEW t \in Seq(Event), NEW c \in Nat, NEW d \in Nat,
         NEW ct, NEW dt, Moved(s, c, d, t, ct, dt)
  PROVE  /\ ct \in Nat /\ dt \in Nat /\ c <= ct /\ d <= dt
         /\ \A E : \A n \in Int : Near(n, Among(s, E), c, d) => Near(n, Among(t, E), ct, dt)
         /\ \A E : Among(s, E) + d <= Among(t, E) + dt
         /\ Cardinality(UsersIn(t)) + c <= Cardinality(UsersIn(s)) + ct
<1>1. ct \in Nat /\ dt \in Nat /\ c <= ct /\ d <= dt
  BY DEF Moved
<1>2. ASSUME NEW E
      PROVE  /\ \A n \in Int : Near(n, Among(s, E), c, d) => Near(n, Among(t, E), ct, dt)
             /\ Among(s, E) + d <= Among(t, E) + dt
  <2>1. Among(s, E) \in Nat /\ Among(t, E) \in Nat
    BY SeqFinite
  <2>2. \/ ct = c + 1 /\ dt = d /\ Among(t, E) \in Among(s, E)..(Among(s, E) + 1)
        \/ ct = c /\ dt = d + 1 /\ Among(t, E) \in (Among(s, E) - 1)..Among(s, E)
    BY DEF Moved
  <2> QED
    BY <2>1, <2>2 DEF Near
<1>3. Cardinality(UsersIn(t)) + c <= Cardinality(UsersIn(s)) + ct
  <2>1. Cardinality(UsersIn(s)) \in Nat /\ Cardinality(UsersIn(t)) \in Nat
    BY SeqFinite
  <2>2. \/ ct = c + 1 /\ Cardinality(UsersIn(t)) <= Cardinality(UsersIn(s)) + 1
        \/ ct = c /\ Cardinality(UsersIn(t)) <= Cardinality(UsersIn(s))
    BY DEF Moved
  <2> QED
    BY <2>1, <2>2
<1> QED
  BY <1>1, <1>2, <1>3

\* The total of a list of counts.
LEMMA TotalIs ==
  ASSUME NEW s \in Seq(Nat)
  PROVE  SumFunction(s) \in Int
<1>1. s \in [1..Len(s) -> Int] /\ Len(s) \in Nat
  OBVIOUS
<1>2. IsFiniteSet(1..Len(s))
  BY <1>1, FS_Interval
<1>3. \A i \in 1..Len(s) : s[i] <= s[i]
  BY <1>1
<1>a. PICK D : D = 1..Len(s)
  OBVIOUS
<1> QED
  BY <1>1, <1>2, <1>3, <1>a, SumsInOrder

\* So what the answers of each kind of request are worth is kept.
LEMMA AnsweredMoved ==
  ASSUME NEW s \in Seq(Event), NEW t \in Seq(Event), NEW c \in Nat, NEW d \in Nat,
         NEW ct, NEW dt, Moved(s, c, d, t, ct, dt), NEW X, NEW got \in Seq(X)
  PROVE  /\ TypesCounted(s, got, c, d) => TypesCounted(t, got, ct, dt)
         /\ TypesListed(s, got, c, d) => TypesListed(t, got, ct, dt)
         /\ UsersCounted(s, got, c) => UsersCounted(t, got, ct)
         /\ \A p, q : ValuesCounted(s, got, d, p, q) => ValuesCounted(t, got, dt, p, q)
<1>0. /\ ct \in Nat /\ dt \in Nat /\ c <= ct /\ d <= dt
      /\ \A E : \A n \in Int : Near(n, Among(s, E), c, d) => Near(n, Among(t, E), ct, dt)
      /\ \A E : Among(s, E) + d <= Among(t, E) + dt
      /\ Cardinality(UsersIn(t)) + c <= Cardinality(UsersIn(s)) + ct
  BY NearMoved
<1>1. ASSUME TypesCounted(s, got, c, d)
      PROVE  TypesCounted(t, got, ct, dt)
  <2>1. got \in Seq(Nat)
    BY <1>1 DEF TypesCounted
  <2>2. SumFunction(got) \in Int
    BY <2>1, TotalIs
  <2> QED
    BY <1>0, <1>1, <2>2 DEF TypesCounted
<1>2. ASSUME TypesListed(s, got, c, d)
      PROVE  TypesListed(t, got, ct, dt)
  <2> SUFFICES ASSUME NEW i \in DOMAIN EventTypes
               PROVE  /\ 2 * i - 1 <= Len(got) => TypeCounted(t, EventTypes[i], got[2 * i - 1], ct, dt)
                      /\ 2 * i <= Len(got) => TypeListed(got[2 * i - 1], got[2 * i], ct, dt)
    BY DEF TypesListed
  <2>a. PICK n, l : n = got[2 * i - 1] /\ l = got[2 * i]
    OBVIOUS
  <2>b. i \in Nat /\ i >= 1
    BY DEF EventTypes
  <2>1. 2 * i - 1 <= Len(got) => TypeCounted(t, EventTypes[i], n, ct, dt)
    <3>a. PICK E : E = OfTypes({EventTypes[i]})
      OBVIOUS
    <3>1. 2 * i - 1 <= Len(got) => n \in Nat /\ Near(n, Among(s, E), c, d)
      BY <1>2, <2>a, <3>a DEF TypesListed, TypeCounted
    <3>2. n \in Nat => n \in Int
      OBVIOUS
    <3> QED
      BY <1>0, <3>1, <3>2, <3>a DEF TypeCounted
  <2>2. ASSUME 2 * i <= Len(got)
        PROVE  TypeListed(n, l, ct, dt)
    <3>1. 2 * i - 1 <= Len(got)
      BY <2>2, <2>b
    <3>2. TypeCounted(s, EventTypes[i], n, c, d) /\ TypeListed(n, l, c, d)
      BY <1>2, <2>2, <3>1, <2>a DEF TypesListed
    <3>3. n \in Nat
      BY <3>2 DEF TypeCounted
    <3> QED
      BY <1>0, <3>2, <3>3 DEF TypeListed
  <2> QED
    BY <2>1, <2>2, <2>a
<1>3. ASSUME UsersCounted(s, got, c)
      PROVE  UsersCounted(t, got, ct)
  <2>1. Cardinality(UsersIn(s)) \in Nat /\ Cardinality(UsersIn(t)) \in Nat
    BY SeqFinite
  <2>a. PICK m, n, a, b : m = Cardinality(UsersIn(s)) /\ n = Cardinality(UsersIn(t))
                          /\ a = got[2] /\ b = got[4]
    OBVIOUS
  <2>2. m \in Nat /\ n \in Nat /\ n + c <= m + ct
    BY <1>0, <2>1, <2>a
  <2>3. c \in Nat /\ ct \in Nat /\ c <= ct
    BY <1>0
  <2>4. ASSUME Len(got) >= 2
        PROVE  a \in Nat /\ n <= a + ct
    <3>1. a \in Nat /\ m <= a + c
      BY <1>3, <2>4, <2>a DEF UsersCounted
    <3> QED
      BY <2>2, <2>3, <3>1
  <2>5. ASSUME Len(got) >= 4
        PROVE  b \in Nat /\ b <= a + ct
    <3>1. b \in Nat /\ b <= a + c
      BY <1>3, <2>5, <2>a DEF UsersCounted
    <3>2. a \in Nat
      <4>1. Len(got) >= 2
        BY <2>5, LenProperties
      <4> QED
        BY <2>4, <4>1
    <3> QED
      BY <2>3, <3>1, <3>2
  <2> QED
    BY <2>4, <2>5, <2>a DEF UsersCounted
<1>4. ASSUME NEW p, NEW q, ValuesCounted(s, got, d, p, q)
      PROVE  ValuesCounted(t, got, dt, p, q)
  <2>1. ASSUME Len(got) >= 1, NEW v \in DOMAIN got[1]
        PROVE  ValueCounted(t, v, got[1][v].count, dt, p)
    <3>a. PICK n, E : n = got[1][v].count /\ E = Valued(v, p)
      OBVIOUS
    <3>1. n \in Nat \ {0} /\ n <= Among(s, E) + d
      BY <1>4, <2>1, <3>a DEF ValuesCounted, ValueCounted
    <3>2. Among(s, E) \in Nat /\ Among(t, E) \in Nat /\ Among(s, E) + d <= Among(t, E) + dt
      BY <1>0, SeqFinite
    <3> QED
      BY <1>0, <3>1, <3>2, <3>a DEF ValueCounted
  <2>2. ASSUME Len(got) >= 2, Within(p, q), NEW v \in DOMAIN got[1] \cap DOMAIN got[2]
        PROVE  got[2][v].count \in Nat /\ got[1][v].count <= got[2][v].count + dt
    <3>a. PICK m, n : m = got[1][v].count /\ n = got[2][v].count
      OBVIOUS
    <3>1. n \in Nat /\ m <= n + d
      BY <1>4, <2>2, <3>a DEF ValuesCounted, ValuesCompared
    <3>2. m \in Nat
      <4>1. Len(got) >= 1
        BY <2>2
      <4> QED
        BY <1>4, <2>2, <3>a, <4>1 DEF ValuesCounted, ValueCounted
    <3>3. m <= n + dt
      BY <1>0, <3>1, <3>2
    <3> QED
      BY <3>1, <3>3, <3>a
  <2> QED
    BY <2>1, <2>2 DEF ValuesCounted, ValuesCompared
<1> QED
  BY <1>1, <1>2, <1>3, <1>4

-------------------------------------------------------------------------------
(* The next answer. *)

\* The total of the answers grows by the next answer.
LEMMA TotalOfAppend ==
  ASSUME NEW s \in Seq(Nat), NEW x \in Nat
  PROVE  SumFunction(Append(s, x)) = SumFunction(s) + x
<1>a. PICK t, n : t = Append(s, x) /\ n = Len(s)
  OBVIOUS
<1>b. PICK S, T : S = 1..n /\ T = 1..(n + 1)
  OBVIOUS
<1>1. /\ n \in Nat /\ s \in [S -> Int] /\ t \in [T -> Int] /\ t[n + 1] = x
      /\ \A i \in S : t[i] = s[i]
  <2>1. /\ n \in Nat /\ t \in Seq(Nat) /\ Len(t) = n + 1 /\ t[n + 1] = x
        /\ \A i \in 1..n : t[i] = s[i]
    BY <1>a, AppendProperties
  <2>2. \A r \in Seq(Nat) : r \in [1..Len(r) -> Int]
    OBVIOUS
  <2>3. s \in [S -> Int]
    BY <1>a, <1>b, <2>2
  <2>4. t \in [T -> Int]
    BY <1>b, <2>1, <2>2
  <2> QED
    BY <1>b, <2>1, <2>3, <2>4
<1>2. /\ IsFiniteSet(S) /\ IsFiniteSet(T) /\ S \in SUBSET T /\ n + 1 \in T /\ T \ {n + 1} = S
  <2>1. 1 \in Int /\ n \in Int /\ n + 1 \in Int
    BY <1>1
  <2>2. IsFiniteSet(S) /\ IsFiniteSet(T)
    BY <1>b, <2>1, FS_Interval
  <2> QED
    BY <1>1, <1>b, <2>2
<1>3. PICK f : IsSum(f, s, S) /\ SumFunction(s) = f[S]
  BY <1>1, <1>2, SumFunctionIs
<1>4. PICK g : IsSum(g, t, T) /\ SumFunction(t) = g[T]
  BY <1>1, <1>2, SumFunctionIs
<1>5. SumsUp(f, s, S) /\ SumsUp(g, t, T)
  BY <1>1, <1>2, <1>3, <1>4, SumAnyOrder
<1> DEFINE Q == {R \in SUBSET S : f[R] = g[R]}
<1>6. {} \in Q
  BY <1>5 DEF SumsUp
<1>7. ASSUME NEW R \in SUBSET S, R # {}, \A i \in R : R \ {i} \in Q
      PROVE  R \in Q
  <2> PICK i \in R : TRUE
    BY <1>7
  <2>1. f[R] = s[i] + f[R \ {i}] /\ g[R] = t[i] + g[R \ {i}]
    BY <1>2, <1>5 DEF SumsUp
  <2>2. f[R \ {i}] = g[R \ {i}] /\ s[i] = t[i]
    BY <1>1, <1>7
  <2> QED
    BY <2>1, <2>2
<1>8. Inductive(Q, S)
  BY <1>6, <1>7 DEF Inductive
<1>9. S \in Q
  <2> HIDE DEF Q
  <2> QED
    BY <1>2, <1>8, SubsetInduction
<1>10. g[T] = x + g[S] /\ g[S] = f[S] /\ g[S] \in Int
  BY <1>1, <1>2, <1>5, <1>9 DEF SumsUp
<1> QED
  BY <1>3, <1>4, <1>10, <1>a

\* The answer to a count of one type is the number of its events in the listing.
LEMMA CountIs ==
  ASSUME Listed, NEW type
  PROVE  EventCountByType(type, Always) = Among(listing, OfTypes({type}))
<1>1. \A i \in DOMAIN listing : listing[i] \in Event
  BY DEF Listed
<1>2. RowsOf(type, Always) = {i \in DOMAIN listing : listing[i] \in OfTypes({type})}
  BY <1>1 DEF RowsOf, RowsIn, Always, InPeriod, OfTypes
<1> QED
  BY <1>2 DEF EventCountByType, Among

\* A list of one type names no more users and no more pages than it has events.
LEMMA ListIs ==
  ASSUME Listed, NEW type, NEW a, a = AnswerTo(ListOf(type))
  PROVE  /\ a.users \in Nat /\ a.users <= EventCountByType(type, Always)
         /\ a.pages \in Nat /\ a.pages <= EventCountByType(type, Always)
         /\ a.users = 0 => EventCountByType(type, Always) = 0
<1>a. PICK S : S = RowsOf(type, Always)
  OBVIOUS
<1>b. PICK u, p : u = Users(S) /\ p = PagesOn(S)
  OBVIOUS
<1>c. PICK user, page : /\ user = [i \in S |-> listing[i].user]
                        /\ page = [i \in S |-> listing[i].page]
  OBVIOUS
<1>1. IsFiniteSet(S) /\ EventCountByType(type, Always) = Cardinality(S)
  BY <1>a, RowsOfTypes, RowsFinite DEF EventCountByType
<1>2. a.users = Cardinality(u) /\ a.pages = Cardinality(p)
  <2>1. \E d : a = [users |-> Cardinality(u), pages |-> Cardinality(p), duration |-> d]
    BY <1>a, <1>b DEF AnswerTo, ListOf
  <2> QED
    BY <2>1
<1>3. u = {user[i] : i \in S} /\ p = {page[i] : i \in S}
  BY <1>b, <1>c DEF Users, PagesOn
<1>4. /\ Cardinality(u) \in Nat /\ Cardinality(u) <= Cardinality(S)
      /\ S # {} => Cardinality(u) >= 1
  BY <1>1, <1>3, ValuesOfKey
<1>5. Cardinality(p) \in Nat /\ Cardinality(p) <= Cardinality(S)
  BY <1>1, <1>3, ValuesOfKey
<1>6. Cardinality(u) = 0 => Cardinality(S) = 0
  <2>1. S = {} => Cardinality(S) = 0
    BY FS_EmptySet
  <2> QED
    BY <1>4, <2>1
<1> QED
  BY <1>1, <1>2, <1>4, <1>5, <1>6

\* The users of a period are among those of the listing.
LEMMA UsersAre ==
  ASSUME Listed, NEW period
  PROVE  /\ UniqueUsersCount(period) \in Nat
         /\ UniqueUsersCount(period) <= Cardinality(UsersIn(listing))
         /\ UniqueUsersCount(Always) = Cardinality(UsersIn(listing))
<1>1. \A p : Users(RowsIn(p)) \in SUBSET UsersIn(listing)
  BY DEF Users, RowsIn, UsersIn
<1>2. Users(RowsIn(Always)) = UsersIn(listing)
  BY DEF Users, RowsIn, UsersIn, Always, InPeriod
<1>3. IsFiniteSet(UsersIn(listing))
  BY SeqFinite DEF Listed
<1>a. PICK A, B : A = Users(RowsIn(period)) /\ B = UsersIn(listing)
  OBVIOUS
<1>4. Cardinality(A) \in Nat /\ Cardinality(A) <= Cardinality(B)
  <2>1. A \in SUBSET B /\ IsFiniteSet(B)
    BY <1>1, <1>3, <1>a
  <2>2. IsFiniteSet(A) /\ Cardinality(A) <= Cardinality(B)
    BY <2>1, FS_Subset
  <2> QED
    BY <2>2, FS_CardinalityType
<1> QED
  BY <1>2, <1>4, <1>a DEF UniqueUsersCount

\* A breakdown counts the events of each value that it shows, and shows no empty one.
LEMMA BreakdownIs ==
  ASSUME Listed, NEW period, NEW b, b = GetDimensionBreakdown("page", period), NEW v \in DOMAIN b
  PROVE  b[v].count \in Nat \ {0} /\ b[v].count = Among(listing, Valued(v, period))
<1>a. PICK R : R = RowsIn(period)
  OBVIOUS
<1>b. PICK D : D = {ValueOf("page", i) : i \in R}
  OBVIOUS
<1>c. PICK rows : rows = [w \in D |-> {i \in R : ValueOf("page", i) = w}]
  OBVIOUS
<1>1. Group(R, LAMBDA i : ValueOf("page", i)) = rows /\ DOMAIN rows = D
  BY <1>b, <1>c DEF Group
<1>2. b = [w \in D |->
             [count   |-> Cardinality(rows[w]),
              percent |-> Fraction(100 * Cardinality(rows[w]), Cardinality(R)),
              users   |-> Cardinality(Users(rows[w]))]]
  <2>1. b = [w \in DOMAIN rows |->
               [count   |-> Cardinality(rows[w]),
                percent |-> Fraction(100 * Cardinality(rows[w]), Cardinality(R)),
                users   |-> Cardinality(Users(rows[w]))]]
    BY <1>1, <1>a, Zenon DEF GetDimensionBreakdown, Group
  <2> QED
    BY <1>1, <2>1
<1>3. v \in D
  BY <1>2
<1>4. b[v].count = Cardinality(rows[v])
  <2>1. \E p, u : b[v] = [count |-> Cardinality(rows[v]), percent |-> p, users |-> u]
    BY <1>2, <1>3
  <2> QED
    BY <2>1
<1>5. rows[v] = {i \in R : ValueOf("page", i) = v} /\ rows[v] # {}
  BY <1>3, <1>b, <1>c
<1>6. Cardinality(rows[v]) \in Nat \ {0}
  <2>1. IsFiniteSet(rows[v]) /\ Cardinality(rows[v]) \in Nat
    BY <1>5, <1>a, RowsOfTypes, RowsFinite
  <2> QED
    BY <1>5, <2>1, FS_EmptySet
<1>7. rows[v] = {i \in DOMAIN listing : listing[i] \in Valued(v, period)}
  <2>1. \A i \in DOMAIN listing : listing[i] \in Event
    BY DEF Listed
  <2>2. \A i \in DOMAIN listing :
          (i \in R /\ ValueOf("page", i) = v) <=> listing[i] \in Valued(v, period)
    BY <1>a, <2>1 DEF RowsIn, ValueOf, Valued
  <2>3. R \subseteq DOMAIN listing
    BY <1>a DEF RowsIn
  <2> QED
    BY <1>5, <2>2, <2>3
<1> QED
  BY <1>4, <1>6, <1>7 DEF Among

-------------------------------------------------------------------------------
(* The answers to the questions of each plan. *)

\* The five types are different ones.
LEMMA TypesFacts ==
  /\ DOMAIN EventTypes = 1..5 /\ Len(EventTypes) = 5
  /\ \A i, j \in 1..5 : i # j => EventTypes[i] # EventTypes[j]
  /\ FirstTypes(5) = ToSet(EventTypes)
  /\ FirstTypes(4) = ToSet(EventTypes) \ {"custom"}
<1>1. DOMAIN EventTypes = 1..5 /\ Len(EventTypes) = 5
  BY DEF EventTypes
<1>2. \A i, j \in 1..5 : i # j => EventTypes[i] # EventTypes[j]
  BY DEF EventTypes
<1>3. FirstTypes(5) = ToSet(EventTypes)
  BY <1>1 DEF FirstTypes, ToSet
<1>4. FirstTypes(4) = ToSet(EventTypes) \ {"custom"}
  <2>1. 1..5 = (1..4) \cup {5} /\ EventTypes[5] = "custom"
    BY DEF EventTypes
  <2> QED
    BY <1>1, <1>2, <2>1 DEF FirstTypes, ToSet
<1> QED
  BY <1>1, <1>2, <1>3, <1>4

\* Events of different types are counted apart.
LEMMA AmongTypes ==
  ASSUME NEW s \in Seq(Event), NEW T, NEW type, type \notin T
  PROVE  Among(s, OfTypes(T \cup {type})) = Among(s, OfTypes(T)) + Among(s, OfTypes({type}))
<1>a. PICK A, B, C : /\ A = {i \in DOMAIN s : s[i] \in OfTypes(T)}
                     /\ B = {i \in DOMAIN s : s[i] \in OfTypes({type})}
                     /\ C = {i \in DOMAIN s : s[i] \in OfTypes(T \cup {type})}
  OBVIOUS
<1>1. IsFiniteSet(A) /\ IsFiniteSet(B)
  BY <1>a, SeqFinite
<1>2. C = A \cup B /\ A \cap B = {}
  BY <1>a DEF OfTypes
<1>3. /\ Cardinality(A) = Among(s, OfTypes(T)) /\ Cardinality(B) = Among(s, OfTypes({type}))
      /\ Cardinality(C) = Among(s, OfTypes(T \cup {type}))
  BY <1>a DEF Among
<1>4. Cardinality(A \cup B) = Cardinality(A) + Cardinality(B)
  <2>1. Cardinality(A \cap B) = 0 /\ Cardinality(A) \in Nat /\ Cardinality(B) \in Nat
    BY <1>1, <1>2, FS_EmptySet, FS_CardinalityType
  <2>2. Cardinality(A \cup B) = Cardinality(A) + Cardinality(B) - Cardinality(A \cap B)
    BY <1>1, FS_Union
  <2> QED
    BY <2>1, <2>2
<1> QED
  BY <1>2, <1>3, <1>4

\* One more type is counted.
LEMMA TypesNext ==
  ASSUME Listed, NEW c \in Nat, NEW d \in Nat, NEW X, NEW got \in Seq(X),
         TypesCounted(listing, got, c, d), Len(got) < 5,
         NEW a, a = AnswerTo(Count(EventTypes[Len(got) + 1], Always))
  PROVE  TypesCounted(listing, Append(got, a), c, d)
<1>a. PICK type, n, t : /\ n = Len(got) /\ type = EventTypes[n + 1] /\ t = Append(got, a)
  OBVIOUS
<1>1. got \in Seq(Nat) /\ n \in Nat /\ n < 5
  <2>1. got \in Seq(Nat)
    BY DEF TypesCounted
  <2>2. Len(got) \in Nat /\ Len(got) < 5
    OBVIOUS
  <2> QED
    BY <2>1, <2>2, <1>a
<1>2. a = Among(listing, OfTypes({type}))
  <2>1. a = EventCountByType(type, Always)
    BY <1>a DEF AnswerTo, Count
  <2> QED
    BY <2>1, CountIs
<1>3. a \in Nat
  BY <1>2, SeqFinite DEF Listed
<1>4. t \in Seq(Nat) /\ Len(t) = n + 1 /\ SumFunction(t) = SumFunction(got) + a
  BY <1>1, <1>3, <1>a, AppendProperties, TotalOfAppend
<1>5. FirstTypes(n + 1) = FirstTypes(n) \cup {type} /\ type \notin FirstTypes(n)
  <2>1. 1..(n + 1) = (1..n) \cup {n + 1}
    BY <1>1
  <2>2. \A i \in 1..n : EventTypes[i] # EventTypes[n + 1]
    <3>1. \A i \in 1..n : i \in 1..5 /\ n + 1 \in 1..5 /\ i # n + 1
      BY <1>1
    <3> QED
      BY <3>1, TypesFacts
  <2> QED
    BY <1>a, <2>1, <2>2 DEF FirstTypes
<1>b. PICK N : N = Among(listing, OfTypes(FirstTypes(n)))
  OBVIOUS
<1>6. Among(listing, OfTypes(FirstTypes(n + 1))) = N + a
  BY <1>2, <1>5, <1>b, AmongTypes DEF Listed
<1>7. N \in Nat /\ SumFunction(got) \in Int
  BY <1>1, <1>b, SeqFinite, TotalIs DEF Listed
<1>8. Near(SumFunction(got), N, c, d)
  BY <1>a, <1>b DEF TypesCounted
<1>9. Near(SumFunction(t), N + a, c, d)
  BY <1>3, <1>4, <1>7, <1>8 DEF Near
<1>10. \A i \in DOMAIN t : t[i] \in Nat
  BY <1>4
<1> QED
  BY <1>4, <1>6, <1>9, <1>10, <1>a DEF TypesCounted

\* One more type is counted, or listed.
LEMMA TypesListedNext ==
  ASSUME Listed, NEW c \in Nat, NEW d \in Nat, NEW X, NEW got \in Seq(X),
         TypesListed(listing, got, c, d), Len(got) < 10,
         NEW type, type = EventTypes[(Len(got) + 2) \div 2],
         NEW a, a = AnswerTo(IF (Len(got) + 1) % 2 = 1 THEN Count(type, Always) ELSE ListOf(type))
  PROVE  TypesListed(listing, Append(got, a), c, d)
<1>a. PICK n, t : n = Len(got) /\ t = Append(got, a)
  OBVIOUS
<1>1. /\ n \in Nat /\ n < 10 /\ Len(t) = n + 1 /\ t[n + 1] = a
      /\ \A i \in 1..n : t[i] = got[i]
  <2>a. PICK Y : Y = X \cup {a}
    OBVIOUS
  <2>1. got \in Seq(Y) /\ a \in Y /\ Len(got) \in Nat /\ Len(got) < 10
    BY <2>a
  <2>2. Len(t) = n + 1 /\ t[n + 1] = a /\ \A i \in 1..n : t[i] = got[i]
    BY <1>a, <2>1, AppendProperties
  <2> QED
    BY <1>a, <2>1, <2>2
<1> SUFFICES ASSUME NEW i \in 1..5
             PROVE  /\ 2 * i - 1 <= n + 1 => TypeCounted(listing, EventTypes[i], t[2 * i - 1], c, d)
                    /\ 2 * i <= n + 1 => TypeListed(t[2 * i - 1], t[2 * i], c, d)
  BY <1>1, <1>a, TypesFacts DEF TypesListed
<1>2. i \in Nat /\ i >= 1
  OBVIOUS
<1>b. PICK N : N = Among(listing, OfTypes({EventTypes[i]}))
  OBVIOUS
<1>3. N \in Nat /\ EventCountByType(EventTypes[i], Always) = N
  BY <1>b, CountIs, SeqFinite DEF Listed
<1>4. /\ 2 * i - 1 <= n => TypeCounted(listing, EventTypes[i], t[2 * i - 1], c, d)
      /\ 2 * i <= n => TypeListed(t[2 * i - 1], t[2 * i], c, d)
  <2>1. /\ 2 * i - 1 <= n => TypeCounted(listing, EventTypes[i], got[2 * i - 1], c, d)
        /\ 2 * i <= n => TypeListed(got[2 * i - 1], got[2 * i], c, d)
    BY <1>a, TypesFacts DEF TypesListed
  <2>2. /\ 2 * i - 1 <= n => t[2 * i - 1] = got[2 * i - 1]
        /\ 2 * i <= n => t[2 * i - 1] = got[2 * i - 1] /\ t[2 * i] = got[2 * i]
    BY <1>1, <1>2
  <2> QED
    BY <2>1, <2>2
<1>5. ASSUME 2 * i - 1 = n + 1
      PROVE  TypeCounted(listing, EventTypes[i], t[2 * i - 1], c, d)
  <2>1. (n + 1) % 2 = 1 /\ (n + 2) \div 2 = i
    <3>1. n = 2 * i - 2
      BY <1>1, <1>2, <1>5
    <3> QED
      BY <1>2, <3>1
  <2>2. a = N
    BY <1>3, <1>a, <2>1 DEF AnswerTo, Count
  <2> QED
    BY <1>1, <1>3, <1>5, <1>b, <2>2 DEF TypeCounted, Near
<1>6. ASSUME 2 * i = n + 1
      PROVE  TypeListed(t[2 * i - 1], t[2 * i], c, d)
  <2>1. (n + 1) % 2 # 1 /\ (n + 2) \div 2 = i
    <3>1. n = 2 * i - 1
      BY <1>1, <1>2, <1>6
    <3> QED
      BY <1>2, <3>1
  <2>2. a = AnswerTo(ListOf(EventTypes[i]))
    BY <1>a, <2>1
  <2>3. /\ a.users \in Nat /\ a.users <= N /\ a.pages \in Nat /\ a.pages <= N
        /\ a.users = 0 => N = 0
    BY <1>3, <2>2, ListIs
  <2>a. PICK count : count = t[2 * i - 1]
    OBVIOUS
  <2>4. count \in Nat /\ Near(count, N, c, d)
    <3>1. 2 * i - 1 <= n
      BY <1>1, <1>2, <1>6
    <3> QED
      BY <1>4, <1>b, <2>a, <3>1 DEF TypeCounted
  <2>5. N <= count + c /\ (N = 0 => count <= d)
    BY <1>3, <2>4 DEF Near
  <2>6. a.users <= count + c /\ a.pages <= count + c
    BY <1>3, <2>3, <2>4, <2>5
  <2> QED
    BY <1>1, <1>6, <2>3, <2>5, <2>6, <2>a DEF TypeListed
<1> QED
  BY <1>1, <1>2, <1>4, <1>5, <1>6

\* The users of all time are counted, or those of today.
LEMMA UsersNext ==
  ASSUME Listed, NEW c \in Nat, NEW X, NEW got \in Seq(X), UsersCounted(listing, got, c),
         NEW a, Len(got) = 1 => a = AnswerTo(CountUsers(Always)),
         Len(got) = 3 => a = AnswerTo(CountUsers(Today)), Len(got) < 4
  PROVE  UsersCounted(listing, Append(got, a), c)
<1>a. PICK n, t : n = Len(got) /\ t = Append(got, a)
  OBVIOUS
<1>1. /\ n \in Nat /\ n < 4 /\ Len(t) = n + 1 /\ t[n + 1] = a
      /\ \A i \in 1..n : t[i] = got[i]
  <2>a. PICK Y : Y = X \cup {a}
    OBVIOUS
  <2>1. got \in Seq(Y) /\ a \in Y /\ Len(got) \in Nat /\ Len(got) < 4
    BY <2>a
  <2>2. Len(t) = n + 1 /\ t[n + 1] = a /\ \A i \in 1..n : t[i] = got[i]
    BY <1>a, <2>1, AppendProperties
  <2> QED
    BY <1>a, <2>1, <2>2
<1>b. PICK u : u = Cardinality(UsersIn(listing))
  OBVIOUS
<1>2. u \in Nat
  BY <1>b, SeqFinite DEF Listed
<1>3. n = 1 => a = u
  <2>1. AnswerTo(CountUsers(Always)) = UniqueUsersCount(Always)
    BY DEF AnswerTo, CountUsers
  <2> QED
    BY <1>a, <1>b, <2>1, UsersAre
<1>4. n = 3 => a \in Nat /\ a <= u
  <2>1. AnswerTo(CountUsers(Today)) = UniqueUsersCount(Today)
    BY DEF AnswerTo, CountUsers
  <2> QED
    BY <1>a, <1>b, <2>1, UsersAre
<1>5. n >= 2 => got[2] \in Nat /\ u <= got[2] + c /\ t[2] = got[2]
  <2>1. n >= 2 => 2 \in 1..n
    BY <1>1
  <2> QED
    BY <1>1, <1>a, <1>b, <2>1 DEF UsersCounted
<1>6. n + 1 >= 2 => t[2] \in Nat /\ u <= t[2] + c
  <2>1. CASE n = 1
    BY <1>1, <1>2, <1>3, <2>1
  <2>2. CASE n # 1
    BY <1>1, <1>5, <2>2
  <2> QED
    BY <2>1, <2>2
<1>7. n + 1 >= 4 => t[4] \in Nat /\ t[4] <= t[2] + c
  <2> SUFFICES ASSUME n = 3 PROVE t[4] \in Nat /\ t[4] <= t[2] + c
    BY <1>1
  <2>1. t[4] = a
    BY <1>1
  <2> QED
    BY <1>2, <1>4, <1>6, <2>1
<1> QED
  BY <1>1, <1>6, <1>7, <1>a, <1>b DEF UsersCounted

\* A period has the events of one that is part of it.
LEMMA WithinHolds ==
  ASSUME NEW s \in Seq(Event), NEW p \in Nat \X Nat, NEW q \in Nat \X Nat, Within(p, q), NEW v
  PROVE  Among(s, Valued(v, p)) <= Among(s, Valued(v, q))
<1>1. \A e \in Event : e.time \in Nat
  BY AnalysesAssumption
<1>2. \A t \in Nat : InPeriod(t, p) => InPeriod(t, q)
  <2>1. p[1] \in Nat /\ p[2] \in Nat /\ q[1] \in Nat /\ q[2] \in Nat
    OBVIOUS
  <2> QED
    BY <2>1 DEF InPeriod, Within
<1>3. Valued(v, p) \subseteq Valued(v, q)
  BY <1>1, <1>2 DEF Valued
<1>a. PICK A, B : /\ A = {i \in DOMAIN s : s[i] \in Valued(v, p)}
                  /\ B = {i \in DOMAIN s : s[i] \in Valued(v, q)}
  OBVIOUS
<1>4. A \in SUBSET B /\ IsFiniteSet(B)
  BY <1>3, <1>a, SeqFinite
<1>5. Cardinality(A) <= Cardinality(B)
  BY <1>4, FS_Subset
<1> QED
  BY <1>5, <1>a DEF Among

\* One more period is broken down.
LEMMA ValuesNext ==
  ASSUME Listed, NEW d \in Nat, NEW X, NEW got \in Seq(X),
         NEW p \in Nat \X Nat, NEW q \in Nat \X Nat, ValuesCounted(listing, got, d, p, q),
         NEW a, Len(got) = 0 => a = AnswerTo(Breakdown(p)),
         Len(got) = 1 => a = AnswerTo(Breakdown(q)), Len(got) < 2
  PROVE  ValuesCounted(listing, Append(got, a), d, p, q)
<1>a. PICK n, t : n = Len(got) /\ t = Append(got, a)
  OBVIOUS
<1>1. /\ n \in Nat /\ n < 2 /\ Len(t) = n + 1 /\ t[n + 1] = a
      /\ \A i \in 1..n : t[i] = got[i]
  <2>a. PICK Y : Y = X \cup {a}
    OBVIOUS
  <2>1. got \in Seq(Y) /\ a \in Y /\ Len(got) \in Nat /\ Len(got) < 2
    BY <2>a
  <2>2. Len(t) = n + 1 /\ t[n + 1] = a /\ \A i \in 1..n : t[i] = got[i]
    BY <1>a, <2>1, AppendProperties
  <2> QED
    BY <1>a, <2>1, <2>2
<1>2. \A r : AnswerTo(Breakdown(r)) = GetDimensionBreakdown("page", r)
  BY DEF AnswerTo, Breakdown
<1>3. \A r, v : Among(listing, Valued(v, r)) \in Nat
  BY SeqFinite DEF Listed
<1>4. \A v \in DOMAIN t[1] : ValueCounted(listing, v, t[1][v].count, d, p)
  <2>1. CASE n = 0
    <3> SUFFICES ASSUME NEW v \in DOMAIN a
                 PROVE  ValueCounted(listing, v, a[v].count, d, p)
      BY <1>1, <2>1
    <3>1. a[v].count \in Nat \ {0} /\ a[v].count = Among(listing, Valued(v, p))
      BY <1>2, <1>a, <2>1, BreakdownIs
    <3>a. PICK m : m = Among(listing, Valued(v, p))
      OBVIOUS
    <3>2. m \in Nat \ {0} /\ m <= m + d
      BY <3>1, <3>a
    <3> QED
      BY <3>1, <3>2, <3>a DEF ValueCounted
  <2>2. CASE n = 1
    <3>1. t[1] = got[1]
      BY <1>1, <2>2
    <3> QED
      BY <1>a, <2>2, <3>1 DEF ValuesCounted
  <2> QED
    BY <1>1, <2>1, <2>2
<1>5. ASSUME n + 1 >= 2, Within(p, q)
      PROVE  ValuesCompared(t[1], t[2], d)
  <2>1. n = 1 /\ t[2] = a /\ a = GetDimensionBreakdown("page", q)
    BY <1>1, <1>2, <1>5, <1>a
  <2> SUFFICES ASSUME NEW v \in DOMAIN t[1] \cap DOMAIN a
               PROVE  a[v].count \in Nat /\ t[1][v].count <= a[v].count + d
    BY <2>1 DEF ValuesCompared
  <2>a. PICK m, k : m = Among(listing, Valued(v, p)) /\ k = t[1][v].count
    OBVIOUS
  <2>2. k \in Nat /\ m \in Nat /\ k <= m + d
    BY <1>3, <1>4, <2>a DEF ValueCounted
  <2>3. a[v].count \in Nat /\ a[v].count = Among(listing, Valued(v, q))
    BY <2>1, BreakdownIs
  <2>4. m <= a[v].count
    BY <1>5, <2>3, <2>a, WithinHolds DEF Listed
  <2> QED
    BY <2>2, <2>3, <2>4, <2>a
<1> QED
  BY <1>1, <1>4, <1>5, <1>a DEF ValuesCounted

-------------------------------------------------------------------------------
(* The plans. *)

\* A function on 1..n is a sequence of n.
LEMMA LenOfFunction ==
  ASSUME NEW n \in Nat, NEW X, NEW f \in [1..n -> X]
  PROVE  f \in Seq(X) /\ Len(f) = n
OBVIOUS

\* The questions of each kind of request.
LEMMA PlanFacts ==
  ASSUME NEW plan \in Plans
  PROVE  \/ /\ plan[1] = "breakdown" /\ Len(plan[2]) = 5
            /\ \A i \in 1..5 : plan[2][i] = Count(EventTypes[i], Always)
         \/ /\ plan[1] = "distribution" /\ Len(plan[2]) = 4
            /\ \A i \in 1..4 : plan[2][i] = Count(EventTypes[i], Always)
         \/ /\ plan[1] = "stats" /\ Len(plan[2]) = 10
            /\ \A i \in 1..10 : LET type == EventTypes[(i + 1) \div 2]
                                IN plan[2][i] = IF i % 2 = 1 THEN Count(type, Always) ELSE ListOf(type)
         \/ /\ plan[1] = "overall" /\ Len(plan[2]) = 4
            /\ plan[2][2] = CountUsers(Always) /\ plan[2][4] = CountUsers(Today)
         \/ /\ plan[1] = "compare" /\ Len(plan[2]) = 2
            /\ \E p, q \in Nat \X Nat : plan[2][1] = Breakdown(p) /\ plan[2][2] = Breakdown(q)
<1>1. /\ Len(GetEventBreakdown) = 5
      /\ \A i \in 1..5 : GetEventBreakdown[i] = Count(EventTypes[i], Always)
  <2>a. PICK X : X = {Count(EventTypes[i], Always) : i \in 1..5}
    OBVIOUS
  <2>1. GetEventBreakdown \in [1..5 -> X] /\ 5 \in Nat
    BY <2>a, TypesFacts DEF GetEventBreakdown
  <2>2. Len(GetEventBreakdown) = 5
    BY <2>1, LenOfFunction
  <2> QED
    BY <2>2, TypesFacts DEF GetEventBreakdown
<1>2. /\ Len(GetEventDistribution) = 4
      /\ \A i \in 1..4 : GetEventDistribution[i] = Count(EventTypes[i], Always)
  <2>a. PICK X : X = {Count(EventTypes[i], Always) : i \in 1..4}
    OBVIOUS
  <2>1. GetEventDistribution \in [1..4 -> X] /\ 4 \in Nat
    BY <2>a DEF GetEventDistribution
  <2>2. Len(GetEventDistribution) = 4
    BY <2>1, LenOfFunction
  <2> QED
    BY <2>2 DEF GetEventDistribution
<1>3. /\ Len(GetEventStats) = 10
      /\ \A i \in 1..10 : LET type == EventTypes[(i + 1) \div 2]
                          IN GetEventStats[i] = IF i % 2 = 1 THEN Count(type, Always) ELSE ListOf(type)
  <2>a. PICK X : X = {GetEventStats[i] : i \in 1..10}
    OBVIOUS
  <2>0. 2 * Len(EventTypes) = 10
    BY TypesFacts
  <2>1. GetEventStats = [i \in 1..10 |-> LET type == EventTypes[(i + 1) \div 2]
                          IN IF i % 2 = 1 THEN Count(type, Always) ELSE ListOf(type)]
    BY <2>0 DEF GetEventStats
  <2>2. GetEventStats \in [1..10 -> X] /\ 10 \in Nat
    BY <2>1, <2>a
  <2>3. Len(GetEventStats) = 10
    BY <2>2, LenOfFunction
  <2> QED
    BY <2>1, <2>3
<1>4. /\ Len(GetOverallStats) = 4 /\ GetOverallStats[2] = CountUsers(Always)
      /\ GetOverallStats[4] = CountUsers(Today)
  BY DEF GetOverallStats
<1>5. ASSUME NEW periods \in Periods
      PROVE  /\ Len(CompareDimensions(periods)) = 2
             /\ \E p, q \in Nat \X Nat : /\ CompareDimensions(periods)[1] = Breakdown(p)
                                         /\ CompareDimensions(periods)[2] = Breakdown(q)
  <2>1. periods[1] \in Nat \X Nat /\ periods[2] \in Nat \X Nat
    BY AnalysesAssumption, StatisticsAssumption
  <2> QED
    BY <2>1 DEF CompareDimensions
<1>6. \/ plan[1] = "breakdown" /\ plan[2] = GetEventBreakdown
      \/ plan[1] = "stats" /\ plan[2] = GetEventStats
      \/ plan[1] = "distribution" /\ plan[2] = GetEventDistribution
      \/ plan[1] = "overall" /\ plan[2] = GetOverallStats
      \/ \E periods \in Periods : plan[1] = "compare" /\ plan[2] = CompareDimensions(periods)
  BY DEF Plans, GetEventCountsByType
<1> QED
  BY <1>1, <1>2, <1>3, <1>4, <1>5, <1>6

-------------------------------------------------------------------------------
(* The steps of requests. *)

\* A request that begins has no answers, which say nothing yet.
LEMMA AnsweredFirst ==
  ASSUME Listed, NEW plan \in Plans
  PROVE  Answered(plan[1], plan[2], <<>>, 0, 0) /\ 0 <= Len(plan[2])
<1>a. PICK got : got = <<>>
  OBVIOUS
<1>1. got \in Seq(Nat) /\ Len(got) = 0 /\ DOMAIN got = {}
  BY <1>a
<1>2. TypesCounted(listing, got, 0, 0)
  <2>1. SumFunction(got) = 0
    <3>1. got \in [{} -> Int] /\ IsFiniteSet({})
      BY <1>a, FS_EmptySet
    <3>2. PICK f : IsSum(f, got, {}) /\ SumFunction(got) = f[{}]
      BY <3>1, SumFunctionIs
    <3>3. f[{}] = 0
      BY <3>1, <3>2, SumAnyOrder DEF SumsUp
    <3> QED
      BY <3>2, <3>3
  <2>2. FirstTypes(0) = {}
    BY DEF FirstTypes
  <2>3. {i \in DOMAIN listing : listing[i] \in OfTypes({})} = {}
    BY DEF OfTypes
  <2>4. Among(listing, OfTypes({})) = 0
    BY <2>3, FS_EmptySet DEF Among
  <2> QED
    BY <1>1, <2>1, <2>2, <2>4 DEF TypesCounted, Near
<1>3. TypesListed(listing, got, 0, 0)
  <2>1. \A i \in DOMAIN EventTypes : ~(2 * i - 1 <= 0) /\ ~(2 * i <= 0)
    BY TypesFacts
  <2> QED
    BY <1>1, <2>1 DEF TypesListed
<1>4. UsersCounted(listing, got, 0)
  BY <1>1 DEF UsersCounted
<1>5. \A p, q : ValuesCounted(listing, got, 0, p, q)
  BY <1>1 DEF ValuesCounted
<1>6. 0 <= Len(plan[2])
  BY PlanFacts
<1> QED
  BY <1>2, <1>3, <1>4, <1>5, <1>6, <1>a DEF Answered

\* The next answer of any request is worth what Answered says.
LEMMA AnsweredNext ==
  ASSUME Listed, NEW plan \in Plans, NEW c \in Nat, NEW d \in Nat, NEW X, NEW got \in Seq(X),
         Answered(plan[1], plan[2], got, c, d), Len(got) < Len(plan[2]),
         NEW a, a = AnswerTo(plan[2][Len(got) + 1])
  PROVE  Answered(plan[1], plan[2], Append(got, a), c, d)
<1>a. PICK n, name, list : n = Len(got) /\ name = plan[1] /\ list = plan[2]
  OBVIOUS
<1>0. n \in Nat
  BY <1>a
<1>1. CASE name \in {"breakdown", "distribution"}
  <2>1. /\ Len(list) <= 5 /\ Len(list) \in Nat
        /\ \A i \in 1..Len(list) : list[i] = Count(EventTypes[i], Always)
    <3>1. CASE name = "breakdown"
      <4>1. Len(list) = 5 /\ \A i \in 1..5 : list[i] = Count(EventTypes[i], Always)
        BY <1>a, <3>1, PlanFacts
      <4> QED
        BY <4>1
    <3>2. CASE name = "distribution"
      <4>1. Len(list) = 4 /\ \A i \in 1..4 : list[i] = Count(EventTypes[i], Always)
        BY <1>a, <3>2, PlanFacts
      <4> QED
        BY <4>1
    <3> QED
      BY <1>1, <3>1, <3>2
  <2>2. n < 5 /\ n + 1 \in 1..Len(list)
    BY <1>0, <1>a, <2>1
  <2>3. a = AnswerTo(Count(EventTypes[n + 1], Always))
    BY <1>a, <2>1, <2>2
  <2>4. TypesCounted(listing, got, c, d)
    BY <1>1, <1>a DEF Answered
  <2>5. TypesCounted(listing, Append(got, a), c, d)
    BY <1>a, <2>2, <2>3, <2>4, TypesNext
  <2> QED
    BY <1>1, <1>a, <2>5 DEF Answered
<1>2. CASE name = "stats"
  <2>a. PICK type : type = EventTypes[(n + 2) \div 2]
    OBVIOUS
  <2>1. n < 10 /\ a = AnswerTo(IF (n + 1) % 2 = 1 THEN Count(type, Always) ELSE ListOf(type))
    <3>1. /\ Len(list) = 10
          /\ \A i \in 1..10 : LET t == EventTypes[(i + 1) \div 2]
                              IN list[i] = IF i % 2 = 1 THEN Count(t, Always) ELSE ListOf(t)
      BY <1>2, <1>a, PlanFacts
    <3>2. n < 10 /\ n + 1 \in 1..10 /\ (n + 1) + 1 = n + 2
      BY <1>0, <1>a, <3>1
    <3>3. list[n + 1] = IF (n + 1) % 2 = 1 THEN Count(type, Always) ELSE ListOf(type)
      BY <3>1, <3>2, <2>a
    <3> QED
      BY <1>a, <3>2, <3>3
  <2>2. TypesListed(listing, got, c, d)
    BY <1>2, <1>a DEF Answered
  <2>3. TypesListed(listing, Append(got, a), c, d)
    BY <1>a, <2>1, <2>2, <2>a, TypesListedNext
  <2> QED
    BY <1>2, <1>a, <2>3 DEF Answered
<1>3. CASE name = "overall"
  <2>1. Len(list) = 4 /\ list[2] = CountUsers(Always) /\ list[4] = CountUsers(Today)
    BY <1>3, <1>a, PlanFacts
  <2>2. UsersCounted(listing, got, c)
    BY <1>3, <1>a DEF Answered
  <2>3. /\ Len(got) = 1 => a = AnswerTo(CountUsers(Always))
        /\ Len(got) = 3 => a = AnswerTo(CountUsers(Today))
        /\ Len(got) < 4
    <3>1. n < 4 /\ a = AnswerTo(list[n + 1])
      BY <1>0, <1>a, <2>1
    <3>2. n = 1 => n + 1 = 2
      OBVIOUS
    <3>3. n = 3 => n + 1 = 4
      OBVIOUS
    <3> QED
      BY <1>a, <2>1, <3>1, <3>2, <3>3
  <2>4. UsersCounted(listing, Append(got, a), c)
    BY <2>2, <2>3, UsersNext
  <2> QED
    BY <1>3, <1>a, <2>4 DEF Answered
<1>4. CASE name = "compare"
  <2>1. PICK p \in Nat \X Nat, q \in Nat \X Nat :
          Len(list) = 2 /\ list[1] = Breakdown(p) /\ list[2] = Breakdown(q)
    BY <1>4, <1>a, PlanFacts
  <2>2. list[1].period = p /\ list[2].period = q
    BY <2>1 DEF Breakdown
  <2>3. ValuesCounted(listing, got, d, p, q)
    BY <1>4, <1>a, <2>2 DEF Answered
  <2>4. /\ Len(got) = 0 => a = AnswerTo(Breakdown(p))
        /\ Len(got) = 1 => a = AnswerTo(Breakdown(q))
        /\ Len(got) < 2
    BY <1>a, <2>1
  <2>5. ValuesCounted(listing, Append(got, a), d, p, q)
    BY <2>3, <2>4, ValuesNext
  <2> QED
    BY <1>4, <1>a, <2>2, <2>5 DEF Answered
<1>5. name \in {"breakdown", "distribution", "stats", "overall", "compare"}
  BY <1>a, PlanFacts
<1> QED
  BY <1>1, <1>2, <1>3, <1>4, <1>5

\* The fields of a request that is under way.
LEMMA Fields ==
  ASSUME NEW plan \in Plans, NEW got, NEW c, NEW d, UnderWay(plan, got, c, d)
  PROVE  /\ request.name = plan[1] /\ request.plan = plan[2] /\ request.got = got
         /\ request.created = c /\ request.deleted = d /\ request # NoRequest
<1>1. plan[1] # "none"
  BY PlanFacts
<1> QED
  BY <1>1 DEF UnderWay, NoRequest

\* Started is kept by a question,
LEMMA AnswersKept ==
  ASSUME Listed, Started, Ask
  PROVE  Started'
<1>1. PICK plan \in Plans, c \in Nat, d \in Nat : \E X : \E got \in Seq(X) :
        /\ UnderWay(plan, got, c, d) /\ Len(got) <= Len(plan[2])
        /\ Answered(plan[1], plan[2], got, c, d)
  BY DEF Started, Ask
<1>2. PICK X : \E got \in Seq(X) :
        /\ UnderWay(plan, got, c, d) /\ Len(got) <= Len(plan[2])
        /\ Answered(plan[1], plan[2], got, c, d)
  BY <1>1
<1>c. PICK got \in Seq(X) :
        /\ UnderWay(plan, got, c, d) /\ Len(got) <= Len(plan[2])
        /\ Answered(plan[1], plan[2], got, c, d)
  BY <1>2
<1>a. PICK a, t : a = AnswerTo(plan[2][Len(got) + 1]) /\ t = Append(got, a)
  OBVIOUS
<1>3. request.got = got /\ request.plan = plan[2]
  BY <1>c, Fields
<1>4. Len(got) < Len(plan[2])
  <2>1. Len(plan[2]) \in Nat /\ Len(got) \in Nat
    BY PlanFacts
  <2> QED
    BY <1>c, <1>3, <2>1 DEF Ask, Complete
<1>5. UnderWay(plan, t, c, d)'
  <2>1. request' = [request EXCEPT !.got = t]
    BY <1>3, <1>a DEF Ask
  <2> QED
    BY <1>c, <2>1 DEF UnderWay
<1>6. Answered(plan[1], plan[2], t, c, d)'
  <2>1. Answered(plan[1], plan[2], t, c, d)
    BY <1>c, <1>4, <1>a, AnsweredNext
  <2> QED
    BY <2>1 DEF Answered, Ask
<1>b. PICK Y : Y = X \cup {a}
  OBVIOUS
<1>7. t \in Seq(Y) /\ Len(t) <= Len(plan[2])
  <2>1. got \in Seq(Y) /\ a \in Y /\ Len(got) \in Nat
    BY <1>b
  <2>2. t \in Seq(Y) /\ Len(t) = Len(got) + 1
    BY <1>a, <2>1, AppendProperties
  <2>3. Len(plan[2]) \in Nat
    BY PlanFacts
  <2> QED
    BY <1>4, <2>1, <2>2, <2>3
<1> QED
  BY <1>5, <1>6, <1>7 DEF Started

\* The answers so far keep their worth when the listing moves.
LEMMA AnsweredChanged ==
  ASSUME NEW plan \in Plans, NEW c \in Nat, NEW d \in Nat, NEW X, NEW got \in Seq(X),
         Answered(plan[1], plan[2], got, c, d), NEW ct, NEW dt,
         Listed, Listed', Moved(listing, c, d, listing', ct, dt)
  PROVE  ct \in Nat /\ dt \in Nat /\ Answered(plan[1], plan[2], got, ct, dt)'
<1>1. listing \in Seq(Event) /\ listing' \in Seq(Event)
  BY DEF Listed
<1>2. ct \in Nat /\ dt \in Nat
  BY <1>1, NearMoved
<1>3. /\ TypesCounted(listing, got, c, d) => TypesCounted(listing', got, ct, dt)
      /\ TypesListed(listing, got, c, d) => TypesListed(listing', got, ct, dt)
      /\ UsersCounted(listing, got, c) => UsersCounted(listing', got, ct)
      /\ \A p, q : ValuesCounted(listing, got, d, p, q) => ValuesCounted(listing', got, dt, p, q)
  BY <1>1, AnsweredMoved
<1> QED
  BY <1>2, <1>3 DEF Answered

\* and by an event that is created or deleted between two questions.
LEMMA ChangesKept ==
  ASSUME Listed, Listed', Started, Change
  PROVE  Started'
<1>1. CASE request = NoRequest
  BY <1>1 DEF Change, Started
<1>2. CASE request # NoRequest
  <2>1. PICK plan \in Plans, c \in Nat, d \in Nat : \E X : \E got \in Seq(X) :
          /\ UnderWay(plan, got, c, d) /\ Len(got) <= Len(plan[2])
          /\ Answered(plan[1], plan[2], got, c, d)
    BY <1>2 DEF Started
  <2>a. PICK X : \E got \in Seq(X) :
          /\ UnderWay(plan, got, c, d) /\ Len(got) <= Len(plan[2])
          /\ Answered(plan[1], plan[2], got, c, d)
    BY <2>1
  <2>2. PICK got \in Seq(X) :
          /\ UnderWay(plan, got, c, d) /\ Len(got) <= Len(plan[2])
          /\ Answered(plan[1], plan[2], got, c, d)
    BY <2>a
  <2>3. request.created = c /\ request.deleted = d
    BY <2>2, Fields
  <2>4. Len(listing) \in Nat /\ listing \in Seq(Event)
    BY DEF Listed
  <2>5. \E ct, dt : UnderWay(plan, got, ct, dt)' /\ Moved(listing, c, d, listing', ct, dt)
    <3>1. ASSUME NEW e \in Event, Create(e)
          PROVE  UnderWay(plan, got, c + 1, d)' /\ Moved(listing, c, d, listing', c + 1, d)
      <4>1. listing' = Append(listing, e) /\ Len(listing') = Len(listing) + 1
        BY <2>4, <3>1, AppendProperties DEF Create
      <4>2. request' = [request EXCEPT !.created = c + 1]
        BY <1>2, <2>3, <2>4, <4>1 DEF Change
      <4>3. Moved(listing, c, d, listing', c + 1, d)
        BY <2>4, <4>1, OneComes
      <4> QED
        BY <2>2, <4>2, <4>3 DEF UnderWay
    <3>2. ASSUME NEW i \in DOMAIN listing, Delete(i)
          PROVE  UnderWay(plan, got, c, d + 1)' /\ Moved(listing, c, d, listing', c, d + 1)
      <4>1. /\ Len(listing') = Len(listing) - 1
            /\ Moved(listing, c, d, listing', c, d + 1)
        BY <2>4, <3>2, OneGoes DEF Delete
      <4>2. request' = [request EXCEPT !.deleted = d + 1]
        BY <1>2, <2>3, <2>4, <4>1 DEF Change
      <4> QED
        BY <2>2, <4>1, <4>2 DEF UnderWay
    <3> QED
      BY <3>1, <3>2 DEF Change, Next
  <2>6. PICK ct, dt : UnderWay(plan, got, ct, dt)' /\ Moved(listing, c, d, listing', ct, dt)
    BY <2>5
  <2>7. ct \in Nat /\ dt \in Nat /\ Answered(plan[1], plan[2], got, ct, dt)'
    BY <2>2, <2>6, AnsweredChanged
  <2> QED
    BY <2>2, <2>6, <2>7 DEF Started
<1> QED
  BY <1>1, <1>2

\* Started is an invariant.
LEMMA StartedHolds == StatsSpec => []Started
<1>1. StatsInit => Started
  BY DEF StatsInit, Started
<1>2. Listed /\ Listed' /\ Started /\ [StatsNext]_statsVars => Started'
  <2> SUFFICES ASSUME Listed, Listed', Started, [StatsNext]_statsVars PROVE Started'
    OBVIOUS
  <2>1. ASSUME NEW plan \in Plans, Begin(plan[1], plan[2])
        PROVE  Started'
    <3>a. PICK got : got = <<>>
      OBVIOUS
    <3>1. got \in Seq(Nat) /\ Len(got) = 0
      BY <3>a
    <3>2. UnderWay(plan, got, 0, 0)'
      BY <2>1, <3>a DEF Begin, UnderWay
    <3>3. Answered(plan[1], plan[2], got, 0, 0) /\ 0 <= Len(plan[2])
      BY <3>a, AnsweredFirst
    <3>4. Answered(plan[1], plan[2], got, 0, 0)'
      BY <2>1, <3>3 DEF Begin, Answered
    <3>5. 0 \in Nat /\ Len(got) <= Len(plan[2])
      BY <3>1, <3>3
    <3>6. plan \in Plans
      BY <2>1
    <3> QED
      BY <3>1, <3>2, <3>4, <3>5, <3>6 DEF Started
  <2>2. CASE Ask
    BY <2>2, AnswersKept
  <2>3. CASE Answer
    BY <2>3 DEF Answer, Started, NoRequest
  <2>4. CASE Change
    BY <2>4, ChangesKept
  <2>5. CASE UNCHANGED statsVars
    BY <2>5 DEF statsVars, Started, UnderWay, Answered
  <2> QED
    BY <2>1, <2>2, <2>3, <2>4, <2>5 DEF StatsNext
<1> QED
  BY <1>1, <1>2, ListedHolds, PTL DEF StatsSpec

-------------------------------------------------------------------------------
(* What a complete request says. *)

\* The events of all types, and those of all but the custom one.
LEMMA AmongAll ==
  ASSUME Listed
  PROVE  /\ Among(listing, OfTypes(FirstTypes(5))) = Len(listing)
         /\ Among(listing, OfTypes(FirstTypes(4)))
              = Len(listing) - EventCountByType("custom", Always)
<1>1. \A i \in DOMAIN listing : listing[i] \in Event /\ listing[i].type \in ToSet(EventTypes)
  BY RowTypes
<1>2. {i \in DOMAIN listing : listing[i] \in OfTypes(FirstTypes(5))} = 1..Len(listing)
  <2>1. DOMAIN listing = 1..Len(listing)
    BY DEF Listed
  <2> QED
    BY <1>1, <2>1, TypesFacts DEF OfTypes
<1>3. Len(listing) \in Nat /\ Cardinality(1..Len(listing)) = Len(listing)
  <2>a. PICK n : n = Len(listing)
    OBVIOUS
  <2>1. n \in Nat
    BY <2>a DEF Listed
  <2>2. Cardinality(1..n) = IF 1 > n THEN 0 ELSE n - 1 + 1
    BY <2>1, FS_Interval
  <2>3. Cardinality(1..n) = n
    BY <2>1, <2>2
  <2> QED
    BY <2>a, <2>1, <2>3
<1>4. Among(listing, OfTypes(FirstTypes(5))) = Len(listing)
  BY <1>2, <1>3 DEF Among
<1>5. FirstTypes(5) = FirstTypes(4) \cup {"custom"} /\ "custom" \notin FirstTypes(4)
  <2>1. "custom" \in ToSet(EventTypes)
    BY DEF ToSet, EventTypes
  <2> QED
    BY <2>1, TypesFacts
<1>6. Among(listing, OfTypes(FirstTypes(5)))
        = Among(listing, OfTypes(FirstTypes(4))) + Among(listing, OfTypes({"custom"}))
  BY <1>5, AmongTypes DEF Listed
<1>7. /\ Among(listing, OfTypes(FirstTypes(4))) \in Nat
      /\ Among(listing, OfTypes({"custom"})) \in Nat
      /\ Among(listing, OfTypes({"custom"})) = EventCountByType("custom", Always)
  BY CountIs, SeqFinite DEF Listed
<1> QED
  BY <1>3, <1>4, <1>6, <1>7

\* A value of a period grows in the longer one, but for what was deleted meanwhile.
LEMMA ComparedAddUp ==
  ASSUME NEW b1, NEW b2, NEW d \in Nat, ValuesCompared(b1, b2, d),
         \A v \in DOMAIN b1 : b1[v].count \in Nat \ {0}
  PROVE  LET changes == Changes(b1, b2)
         IN \A v \in DOMAIN changes : changes[v][1] >= - 100 * d
<1> SUFFICES ASSUME NEW v \in DOMAIN b1 \cap DOMAIN b2
             PROVE  Changes(b1, b2)[v][1] >= - 100 * d
  BY DEF Changes
<1>a. PICK m, n : m = b1[v].count /\ n = b2[v].count
  OBVIOUS
<1>1. m \in Nat \ {0} /\ n \in Nat /\ m <= n + d
  BY <1>a DEF ValuesCompared
<1>2. Changes(b1, b2)[v] = <<100 * (n - m), m>>
  BY <1>1, <1>a DEF Changes, Fraction
<1>3. 100 * (n - m) >= - 100 * d
  BY <1>1
<1> QED
  BY <1>2, <1>3

\* RequestsAddUp follows from what the answers are worth when all of them are there.
LEMMA RequestsHold == Listed /\ Started => RequestsAddUp
<1> SUFFICES ASSUME Listed, Started, request # NoRequest, Complete PROVE RequestsAddUp
  BY DEF RequestsAddUp
<1>1. PICK plan \in Plans, c \in Nat, d \in Nat : \E X : \E got \in Seq(X) :
        UnderWay(plan, got, c, d) /\ Answered(plan[1], plan[2], got, c, d)
  BY DEF Started
<1>2. PICK got :
        UnderWay(plan, got, c, d) /\ Answered(plan[1], plan[2], got, c, d)
  BY <1>1
<1>3. /\ request.name = plan[1] /\ request.plan = plan[2] /\ request.got = got
      /\ request.created = c /\ request.deleted = d
  BY <1>2, Fields
<1>4. Len(got) = Len(plan[2])
  BY <1>3 DEF Complete
<1>a. PICK name, n : name = plan[1] /\ n = Len(listing)
  OBVIOUS
<1>b. PICK custom : custom = EventCountByType("custom", Always)
  OBVIOUS
<1>5. ASSUME name = "breakdown"
      PROVE  SumFunction(got) \in (n - c)..(n + d)
  <2>1. Len(got) = 5 /\ TypesCounted(listing, got, c, d)
    BY <1>2, <1>4, <1>5, <1>a, PlanFacts DEF Answered
  <2> QED
    BY <1>a, <2>1, AmongAll DEF TypesCounted, Near
<1>6. ASSUME name = "distribution"
      PROVE  SumFunction(got) \in (n - custom - c)..(n - custom + d)
  <2>1. Len(got) = 4 /\ TypesCounted(listing, got, c, d)
    BY <1>2, <1>4, <1>6, <1>a, PlanFacts DEF Answered
  <2> QED
    BY <1>a, <1>b, <2>1, AmongAll DEF TypesCounted, Near
<1>7. ASSUME name = "stats", NEW i \in DOMAIN EventTypes
      PROVE  TypeListed(got[2 * i - 1], got[2 * i], c, d)
  <2>1. Len(got) = 10 /\ TypesListed(listing, got, c, d)
    BY <1>2, <1>4, <1>7, <1>a, PlanFacts DEF Answered
  <2>2. 2 * i <= 10
    BY TypesFacts
  <2> QED
    BY <2>1, <2>2 DEF TypesListed
<1>8. ASSUME name = "overall"
      PROVE  got[4] <= got[2] + c
  <2>1. Len(got) = 4 /\ UsersCounted(listing, got, c)
    BY <1>2, <1>4, <1>8, <1>a, PlanFacts DEF Answered
  <2> QED
    BY <2>1 DEF UsersCounted
<1>9. ASSUME name = "compare", Within(plan[2][1].period, plan[2][2].period)
      PROVE  LET changes == Changes(got[1], got[2])
             IN \A v \in DOMAIN changes : changes[v][1] >= - 100 * d
  <2>1. /\ Len(got) = 2
        /\ ValuesCounted(listing, got, d, plan[2][1].period, plan[2][2].period)
    BY <1>2, <1>4, <1>9, <1>a, PlanFacts DEF Answered
  <2>2. \A v \in DOMAIN got[1] : got[1][v].count \in Nat \ {0}
    BY <2>1 DEF ValuesCounted, ValueCounted
  <2>3. ValuesCompared(got[1], got[2], d)
    BY <1>9, <2>1 DEF ValuesCounted
  <2> QED
    BY <2>2, <2>3, ComparedAddUp
<1>10. name \in {"breakdown", "distribution", "stats", "overall", "compare"}
  BY <1>a, PlanFacts
<1> QED
  BY <1>3, <1>5, <1>6, <1>7, <1>8, <1>9, <1>10, <1>a, <1>b DEF RequestsAddUp, TypeListed

-------------------------------------------------------------------------------
(* Selections. *)

\* What Selected has after each element of s.
SelectsTo(acc, s, S) ==
  /\ acc[0] = <<>>
  /\ \A k \in 1..Len(s) : acc[k] = IF s[k] \in S THEN Append(acc[k - 1], s[k]) ELSE acc[k - 1]

\* Selected is a loop over its sequence.
LEMMA SelectedLoop ==
  ASSUME NEW X, NEW s \in Seq(X), NEW S
  PROVE  \E acc \in [0..Len(s) -> Seq(X)] : SelectsTo(acc, s, S) /\ acc[Len(s)] = Selected(s, S)
<1> DEFINE Step(chosen, x) == IF x \in S THEN Append(chosen, x) ELSE chosen
           Is(f) == f = [T \in SUBSET (DOMAIN s) |->
                           IF T = {} THEN <<>> ELSE Step(f[T \ {Max(T)}], s[Max(T)])]
<1>a. PICK n, V : n = Len(s) /\ V = Seq(X)
  OBVIOUS
<1>b. PICK F : F = [k \in 1..n |-> [v \in V |-> Step(v, s[k])]]
  OBVIOUS
<1>1. n \in Nat /\ DOMAIN s = 1..n /\ <<>> \in V /\ \A k \in 1..n : s[k] \in X
  BY <1>a
<1>2. F \in [1..n -> [V -> V]]
  <2>1. \A v \in V, k \in 1..n : Step(v, s[k]) \in V
    BY <1>1, <1>a, AppendProperties
  <2> HIDE DEF Step
  <2> QED
    BY <1>b, <2>1
<1>3. \A v \in V, k \in 1..n : F[k][v] = Step(v, s[k])
  BY <1>b
<1> HIDE DEF Step
<1>4. \E f : Is(f)
  <2>1. PICK g \in [SUBSET (1..n) -> V] : IsLoop(g, <<>>, F, n)
    BY <1>1, <1>2, LoopExists
  <2>2. ASSUME NEW T \in SUBSET (1..n), T # {}
        PROVE  g[T] = Step(g[T \ {Max(T)}], s[Max(T)])
    <3>1. Max(T) \in 1..n
      <4>1. T \in SUBSET (0..n)
        OBVIOUS
      <4> QED
        BY <1>1, <2>2, <4>1, MaxIs
    <3>2. g[T \ {Max(T)}] \in V
      OBVIOUS
    <3>3. g[T] = F[Max(T)][g[T \ {Max(T)}]]
      BY <2>1, <2>2 DEF IsLoop
    <3> QED
      BY <1>3, <3>1, <3>2, <3>3
  <2>3. \A T \in SUBSET (1..n) : g[T] = IF T = {} THEN <<>> ELSE Step(g[T \ {Max(T)}], s[Max(T)])
    BY <2>1, <2>2 DEF IsLoop
  <2>4. Is(g)
    BY <1>1, <2>3
  <2> QED
    BY <2>4
<1>c. PICK c : c = CHOOSE f : Is(f)
  OBVIOUS
<1>5. Is(c)
  BY <1>4, <1>c
<1>6. Selected(s, S) = c[1..n]
  <2>1. Selected(s, S) = (CHOOSE f : Is(f))[DOMAIN s]
    BY DEF Selected, FoldLeft, MapThenFoldSet, Step
  <2> QED
    BY <1>1, <1>c, <2>1
<1>7. c[{}] = <<>>
  BY <1>5
<1>8. ASSUME NEW k \in 1..n, c[1..(k - 1)] \in V
      PROVE  c[1..k] = F[k][c[1..(k - 1)]]
  <2>1. c[1..k] = Step(c[1..(k - 1)], s[k])
    <3>1. /\ (1..k) \in SUBSET (1..n) /\ (1..k) # {} /\ Max(1..k) = k
          /\ (1..k) \ {k} = 1..(k - 1)
      BY <1>1, LastOfUpTo
    <3>2. c[1..k] = IF (1..k) = {} THEN <<>>
                    ELSE Step(c[(1..k) \ {Max(1..k)}], s[Max(1..k)])
      BY <1>1, <1>5, <3>1
    <3> QED
      BY <3>1, <3>2
  <2> QED
    BY <1>3, <1>8, <2>1
<1> HIDE DEF Is
<1>d. Unfolds(c, <<>>, F, n, V)
  BY <1>7, <1>8 DEF Unfolds
<1>9. PICK acc \in [0..n -> V] : Steps(acc, <<>>, F, n) /\ acc[n] = c[1..n]
  BY <1>1, <1>2, <1>d, LoopUnfolds
<1>10. \A k \in 1..n : acc[k] = Step(acc[k - 1], s[k])
  <2>1. \A k \in 1..n : acc[k - 1] \in V
    BY <1>1
  <2> QED
    BY <1>3, <1>9, <2>1 DEF Steps
<1> QED
  BY <1>6, <1>9, <1>10, <1>a DEF Step, Steps, SelectsTo

-------------------------------------------------------------------------------
(* Sequences drawn from others. *)

\* t has, in some order, each element of s at the places D once: the i-th is from place p[i].
Drawn(p, t, s, D) ==
  /\ p \in [DOMAIN t -> D]
  /\ \A i, j \in DOMAIN t : i # j => p[i] # p[j]
  /\ \A i \in DOMAIN t : t[i] = s[p[i]]
  /\ \A d \in D : \E i \in DOMAIN t : p[i] = d

\* In the order of s, too.
Rising(p, t) == \A i, j \in DOMAIN t : i < j => p[i] < p[j]

\* What is drawn has as many elements of each set as there are at the places.
LEMMA DrawnAmong ==
  ASSUME NEW X, NEW t \in Seq(X), NEW s, NEW D, NEW p, Drawn(p, t, s, D)
  PROVE  /\ IsFiniteSet(D) /\ Cardinality(D) = Len(t)
         /\ \A E : Among(t, E) = Cardinality({d \in D : s[d] \in E})
<1>1. IsFiniteSet(DOMAIN t) /\ Cardinality(DOMAIN t) = Len(t)
  <2>1. DOMAIN t = 1..Len(t) /\ Len(t) \in Nat
    OBVIOUS
  <2>2. IsFiniteSet(1..Len(t)) /\ Cardinality(1..Len(t)) = Len(t)
    <3>1. /\ IsFiniteSet(1..Len(t))
          /\ Cardinality(1..Len(t)) = IF 1 > Len(t) THEN 0 ELSE Len(t) - 1 + 1
      BY <2>1, FS_Interval
    <3> QED
      BY <2>1, <3>1
  <2> QED
    BY <2>1, <2>2
<1>2. ASSUME NEW E PROVE Among(t, E) = Cardinality({d \in D : s[d] \in E})
  <2>a. PICK A, B : A = {i \in DOMAIN t : t[i] \in E} /\ B = {d \in D : s[d] \in E}
    OBVIOUS
  <2>b. PICK q : q = [i \in A |-> p[i]]
    OBVIOUS
  <2>1. \A i \in A : i \in DOMAIN t /\ p[i] \in D /\ s[p[i]] \in E /\ q[i] = p[i]
    BY <2>a, <2>b DEF Drawn
  <2>2. q \in [A -> B]
    BY <2>1, <2>a, <2>b
  <2>3. \A i, j \in A : q[i] = q[j] => i = j
    BY <2>1 DEF Drawn
  <2>4. \A d \in B : \E i \in A : q[i] = d
    <3> SUFFICES ASSUME NEW d \in B PROVE \E i \in A : q[i] = d
      OBVIOUS
    <3>1. d \in D /\ s[d] \in E
      BY <2>a
    <3>2. PICK i \in DOMAIN t : p[i] = d
      BY <3>1 DEF Drawn
    <3>3. t[i] = s[d]
      BY <3>2 DEF Drawn
    <3>4. i \in A
      BY <3>1, <3>3, <2>a
    <3> QED
      BY <3>2, <3>4, <2>1
  <2>5. ExistsBijection(A, B)
    BY <2>2, <2>3, <2>4 DEF ExistsBijection, Bijection, Injection, Surjection, IsInjective
  <2>6. IsFiniteSet(A)
    BY <1>1, <2>a, FS_Subset
  <2>7. Cardinality(A) = Cardinality(B)
    BY <2>5, <2>6, FS_Bijection
  <2> QED
    BY <2>7, <2>a DEF Among
<1>3. ExistsBijection(DOMAIN t, D)
  BY DEF Drawn, ExistsBijection, Bijection, Injection, Surjection, IsInjective
<1>4. IsFiniteSet(D) /\ Cardinality(D) = Cardinality(DOMAIN t)
  BY <1>1, <1>3, FS_Bijection
<1> QED
  BY <1>1, <1>2, <1>4

\* q is p, and d behind it.
Extends(q, p, t, d) == q[Len(t) + 1] = d /\ \A i \in DOMAIN t : q[i] = p[i]

\* An element of another place is appended.
LEMMA DrawnAppended ==
  ASSUME NEW X, NEW t \in Seq(X), NEW s, NEW D, NEW p, Drawn(p, t, s, D),
         NEW d, d \notin D, s[d] \in X
  PROVE  \E q : Drawn(q, Append(t, s[d]), s, D \cup {d}) /\ Extends(q, p, t, d)
<1>a. PICK n, r : n = Len(t) /\ r = Append(t, s[d])
  OBVIOUS
<1>b. PICK q : q = [i \in 1..(n + 1) |-> IF i = n + 1 THEN d ELSE p[i]]
  OBVIOUS
<1>1. n \in Nat /\ DOMAIN t = 1..n /\ \A i \in 1..n : i # n + 1 /\ i \in 1..(n + 1)
  BY <1>a
<1>2. DOMAIN r = 1..(n + 1) /\ r[n + 1] = s[d] /\ \A i \in 1..n : r[i] = t[i]
  BY <1>a, AppendProperties
<1>3. q[n + 1] = d /\ \A i \in 1..n : q[i] = p[i]
  BY <1>b, <1>1
<1>4. \A i \in 1..(n + 1) : i = n + 1 \/ i \in 1..n
  BY <1>1
<1>5. \A i \in 1..n : p[i] \in D /\ t[i] = s[p[i]]
  BY <1>1 DEF Drawn
<1>6. q \in [DOMAIN r -> D \cup {d}]
  BY <1>b, <1>2, <1>3, <1>4, <1>5
<1>7. \A i, j \in DOMAIN r : i # j => q[i] # q[j]
  BY <1>1, <1>2, <1>3, <1>4, <1>5 DEF Drawn
<1>8. \A i \in DOMAIN r : r[i] = s[q[i]]
  BY <1>2, <1>3, <1>4, <1>5
<1>9. \A x \in D \cup {d} : \E i \in DOMAIN r : q[i] = x
  <2> SUFFICES ASSUME NEW x \in D \cup {d} PROVE \E i \in DOMAIN r : q[i] = x
    OBVIOUS
  <2>1. CASE x = d
    BY <1>1, <1>2, <1>3, <2>1
  <2>2. CASE x \in D
    <3>1. PICK i \in 1..n : p[i] = x
      BY <1>1, <2>2 DEF Drawn
    <3> QED
      BY <1>1, <1>2, <1>3, <3>1
  <2> QED
    BY <2>1, <2>2
<1>10. Drawn(q, r, s, D \cup {d})
  BY <1>6, <1>7, <1>8, <1>9 DEF Drawn
<1> QED
  BY <1>1, <1>3, <1>10, <1>a DEF Extends

\* The empty sequence is drawn from no places.
LEMMA NothingDrawn ==
  ASSUME NEW s
  PROVE  \E p : Drawn(p, <<>>, s, {}) /\ Rising(p, <<>>)
<1>a. PICK p : p = [i \in {} |-> i]
  OBVIOUS
<1>1. DOMAIN <<>> = {}
  OBVIOUS
<1>2. p \in [DOMAIN <<>> -> {}]
  BY <1>1, <1>a
<1>3. Drawn(p, <<>>, s, {}) /\ Rising(p, <<>>)
  BY <1>1, <1>2 DEF Drawn, Rising
<1> QED
  BY <1>3

\* An element of a later place keeps the order.
LEMMA DrawnBehind ==
  ASSUME NEW X, NEW t \in Seq(X), NEW s, NEW D \in SUBSET Nat, NEW p,
         Drawn(p, t, s, D), Rising(p, t),
         NEW d \in Nat, \A x \in D : x < d, s[d] \in X
  PROVE  \E q : Drawn(q, Append(t, s[d]), s, D \cup {d}) /\ Rising(q, Append(t, s[d]))
<1>a. PICK n, r : n = Len(t) /\ r = Append(t, s[d])
  OBVIOUS
<1>1. d \notin D
  OBVIOUS
<1>2. PICK q : Drawn(q, Append(t, s[d]), s, D \cup {d}) /\ Extends(q, p, t, d)
  BY <1>1, DrawnAppended
<1>3. n \in Nat /\ DOMAIN t = 1..n /\ DOMAIN r = 1..(n + 1)
  BY <1>a, AppendProperties
<1>4. ASSUME NEW i \in DOMAIN r, NEW j \in DOMAIN r, i < j PROVE q[i] < q[j]
  <2>1. i \in DOMAIN t
    BY <1>3, <1>4
  <2>2. q[i] = p[i] /\ p[i] \in D
    BY <1>2, <2>1 DEF Drawn, Extends
  <2>3. CASE j = n + 1
    <3>1. q[j] = d
      BY <1>2, <1>a, <2>3 DEF Extends
    <3> QED
      BY <2>2, <3>1
  <2>4. CASE j # n + 1
    <3>1. j \in DOMAIN t
      BY <1>3, <2>4
    <3>2. q[j] = p[j]
      BY <1>2, <3>1 DEF Extends
    <3> QED
      BY <1>4, <2>1, <2>2, <3>1, <3>2 DEF Rising
  <2> QED
    BY <2>3, <2>4
<1> QED
  BY <1>2, <1>4, <1>a DEF Rising

\* What is selected is all of s that is in S, in the order of s.
LEMMA SelectedIs ==
  ASSUME NEW X, NEW s \in Seq(X), NEW S
  PROVE  /\ Selected(s, S) \in Seq(X)
         /\ \E p : /\ Drawn(p, Selected(s, S), s, {i \in DOMAIN s : s[i] \in S})
                   /\ Rising(p, Selected(s, S))
<1>a. PICK n : n = Len(s)
  OBVIOUS
<1>1. n \in Nat /\ DOMAIN s = 1..n /\ \A k \in 1..n : s[k] \in X
  BY <1>a
<1>2. PICK acc \in [0..n -> Seq(X)] :
        SelectsTo(acc, s, S) /\ acc[n] = Selected(s, S)
  BY <1>a, SelectedLoop
<1>b. PICK D : D = [k \in 0..n |-> {i \in 1..k : s[i] \in S}]
  OBVIOUS
<1>c. PICK Q : Q = {k \in 0..n : \E p : Drawn(p, acc[k], s, D[k]) /\ Rising(p, acc[k])}
  OBVIOUS
<1>3. 0 \in Q
  <2>1. D[0] = {} /\ 0 \in 0..n
    BY <1>1, <1>b
  <2>2. PICK p : Drawn(p, <<>>, s, {}) /\ Rising(p, <<>>)
    BY NothingDrawn
  <2>3. Drawn(p, acc[0], s, D[0]) /\ Rising(p, acc[0])
    BY <1>2, <2>1, <2>2 DEF SelectsTo
  <2> QED
    BY <1>c, <2>1, <2>3
<1>4. ASSUME NEW k \in 1..n, k - 1 \in Q PROVE k \in Q
  <2>1. k \in 0..n /\ k - 1 \in 0..n /\ k \in Nat
    BY <1>1
  <2>2. D[k] = {i \in 1..k : s[i] \in S} /\ D[k - 1] = {i \in 1..(k - 1) : s[i] \in S}
    BY <1>b, <2>1
  <2>3. PICK p : Drawn(p, acc[k - 1], s, D[k - 1]) /\ Rising(p, acc[k - 1])
    BY <1>4, <1>c
  <2>4. \E q : Drawn(q, acc[k], s, D[k]) /\ Rising(q, acc[k])
    <3>1. CASE s[k] \in S
      <4>1. D[k] = D[k - 1] \cup {k} /\ D[k - 1] \in SUBSET Nat /\ \A x \in D[k - 1] : x < k
        BY <2>1, <2>2, <3>1
      <4>2. acc[k - 1] \in Seq(X) /\ acc[k] = Append(acc[k - 1], s[k]) /\ s[k] \in X
        BY <1>1, <1>2, <1>a, <2>1, <3>1 DEF SelectsTo
      <4>a. PICK t, C : t = acc[k - 1] /\ C = D[k - 1]
        OBVIOUS
      <4>3. /\ t \in Seq(X) /\ C \in SUBSET Nat /\ Drawn(p, t, s, C) /\ Rising(p, t)
            /\ k \in Nat /\ (\A x \in C : x < k) /\ s[k] \in X
        BY <2>1, <2>3, <4>1, <4>2, <4>a
      <4>4. \E q : Drawn(q, Append(t, s[k]), s, C \cup {k}) /\ Rising(q, Append(t, s[k]))
        BY <4>3, DrawnBehind
      <4> QED
        BY <4>1, <4>2, <4>4, <4>a
    <3>2. CASE s[k] \notin S
      <4>1. D[k] = D[k - 1]
        BY <2>1, <2>2, <3>2
      <4>2. acc[k] = acc[k - 1]
        BY <1>2, <1>a, <3>2 DEF SelectsTo
      <4> QED
        BY <2>3, <4>1, <4>2
    <3> QED
      BY <3>1, <3>2
  <2> QED
    BY <1>c, <2>1, <2>4
<1>5. Q = 0..n
  <2>1. Q \in SUBSET (0..n)
    BY <1>c
  <2> QED
    BY <1>1, <1>3, <1>4, <2>1, InductionUpTo
<1>6. n \in 0..n /\ D[n] = {i \in DOMAIN s : s[i] \in S}
  BY <1>1, <1>b
<1>7. acc[n] \in Seq(X) /\ \E p : Drawn(p, acc[n], s, D[n]) /\ Rising(p, acc[n])
  BY <1>5, <1>6, <1>c
<1> QED
  BY <1>2, <1>6, <1>7

\* What is counted of a selection.
LEMMA SelectedCounts ==
  ASSUME NEW X, NEW s \in Seq(X), NEW S, NEW t, t = Selected(s, S)
  PROVE  /\ t \in Seq(X) /\ Len(t) = Among(s, S) /\ Len(t) <= Len(s)
         /\ \A i \in DOMAIN t : t[i] \in S
         /\ \A E : Among(t, E) = Among(s, S \cap E)
<1>a. PICK D : D = {i \in DOMAIN s : s[i] \in S}
  OBVIOUS
<1>1. t \in Seq(X)
  BY SelectedIs
<1>2. PICK p : Drawn(p, t, s, D) /\ Rising(p, t)
  BY SelectedIs, <1>a
<1>3. /\ Cardinality(D) = Len(t)
      /\ \A E : Among(t, E) = Cardinality({d \in D : s[d] \in E})
  BY <1>1, <1>2, DrawnAmong
<1>4. Len(t) = Among(s, S)
  BY <1>3, <1>a DEF Among
<1>5. Len(t) <= Len(s)
  <2>1. DOMAIN s = 1..Len(s) /\ Len(s) \in Nat
    OBVIOUS
  <2>2. IsFiniteSet(1..Len(s)) /\ Cardinality(1..Len(s)) = IF 1 > Len(s) THEN 0 ELSE Len(s) - 1 + 1
    BY <2>1, FS_Interval
  <2>3. Cardinality(1..Len(s)) = Len(s)
    BY <2>1, <2>2
  <2>4. D \in SUBSET (1..Len(s))
    BY <2>1, <1>a
  <2>5. Cardinality(D) <= Cardinality(1..Len(s))
    BY <2>2, <2>4, FS_Subset
  <2> QED
    BY <1>3, <2>3, <2>5
<1>6. \A i \in DOMAIN t : t[i] \in S
  BY <1>2, <1>a DEF Drawn
<1>7. ASSUME NEW E PROVE Among(t, E) = Among(s, S \cap E)
  <2>1. {d \in D : s[d] \in E} = {i \in DOMAIN s : s[i] \in S \cap E}
    BY <1>a
  <2> QED
    BY <1>3, <2>1 DEF Among
<1> QED
  BY <1>1, <1>4, <1>5, <1>6, <1>7

-------------------------------------------------------------------------------
(* Insertion sorts. *)

\* r is s with x behind its first m elements.
InsertedAt(r, s, m, x) ==
  /\ r[m + 1] = x
  /\ \A i \in DOMAIN r : (i <= m => r[i] = s[i]) /\ (i > m + 1 => r[i] = s[i - 1])

\* InsertBehind puts its element behind the last of the places that it is given.
LEMMA InsertedIs ==
  ASSUME NEW X, NEW s \in Seq(X), NEW I \in SUBSET DOMAIN s, NEW x \in X,
         NEW r, r = InsertBehind(s, I, x)
  PROVE  /\ r \in Seq(X) /\ Len(r) = Len(s) + 1
         /\ \E m \in 0..Len(s) : /\ InsertedAt(r, s, m, x)
                                 /\ (\A i \in I : i <= m) /\ (m = 0 \/ m \in I)
<1>a. PICK n, m : n = Len(s) /\ m = Max({0} \cup I)
  OBVIOUS
<1>1. n \in Nat /\ DOMAIN s = 1..n /\ \A i \in 1..n : s[i] \in X
  BY <1>a
<1>2. /\ m \in {0} \cup I /\ (\A i \in I : i <= m)
      /\ m \in 0..n /\ m \in Nat /\ m <= n
  <2>1. {0} \cup I \in SUBSET (0..n) /\ {0} \cup I # {}
    BY <1>1
  <2>2. m \in {0} \cup I /\ \A i \in {0} \cup I : i <= m
    BY <1>1, <1>a, <2>1, MaxIs
  <2> QED
    BY <1>1, <2>1, <2>2
<1>b. PICK a, y, b : a = SubSeq(s, 1, m) /\ y = <<x>> /\ b = SubSeq(s, m + 1, n)
  OBVIOUS
<1>3. a \in Seq(X) /\ Len(a) = m /\ \A i \in 1..m : a[i] = s[i]
  BY <1>1, <1>2, <1>b, SubSeqProperties
<1>4. b \in Seq(X) /\ Len(b) = n - m /\ \A i \in 1..(n - m) : b[i] = s[m + i]
  BY <1>1, <1>2, <1>b, SubSeqProperties
<1>5. y \in Seq(X) /\ Len(y) = 1 /\ y[1] = x
  BY <1>b
<1>6. r = (a \o y) \o b
  <2>1. (m + 1) - 1 = m
    BY <1>2
  <2> QED
    BY <1>a, <1>b, <2>1 DEF InsertBehind, InsertAt
<1>c. PICK c : c = a \o y
  OBVIOUS
<1>7. /\ c \in Seq(X) /\ Len(c) = m + 1 /\ c[m + 1] = x /\ \A i \in 1..m : c[i] = s[i]
  <2>1. /\ c \in Seq(X) /\ Len(c) = m + 1
        /\ \A i \in 1..(m + 1) : c[i] = IF i <= m THEN a[i] ELSE y[i - m]
    <3>1. /\ c \in Seq(X) /\ Len(c) = Len(a) + Len(y)
          /\ \A i \in 1..(Len(a) + Len(y)) : c[i] = IF i <= Len(a) THEN a[i] ELSE y[i - Len(a)]
      BY <1>3, <1>5, <1>c, ConcatProperties
    <3> QED
      BY <1>3, <1>5, <3>1
  <2>2. m + 1 \in 1..(m + 1) /\ ~(m + 1 <= m) /\ (m + 1) - m = 1
    BY <1>2
  <2>3. \A i \in 1..m : i \in 1..(m + 1) /\ i <= m
    BY <1>2
  <2> QED
    BY <1>3, <1>5, <2>1, <2>2, <2>3
<1>8. /\ r \in Seq(X) /\ Len(r) = n + 1
      /\ \A i \in 1..(n + 1) : r[i] = IF i <= m + 1 THEN c[i] ELSE b[i - (m + 1)]
  <2>1. r = c \o b
    BY <1>6, <1>c
  <2>2. (m + 1) + (n - m) = n + 1
    BY <1>1, <1>2
  <2> QED
    BY <1>4, <1>7, <2>1, <2>2, ConcatProperties
<1>9. r[m + 1] = x
  <2>1. m + 1 \in 1..(n + 1) /\ m + 1 <= m + 1
    BY <1>1, <1>2
  <2> QED
    BY <1>7, <1>8, <2>1
<1>10. ASSUME NEW i \in DOMAIN r
       PROVE  (i <= m => r[i] = s[i]) /\ (i > m + 1 => r[i] = s[i - 1])
  <2>1. i \in 1..(n + 1) /\ i \in Int /\ 1 <= i /\ i <= n + 1
    BY <1>1, <1>8
  <2>2. ASSUME i <= m PROVE r[i] = s[i]
    <3>1. i \in 1..m /\ i <= m + 1
      BY <1>2, <2>1, <2>2
    <3> QED
      BY <1>7, <1>8, <2>1, <3>1
  <2>3. ASSUME i > m + 1 PROVE r[i] = s[i - 1]
    <3>1. ~(i <= m + 1) /\ i - (m + 1) \in 1..(n - m) /\ m + (i - (m + 1)) = i - 1
      BY <1>1, <1>2, <2>1, <2>3
    <3> QED
      BY <1>4, <1>8, <2>1, <3>1
  <2> QED
    BY <2>2, <2>3
<1>11. InsertedAt(r, s, m, x)
  BY <1>9, <1>10 DEF InsertedAt
<1> QED
  BY <1>2, <1>8, <1>11, <1>a

\* An element of another place is inserted.
LEMMA DrawnInserted ==
  ASSUME NEW X, NEW t \in Seq(X), NEW s, NEW D, NEW p, Drawn(p, t, s, D),
         NEW d, d \notin D, NEW r \in Seq(X), Len(r) = Len(t) + 1,
         NEW m \in 0..Len(t), InsertedAt(r, t, m, s[d])
  PROVE  \E q : Drawn(q, r, s, D \cup {d})
<1>a. PICK n : n = Len(t)
  OBVIOUS
<1>b. PICK q : q = [i \in 1..(n + 1) |-> IF i <= m THEN p[i] ELSE IF i = m + 1 THEN d ELSE p[i - 1]]
  OBVIOUS
<1>1. /\ n \in Nat /\ DOMAIN t = 1..n /\ DOMAIN r = 1..(n + 1) /\ m \in Nat /\ m <= n
      /\ m + 1 \in 1..(n + 1) /\ ~(m + 1 <= m)
  BY <1>a
<1>2. q[m + 1] = d /\ r[m + 1] = s[d]
  BY <1>1, <1>b DEF InsertedAt
<1>3. \A i \in 1..n : p[i] \in D /\ t[i] = s[p[i]]
  BY <1>1 DEF Drawn
<1>4. \A i \in 1..n : i <= m =>
        i \in 1..(n + 1) /\ i # m + 1 /\ q[i] = p[i] /\ r[i] = t[i]
  <2> SUFFICES ASSUME NEW i \in 1..n, i <= m
               PROVE  i \in 1..(n + 1) /\ i # m + 1 /\ q[i] = p[i] /\ r[i] = t[i]
    OBVIOUS
  <2>1. i \in 1..(n + 1) /\ i # m + 1
    BY <1>1
  <2>2. r[i] = t[i]
    BY <1>1, <2>1 DEF InsertedAt
  <2>3. q[i] = p[i]
    BY <1>b, <2>1
  <2> QED
    BY <2>1, <2>2, <2>3
<1>5. \A i \in 1..n : ~(i <= m) =>
        i + 1 \in 1..(n + 1) /\ i + 1 # m + 1 /\ q[i + 1] = p[i] /\ r[i + 1] = t[i]
  <2> SUFFICES ASSUME NEW i \in 1..n, ~(i <= m)
               PROVE  i + 1 \in 1..(n + 1) /\ i + 1 # m + 1 /\ q[i + 1] = p[i] /\ r[i + 1] = t[i]
    OBVIOUS
  <2>1. /\ i + 1 \in 1..(n + 1) /\ i + 1 # m + 1 /\ ~(i + 1 <= m) /\ (i + 1) - 1 = i
        /\ i + 1 > m + 1
    BY <1>1
  <2>2. r[i + 1] = t[i]
    BY <1>1, <2>1 DEF InsertedAt
  <2>3. q[i + 1] = p[i]
    BY <1>b, <2>1
  <2> QED
    BY <2>1, <2>2, <2>3
<1>6. \A i \in 1..(n + 1) :
        \/ i = m + 1
        \/ i \in 1..n /\ i <= m
        \/ \E k \in 1..n : ~(k <= m) /\ i = k + 1
  <2> SUFFICES ASSUME NEW i \in 1..(n + 1), i # m + 1, ~(i <= m)
               PROVE  \E k \in 1..n : ~(k <= m) /\ i = k + 1
    BY <1>1
  <2>1. i - 1 \in 1..n /\ ~(i - 1 <= m) /\ i = (i - 1) + 1
    BY <1>1
  <2> QED
    BY <2>1
<1>7. \A i \in 1..(n + 1) : (q[i] = d /\ i = m + 1) \/ \E k \in 1..n :
        /\ i = (IF k <= m THEN k ELSE k + 1)
        /\ q[i] = p[k] /\ r[i] = t[k]
  <2> SUFFICES ASSUME NEW i \in 1..(n + 1), i # m + 1
               PROVE  \E k \in 1..n : /\ i = (IF k <= m THEN k ELSE k + 1)
                                      /\ q[i] = p[k] /\ r[i] = t[k]
    BY <1>2
  <2>1. CASE i \in 1..n /\ i <= m
    BY <1>4, <2>1
  <2>2. CASE \E k \in 1..n : ~(k <= m) /\ i = k + 1
    BY <1>5, <2>2
  <2> QED
    BY <1>6, <2>1, <2>2
<1>8. q \in [DOMAIN r -> D \cup {d}]
  <2>1. \A i \in 1..(n + 1) : q[i] \in D \cup {d}
    BY <1>3, <1>7
  <2> QED
    BY <1>1, <1>b, <2>1
<1>9. ASSUME NEW i \in 1..(n + 1), NEW j \in 1..(n + 1), q[i] = q[j] PROVE i = j
  <2>1. CASE q[i] = d
    <3>1. \A k \in 1..n : p[k] # d
      BY <1>3
    <3>2. \A k \in 1..(n + 1) : q[k] = d => k = m + 1
      BY <1>7, <3>1
    <3> QED
      BY <1>9, <2>1, <3>2
  <2>2. CASE q[i] # d
    <3>1. PICK k \in 1..n : i = (IF k <= m THEN k ELSE k + 1) /\ q[i] = p[k]
      BY <1>1, <1>7, <2>2
    <3>2. PICK l \in 1..n : j = (IF l <= m THEN l ELSE l + 1) /\ q[j] = p[l]
      BY <1>1, <1>7, <1>9, <2>2
    <3>3. k = l
      BY <1>1, <1>9, <3>1, <3>2 DEF Drawn
    <3> QED
      BY <3>1, <3>2, <3>3
  <2> QED
    BY <2>1, <2>2
<1>10. \A i \in DOMAIN r : r[i] = s[q[i]]
  BY <1>1, <1>2, <1>3, <1>7
<1>11. ASSUME NEW x \in D \cup {d} PROVE \E i \in DOMAIN r : q[i] = x
  <2>1. CASE x = d
    BY <1>1, <1>2, <2>1
  <2>2. CASE x \in D
    <3>1. PICK k \in 1..n : p[k] = x
      BY <1>1, <2>2 DEF Drawn
    <3>2. CASE k <= m
      BY <1>1, <1>4, <3>1, <3>2
    <3>3. CASE ~(k <= m)
      BY <1>1, <1>5, <3>1, <3>3
    <3> QED
      BY <3>2, <3>3
  <2> QED
    BY <2>1, <2>2
<1>12. Drawn(q, r, s, D \cup {d})
  BY <1>1, <1>8, <1>9, <1>10, <1>11 DEF Drawn
<1> QED
  BY <1>12

\* The keys never fall from one element to a later one.
NeverFalls(t, key) == \A i, j \in DOMAIN t : i < j => key[t[i]] <= key[t[j]]

\* The elements of s that are at most at x, in t.
UpToKey(t, key, x) == {i \in DOMAIN t : key[t[i]] <= key[x]}

\* Behind the last key that is no greater, it keeps the sequence sorted.
LEMMA SortedInserted ==
  ASSUME NEW X, NEW key \in [X -> Int], NEW t \in Seq(X), NeverFalls(t, key), NEW x \in X,
         NEW r \in Seq(X), Len(r) = Len(t) + 1, NEW m \in 0..Len(t), InsertedAt(r, t, m, x),
         \A i \in UpToKey(t, key, x) : i <= m, m = 0 \/ m \in UpToKey(t, key, x)
  PROVE  NeverFalls(r, key)
<1>a. PICK n : n = Len(t)
  OBVIOUS
<1>1. /\ n \in Nat /\ DOMAIN t = 1..n /\ DOMAIN r = 1..(n + 1) /\ m \in Nat /\ m <= n
  BY <1>a
<1>0. n \in Int /\ m \in Int /\ 0 <= m /\ m <= n
  BY <1>1
<1>2. \A i \in 1..n : t[i] \in X /\ key[t[i]] \in Int
  BY <1>1
<1>3. key[x] \in Int
  OBVIOUS
<1>4. \A i \in 1..n : i <= m => key[t[i]] <= key[x]
  <2> SUFFICES ASSUME NEW i \in 1..n, i <= m PROVE key[t[i]] <= key[x]
    OBVIOUS
  <2>1. m \in 1..n /\ key[t[m]] <= key[x]
    BY <1>1 DEF UpToKey
  <2>2. i = m \/ i < m
    BY <1>0
  <2>3. key[t[i]] <= key[t[m]]
    <3>1. CASE i = m
      BY <1>2, <2>1, <3>1
    <3>2. CASE i < m
      BY <1>1, <2>1, <3>2 DEF NeverFalls
    <3> QED
      BY <2>2, <3>1, <3>2
  <2>a. PICK a, b, c : a = key[t[i]] /\ b = key[t[m]] /\ c = key[x]
    OBVIOUS
  <2>4. a \in Int /\ b \in Int /\ c \in Int
    BY <1>2, <1>3, <2>1, <2>a
  <2>5. a <= b /\ b <= c
    BY <2>1, <2>3, <2>a
  <2>6. a <= c
    BY <2>4, <2>5
  <2> QED
    BY <2>6, <2>a
<1>5. \A i \in 1..n : ~(i <= m) => key[x] <= key[t[i]]
  <2> SUFFICES ASSUME NEW i \in 1..n, ~(i <= m) PROVE key[x] <= key[t[i]]
    OBVIOUS
  <2>1. ~(key[t[i]] <= key[x])
    BY <1>1 DEF UpToKey
  <2> QED
    BY <1>2, <1>3, <2>1
<1>6. ASSUME NEW i \in 1..(n + 1), NEW j \in 1..(n + 1), i < j PROVE key[r[i]] <= key[r[j]]
  <2>0. i \in Int /\ j \in Int /\ 1 <= i /\ j <= n + 1 /\ i <= n + 1 /\ 1 <= j
    BY <1>0
  <2>1. CASE j <= m
    <3>1. i <= m /\ i \in 1..n /\ j \in 1..n
      BY <1>0, <1>6, <2>0, <2>1
    <3>2. r[i] = t[i] /\ r[j] = t[j]
      BY <1>1, <2>1, <3>1 DEF InsertedAt
    <3> QED
      BY <1>1, <1>6, <3>1, <3>2 DEF NeverFalls
  <2>2. CASE j = m + 1
    <3>1. i <= m /\ i \in 1..n
      BY <1>0, <1>6, <2>0, <2>2
    <3>2. r[i] = t[i] /\ r[j] = x
      BY <1>1, <2>2, <3>1 DEF InsertedAt
    <3> QED
      BY <1>4, <3>1, <3>2
  <2>3. CASE j > m + 1
    <3>1. j - 1 \in 1..n /\ ~(j - 1 <= m) /\ r[j] = t[j - 1]
      <4>1. j - 1 \in 1..n /\ ~(j - 1 <= m)
        BY <1>0, <2>0, <2>3
      <4> QED
        BY <1>1, <2>3, <4>1 DEF InsertedAt
    <3>2. CASE i <= m
      <4>1. i \in 1..n /\ i < j - 1 /\ r[i] = t[i]
        <5>1. i \in 1..n /\ i < j - 1
          BY <1>0, <1>6, <2>0, <2>3, <3>2
        <5> QED
          BY <1>1, <3>2, <5>1 DEF InsertedAt
      <4> QED
        BY <1>1, <3>1, <4>1 DEF NeverFalls
    <3>3. CASE i = m + 1
      <4>1. r[i] = x
        BY <3>3 DEF InsertedAt
      <4> QED
        BY <1>5, <3>1, <4>1
    <3>4. CASE i > m + 1
      <4>1. i - 1 \in 1..n /\ i - 1 < j - 1
        BY <1>0, <1>6, <2>0, <3>4
      <4>2. r[i] = t[i - 1]
        BY <1>1, <3>4 DEF InsertedAt
      <4> QED
        BY <1>1, <3>1, <4>1, <4>2 DEF NeverFalls
    <3> QED
      BY <1>1, <2>0, <3>2, <3>3, <3>4
  <2> QED
    BY <1>1, <2>0, <2>1, <2>2, <2>3
<1> QED
  BY <1>1, <1>6 DEF NeverFalls

\* What an insertion sort by key has after each element of s.
SortsTo(acc, s, key) ==
  /\ acc[0] = <<>>
  /\ \A k \in 1..Len(s) : acc[k] = InsertBehind(acc[k - 1], UpToKey(acc[k - 1], key, s[k]), s[k])

\* A sorted list has each element of s once, and its keys never fall.
LEMMA SortedIs ==
  ASSUME NEW X, NEW s \in Seq(X), NEW key \in [X -> Int],
         NEW acc \in [0..Len(s) -> Seq(X)], SortsTo(acc, s, key)
  PROVE  /\ \E p : Drawn(p, acc[Len(s)], s, DOMAIN s)
         /\ NeverFalls(acc[Len(s)], key)
<1>a. PICK n : n = Len(s)
  OBVIOUS
<1>1. n \in Nat /\ DOMAIN s = 1..n /\ acc \in [0..n -> Seq(X)] /\ \A k \in 1..n : s[k] \in X
  BY <1>a
<1>b. PICK Q : Q = {k \in 0..n : NeverFalls(acc[k], key) /\ \E p : Drawn(p, acc[k], s, 1..k)}
  OBVIOUS
<1>2. 0 \in Q
  <2>1. acc[0] = <<>> /\ 0 \in 0..n /\ 1..0 = {} /\ DOMAIN <<>> = {}
    BY <1>1 DEF SortsTo
  <2>2. PICK p : Drawn(p, <<>>, s, {}) /\ Rising(p, <<>>)
    BY NothingDrawn
  <2>3. Drawn(p, acc[0], s, 1..0) /\ NeverFalls(acc[0], key)
    BY <2>1, <2>2 DEF NeverFalls
  <2> QED
    BY <1>b, <2>1, <2>3
<1>3. ASSUME NEW k \in 1..n, k - 1 \in Q PROVE k \in Q
  <2>1. k \in 0..n /\ k - 1 \in 0..n /\ k \notin 1..(k - 1) /\ 1..k = (1..(k - 1)) \cup {k}
    BY <1>1
  <2>a. PICK t, r, I, C : /\ t = acc[k - 1] /\ r = acc[k] /\ I = UpToKey(t, key, s[k])
                          /\ C = 1..(k - 1)
    OBVIOUS
  <2>2. t \in Seq(X) /\ r = InsertBehind(t, I, s[k]) /\ s[k] \in X
    BY <1>1, <1>a, <2>1, <2>a DEF SortsTo
  <2>3. NeverFalls(t, key)
    BY <1>3, <1>b, <2>a
  <2>4. PICK p : Drawn(p, t, s, C)
    BY <1>3, <1>b, <2>a
  <2>5. I \in SUBSET DOMAIN t
    BY <2>a DEF UpToKey
  <2>6. /\ r \in Seq(X) /\ Len(r) = Len(t) + 1
        /\ \E m \in 0..Len(t) : /\ InsertedAt(r, t, m, s[k])
                                /\ (\A i \in I : i <= m) /\ (m = 0 \/ m \in I)
    BY <2>2, <2>5, InsertedIs
  <2>7. PICK m \in 0..Len(t) : /\ InsertedAt(r, t, m, s[k])
                               /\ (\A i \in I : i <= m) /\ (m = 0 \/ m \in I)
    BY <2>6
  <2>8. NeverFalls(r, key)
    BY <2>2, <2>3, <2>6, <2>7, <2>a, SortedInserted
  <2>9. \E q : Drawn(q, r, s, C \cup {k})
    BY <2>1, <2>2, <2>4, <2>6, <2>7, <2>a, DrawnInserted
  <2>10. \E q : Drawn(q, acc[k], s, 1..k)
    BY <2>1, <2>9, <2>a
  <2>11. NeverFalls(acc[k], key)
    BY <2>8, <2>a
  <2> QED
    BY <1>b, <2>1, <2>10, <2>11
<1>4. Q = 0..n
  <2>1. Q \in SUBSET (0..n)
    BY <1>b
  <2> QED
    BY <1>1, <1>2, <1>3, <2>1, InductionUpTo
<1>5. n \in Q
  BY <1>1, <1>4
<1> QED
  BY <1>1, <1>5, <1>a, <1>b

\* ByTime is such a sort, by the times of events,
LEMMA ByTimeLoop ==
  ASSUME NEW s \in Seq(Event), NEW key, key = [e \in Event |-> e.time]
  PROVE  \E acc \in [0..Len(s) -> Seq(Event)] :
           SortsTo(acc, s, key) /\ acc[Len(s)] = ByTime(s)
<1> DEFINE Step(v, x) == InsertByTime(v, x)
           Is(f) == f = [T \in SUBSET (DOMAIN s) |->
                           IF T = {} THEN <<>> ELSE Step(f[T \ {Max(T)}], s[Max(T)])]
<1>a. PICK n, V, b : n = Len(s) /\ V = Seq(Event) /\ b = <<>>
  OBVIOUS
<1>b. PICK F : F = [k \in 1..n |-> [v \in V |-> Step(v, s[k])]]
  OBVIOUS
<1>1. n \in Nat /\ DOMAIN s = 1..n /\ b \in V /\ \A k \in 1..n : s[k] \in Event
  BY <1>a
<1>2. \A v \in V, k \in 1..n : Step(v, s[k]) \in V
  <2> SUFFICES ASSUME NEW v \in V, NEW k \in 1..n PROVE InsertByTime(v, s[k]) \in V
    OBVIOUS
  <2>a. PICK I : I = {i \in DOMAIN v : v[i].time <= s[k].time}
    OBVIOUS
  <2>1. v \in Seq(Event) /\ s[k] \in Event /\ I \in SUBSET DOMAIN v
    BY <1>1, <1>a, <2>a
  <2>2. InsertByTime(v, s[k]) = InsertBehind(v, I, s[k])
    BY <2>a DEF InsertByTime
  <2> QED
    BY <1>a, <2>1, <2>2, InsertedIs
<1> HIDE DEF Step
<1>3. F \in [1..n -> [V -> V]]
  BY <1>2, <1>b
<1>e. \A v \in V, k \in 1..n : F[k][v] = Step(v, s[k])
  BY <1>b
<1>4. \E f : Is(f)
  <2>1. PICK g \in [SUBSET (1..n) -> V] : IsLoop(g, b, F, n)
    BY <1>1, <1>3, LoopExists
  <2>2. ASSUME NEW T \in SUBSET (1..n), T # {}
        PROVE  g[T] = Step(g[T \ {Max(T)}], s[Max(T)])
    <3>1. Max(T) \in 1..n
      <4>1. T \in SUBSET (0..n)
        OBVIOUS
      <4> QED
        BY <1>1, <2>2, <4>1, MaxIs
    <3>2. g[T \ {Max(T)}] \in V
      OBVIOUS
    <3>3. g[T] = F[Max(T)][g[T \ {Max(T)}]]
      BY <2>1, <2>2 DEF IsLoop
    <3> QED
      BY <1>e, <3>1, <3>2, <3>3
  <2>3. g[{}] = b
    BY <2>1 DEF IsLoop
  <2>4. \A T \in SUBSET (1..n) :
          g[T] = IF T = {} THEN <<>> ELSE Step(g[T \ {Max(T)}], s[Max(T)])
    BY <2>2, <2>3, <1>a
  <2>5. Is(g)
    BY <1>1, <2>4
  <2> QED
    BY <2>5
<1>c. PICK c : c = CHOOSE f : Is(f)
  OBVIOUS
<1>5. Is(c)
  BY <1>4, <1>c
<1>6. ByTime(s) = c[1..n]
  <2>1. ByTime(s) = (CHOOSE f : Is(f))[DOMAIN s]
    BY DEF ByTime, FoldLeft, MapThenFoldSet, Step
  <2> QED
    BY <1>1, <1>c, <2>1
<1>7. c[{}] = b
  BY <1>5, <1>a
<1>8. ASSUME NEW k \in 1..n, c[1..(k - 1)] \in V
      PROVE  c[1..k] = F[k][c[1..(k - 1)]]
  <2>1. /\ (1..k) \in SUBSET (1..n) /\ (1..k) # {} /\ Max(1..k) = k
        /\ (1..k) \ {k} = 1..(k - 1)
    BY <1>1, LastOfUpTo
  <2>2. c[1..k] = Step(c[(1..k) \ {Max(1..k)}], s[Max(1..k)])
    BY <1>1, <1>5, <2>1
  <2>3. c[1..k] = Step(c[1..(k - 1)], s[k])
    BY <2>1, <2>2
  <2> QED
    BY <1>e, <1>8, <2>3
<1> HIDE DEF Is
<1>d. Unfolds(c, b, F, n, V)
  BY <1>7, <1>8 DEF Unfolds
<1>9. PICK acc \in [0..n -> V] : Steps(acc, b, F, n) /\ acc[n] = c[1..n]
  <2>1. n \in Nat
    BY <1>1
  <2>2. b \in V
    BY <1>1
  <2> QED
    BY <1>3, <1>d, <2>1, <2>2, LoopUnfolds
<1>10. acc[0] = <<>> /\ \A k \in 1..n : acc[k - 1] \in V /\ acc[k] = Step(acc[k - 1], s[k])
  <2>1. \A k \in 1..n : acc[k - 1] \in V
    BY <1>1
  <2> QED
    BY <1>e, <1>9, <1>a, <2>1 DEF Steps
<1>11. SortsTo(acc, s, key)
  <2>1. ASSUME NEW k \in 1..n
        PROVE  acc[k] = InsertBehind(acc[k - 1], UpToKey(acc[k - 1], key, s[k]), s[k])
    <3>a. PICK t : t = acc[k - 1]
      OBVIOUS
    <3>1. t \in Seq(Event) /\ acc[k] = InsertByTime(t, s[k]) /\ s[k] \in Event
      BY <1>1, <1>10, <1>a, <3>a DEF Step
    <3>2. {i \in DOMAIN t : t[i].time <= s[k].time} = UpToKey(t, key, s[k])
      <4>1. \A i \in DOMAIN t : t[i] \in Event
        BY <3>1
      <4>2. \A i \in DOMAIN t : key[t[i]] = t[i].time
        BY <4>1
      <4>3. key[s[k]] = s[k].time
        BY <3>1
      <4> QED
        BY <4>2, <4>3 DEF UpToKey
    <3> QED
      BY <3>1, <3>2, <3>a DEF InsertByTime
  <2> QED
    BY <1>10, <1>a, <2>1 DEF SortsTo
<1> QED
  BY <1>6, <1>9, <1>11, <1>a

\* The rows of R have numbers of visits.
Visited(R) == \A r \in R : r.visits \in Int

\* and so are the rows that are sorted by visits, the most visited first.
LEMMA InsertLoop ==
  ASSUME NEW R, Visited(R), NEW s \in Seq(R), NEW key, key = [r \in R |-> -r.visits]
  PROVE  \E acc \in [0..Len(s) -> Seq(R)] :
           SortsTo(acc, s, key) /\ acc[Len(s)] = FoldLeft(Insert, <<>>, s)
<1> DEFINE Step(v, x) == Insert(v, x)
           Is(f) == f = [T \in SUBSET (DOMAIN s) |->
                           IF T = {} THEN <<>> ELSE Step(f[T \ {Max(T)}], s[Max(T)])]
<1>a. PICK n, V, b : n = Len(s) /\ V = Seq(R) /\ b = <<>>
  OBVIOUS
<1>b. PICK F : F = [k \in 1..n |-> [v \in V |-> Step(v, s[k])]]
  OBVIOUS
<1>1. n \in Nat /\ DOMAIN s = 1..n /\ b \in V /\ \A k \in 1..n : s[k] \in R
  BY <1>a
<1>2. \A v \in V, k \in 1..n : Step(v, s[k]) \in V
  <2> SUFFICES ASSUME NEW v \in V, NEW k \in 1..n PROVE Insert(v, s[k]) \in V
    OBVIOUS
  <2>a. PICK I : I = {i \in DOMAIN v : v[i].visits >= s[k].visits}
    OBVIOUS
  <2>1. v \in Seq(R) /\ s[k] \in R /\ I \in SUBSET DOMAIN v
    BY <1>1, <1>a, <2>a
  <2>2. Insert(v, s[k]) = InsertBehind(v, I, s[k])
    BY <2>a DEF Insert
  <2> QED
    BY <1>a, <2>1, <2>2, InsertedIs
<1> HIDE DEF Step
<1>3. F \in [1..n -> [V -> V]]
  BY <1>2, <1>b
<1>e. \A v \in V, k \in 1..n : F[k][v] = Step(v, s[k])
  BY <1>b
<1>4. \E f : Is(f)
  <2>1. PICK g \in [SUBSET (1..n) -> V] : IsLoop(g, b, F, n)
    BY <1>1, <1>3, LoopExists
  <2>2. ASSUME NEW T \in SUBSET (1..n), T # {}
        PROVE  g[T] = Step(g[T \ {Max(T)}], s[Max(T)])
    <3>1. Max(T) \in 1..n
      <4>1. T \in SUBSET (0..n)
        OBVIOUS
      <4> QED
        BY <1>1, <2>2, <4>1, MaxIs
    <3>2. g[T \ {Max(T)}] \in V
      OBVIOUS
    <3>3. g[T] = F[Max(T)][g[T \ {Max(T)}]]
      BY <2>1, <2>2 DEF IsLoop
    <3> QED
      BY <1>e, <3>1, <3>2, <3>3
  <2>3. g[{}] = b
    BY <2>1 DEF IsLoop
  <2>4. \A T \in SUBSET (1..n) :
          g[T] = IF T = {} THEN <<>> ELSE Step(g[T \ {Max(T)}], s[Max(T)])
    BY <2>2, <2>3, <1>a
  <2>5. Is(g)
    BY <1>1, <2>4
  <2> QED
    BY <2>5
<1>c. PICK c : c = CHOOSE f : Is(f)
  OBVIOUS
<1>5. Is(c)
  BY <1>4, <1>c
<1>6. FoldLeft(Insert, <<>>, s) = c[1..n]
  <2>1. FoldLeft(Insert, <<>>, s) = (CHOOSE f : Is(f))[DOMAIN s]
    BY DEF FoldLeft, MapThenFoldSet, Step
  <2> QED
    BY <1>1, <1>c, <2>1
<1>7. c[{}] = b
  BY <1>5, <1>a
<1>8. ASSUME NEW k \in 1..n, c[1..(k - 1)] \in V
      PROVE  c[1..k] = F[k][c[1..(k - 1)]]
  <2>1. /\ (1..k) \in SUBSET (1..n) /\ (1..k) # {} /\ Max(1..k) = k
        /\ (1..k) \ {k} = 1..(k - 1)
    BY <1>1, LastOfUpTo
  <2>2. c[1..k] = Step(c[(1..k) \ {Max(1..k)}], s[Max(1..k)])
    BY <1>1, <1>5, <2>1
  <2>3. c[1..k] = Step(c[1..(k - 1)], s[k])
    BY <2>1, <2>2
  <2> QED
    BY <1>e, <1>8, <2>3
<1> HIDE DEF Is
<1>d. Unfolds(c, b, F, n, V)
  BY <1>7, <1>8 DEF Unfolds
<1>9. PICK acc \in [0..n -> V] : Steps(acc, b, F, n) /\ acc[n] = c[1..n]
  <2>1. n \in Nat
    BY <1>1
  <2>2. b \in V
    BY <1>1
  <2> QED
    BY <1>3, <1>d, <2>1, <2>2, LoopUnfolds
<1>10. acc[0] = <<>> /\ \A k \in 1..n : acc[k - 1] \in V /\ acc[k] = Step(acc[k - 1], s[k])
  <2>1. \A k \in 1..n : acc[k - 1] \in V
    BY <1>1
  <2> QED
    BY <1>e, <1>9, <1>a, <2>1 DEF Steps
<1>11. SortsTo(acc, s, key)
  <2>1. ASSUME NEW k \in 1..n
        PROVE  acc[k] = InsertBehind(acc[k - 1], UpToKey(acc[k - 1], key, s[k]), s[k])
    <3>a. PICK t : t = acc[k - 1]
      OBVIOUS
    <3>1. t \in Seq(R) /\ acc[k] = Insert(t, s[k]) /\ s[k] \in R
      BY <1>1, <1>10, <1>a, <3>a DEF Step
    <3>2. {i \in DOMAIN t : t[i].visits >= s[k].visits} = UpToKey(t, key, s[k])
      <4>1. \A i \in DOMAIN t : t[i] \in R
        BY <3>1
      <4>2. \A i \in DOMAIN t : key[t[i]] = -t[i].visits /\ t[i].visits \in Int
        BY <4>1 DEF Visited
      <4>3. key[s[k]] = -s[k].visits /\ s[k].visits \in Int
        BY <3>1 DEF Visited
      <4>4. \A i \in DOMAIN t : t[i].visits >= s[k].visits <=> key[t[i]] <= key[s[k]]
        <5> SUFFICES ASSUME NEW i \in DOMAIN t
                     PROVE  t[i].visits >= s[k].visits <=> key[t[i]] <= key[s[k]]
          OBVIOUS
        <5>a. PICK x, y : x = t[i].visits /\ y = s[k].visits
          OBVIOUS
        <5>1. x \in Int /\ y \in Int /\ key[t[i]] = -x /\ key[s[k]] = -y
          BY <4>2, <4>3, <5>a
        <5>2. x >= y <=> -x <= -y
          BY <5>1
        <5> QED
          BY <5>1, <5>2, <5>a
      <4> QED
        BY <4>4 DEF UpToKey
    <3> QED
      BY <3>1, <3>2, <3>a DEF Insert
  <2> QED
    BY <1>10, <1>a, <2>1 DEF SortsTo
<1> QED
  BY <1>6, <1>9, <1>11, <1>a

\* What ComputePathSequence has after each event of s.
VisitsTo(acc, s) ==
  /\ acc[0] = <<>>
  /\ \A k \in 1..Len(s) :
       acc[k] = IF Len(acc[k - 1]) >= MaxPathLength \/ ~IsView(s[k]) THEN acc[k - 1]
                ELSE Append(acc[k - 1], s[k])

\* PathOf is a loop over the user's events by time.
LEMMA VisitLoop ==
  ASSUME NEW u, ByTime(EventsOf(u)) \in Seq(Event)
  PROVE  \E acc \in [0..Len(ByTime(EventsOf(u))) -> Seq(Event)] :
           VisitsTo(acc, ByTime(EventsOf(u))) /\ acc[Len(ByTime(EventsOf(u)))] = PathOf(u)
<1> DEFINE Step(v, x) == IF Len(v) >= MaxPathLength \/ ~IsView(x) THEN v ELSE Append(v, x)
           Is(f) == f = [T \in SUBSET (DOMAIN ByTime(EventsOf(u))) |->
                           IF T = {} THEN <<>> ELSE Step(f[T \ {Max(T)}], ByTime(EventsOf(u))[Max(T)])]
<1>a. PICK n, V, b : n = Len(ByTime(EventsOf(u))) /\ V = Seq(Event) /\ b = <<>>
  OBVIOUS
<1>b. PICK F : F = [k \in 1..n |-> [v \in V |-> Step(v, ByTime(EventsOf(u))[k])]]
  OBVIOUS
<1>1. n \in Nat /\ DOMAIN ByTime(EventsOf(u)) = 1..n /\ b \in V /\ \A k \in 1..n : ByTime(EventsOf(u))[k] \in Event
  BY <1>a
<1>2. \A v \in V, k \in 1..n : Step(v, ByTime(EventsOf(u))[k]) \in V
  <2> SUFFICES ASSUME NEW v \in V, NEW k \in 1..n
               PROVE  Step(v, ByTime(EventsOf(u))[k]) \in V
    OBVIOUS
  <2>1. v \in Seq(Event) /\ ByTime(EventsOf(u))[k] \in Event
    BY <1>1, <1>a
  <2> QED
    BY <1>a, <2>1, AppendProperties
<1> HIDE DEF Step
<1>3. F \in [1..n -> [V -> V]]
  BY <1>2, <1>b
<1>e. \A v \in V, k \in 1..n : F[k][v] = Step(v, ByTime(EventsOf(u))[k])
  BY <1>b
<1>4. \E f : Is(f)
  <2>1. PICK g \in [SUBSET (1..n) -> V] : IsLoop(g, b, F, n)
    BY <1>1, <1>3, LoopExists
  <2>2. ASSUME NEW T \in SUBSET (1..n), T # {}
        PROVE  g[T] = Step(g[T \ {Max(T)}], ByTime(EventsOf(u))[Max(T)])
    <3>1. Max(T) \in 1..n
      <4>1. T \in SUBSET (0..n)
        OBVIOUS
      <4> QED
        BY <1>1, <2>2, <4>1, MaxIs
    <3>2. g[T \ {Max(T)}] \in V
      OBVIOUS
    <3>3. g[T] = F[Max(T)][g[T \ {Max(T)}]]
      BY <2>1, <2>2 DEF IsLoop
    <3> QED
      BY <1>e, <3>1, <3>2, <3>3
  <2>3. g[{}] = b
    BY <2>1 DEF IsLoop
  <2>4. \A T \in SUBSET (1..n) :
          g[T] = IF T = {} THEN <<>> ELSE Step(g[T \ {Max(T)}], ByTime(EventsOf(u))[Max(T)])
    BY <2>2, <2>3, <1>a
  <2>5. Is(g)
    BY <1>1, <2>4
  <2> QED
    BY <2>5
<1>c. PICK c : c = CHOOSE f : Is(f)
  OBVIOUS
<1>5. Is(c)
  BY <1>4, <1>c
<1>6. PathOf(u) = c[1..n]
  <2>1. PathOf(u) = (CHOOSE f : Is(f))[DOMAIN ByTime(EventsOf(u))]
    BY DEF PathOf, FoldLeft, MapThenFoldSet, Step
  <2> QED
    BY <1>1, <1>c, <2>1
<1>7. c[{}] = b
  BY <1>5, <1>a
<1>8. ASSUME NEW k \in 1..n, c[1..(k - 1)] \in V
      PROVE  c[1..k] = F[k][c[1..(k - 1)]]
  <2>1. /\ (1..k) \in SUBSET (1..n) /\ (1..k) # {} /\ Max(1..k) = k
        /\ (1..k) \ {k} = 1..(k - 1)
    BY <1>1, LastOfUpTo
  <2>2. c[1..k] = Step(c[(1..k) \ {Max(1..k)}], ByTime(EventsOf(u))[Max(1..k)])
    BY <1>1, <1>5, <2>1
  <2>3. c[1..k] = Step(c[1..(k - 1)], ByTime(EventsOf(u))[k])
    BY <2>1, <2>2
  <2> QED
    BY <1>e, <1>8, <2>3
<1> HIDE DEF Is
<1>d. Unfolds(c, b, F, n, V)
  BY <1>7, <1>8 DEF Unfolds
<1>9. PICK acc \in [0..n -> V] : Steps(acc, b, F, n) /\ acc[n] = c[1..n]
  <2>1. n \in Nat
    BY <1>1
  <2>2. b \in V
    BY <1>1
  <2> QED
    BY <1>3, <1>d, <2>1, <2>2, LoopUnfolds
<1>10. acc[0] = <<>> /\ \A k \in 1..n : acc[k - 1] \in V /\ acc[k] = Step(acc[k - 1], ByTime(EventsOf(u))[k])
  <2>1. \A k \in 1..n : acc[k - 1] \in V
    BY <1>1
  <2> QED
    BY <1>e, <1>9, <1>a, <2>1 DEF Steps
<1>11. VisitsTo(acc, ByTime(EventsOf(u)))
  BY <1>10, <1>a DEF Step, VisitsTo
<1> QED
  BY <1>6, <1>9, <1>11, <1>a

\* What RecentEvents has after each event of s.
KeepsTo(acc, s, limit) ==
  /\ acc[0] = <<>>
  /\ \A k \in 1..Len(s) :
       acc[k] = IF Len(acc[k - 1]) < limit THEN Append(acc[k - 1], s[k])
                ELSE IF s[k].time > acc[k - 1][Oldest(acc[k - 1])].time
                     THEN [acc[k - 1] EXCEPT ![Oldest(acc[k - 1])] = s[k]]
                ELSE acc[k - 1]

\* RecentEvents is a loop over the index.
LEMMA KeepLoop ==
  ASSUME NEW X, NEW index \in Seq(X), NEW limit
  PROVE  \E acc \in [0..Len(index) -> Seq(X)] :
           KeepsTo(acc, index, limit) /\ acc[Len(index)] = RecentEvents(index, limit)
<1> DEFINE Step(v, x) == IF Len(v) < limit THEN Append(v, x)
                      ELSE IF x.time > v[Oldest(v)].time THEN [v EXCEPT ![Oldest(v)] = x]
                      ELSE v
           Is(f) == f = [T \in SUBSET (DOMAIN index) |->
                           IF T = {} THEN <<>> ELSE Step(f[T \ {Max(T)}], index[Max(T)])]
<1>a. PICK n, V, b : n = Len(index) /\ V = Seq(X) /\ b = <<>>
  OBVIOUS
<1>b. PICK F : F = [k \in 1..n |-> [v \in V |-> Step(v, index[k])]]
  OBVIOUS
<1>1. n \in Nat /\ DOMAIN index = 1..n /\ b \in V /\ \A k \in 1..n : index[k] \in X
  BY <1>a
<1>2. \A v \in V, k \in 1..n : Step(v, index[k]) \in V
  <2> SUFFICES ASSUME NEW v \in V, NEW k \in 1..n
               PROVE  Step(v, index[k]) \in V
    OBVIOUS
  <2>1. v \in Seq(X) /\ index[k] \in X
    BY <1>1, <1>a
  <2>a. PICK e, o : e = index[k] /\ o = Oldest(v)
    OBVIOUS
  <2>2. Append(v, e) \in Seq(X)
    BY <2>1, <2>a, AppendProperties
  <2>3. [v EXCEPT ![o] = e] \in Seq(X)
    <3>1. CASE o \in 1..Len(v)
      BY <2>1, <2>a, <3>1, ExceptSeq
    <3>2. CASE o \notin 1..Len(v)
      <4>1. v = [i \in DOMAIN v |-> v[i]] /\ DOMAIN v = 1..Len(v)
        BY <2>1
      <4>2. [v EXCEPT ![o] = e] = [i \in DOMAIN v |-> v[i]]
        BY <3>2, <4>1
      <4> QED
        BY <2>1, <4>1, <4>2
    <3> QED
      BY <3>1, <3>2
  <2> QED
    BY <1>a, <2>1, <2>2, <2>3, <2>a
<1> HIDE DEF Step
<1>3. F \in [1..n -> [V -> V]]
  BY <1>2, <1>b
<1>e. \A v \in V, k \in 1..n : F[k][v] = Step(v, index[k])
  BY <1>b
<1>4. \E f : Is(f)
  <2>1. PICK g \in [SUBSET (1..n) -> V] : IsLoop(g, b, F, n)
    BY <1>1, <1>3, LoopExists
  <2>2. ASSUME NEW T \in SUBSET (1..n), T # {}
        PROVE  g[T] = Step(g[T \ {Max(T)}], index[Max(T)])
    <3>1. Max(T) \in 1..n
      <4>1. T \in SUBSET (0..n)
        OBVIOUS
      <4> QED
        BY <1>1, <2>2, <4>1, MaxIs
    <3>2. g[T \ {Max(T)}] \in V
      OBVIOUS
    <3>3. g[T] = F[Max(T)][g[T \ {Max(T)}]]
      BY <2>1, <2>2 DEF IsLoop
    <3> QED
      BY <1>e, <3>1, <3>2, <3>3
  <2>3. g[{}] = b
    BY <2>1 DEF IsLoop
  <2>4. \A T \in SUBSET (1..n) :
          g[T] = IF T = {} THEN <<>> ELSE Step(g[T \ {Max(T)}], index[Max(T)])
    BY <2>2, <2>3, <1>a
  <2>5. Is(g)
    BY <1>1, <2>4
  <2> QED
    BY <2>5
<1>c. PICK c : c = CHOOSE f : Is(f)
  OBVIOUS
<1>5. Is(c)
  BY <1>4, <1>c
<1>6. RecentEvents(index, limit) = c[1..n]
  <2>1. RecentEvents(index, limit) = (CHOOSE f : Is(f))[DOMAIN index]
    BY DEF RecentEvents, FoldLeft, MapThenFoldSet, Step
  <2> QED
    BY <1>1, <1>c, <2>1
<1>7. c[{}] = b
  BY <1>5, <1>a
<1>8. ASSUME NEW k \in 1..n, c[1..(k - 1)] \in V
      PROVE  c[1..k] = F[k][c[1..(k - 1)]]
  <2>1. /\ (1..k) \in SUBSET (1..n) /\ (1..k) # {} /\ Max(1..k) = k
        /\ (1..k) \ {k} = 1..(k - 1)
    BY <1>1, LastOfUpTo
  <2>2. c[1..k] = Step(c[(1..k) \ {Max(1..k)}], index[Max(1..k)])
    BY <1>1, <1>5, <2>1
  <2>3. c[1..k] = Step(c[1..(k - 1)], index[k])
    BY <2>1, <2>2
  <2> QED
    BY <1>e, <1>8, <2>3
<1> HIDE DEF Is
<1>d. Unfolds(c, b, F, n, V)
  BY <1>7, <1>8 DEF Unfolds
<1>9. PICK acc \in [0..n -> V] : Steps(acc, b, F, n) /\ acc[n] = c[1..n]
  <2>1. n \in Nat
    BY <1>1
  <2>2. b \in V
    BY <1>1
  <2> QED
    BY <1>3, <1>d, <2>1, <2>2, LoopUnfolds
<1>10. acc[0] = <<>> /\ \A k \in 1..n : acc[k - 1] \in V /\ acc[k] = Step(acc[k - 1], index[k])
  <2>1. \A k \in 1..n : acc[k - 1] \in V
    BY <1>1
  <2> QED
    BY <1>e, <1>9, <1>a, <2>1 DEF Steps
<1>11. KeepsTo(acc, index, limit)
  BY <1>10, <1>a DEF Step, KeepsTo
<1> QED
  BY <1>6, <1>9, <1>11, <1>a

-------------------------------------------------------------------------------
(* Conversions. *)

\* A user's events are those of the listing, and the views are the page views of them.
LEMMA EventsAre ==
  ASSUME Listed, NEW u
  PROVE  /\ EventsOf(u) \in Seq(Event) /\ ViewsOf(u) \in Seq(Event)
         /\ Len(ViewsOf(u)) <= Len(listing)
         /\ \A i \in DOMAIN EventsOf(u) : EventsOf(u)[i] \in Event /\ EventsOf(u)[i].user = u
         /\ \A i \in DOMAIN ViewsOf(u) : ViewsOf(u)[i] \in Event /\ IsView(ViewsOf(u)[i])
         /\ Len(ViewsOf(u)) = Among(EventsOf(u), {e \in Event : IsView(e)})
         /\ \A E : Among(ViewsOf(u), E) = Among(EventsOf(u), {e \in Event : IsView(e)} \cap E)
<1>a. PICK A, V, events, views : /\ A = {e \in Event : e.user = u} /\ V = {e \in Event : IsView(e)}
                                 /\ events = EventsOf(u) /\ views = ViewsOf(u)
  OBVIOUS
<1>1. listing \in Seq(Event)
  BY DEF Listed
<1>2. events = Selected(listing, A)
  BY <1>a DEF EventsOf
<1>3. views = Selected(events, V)
  BY <1>a DEF ViewsOf
<1>4. /\ events \in Seq(Event) /\ Len(events) <= Len(listing) /\ \A i \in DOMAIN events : events[i] \in A
  BY <1>1, <1>2, SelectedCounts
<1>5. /\ views \in Seq(Event) /\ Len(views) <= Len(events) /\ \A i \in DOMAIN views : views[i] \in V
      /\ Len(views) = Among(events, V)
  BY <1>3, <1>4, SelectedCounts
<1>6. \A E : Among(views, E) = Among(events, V \cap E)
  BY <1>3, <1>4, SelectedCounts
<1>7. Len(views) <= Len(listing)
  <2>1. Len(views) \in Int /\ Len(events) \in Int /\ Len(listing) \in Int
    BY <1>1, <1>4, <1>5
  <2> QED
    BY <1>4, <1>5, <2>1
<1>8. (\A i \in DOMAIN events : events[i] \in Event /\ events[i].user = u)
      /\ (\A i \in DOMAIN views : views[i] \in Event /\ IsView(views[i]))
  BY <1>4, <1>5, <1>a
<1> QED
  BY <1>4, <1>5, <1>6, <1>7, <1>8, <1>a

\* An event adds less than a second to the time to convert.
LEMMA TimeNearIs ==
  ASSUME Listed, NEW u, NEW p, NEW t \in Nat
  PROVE  TimeNear(u, p, t) \in (1 - Second)..(Second - 1)
<1>a. PICK near : near = {i \in DOMAIN listing :
                            /\ listing[i].user = u /\ listing[i].page = p
                            /\ listing[i].time \in (t - Second + 1)..(t + Second - 1)}
  OBVIOUS
<1>0. Second \in Nat \ {0}
  BY AnalysesAssumption
<1>1. TimeNear(u, p, t) = IF near = {} THEN 0 ELSE listing[Min(near)].time - t
  BY <1>a DEF TimeNear
<1>2. CASE near = {}
  BY <1>0, <1>1, <1>2
<1>3. CASE near # {}
  <2>1. near \in SUBSET Nat
    BY <1>a DEF Listed
  <2>2. Min(near) \in near
    BY <1>3, <2>1, MinIs
  <2>a. PICK s : s = listing[Min(near)].time
    OBVIOUS
  <2>3. s \in (t - Second + 1)..(t + Second - 1)
    BY <2>2, <1>a, <2>a
  <2>4. s - t \in (1 - Second)..(Second - 1)
    BY <1>0, <2>3
  <2> QED
    BY <1>1, <1>3, <2>4, <2>a
<1> QED
  BY <1>2, <1>3

\* What the scan of u's pages makes of v at the i-th.
Begun(v, u, goal, i) ==
  IF ViewsOf(u)[i].page # goal[1] THEN v
  ELSE [v EXCEPT !.visits = @ + 1, !.start = listing[i].time]

Looked(v, u, goal, i) ==
  LET begun == Begun(v, u, goal, i)
  IN IF begun.visits > 0 /\ ViewsOf(u)[i].page = goal[2] /\ ~begun.converted
     THEN [begun EXCEPT !.converted = TRUE, !.time = TimeNear(u, goal[1], begun.start)]
     ELSE begun

NoVisit == [visits |-> 0, start |-> 0, converted |-> FALSE, time |-> 0]

Scanned == [visits : Nat, start : Nat, converted : BOOLEAN, time : (1 - Second)..(Second - 1)]

ScansTo(acc, u, goal) ==
  acc[0] = NoVisit /\ \A k \in 1..Len(ViewsOf(u)) : acc[k] = Looked(acc[k - 1], u, goal, k)

\* Scan is a loop over the user's page views.
LEMMA ScanLoop ==
  ASSUME Listed, NEW u, NEW goal
  PROVE  \E acc \in [0..Len(ViewsOf(u)) -> Scanned] :
           ScansTo(acc, u, goal) /\ acc[Len(ViewsOf(u))] = Scan(u, goal)
<1> DEFINE Step(v, x) == Looked(v, u, goal, x)
           W == [i \in DOMAIN ViewsOf(u) |-> i]
           Is(f) == f = [T \in SUBSET (DOMAIN W) |->
                           IF T = {} THEN NoVisit ELSE Step(f[T \ {Max(T)}], W[Max(T)])]
<1>a. PICK n, V, b : n = Len(ViewsOf(u)) /\ V = Scanned /\ b = NoVisit
  OBVIOUS
<1>b. PICK F : F = [k \in 1..n |-> [v \in V |-> Step(v, k)]]
  OBVIOUS
<1>1. n \in Nat /\ DOMAIN ViewsOf(u) = 1..n /\ b \in V /\ n <= Len(listing)
  <2>1. ViewsOf(u) \in Seq(Event) /\ Len(ViewsOf(u)) <= Len(listing)
    BY EventsAre
  <2>2. 0 \in (1 - Second)..(Second - 1)
    <3>1. Second \in Nat \ {0}
      BY AnalysesAssumption
    <3> QED
      BY <3>1
  <2>3. NoVisit \in Scanned
    BY <2>2 DEF NoVisit, Scanned
  <2> QED
    BY <1>a, <2>1, <2>3
<1>w. DOMAIN W = 1..n /\ \A k \in 1..n : W[k] = k
  BY <1>1
<1>2. \A v \in V, k \in 1..n : Step(v, k) \in V
  <2> SUFFICES ASSUME NEW v \in Scanned, NEW k \in 1..n
               PROVE  Looked(v, u, goal, k) \in Scanned
    BY <1>a
  <2>a. PICK begun : begun = Begun(v, u, goal, k)
    OBVIOUS
  <2>1. listing[k].time \in Nat
    <3>1. k \in DOMAIN listing /\ listing[k] \in Event
      BY <1>1 DEF Listed
    <3> QED
      BY <3>1, AnalysesAssumption
  <2>2. begun \in Scanned
    <3>a. PICK t : t = listing[k].time
      OBVIOUS
    <3>1. begun = v \/ begun = [v EXCEPT !.visits = @ + 1, !.start = t]
      BY <2>a, <3>a DEF Begun
    <3>2. v.visits + 1 \in Nat /\ t \in Nat
      BY <2>1, <3>a DEF Scanned
    <3>3. [v EXCEPT !.visits = @ + 1, !.start = t] \in Scanned
      BY <3>2 DEF Scanned
    <3> QED
      BY <3>1, <3>3
  <2>3. TimeNear(u, goal[1], begun.start) \in (1 - Second)..(Second - 1)
    <3>1. begun.start \in Nat
      BY <2>2 DEF Scanned
    <3> QED
      BY <3>1, TimeNearIs
  <2>b. PICK d : d = TimeNear(u, goal[1], begun.start)
    OBVIOUS
  <2>4. [begun EXCEPT !.converted = TRUE, !.time = d] \in Scanned
    BY <2>2, <2>3, <2>b DEF Scanned
  <2>5. Looked(v, u, goal, k) = begun \/ Looked(v, u, goal, k) = [begun EXCEPT !.converted = TRUE, !.time = d]
    BY <2>a, <2>b DEF Looked
  <2> QED
    BY <2>2, <2>4, <2>5
<1> HIDE DEF Step
<1>3. F \in [1..n -> [V -> V]]
  BY <1>2, <1>b
<1>e. \A v \in V, k \in 1..n : F[k][v] = Step(v, k)
  BY <1>b
<1>4. \E f : Is(f)
  <2>1. PICK g \in [SUBSET (1..n) -> V] : IsLoop(g, b, F, n)
    BY <1>1, <1>3, LoopExists
  <2>2. ASSUME NEW T \in SUBSET (1..n), T # {}
        PROVE  g[T] = Step(g[T \ {Max(T)}], Max(T))
    <3>1. Max(T) \in 1..n
      <4>1. T \in SUBSET (0..n)
        OBVIOUS
      <4> QED
        BY <1>1, <2>2, <4>1, MaxIs
    <3>2. g[T \ {Max(T)}] \in V
      OBVIOUS
    <3>3. g[T] = F[Max(T)][g[T \ {Max(T)}]]
      BY <2>1, <2>2 DEF IsLoop
    <3> QED
      BY <1>e, <3>1, <3>2, <3>3
  <2>3. g[{}] = b
    BY <2>1 DEF IsLoop
  <2>4. \A T \in SUBSET (1..n) :
          g[T] = IF T = {} THEN NoVisit ELSE Step(g[T \ {Max(T)}], Max(T))
    BY <2>2, <2>3, <1>a
  <2>5. Is(g)
    <3>1. \A T \in SUBSET (1..n) : T # {} => W[Max(T)] = Max(T)
      <4> SUFFICES ASSUME NEW T \in SUBSET (1..n), T # {} PROVE W[Max(T)] = Max(T)
        OBVIOUS
      <4>1. T \in SUBSET (0..n)
        OBVIOUS
      <4>2. Max(T) \in 1..n
        BY <1>1, <4>1, MaxIs
      <4> QED
        BY <1>w, <4>2
    <3> HIDE DEF W
    <3>2. \A T \in SUBSET (1..n) :
            g[T] = IF T = {} THEN NoVisit ELSE Step(g[T \ {Max(T)}], W[Max(T)])
      BY <2>4, <3>1
    <3> QED
      BY <1>w, <3>2
  <2> QED
    BY <2>5
<1>c. PICK c : c = CHOOSE f : Is(f)
  OBVIOUS
<1>5. Is(c)
  BY <1>4, <1>c
<1>6. Scan(u, goal) = c[1..n]
  <2>1. Scan(u, goal) = (CHOOSE f : Is(f))[DOMAIN W]
    BY DEF Scan, FoldLeftDomain, FoldLeft, NoVisit, Looked, Begun, MapThenFoldSet, Step
  <2> QED
    BY <1>1, <1>w, <1>c, <2>1
<1>7. c[{}] = b
  BY <1>5, <1>a
<1>8. ASSUME NEW k \in 1..n, c[1..(k - 1)] \in V
      PROVE  c[1..k] = F[k][c[1..(k - 1)]]
  <2>1. /\ (1..k) \in SUBSET (1..n) /\ (1..k) # {} /\ Max(1..k) = k
        /\ (1..k) \ {k} = 1..(k - 1)
    BY <1>1, LastOfUpTo
  <2>2. c[1..k] = Step(c[(1..k) \ {Max(1..k)}], W[Max(1..k)])
    BY <1>1, <1>w, <1>5, <2>1
  <2>3. c[1..k] = Step(c[1..(k - 1)], k)
    BY <2>1, <1>w, <2>2
  <2> QED
    BY <1>e, <1>8, <2>3
<1> HIDE DEF Is
<1>d. Unfolds(c, b, F, n, V)
  BY <1>7, <1>8 DEF Unfolds
<1>9. PICK acc \in [0..n -> V] : Steps(acc, b, F, n) /\ acc[n] = c[1..n]
  BY <1>1, <1>3, <1>d, LoopUnfolds
<1>10. acc[0] = NoVisit /\ \A k \in 1..n : acc[k - 1] \in V /\ acc[k] = Step(acc[k - 1], k)
  <2>1. \A k \in 1..n : acc[k - 1] \in V
    BY <1>1
  <2> QED
    BY <1>e, <1>9, <1>a, <2>1 DEF Steps
<1>11. ScansTo(acc, u, goal)
  BY <1>10, <1>a DEF Step, ScansTo
<1> QED
  BY <1>6, <1>9, <1>11, <1>a

\* What holds of v after the scan of the first k pages of u.
ScannedTo(v, u, goal, k) ==
  /\ v.visits > 0 <=> \E i \in 1..k : ViewsOf(u)[i].page = goal[1]
  /\ v.converted <=> \E j \in 1..k : /\ ViewsOf(u)[j].page = goal[2]
                                     /\ \E i \in 1..j : ViewsOf(u)[i].page = goal[1]
  /\ v.converted => v.visits > 0
  /\ ~v.converted => v.time = 0

\* One more view is looked at.
LEMMA LookKeeps ==
  ASSUME NEW u, NEW goal, NEW k \in Nat \ {0}, NEW v \in Scanned, ScannedTo(v, u, goal, k - 1)
  PROVE  ScannedTo(Looked(v, u, goal, k), u, goal, k)
<1>a. PICK S : S = {i \in 1..k : ViewsOf(u)[i].page = goal[1]}
  OBVIOUS
<1>b. PICK C : C = {j \in 1..k : /\ ViewsOf(u)[j].page = goal[2]
                                 /\ \E i \in 1..j : ViewsOf(u)[i].page = goal[1]}
  OBVIOUS
<1>c. PICK begun, w : begun = Begun(v, u, goal, k) /\ w = Looked(v, u, goal, k)
  OBVIOUS
<1>0. k \in 1..k /\ \A i \in 1..k : i = k \/ i \in 1..(k - 1)
  OBVIOUS
<1>1. v.visits \in Nat /\ v.converted \in BOOLEAN
  BY DEF Scanned
<1>2. (v.visits > 0 <=> \E i \in S : i # k) /\ (v.converted <=> \E j \in C : j # k)
  <2>1. \A i \in 1..(k - 1) : i \in 1..k /\ i # k
    OBVIOUS
  <2>2. (\E i \in S : i # k) <=> \E i \in 1..(k - 1) : ViewsOf(u)[i].page = goal[1]
    BY <1>0, <1>a, <2>1
  <2>3. (\E j \in C : j # k) <=> \E j \in 1..(k - 1) :
           ViewsOf(u)[j].page = goal[2] /\ \E i \in 1..j : ViewsOf(u)[i].page = goal[1]
    BY <1>0, <1>b, <2>1
  <2> QED
    BY <2>2, <2>3 DEF ScannedTo
<1>3. begun.converted = v.converted /\ begun.time = v.time /\ (begun.visits > 0 <=> S # {})
  <2>1. CASE ViewsOf(u)[k].page # goal[1]
    <3>1. begun = v /\ k \notin S
      BY <2>1, <1>a, <1>c DEF Begun
    <3> QED
      BY <1>2, <3>1
  <2>2. CASE ViewsOf(u)[k].page = goal[1]
    <3>a. PICK t : t = listing[k].time
      OBVIOUS
    <3>1. begun = [v EXCEPT !.visits = @ + 1, !.start = t] /\ k \in S
      BY <2>2, <1>0, <1>a, <1>c, <3>a DEF Begun
    <3>2. begun.visits = v.visits + 1 /\ begun.converted = v.converted /\ begun.time = v.time
      BY <3>1 DEF Scanned
    <3> QED
      BY <1>1, <3>1, <3>2
  <2> QED
    BY <2>1, <2>2
<1>4. k \in C <=> ViewsOf(u)[k].page = goal[2] /\ S # {}
  BY <1>0, <1>a, <1>b
<1>5. v.converted => v.visits > 0
  BY DEF ScannedTo
<1>6. S = {} => C = {}
  <2>1. \A j \in 1..k : \A i \in 1..j : i \in 1..k
    OBVIOUS
  <2> QED
    BY <1>a, <1>b, <2>1
<1>7. (w.visits > 0 <=> S # {}) /\ (w.converted <=> C # {}) /\ (~w.converted => w.time = 0)
  <2>1. CASE begun.visits > 0 /\ ViewsOf(u)[k].page = goal[2] /\ ~begun.converted
    <3>a. PICK d : d = TimeNear(u, goal[1], begun.start)
      OBVIOUS
    <3>1. w = [begun EXCEPT !.converted = TRUE, !.time = d]
      BY <1>c, <2>1, <3>a DEF Looked
    <3>2. w.visits = begun.visits /\ w.converted = TRUE
      <4>1. begun = v \/ \E t : begun = [v EXCEPT !.visits = @ + 1, !.start = t]
        BY <1>c DEF Begun
      <4> QED
        BY <3>1, <4>1 DEF Scanned
    <3>3. k \in C
      BY <1>3, <1>4, <2>1
    <3> QED
      BY <1>3, <3>2, <3>3
  <2>2. CASE ~(begun.visits > 0 /\ ViewsOf(u)[k].page = goal[2] /\ ~begun.converted)
    <3>1. w = begun
      BY <1>c, <2>2 DEF Looked
    <3>2. begun.converted <=> C # {}
      BY <1>2, <1>3, <1>4, <2>2
    <3>3. ~v.converted => v.time = 0
      BY DEF ScannedTo
    <3> QED
      BY <1>3, <3>1, <3>2, <3>3
  <2> QED
    BY <2>1, <2>2
<1>8. w.converted => w.visits > 0
  BY <1>6, <1>7
<1> QED
  BY <1>7, <1>8, <1>a, <1>b, <1>c DEF ScannedTo

\* The scan converts exactly the users who saw the end page at or after a start page.
LEMMA ScanIs ==
  ASSUME Listed, NEW u, NEW goal
  PROVE  /\ Scan(u, goal) \in Scanned
         /\ ScannedTo(Scan(u, goal), u, goal, Len(ViewsOf(u)))
<1>a. PICK n : n = Len(ViewsOf(u))
  OBVIOUS
<1>1. n \in Nat
  BY <1>a, EventsAre
<1>2. PICK acc \in [0..n -> Scanned] : ScansTo(acc, u, goal) /\ acc[n] = Scan(u, goal)
  BY <1>a, ScanLoop
<1>b. PICK Q : Q = {k \in 0..n : ScannedTo(acc[k], u, goal, k)}
  OBVIOUS
<1>3. 0 \in Q
  <2>1. acc[0] = NoVisit /\ 0 \in 0..n /\ 1..0 = {}
    BY <1>1, <1>2 DEF ScansTo
  <2>2. ScannedTo(acc[0], u, goal, 0)
    BY <2>1 DEF ScannedTo, NoVisit
  <2> QED
    BY <1>b, <2>1, <2>2
<1>4. ASSUME NEW k \in 1..n, k - 1 \in Q PROVE k \in Q
  <2>1. k \in 0..n /\ k - 1 \in 0..n /\ k \in Nat \ {0}
    BY <1>1
  <2>2. acc[k - 1] \in Scanned /\ acc[k] = Looked(acc[k - 1], u, goal, k)
    BY <1>2, <1>a, <2>1 DEF ScansTo
  <2>3. ScannedTo(acc[k - 1], u, goal, k - 1)
    BY <1>4, <1>b
  <2>4. ScannedTo(acc[k], u, goal, k)
    BY <2>1, <2>2, <2>3, LookKeeps
  <2> QED
    BY <1>b, <2>1, <2>4
<1>5. Q = 0..n
  <2>1. Q \in SUBSET (0..n)
    BY <1>b
  <2> QED
    BY <1>1, <1>3, <1>4, <2>1, InductionUpTo
<1>6. n \in 0..n /\ n \in Q
  BY <1>1, <1>5
<1> QED
  BY <1>2, <1>6, <1>a, <1>b

\* A sum of numbers that are at least m in C, and elsewhere not negative.
LEMMA SumAtLeast ==
  ASSUME NEW S, IsFiniteSet(S), NEW h \in [S -> Int], NEW C \in SUBSET S, NEW m \in Int,
         \A x \in C : m <= h[x], \A x \in S \ C : 0 <= h[x]
  PROVE  SumFunction(h) \in Int /\ m * Cardinality(C) <= SumFunction(h)
<1>1. PICK f : IsSum(f, h, S) /\ SumFunction(h) = f[S]
  BY SumFunctionIs
<1>2. SumsUp(f, h, S)
  BY <1>1, SumAnyOrder
<1> DEFINE Q == {T \in SUBSET S : m * Cardinality(T \cap C) <= f[T]}
<1>3. {} \in Q
  <2>1. {} \cap C = {} /\ Cardinality({}) = 0 /\ f[{}] = 0
    BY <1>2, FS_EmptySet DEF SumsUp
  <2> QED
    BY <2>1
<1>4. ASSUME NEW T \in SUBSET S, T # {}, \A x \in T : T \ {x} \in Q
      PROVE  T \in Q
  <2>a. PICK a \in T : TRUE
    BY <1>4
  <2>b. PICK B, before, now : B = (T \ {a}) \cap C /\ before = f[T \ {a}] /\ now = f[T]
    OBVIOUS
  <2>1. now = h[a] + before /\ before \in Int /\ h[a] \in Int
    BY <1>2, <2>b DEF SumsUp
  <2>c. PICK n, y : n = Cardinality(B) /\ y = h[a]
    OBVIOUS
  <2>2. m * n <= before
    BY <1>4, <2>b, <2>c
  <2>3. IsFiniteSet(B) /\ n \in Nat
    <3>1. B \in SUBSET S
      BY <2>b
    <3> QED
      BY <3>1, <2>c, FS_Subset, FS_CardinalityType
  <2>4. CASE a \in C
    <3>1. T \cap C = B \cup {a} /\ a \notin B
      BY <2>b, <2>4
    <3>2. Cardinality(T \cap C) = n + 1
      BY <2>3, <2>c, <3>1, FS_AddElement
    <3>3. m <= y
      BY <2>4, <2>c
    <3>4. m * (n + 1) <= now
      BY <2>1, <2>2, <2>3, <2>c, <3>3
    <3> QED
      BY <2>b, <3>2, <3>4
  <2>5. CASE a \notin C
    <3>1. T \cap C = B
      BY <2>b, <2>5
    <3>2. 0 <= y
      BY <2>5, <2>c
    <3>3. m * n <= now
      <4>a. PICK z : z = m * n
        OBVIOUS
      <4>1. z \in Int
        BY <2>3, <4>a
      <4> QED
        BY <2>1, <2>2, <2>c, <3>2, <4>1, <4>a
    <3> QED
      BY <2>b, <2>c, <3>1, <3>3
  <2> QED
    BY <2>4, <2>5
<1>5. Inductive(Q, S)
  BY <1>3, <1>4 DEF Inductive
<1>6. S \in Q
  <2> HIDE DEF Q
  <2> QED
    BY <1>5, SubsetInduction
<1>7. S \cap C = C
  OBVIOUS
<1> QED
  BY <1>1, <1>2, <1>6, <1>7 DEF SumsUp

\* A sum of numbers that are at most m in C, and elsewhere not positive.
LEMMA SumAtMost ==
  ASSUME NEW S, IsFiniteSet(S), NEW h \in [S -> Int], NEW C \in SUBSET S, NEW m \in Int,
         \A x \in C : h[x] <= m, \A x \in S \ C : h[x] <= 0
  PROVE  SumFunction(h) \in Int /\ SumFunction(h) <= m * Cardinality(C)
<1>1. PICK f : IsSum(f, h, S) /\ SumFunction(h) = f[S]
  BY SumFunctionIs
<1>2. SumsUp(f, h, S)
  BY <1>1, SumAnyOrder
<1> DEFINE Q == {T \in SUBSET S : f[T] <= m * Cardinality(T \cap C)}
<1>3. {} \in Q
  <2>1. {} \cap C = {} /\ Cardinality({}) = 0 /\ f[{}] = 0
    BY <1>2, FS_EmptySet DEF SumsUp
  <2> QED
    BY <2>1
<1>4. ASSUME NEW T \in SUBSET S, T # {}, \A x \in T : T \ {x} \in Q
      PROVE  T \in Q
  <2>a. PICK a \in T : TRUE
    BY <1>4
  <2>b. PICK B, before, now : B = (T \ {a}) \cap C /\ before = f[T \ {a}] /\ now = f[T]
    OBVIOUS
  <2>1. now = h[a] + before /\ before \in Int /\ h[a] \in Int
    BY <1>2, <2>b DEF SumsUp
  <2>c. PICK n, y : n = Cardinality(B) /\ y = h[a]
    OBVIOUS
  <2>2. before <= m * n
    BY <1>4, <2>b, <2>c
  <2>3. IsFiniteSet(B) /\ n \in Nat
    <3>1. B \in SUBSET S
      BY <2>b
    <3> QED
      BY <3>1, <2>c, FS_Subset, FS_CardinalityType
  <2>4. CASE a \in C
    <3>1. T \cap C = B \cup {a} /\ a \notin B
      BY <2>b, <2>4
    <3>2. Cardinality(T \cap C) = n + 1
      BY <2>3, <2>c, <3>1, FS_AddElement
    <3>3. y <= m
      BY <2>4, <2>c
    <3>4. now <= m * (n + 1)
      BY <2>1, <2>2, <2>3, <2>c, <3>3
    <3> QED
      BY <2>b, <3>2, <3>4
  <2>5. CASE a \notin C
    <3>1. T \cap C = B
      BY <2>b, <2>5
    <3>2. y <= 0
      BY <2>5, <2>c
    <3>3. now <= m * n
      <4>a. PICK z : z = m * n
        OBVIOUS
      <4>1. z \in Int
        BY <2>3, <4>a
      <4> QED
        BY <2>1, <2>2, <2>c, <3>2, <4>1, <4>a
    <3> QED
      BY <2>b, <2>c, <3>1, <3>3
  <2> QED
    BY <2>4, <2>5
<1>5. Inductive(Q, S)
  BY <1>3, <1>4 DEF Inductive
<1>6. S \in Q
  <2> HIDE DEF Q
  <2> QED
    BY <1>5, SubsetInduction
<1>7. S \cap C = C
  OBVIOUS
<1> QED
  BY <1>1, <1>2, <1>6, <1>7 DEF SumsUp

\* Go's division, which cuts towards 0, stays within the bounds of what it divides.
LEMMA QuotientIs ==
  ASSUME NEW n \in Int, NEW m \in Nat, NEW d \in Nat \ {0}, -(m * d) <= n, n <= m * d
  PROVE  Quotient(n, d) \in (-m)..m
<1>1. ASSUME NEW x \in Nat, x <= m * d PROVE x \div d \in 0..m
  <2>a. PICK q, r : q = x \div d /\ r = x % d
    OBVIOUS
  <2>1. q \in Int /\ r \in Int /\ x = d * q + r /\ 0 <= r /\ r < d
    BY <2>a
  <2>2. 0 <= q
    <3> SUFFICES ASSUME q <= -1 PROVE FALSE
      BY <2>1
    <3>1. d * q <= d * (-1)
      BY <2>1
    <3> QED
      BY <2>1, <3>1
  <2>3. q <= m
    <3> SUFFICES ASSUME m + 1 <= q PROVE FALSE
      BY <2>1
    <3>1. d * (m + 1) <= d * q
      BY <2>1
    <3>2. d * (m + 1) = m * d + d
      OBVIOUS
    <3> QED
      BY <1>1, <2>1, <3>1, <3>2
  <2> QED
    BY <2>1, <2>2, <2>3, <2>a
<1>2. CASE n >= 0
  BY <1>1, <1>2 DEF Quotient
<1>3. CASE ~(n >= 0)
  <2>1. -n \in Nat /\ -n <= m * d
    <3>a. PICK z : z = m * d
      OBVIOUS
    <3>1. z \in Int
      BY <3>a
    <3> QED
      BY <1>3, <3>1, <3>a
  <2>2. (-n) \div d \in 0..m
    BY <1>1, <2>1
  <2> QED
    BY <1>3, <2>2 DEF Quotient
<1> QED
  BY <1>2, <1>3

\* ConversionsAddUp holds of every listing.
LEMMA ConversionsHold == Listed => ConversionsAddUp
<1> SUFFICES ASSUME Listed, NEW goal \in Goal
             PROVE  LET result == CalculateConversionRate(goal)
                        Converted(u) == LET pages == ViewsOf(u)
                                        IN \E i, j \in DOMAIN pages :
                                             i <= j /\ pages[i].page = goal[1] /\ pages[j].page = goal[2]
                    IN /\ result.converted = Cardinality({u \in User : Converted(u)})
                       /\ result.dropOff >= 0
                       /\ result.avgTime \in (1 - Second)..(Second - 1)
  BY DEF ConversionsAddUp
<1>a. PICK scan : scan = [u \in User |-> Scan(u, goal)]
  OBVIOUS
<1>b. PICK C, visits, times : /\ C = {u \in User : scan[u].converted}
                              /\ visits = [u \in User |-> scan[u].visits]
                              /\ times = [u \in User |-> scan[u].time]
  OBVIOUS
<1>c. PICK v, c, t : v = SumFunction(visits) /\ c = Cardinality(C) /\ t = SumFunction(times)
  OBVIOUS
<1>0. IsFiniteSet(User) /\ Second \in Nat \ {0}
  BY AnalysesAssumption
<1>1. ASSUME NEW u \in User
      PROVE  /\ scan[u] \in Scanned
             /\ scan[u].converted <=> \E i, j \in DOMAIN ViewsOf(u) :
                  i <= j /\ ViewsOf(u)[i].page = goal[1] /\ ViewsOf(u)[j].page = goal[2]
             /\ scan[u].converted => scan[u].visits > 0
             /\ ~scan[u].converted => scan[u].time = 0
  <2>a. PICK s, n, p : s = Scan(u, goal) /\ n = Len(ViewsOf(u)) /\ p = ViewsOf(u)
    OBVIOUS
  <2>1. s \in Scanned /\ ScannedTo(s, u, goal, n)
    BY <2>a, ScanIs
  <2>2. scan[u] = s
    BY <1>a, <2>a
  <2>3. n \in Nat /\ DOMAIN p = 1..n
    <3>1. p \in Seq(Event)
      BY <2>a, EventsAre
    <3> QED
      BY <2>a, <3>1
  <2>4. (\E i, j \in DOMAIN p : i <= j /\ p[i].page = goal[1] /\ p[j].page = goal[2])
          <=> \E j \in 1..n : p[j].page = goal[2] /\ \E i \in 1..j : p[i].page = goal[1]
    <3>1. ASSUME NEW j \in 1..n, NEW i \in 1..j PROVE i \in 1..n /\ i <= j
      BY <2>3
    <3>2. ASSUME NEW j \in 1..n, NEW i \in 1..n, i <= j PROVE i \in 1..j
      BY <2>3, <3>2
    <3> QED
      BY <2>3, <3>1, <3>2
  <2> QED
    BY <2>1, <2>2, <2>4, <2>a DEF ScannedTo
<1>2. /\ visits \in [User -> Int] /\ times \in [User -> Int]
      /\ \A u \in User : 0 <= visits[u] /\ 1 - Second <= times[u] /\ times[u] <= Second - 1
  <2>1. ASSUME NEW u \in User
        PROVE  /\ visits[u] \in Nat /\ times[u] \in (1 - Second)..(Second - 1)
    BY <1>1, <1>b DEF Scanned
  <2>2. visits \in [User -> Int]
    BY <1>b, <2>1
  <2>3. times \in [User -> Int]
    <3>1. \A u \in User : times[u] \in Int
      BY <1>0, <2>1
    <3> QED
      BY <1>b, <3>1
  <2>4. ASSUME NEW u \in User
        PROVE  0 <= visits[u] /\ 1 - Second <= times[u] /\ times[u] <= Second - 1
    BY <1>0, <2>1
  <2> QED
    BY <2>2, <2>3, <2>4
<1>3. C \in SUBSET User /\ c \in Nat
  <2>1. C \in SUBSET User
    BY <1>b
  <2> QED
    BY <1>0, <1>c, <2>1, FS_Subset, FS_CardinalityType
<1>4. v \in Int /\ c <= v
  <2>1. \A u \in C : 1 <= visits[u]
    <3> SUFFICES ASSUME NEW u \in C PROVE 1 <= visits[u]
      OBVIOUS
    <3>1. u \in User /\ scan[u].converted /\ visits[u] = scan[u].visits
      BY <1>b
    <3>2. visits[u] > 0 /\ visits[u] \in Int
      BY <1>1, <1>2, <3>1
    <3> QED
      BY <3>2
  <2>2. v \in Int /\ 1 * c <= v
    BY <1>0, <1>2, <1>3, <1>c, <2>1, SumAtLeast
  <2> QED
    BY <1>3, <2>2
<1>5. t \in Int /\ (1 - Second) * c <= t /\ t <= (Second - 1) * c
  <2>1. \A u \in User \ C : times[u] = 0
    BY <1>1, <1>b
  <2>2. (\A u \in C : 1 - Second <= times[u]) /\ (\A u \in User \ C : 0 <= times[u])
    BY <1>2, <1>3, <2>1
  <2>3. (\A u \in C : times[u] <= Second - 1) /\ (\A u \in User \ C : times[u] <= 0)
    BY <1>2, <1>3, <2>1
  <2>4. 1 - Second \in Int /\ Second - 1 \in Int
    BY <1>0
  <2>a. PICK lo, hi : lo = 1 - Second /\ hi = Second - 1
    OBVIOUS
  <2>5. t \in Int /\ lo * c <= t
    BY <1>0, <1>2, <1>3, <1>c, <2>2, <2>4, <2>a, SumAtLeast
  <2>6. t <= hi * c
    BY <1>0, <1>2, <1>3, <1>c, <2>3, <2>4, <2>a, SumAtMost
  <2> QED
    BY <2>5, <2>6, <2>a
<1>6. c > 0 => Quotient(t, c) \in (1 - Second)..(Second - 1)
  <2> SUFFICES ASSUME c > 0 PROVE Quotient(t, c) \in (1 - Second)..(Second - 1)
    OBVIOUS
  <2>a. PICK m : m = Second - 1
    OBVIOUS
  <2>1. m \in Nat /\ c \in Nat \ {0} /\ 1 - Second = -m
    BY <1>0, <1>3, <2>a
  <2>2. (1 - Second) * c = -(m * c)
    BY <1>0, <1>3, <2>a
  <2>3. -(m * c) <= t /\ t <= m * c
    BY <1>5, <2>2, <2>a
  <2>4. Quotient(t, c) \in (-m)..m
    BY <1>5, <2>1, <2>3, QuotientIs
  <2> QED
    BY <2>1, <2>4, <2>a
<1>7. CalculateConversionRate(goal) =
        [visitors  |-> v,
         converted |-> c,
         dropOff   |-> IF v > 0 THEN v - c ELSE 0,
         avgTime   |-> IF c > 0 THEN Quotient(t, c) ELSE 0]
  BY <1>a, <1>b, <1>c, Zenon DEF CalculateConversionRate, SumOver
<1>8. 0 \in (1 - Second)..(Second - 1)
  BY <1>0
<1>9. c = Cardinality({u \in User :
            \E i, j \in DOMAIN ViewsOf(u) :
              i <= j /\ ViewsOf(u)[i].page = goal[1] /\ ViewsOf(u)[j].page = goal[2]})
  BY <1>1, <1>b, <1>c
<1>10. (IF v > 0 THEN v - c ELSE 0) >= 0
  BY <1>3, <1>4
<1> QED
  BY <1>6, <1>7, <1>8, <1>9, <1>10

-------------------------------------------------------------------------------
(* Paths. *)

\* A sort by time has every event once, and runs forward.
LEMMA ByTimeIs ==
  ASSUME NEW s \in Seq(Event), NEW t, t = ByTime(s)
  PROVE  /\ t \in Seq(Event)
         /\ \E p : Drawn(p, t, s, DOMAIN s)
         /\ \A i, j \in DOMAIN t : i < j => t[i].time <= t[j].time
<1>a. PICK key : key = [e \in Event |-> e.time]
  OBVIOUS
<1>1. \A e \in Event : key[e] = e.time /\ e.time \in Int
  <2> SUFFICES ASSUME NEW e \in Event PROVE key[e] = e.time /\ e.time \in Int
    OBVIOUS
  <2>1. e.time \in Nat \ {0}
    BY AnalysesAssumption
  <2> QED
    BY <1>a, <2>1
<1>2. key \in [Event -> Int]
  BY <1>a, <1>1
<1>3. PICK acc \in [0..Len(s) -> Seq(Event)] : SortsTo(acc, s, key) /\ acc[Len(s)] = ByTime(s)
  BY <1>a, ByTimeLoop
<1>4. Len(s) \in 0..Len(s)
  OBVIOUS
<1>5. t \in Seq(Event) /\ t = acc[Len(s)]
  BY <1>3, <1>4
<1>6. NeverFalls(t, key) /\ \E p : Drawn(p, t, s, DOMAIN s)
  <2>1. /\ \E p : Drawn(p, acc[Len(s)], s, DOMAIN s)
        /\ NeverFalls(acc[Len(s)], key)
    BY <1>2, <1>3, SortedIs
  <2> QED
    BY <1>5, <2>1
<1>7. ASSUME NEW i \in DOMAIN t, NEW j \in DOMAIN t, i < j PROVE t[i].time <= t[j].time
  <2>1. key[t[i]] <= key[t[j]]
    BY <1>6, <1>7 DEF NeverFalls
  <2>2. t[i] \in Event /\ t[j] \in Event
    BY <1>5
  <2> QED
    BY <1>1, <2>1, <2>2
<1> QED
  BY <1>5, <1>6, <1>7

\* A path that has the events of s at the places D, after k of them.
FilledTo(path, D, s, k) ==
  /\ D \subseteq {i \in 1..k : IsView(s[i])}
  /\ Len(path) <= MaxPathLength
  /\ Len(path) < MaxPathLength => D = {i \in 1..k : IsView(s[i])}
  /\ \A i \in 1..k : IsView(s[i]) /\ i \notin D => \A d \in D : d < i

\* One more event is visited, and joins the path if it is a view and the path is not full.
LEMMA VisitKeeps ==
  ASSUME NEW s \in Seq(Event), NEW k \in 1..Len(s), NEW path \in Seq(Event), NEW D, NEW p,
         Drawn(p, path, s, D), Rising(p, path), FilledTo(path, D, s, k - 1),
         NEW now, now = IF Len(path) >= MaxPathLength \/ ~IsView(s[k]) THEN path
                        ELSE Append(path, s[k])
  PROVE  \E C, q : Drawn(q, now, s, C) /\ Rising(q, now) /\ FilledTo(now, C, s, k)
<1>0. MaxPathLength \in Nat
  BY AnalysesAssumption
<1>1. /\ k \in Nat \ {0} /\ s[k] \in Event /\ Len(path) \in Nat /\ k \in 1..k /\ k \notin 1..(k - 1)
      /\ 1..k = (1..(k - 1)) \cup {k}
  OBVIOUS
<1>2. D \in SUBSET (1..(k - 1))
  BY DEF FilledTo
<1>3. D \in SUBSET Nat /\ \A d \in D : d < k
  BY <1>1, <1>2
<1>4. CASE IsView(s[k]) /\ Len(path) < MaxPathLength
  <2>1. now = Append(path, s[k])
    BY <1>0, <1>1, <1>4
  <2>2. \E q : Drawn(q, now, s, D \cup {k}) /\ Rising(q, now)
    <3>1. \E q : Drawn(q, Append(path, s[k]), s, D \cup {k}) /\ Rising(q, Append(path, s[k]))
      BY <1>1, <1>3, DrawnBehind
    <3> QED
      BY <2>1, <3>1
  <2>3. D = {i \in 1..(k - 1) : IsView(s[i])}
    BY <1>4 DEF FilledTo
  <2>4. D \cup {k} = {i \in 1..k : IsView(s[i])}
    BY <1>1, <1>4, <2>3
  <2>5. Len(now) <= MaxPathLength
    <3>1. Len(now) = Len(path) + 1
      BY <1>1, <2>1, AppendProperties
    <3> QED
      BY <1>0, <1>1, <1>4, <3>1
  <2>6. FilledTo(now, D \cup {k}, s, k)
    BY <2>4, <2>5 DEF FilledTo
  <2> QED
    BY <2>2, <2>6
<1>5. CASE ~IsView(s[k])
  <2>1. now = path
    BY <1>5
  <2>2. {i \in 1..k : IsView(s[i])} = {i \in 1..(k - 1) : IsView(s[i])}
    BY <1>1, <1>5
  <2>3. FilledTo(path, D, s, k)
    BY <1>1, <1>5, <2>2 DEF FilledTo
  <2> QED
    BY <2>1, <2>3
<1>6. CASE IsView(s[k]) /\ ~(Len(path) < MaxPathLength)
  <2>1. now = path
    BY <1>0, <1>1, <1>6
  <2>2. D \subseteq {i \in 1..k : IsView(s[i])}
    BY <1>1 DEF FilledTo
  <2>3. \A i \in 1..k : IsView(s[i]) /\ i \notin D => \A d \in D : d < i
    BY <1>1, <1>3 DEF FilledTo
  <2>4. Len(path) <= MaxPathLength
    BY DEF FilledTo
  <2>5. FilledTo(path, D, s, k)
    BY <1>6, <2>2, <2>3, <2>4 DEF FilledTo
  <2> QED
    BY <2>1, <2>5
<1> QED
  BY <1>4, <1>5, <1>6

\* A path has the first page views by time: as many as there are, or as are allowed.
LEMMA PathIs ==
  ASSUME Listed, NEW u, NEW path, path = PathOf(u), NEW s, s = ByTime(EventsOf(u))
  PROVE  /\ path \in Seq(Event) /\ s \in Seq(Event)
         /\ \E D, p : Drawn(p, path, s, D) /\ Rising(p, path) /\ FilledTo(path, D, s, Len(s))
<1>a. PICK n : n = Len(s)
  OBVIOUS
<1>1. s \in Seq(Event) /\ n \in Nat
  <2>1. s \in Seq(Event)
    BY EventsAre, ByTimeIs
  <2> QED
    BY <1>a, <2>1
<1>2. PICK acc \in [0..n -> Seq(Event)] : VisitsTo(acc, s) /\ acc[n] = path
  BY <1>1, <1>a, VisitLoop
<1>b. PICK Q : Q = {k \in 0..n : \E D, p : Drawn(p, acc[k], s, D) /\ Rising(p, acc[k])
                                           /\ FilledTo(acc[k], D, s, k)}
  OBVIOUS
<1>3. 0 \in Q
  <2>1. acc[0] = <<>> /\ 0 \in 0..n /\ 1..0 = {} /\ Len(<<>>) = 0
    BY <1>1, <1>2 DEF VisitsTo
  <2>2. PICK p : Drawn(p, <<>>, s, {}) /\ Rising(p, <<>>)
    BY NothingDrawn
  <2>3. MaxPathLength \in Nat
    BY AnalysesAssumption
  <2>4. FilledTo(<<>>, {}, s, 0)
    BY <2>1, <2>3 DEF FilledTo
  <2>5. \E D, q : Drawn(q, acc[0], s, D) /\ Rising(q, acc[0]) /\ FilledTo(acc[0], D, s, 0)
    BY <2>1, <2>2, <2>4
  <2> QED
    BY <1>b, <2>1, <2>5
<1>4. ASSUME NEW k \in 1..n, k - 1 \in Q PROVE k \in Q
  <2>1. k \in 0..n /\ k - 1 \in 0..n /\ k \in 1..Len(s)
    BY <1>1, <1>a
  <2>a. PICK t, now : t = acc[k - 1] /\ now = acc[k]
    OBVIOUS
  <2>2. t \in Seq(Event) /\ now = IF Len(t) >= MaxPathLength \/ ~IsView(s[k]) THEN t
                                  ELSE Append(t, s[k])
    BY <1>2, <2>1, <2>a DEF VisitsTo
  <2>3. PICK D, p : Drawn(p, t, s, D) /\ Rising(p, t) /\ FilledTo(t, D, s, k - 1)
    BY <1>4, <1>b, <2>a
  <2>4. \E C, q : Drawn(q, now, s, C) /\ Rising(q, now) /\ FilledTo(now, C, s, k)
    BY <1>1, <2>1, <2>2, <2>3, VisitKeeps
  <2> QED
    BY <1>b, <2>1, <2>4, <2>a
<1>5. Q = 0..n
  <2>1. Q \in SUBSET (0..n)
    BY <1>b
  <2> QED
    BY <1>1, <1>3, <1>4, <2>1, InductionUpTo
<1>6. n \in 0..n /\ n \in Q
  BY <1>1, <1>5
<1> QED
  BY <1>1, <1>2, <1>6, <1>a, <1>b

\* What u has, by time.
LEMMA SortedEvents ==
  ASSUME Listed, NEW u, NEW s, s = ByTime(EventsOf(u))
  PROVE  /\ s \in Seq(Event)
         /\ \A i, j \in DOMAIN s : i < j => s[i].time <= s[j].time
         /\ \A i \in DOMAIN s : s[i] \in ToSet(EventsOf(u))
         /\ \A E : Among(s, E) = Among(EventsOf(u), E)
<1>a. PICK events : events = EventsOf(u)
  OBVIOUS
<1>1. events \in Seq(Event)
  BY <1>a, EventsAre
<1>2. /\ s \in Seq(Event)
      /\ \E p : Drawn(p, s, events, DOMAIN events)
      /\ \A i, j \in DOMAIN s : i < j => s[i].time <= s[j].time
  BY <1>1, <1>a, ByTimeIs
<1>3. PICK p : Drawn(p, s, events, DOMAIN events)
  BY <1>2
<1>4. \A E : Among(s, E) = Cardinality({d \in DOMAIN events : events[d] \in E})
  BY <1>2, <1>3, DrawnAmong
<1>5. \A E : Among(s, E) = Among(events, E)
  BY <1>4 DEF Among
<1>6. \A i \in DOMAIN s : s[i] \in ToSet(events)
  BY <1>3 DEF Drawn, ToSet
<1> QED
  BY <1>2, <1>5, <1>6, <1>a

\* A path runs forward, is as long as it can be, and leaves out no earlier view.
LEMMA PathRunsForward ==
  ASSUME Listed, NEW u, NEW path, path = PathOf(u), NEW views, views = ViewsOf(u)
  PROVE  /\ \A i, j \in DOMAIN path : i < j => path[i].time <= path[j].time
         /\ Len(path) = Min({MaxPathLength, Len(views)})
         /\ path # <<>> =>
              Cardinality({i \in DOMAIN views : views[i].time < Last(path).time}) < Len(path)
<1>a. PICK s, n, V : s = ByTime(EventsOf(u)) /\ n = Len(s) /\ V = {e \in Event : IsView(e)}
  OBVIOUS
<1>1. /\ path \in Seq(Event) /\ s \in Seq(Event)
      /\ \E D, p : Drawn(p, path, s, D) /\ Rising(p, path) /\ FilledTo(path, D, s, Len(s))
  BY <1>a, PathIs
<1>2. PICK D, p : Drawn(p, path, s, D) /\ Rising(p, path) /\ FilledTo(path, D, s, n)
  BY <1>1, <1>a
<1>3. /\ \A i, j \in DOMAIN s : i < j => s[i].time <= s[j].time
      /\ \A E : Among(s, E) = Among(EventsOf(u), E)
  BY <1>a, SortedEvents
<1>4. n \in Nat /\ DOMAIN s = 1..n /\ \A i \in 1..n : s[i] \in Event
  BY <1>1, <1>a
<1>b. PICK A, L : A = {i \in 1..n : s[i] \in V} /\ L = Len(path)
  OBVIOUS
<1>5. A = {i \in 1..n : IsView(s[i])}
  BY <1>4, <1>a, <1>b
<1>6. IsFiniteSet(A) /\ IsFiniteSet(D) /\ D \in SUBSET A /\ L = Cardinality(D) /\ L \in Nat
  <2>1. IsFiniteSet(1..n)
    BY <1>4, FS_Interval
  <2>2. IsFiniteSet(A)
    BY <1>b, <2>1, FS_Subset
  <2>3. IsFiniteSet(D) /\ Cardinality(D) = L
    BY <1>1, <1>2, <1>b, DrawnAmong
  <2>4. D \in SUBSET A
    BY <1>2, <1>5 DEF FilledTo
  <2> QED
    BY <1>1, <1>b, <2>2, <2>3, <2>4
<1>7. /\ views \in Seq(Event)
      /\ Len(views) = Among(EventsOf(u), V)
      /\ \A E : Among(views, E) = Among(EventsOf(u), V \cap E)
  BY <1>a, EventsAre
<1>8. Len(views) = Cardinality(A)
  <2>1. Len(views) = Among(s, V)
    BY <1>3, <1>7
  <2> QED
    BY <1>4, <1>b, <2>1 DEF Among
<1>9. ASSUME NEW i \in DOMAIN path, NEW j \in DOMAIN path, i < j
      PROVE  path[i].time <= path[j].time
  <2>1. p[i] \in D /\ p[j] \in D /\ path[i] = s[p[i]] /\ path[j] = s[p[j]]
    BY <1>2 DEF Drawn
  <2>2. p[i] < p[j]
    BY <1>2, <1>9 DEF Rising
  <2>3. p[i] \in DOMAIN s /\ p[j] \in DOMAIN s
    BY <1>4, <1>6, <1>b, <2>1
  <2> QED
    BY <1>3, <2>1, <2>2, <2>3
<1>10. L = Min({MaxPathLength, Len(views)})
  <2>a. PICK m, c : m = MaxPathLength /\ c = Cardinality(A)
    OBVIOUS
  <2>1. m \in Nat /\ c \in Nat /\ L <= c /\ L <= m
    <3>1. m \in Nat
      BY <2>a, AnalysesAssumption
    <3>2. c \in Nat /\ L <= c
      BY <1>6, <2>a, FS_CardinalityType, FS_Subset
    <3>3. L <= m
      BY <1>2, <1>b, <2>a DEF FilledTo
    <3> QED
      BY <3>1, <3>2, <3>3
  <2>2. L < m => L = c
    BY <1>2, <1>5, <1>6, <1>b, <2>a DEF FilledTo
  <2>3. L = IF m <= c THEN m ELSE c
    BY <1>6, <2>1, <2>2
  <2>4. Min({m, c}) = IF m <= c THEN m ELSE c
    BY <2>1, LesserOfTwo
  <2> QED
    BY <1>8, <2>3, <2>4, <2>a
<1>11. ASSUME path # <<>>
       PROVE  Cardinality({i \in DOMAIN views : views[i].time < Last(path).time}) < L
  <2>a. PICK t, E, B : /\ t = Last(path).time /\ E = {e \in Event : e.time < t}
                       /\ B = {i \in 1..n : s[i] \in V \cap E}
    OBVIOUS
  <2>1. L \in 1..L /\ L \in DOMAIN path /\ Last(path) = path[L]
    BY <1>1, <1>11, <1>b DEF Last
  <2>2. p[L] \in D /\ path[L] = s[p[L]] /\ p[L] \in 1..n
    <3>1. p[L] \in D /\ path[L] = s[p[L]]
      BY <1>2, <2>1 DEF Drawn
    <3> QED
      BY <1>6, <1>b, <3>1
  <2>3. Cardinality({i \in DOMAIN views : views[i].time < t}) = Cardinality(B)
    <3>1. {i \in DOMAIN views : views[i].time < t} = {i \in DOMAIN views : views[i] \in E}
      BY <1>7, <2>a
    <3>2. Cardinality({i \in DOMAIN views : views[i].time < t}) = Among(views, E)
      BY <3>1 DEF Among
    <3>3. Among(views, E) = Among(s, V \cap E)
      BY <1>3, <1>7
    <3>4. Among(s, V \cap E) = Cardinality(B)
      BY <1>4, <2>a DEF Among
    <3> QED
      BY <3>2, <3>3, <3>4
  <2>4. B \in SUBSET (D \ {p[L]})
    <3> SUFFICES ASSUME NEW i \in B PROVE i \in D /\ i # p[L]
      OBVIOUS
    <3>1. i \in 1..n /\ s[i] \in V /\ s[i].time < t
      BY <2>a
    <3>2. t = s[p[L]].time /\ t \in Nat /\ s[i].time \in Nat
      <4>1. s[p[L]] \in Event /\ s[i] \in Event
        BY <1>4, <2>2, <3>1
      <4>2. s[p[L]].time \in Nat /\ s[i].time \in Nat
        BY <4>1, AnalysesAssumption
      <4> QED
        BY <2>1, <2>2, <2>a, <4>2
    <3>3. i # p[L]
      BY <3>1, <3>2
    <3>4. i < p[L]
      <4> SUFFICES ASSUME p[L] < i PROVE FALSE
        BY <2>2, <3>1, <3>3
      <4>1. s[p[L]].time <= s[i].time
        BY <1>3, <1>4, <2>2, <3>1
      <4> QED
        BY <3>1, <3>2, <4>1
    <3>5. i \in D
      <4> SUFFICES ASSUME i \notin D PROVE FALSE
        OBVIOUS
      <4>1. IsView(s[i])
        BY <3>1, <1>a
      <4>2. p[L] < i
        BY <1>2, <2>2, <3>1, <4>1 DEF FilledTo
      <4> QED
        BY <2>2, <3>1, <3>4, <4>2
    <3> QED
      BY <3>3, <3>5
  <2>5. IsFiniteSet(D \ {p[L]}) /\ Cardinality(D \ {p[L]}) = L - 1
    BY <1>6, <2>2, FS_RemoveElement
  <2>6. Cardinality(B) \in Nat /\ Cardinality(B) <= L - 1
    BY <2>4, <2>5, FS_Subset, FS_CardinalityType
  <2> QED
    BY <1>6, <2>3, <2>6, <2>a
<1> QED
  BY <1>9, <1>10, <1>11, <1>b

\* PathsRunForward holds of every listing.
LEMMA PathsHold == Listed => PathsRunForward
BY PathRunsForward DEF PathsRunForward

-------------------------------------------------------------------------------
(* Funnels. *)

\* A page of the path is the i-th of the steps.
OnStep(path, steps, i) == \E p \in ToSet(ToURLSequence(path)) : steps[i] = <<p>>

\* What the loop of ComputePathCoverage makes of v at the i-th step.
Reached(v, path, steps, i) ==
  IF v.matched /\ OnStep(path, steps, i) THEN [v EXCEPT !.at = @ \cup {i}]
  ELSE [v EXCEPT !.matched = FALSE]

AllMatched == [matched |-> TRUE, at |-> {}]

ReachesTo(acc, path, steps) ==
  acc[0] = AllMatched /\ \A k \in 1..Len(steps) : acc[k] = Reached(acc[k - 1], path, steps, k)

\* StepsReached is a loop over the steps of the funnel.
LEMMA ReachLoop ==
  ASSUME NEW path, NEW steps, NEW Y, steps \in Seq(Y)
  PROVE  \E acc \in [0..Len(steps) -> [matched : BOOLEAN, at : SUBSET (1..Len(steps))]] :
           ReachesTo(acc, path, steps) /\ acc[Len(steps)].at = StepsReached(path, steps)
<1> DEFINE Step(v, x) == Reached(v, path, steps, x)
           W == [i \in DOMAIN steps |-> i]
           Is(f) == f = [T \in SUBSET (DOMAIN W) |->
                           IF T = {} THEN AllMatched ELSE Step(f[T \ {Max(T)}], W[Max(T)])]
<1>a. PICK n, V, b : n = Len(steps) /\ V = [matched : BOOLEAN, at : SUBSET (1..Len(steps))] /\ b = AllMatched
  OBVIOUS
<1>b. PICK F : F = [k \in 1..n |-> [v \in V |-> Step(v, k)]]
  OBVIOUS
<1>1. n \in Nat /\ DOMAIN steps = 1..n /\ b \in V
  BY <1>a DEF AllMatched
<1>w. DOMAIN W = 1..n /\ \A k \in 1..n : W[k] = k
  BY <1>1
<1>2. \A v \in V, k \in 1..n : Step(v, k) \in V
  <2> SUFFICES ASSUME NEW v \in V, NEW k \in 1..n
               PROVE  Reached(v, path, steps, k) \in V
    OBVIOUS
  <2>1. v \in [matched : BOOLEAN, at : SUBSET (1..n)]
    BY <1>a
  <2>2. v.at \cup {k} \in SUBSET (1..n)
    BY <2>1
  <2>3. Reached(v, path, steps, k) \in [matched : BOOLEAN, at : SUBSET (1..n)]
    BY <2>1, <2>2 DEF Reached
  <2> QED
    BY <1>a, <2>3
<1> HIDE DEF Step
<1>3. F \in [1..n -> [V -> V]]
  BY <1>2, <1>b
<1>e. \A v \in V, k \in 1..n : F[k][v] = Step(v, k)
  BY <1>b
<1>4. \E f : Is(f)
  <2>1. PICK g \in [SUBSET (1..n) -> V] : IsLoop(g, b, F, n)
    BY <1>1, <1>3, LoopExists
  <2>2. ASSUME NEW T \in SUBSET (1..n), T # {}
        PROVE  g[T] = Step(g[T \ {Max(T)}], Max(T))
    <3>1. Max(T) \in 1..n
      <4>1. T \in SUBSET (0..n)
        OBVIOUS
      <4> QED
        BY <1>1, <2>2, <4>1, MaxIs
    <3>2. g[T \ {Max(T)}] \in V
      OBVIOUS
    <3>3. g[T] = F[Max(T)][g[T \ {Max(T)}]]
      BY <2>1, <2>2 DEF IsLoop
    <3> QED
      BY <1>e, <3>1, <3>2, <3>3
  <2>3. g[{}] = b
    BY <2>1 DEF IsLoop
  <2>4. \A T \in SUBSET (1..n) :
          g[T] = IF T = {} THEN AllMatched ELSE Step(g[T \ {Max(T)}], Max(T))
    BY <2>2, <2>3, <1>a
  <2>5. Is(g)
    <3>1. \A T \in SUBSET (1..n) : T # {} => W[Max(T)] = Max(T)
      <4> SUFFICES ASSUME NEW T \in SUBSET (1..n), T # {} PROVE W[Max(T)] = Max(T)
        OBVIOUS
      <4>1. T \in SUBSET (0..n)
        OBVIOUS
      <4>2. Max(T) \in 1..n
        BY <1>1, <4>1, MaxIs
      <4> QED
        BY <1>w, <4>2
    <3> HIDE DEF W
    <3>2. \A T \in SUBSET (1..n) :
            g[T] = IF T = {} THEN AllMatched ELSE Step(g[T \ {Max(T)}], W[Max(T)])
      BY <2>4, <3>1
    <3> QED
      BY <1>w, <3>2
  <2> QED
    BY <2>5
<1>c. PICK c : c = CHOOSE f : Is(f)
  OBVIOUS
<1>5. Is(c)
  BY <1>4, <1>c
<1>6. StepsReached(path, steps) = c[1..n].at
  <2>1. StepsReached(path, steps) = (CHOOSE f : Is(f))[DOMAIN W].at
    BY DEF StepsReached, FoldLeftDomain, FoldLeft, AllMatched, Reached, OnStep, MapThenFoldSet, Step
  <2> QED
    BY <1>1, <1>w, <1>c, <2>1
<1>7. c[{}] = b
  BY <1>5, <1>a
<1>8. ASSUME NEW k \in 1..n, c[1..(k - 1)] \in V
      PROVE  c[1..k] = F[k][c[1..(k - 1)]]
  <2>1. /\ (1..k) \in SUBSET (1..n) /\ (1..k) # {} /\ Max(1..k) = k
        /\ (1..k) \ {k} = 1..(k - 1)
    BY <1>1, LastOfUpTo
  <2>2. c[1..k] = Step(c[(1..k) \ {Max(1..k)}], W[Max(1..k)])
    BY <1>1, <1>w, <1>5, <2>1
  <2>3. c[1..k] = Step(c[1..(k - 1)], k)
    BY <2>1, <1>w, <2>2
  <2> QED
    BY <1>e, <1>8, <2>3
<1> HIDE DEF Is
<1>d. Unfolds(c, b, F, n, V)
  BY <1>7, <1>8 DEF Unfolds
<1>9. PICK acc \in [0..n -> V] : Steps(acc, b, F, n) /\ acc[n] = c[1..n]
  <2>1. n \in Nat
    BY <1>1
  <2>2. b \in V
    BY <1>1
  <2> QED
    BY <1>3, <1>d, <2>1, <2>2, LoopUnfolds
<1>10. acc[0] = AllMatched /\ \A k \in 1..n : acc[k - 1] \in V /\ acc[k] = Step(acc[k - 1], k)
  <2>1. \A k \in 1..n : acc[k - 1] \in V
    BY <1>1
  <2> QED
    BY <1>e, <1>9, <1>a, <2>1 DEF Steps
<1>11. ReachesTo(acc, path, steps)
  BY <1>10, <1>a DEF Step, ReachesTo
<1> QED
  BY <1>6, <1>9, <1>11, <1>a


\* After k steps, the path has reached those up to the first that it misses.
ReachedTo(v, path, steps, k) ==
  /\ v.matched <=> \A j \in 1..k : OnStep(path, steps, j)
  /\ v.at = {i \in 1..k : \A j \in 1..i : OnStep(path, steps, j)}

\* The steps at which a path counts are those up to which it is on every page.
LEMMA StepsReachedIs ==
  ASSUME NEW path, NEW steps, NEW Y, steps \in Seq(Y)
  PROVE  StepsReached(path, steps) = {i \in DOMAIN steps : \A j \in 1..i : OnStep(path, steps, j)}
<1>a. PICK n, V : n = Len(steps) /\ V = [matched : BOOLEAN, at : SUBSET (1..Len(steps))]
  OBVIOUS
<1>1. n \in Nat /\ DOMAIN steps = 1..n
  BY <1>a
<1>2. PICK acc \in [0..n -> V] : ReachesTo(acc, path, steps) /\ acc[n].at = StepsReached(path, steps)
  BY <1>a, ReachLoop
<1>b. PICK Q : Q = {k \in 0..n : ReachedTo(acc[k], path, steps, k)}
  OBVIOUS
<1>3. 0 \in Q
  <2>1. acc[0] = AllMatched /\ 0 \in 0..n /\ 1..0 = {}
    BY <1>1, <1>2 DEF ReachesTo
  <2>2. ReachedTo(acc[0], path, steps, 0)
    BY <2>1 DEF ReachedTo, AllMatched
  <2> QED
    BY <1>b, <2>1, <2>2
<1>4. ASSUME NEW k \in 1..n, k - 1 \in Q PROVE k \in Q
  <2>1. /\ k \in 0..n /\ k - 1 \in 0..n /\ 1..k = (1..(k - 1)) \cup {k} /\ k \notin 1..(k - 1)
    BY <1>1
  <2>a. PICK v, w : v = acc[k - 1] /\ w = acc[k]
    OBVIOUS
  <2>2. v \in V /\ w = Reached(v, path, steps, k)
    BY <1>2, <1>a, <2>1, <2>a DEF ReachesTo
  <2>3. v.matched \in BOOLEAN /\ v \in [matched : BOOLEAN, at : SUBSET (1..n)]
    BY <1>a, <2>2
  <2>4. /\ v.matched <=> \A j \in 1..(k - 1) : OnStep(path, steps, j)
        /\ v.at = {i \in 1..(k - 1) : \A j \in 1..i : OnStep(path, steps, j)}
    BY <1>4, <1>b, <2>a DEF ReachedTo
  <2>5. CASE v.matched /\ OnStep(path, steps, k)
    <3>1. w.matched = v.matched /\ w.at = v.at \cup {k}
      BY <2>2, <2>3, <2>5 DEF Reached
    <3>2. \A j \in 1..k : OnStep(path, steps, j)
      BY <2>1, <2>4, <2>5
    <3>3. w.at = {i \in 1..k : \A j \in 1..i : OnStep(path, steps, j)}
      BY <2>1, <2>4, <3>1, <3>2
    <3>4. ReachedTo(w, path, steps, k)
      BY <2>5, <3>1, <3>2, <3>3 DEF ReachedTo
    <3> QED
      BY <1>b, <2>1, <2>a, <3>4
  <2>6. CASE ~(v.matched /\ OnStep(path, steps, k))
    <3>1. w.matched = FALSE /\ w.at = v.at
      BY <2>2, <2>3, <2>6 DEF Reached
    <3>2. ~(\A j \in 1..k : OnStep(path, steps, j))
      BY <2>1, <2>4, <2>6
    <3>3. w.at = {i \in 1..k : \A j \in 1..i : OnStep(path, steps, j)}
      BY <2>1, <2>4, <3>1, <3>2
    <3>4. ReachedTo(w, path, steps, k)
      BY <3>1, <3>2, <3>3 DEF ReachedTo
    <3> QED
      BY <1>b, <2>1, <2>a, <3>4
  <2> QED
    BY <2>5, <2>6
<1>5. Q = 0..n
  <2>1. Q \in SUBSET (0..n)
    BY <1>b
  <2> QED
    BY <1>1, <1>3, <1>4, <2>1, InductionUpTo
<1>6. n \in 0..n /\ n \in Q
  BY <1>1, <1>5
<1>7. acc[n].at = {i \in 1..n : \A j \in 1..i : OnStep(path, steps, j)}
  BY <1>6, <1>b DEF ReachedTo
<1> QED
  BY <1>1, <1>2, <1>7

-------------------------------------------------------------------------------
(* What parsePathString returns is a sequence. *)

Trimmed(s) ==
  LET TrimEnd(t)   == IF t # <<>> /\ Last(t) = " " THEN Front(t) ELSE t
      TrimStart(t) == IF t # <<>> /\ Head(t) = " " THEN Tail(t) ELSE t
  IN TrimStart(TrimEnd(s))

\* What parsePathString makes of p at c, and of what it has in the end.
ReadOn(p, c) ==
  IF c = "->" THEN [steps |-> Append(p.steps, Trimmed(p.current)), current |-> <<>>]
  ELSE [p EXCEPT !.current = Append(@, c)]

NothingRead == [steps |-> <<>>, current |-> <<>>]

StepsRead(p) == IF p.current = <<>> THEN p.steps ELSE Append(p.steps, p.current)

\* A step that is trimmed is still a sequence.
LEMMA TrimmedIs ==
  ASSUME NEW X, NEW s \in Seq(X)
  PROVE  Trimmed(s) \in Seq(X)
<1>a. PICK t : t = IF s # <<>> /\ Last(s) = " " THEN Front(s) ELSE s
  OBVIOUS
<1>1. t \in Seq(X)
  <2>1. CASE s # <<>> /\ Last(s) = " "
    <3>1. t = SubSeq(s, 1, Len(s) - 1)
      BY <1>a, <2>1 DEF Front
    <3>2. Len(s) \in Nat /\ \A i \in 1..(Len(s) - 1) : s[i] \in X
      OBVIOUS
    <3> QED
      BY <3>1, <3>2, SubSeqProperties
  <2>2. CASE ~(s # <<>> /\ Last(s) = " ")
    BY <1>a, <2>2
  <2> QED
    BY <2>1, <2>2
<1>2. Trimmed(s) = IF t # <<>> /\ Head(t) = " " THEN Tail(t) ELSE t
  BY <1>a DEF Trimmed
<1>3. t # <<>> => Tail(t) \in Seq(X)
  BY <1>1, HeadTailProperties
<1> QED
  BY <1>1, <1>2, <1>3

\* What it has after each element of s.
ReadsTo(acc, s) == acc[0] = NothingRead /\ \A k \in 1..Len(s) : acc[k] = ReadOn(acc[k - 1], s[k])

\* parsePathString is a loop over its text.
LEMMA ReadLoop ==
  ASSUME NEW X, NEW s \in Seq(X)
  PROVE  \E acc \in [0..Len(s) -> [steps : Seq(Seq(X)), current : Seq(X)]] :
           ReadsTo(acc, s) /\ StepsRead(acc[Len(s)]) = parsePathString(s)
<1> DEFINE Step(v, x) == ReadOn(v, x)
           Is(f) == f = [T \in SUBSET (DOMAIN s) |->
                           IF T = {} THEN NothingRead ELSE Step(f[T \ {Max(T)}], s[Max(T)])]
<1>a. PICK n, V, b : n = Len(s) /\ V = [steps : Seq(Seq(X)), current : Seq(X)] /\ b = NothingRead
  OBVIOUS
<1>b. PICK F : F = [k \in 1..n |-> [v \in V |-> Step(v, s[k])]]
  OBVIOUS
<1>1. n \in Nat /\ DOMAIN s = 1..n /\ b \in V /\ \A k \in 1..n : s[k] \in X
  <2>1. <<>> \in Seq(X) /\ <<>> \in Seq(Seq(X))
    OBVIOUS
  <2>2. NothingRead \in [steps : Seq(Seq(X)), current : Seq(X)]
    BY <2>1 DEF NothingRead
  <2> QED
    BY <1>a, <2>2
<1>2. \A v \in V, k \in 1..n : Step(v, s[k]) \in V
  <2> SUFFICES ASSUME NEW v \in V, NEW k \in 1..n
               PROVE  ReadOn(v, s[k]) \in V
    OBVIOUS
  <2>a. PICK t, e : t = Trimmed(v.current) /\ e = s[k]
    OBVIOUS
  <2>1. v \in [steps : Seq(Seq(X)), current : Seq(X)] /\ e \in X
    BY <1>1, <1>a, <2>a
  <2>2. v.steps \in Seq(Seq(X)) /\ v.current \in Seq(X)
    BY <2>1
  <2>3. t \in Seq(X)
    BY <2>2, <2>a, TrimmedIs
  <2>4. Append(v.steps, t) \in Seq(Seq(X))
    BY <2>2, <2>3, AppendProperties
  <2>5. Append(v.current, e) \in Seq(X)
    BY <2>1, <2>2, AppendProperties
  <2>6. <<>> \in Seq(X)
    OBVIOUS
  <2>7. [steps |-> Append(v.steps, t), current |-> <<>>] \in V
    BY <1>a, <2>4, <2>6
  <2>8. [v EXCEPT !.current = Append(@, e)] \in V
    BY <1>a, <2>1, <2>5
  <2>9. /\ e = "->" => ReadOn(v, e) = [steps |-> Append(v.steps, t), current |-> <<>>]
        /\ e # "->" => ReadOn(v, e) = [v EXCEPT !.current = Append(@, e)]
    BY <2>a DEF ReadOn
  <2> QED
    BY <2>7, <2>8, <2>9, <2>a
<1> HIDE DEF Step
<1>3. F \in [1..n -> [V -> V]]
  BY <1>2, <1>b
<1>e. \A v \in V, k \in 1..n : F[k][v] = Step(v, s[k])
  BY <1>b
<1>4. \E f : Is(f)
  <2>1. PICK g \in [SUBSET (1..n) -> V] : IsLoop(g, b, F, n)
    BY <1>1, <1>3, LoopExists
  <2>2. ASSUME NEW T \in SUBSET (1..n), T # {}
        PROVE  g[T] = Step(g[T \ {Max(T)}], s[Max(T)])
    <3>1. Max(T) \in 1..n
      <4>1. T \in SUBSET (0..n)
        OBVIOUS
      <4> QED
        BY <1>1, <2>2, <4>1, MaxIs
    <3>2. g[T \ {Max(T)}] \in V
      OBVIOUS
    <3>3. g[T] = F[Max(T)][g[T \ {Max(T)}]]
      BY <2>1, <2>2 DEF IsLoop
    <3> QED
      BY <1>e, <3>1, <3>2, <3>3
  <2>3. g[{}] = b
    BY <2>1 DEF IsLoop
  <2>4. \A T \in SUBSET (1..n) :
          g[T] = IF T = {} THEN NothingRead ELSE Step(g[T \ {Max(T)}], s[Max(T)])
    BY <2>2, <2>3, <1>a
  <2>5. Is(g)
    BY <1>1, <2>4
  <2> QED
    BY <2>5
<1>c. PICK c : c = CHOOSE f : Is(f)
  OBVIOUS
<1>5. Is(c)
  BY <1>4, <1>c
<1>6. parsePathString(s) = StepsRead(c[1..n])
  <2>1. parsePathString(s) = StepsRead((CHOOSE f : Is(f))[DOMAIN s])
    BY DEF parsePathString, FoldLeft, NothingRead, ReadOn, Trimmed, StepsRead, MapThenFoldSet, Step
  <2> QED
    BY <1>1, <1>c, <2>1
<1>7. c[{}] = b
  BY <1>5, <1>a
<1>8. ASSUME NEW k \in 1..n, c[1..(k - 1)] \in V
      PROVE  c[1..k] = F[k][c[1..(k - 1)]]
  <2>1. /\ (1..k) \in SUBSET (1..n) /\ (1..k) # {} /\ Max(1..k) = k
        /\ (1..k) \ {k} = 1..(k - 1)
    BY <1>1, LastOfUpTo
  <2>2. c[1..k] = Step(c[(1..k) \ {Max(1..k)}], s[Max(1..k)])
    BY <1>1, <1>5, <2>1
  <2>3. c[1..k] = Step(c[1..(k - 1)], s[k])
    BY <2>1, <2>2
  <2> QED
    BY <1>e, <1>8, <2>3
<1> HIDE DEF Is
<1>d. Unfolds(c, b, F, n, V)
  BY <1>7, <1>8 DEF Unfolds
<1>9. PICK acc \in [0..n -> V] : Steps(acc, b, F, n) /\ acc[n] = c[1..n]
  <2>1. n \in Nat
    BY <1>1
  <2>2. b \in V
    BY <1>1
  <2> QED
    BY <1>3, <1>d, <2>1, <2>2, LoopUnfolds
<1>10. \A k \in 1..n : acc[k] = Step(acc[k - 1], s[k])
  <2>1. \A k \in 1..n : acc[k - 1] \in V
    BY <1>1
  <2> QED
    BY <1>e, <1>9, <2>1 DEF Steps
<1>11. ReadsTo(acc, s)
  BY <1>9, <1>10, <1>a DEF Step, Steps, ReadsTo
<1> QED
  BY <1>6, <1>9, <1>11, <1>a

\* What it returns is a sequence of steps.
LEMMA ParsedIs ==
  ASSUME NEW X, NEW s \in Seq(X)
  PROVE  parsePathString(s) \in Seq(Seq(X))
<1>1. PICK acc \in [0..Len(s) -> [steps : Seq(Seq(X)), current : Seq(X)]] :
        StepsRead(acc[Len(s)]) = parsePathString(s)
  BY ReadLoop
<1>a. PICK p : p = acc[Len(s)]
  OBVIOUS
<1>2. p \in [steps : Seq(Seq(X)), current : Seq(X)]
  <2>1. Len(s) \in 0..Len(s)
    OBVIOUS
  <2> QED
    BY <2>1, <1>a
<1>3. p.steps \in Seq(Seq(X)) /\ p.current \in Seq(X)
  BY <1>2
<1>4. Append(p.steps, p.current) \in Seq(Seq(X))
  BY <1>3, AppendProperties
<1> QED
  BY <1>1, <1>3, <1>4, <1>a DEF StepsRead

-------------------------------------------------------------------------------
(* What parsePathString makes of a funnel. *)

\* What a path string is made of.
Sign == Page \cup {" ", "->"}

\* The first k pages of f, each a step.
PageSteps(f, k) == [i \in 1..k |-> <<f[i]>>]

\* A sequence of one element.
LEMMA Single ==
  ASSUME NEW p
  PROVE  /\ <<p>> \in Seq({p}) /\ <<p>> # <<>> /\ Len(<<p>>) = 1 /\ <<p>>[1] = p /\ Head(<<p>>) = p
         /\ Append(<<>>, p) = <<p>>
<1>1. <<p>> \in Seq({p})
  OBVIOUS
<1>2. Len(<<p>>) = 1
  OBVIOUS
<1>3. <<p>>[1] = p
  OBVIOUS
<1>4. Head(<<p>>) = p
  OBVIOUS
<1>5. <<p>> # <<>>
  OBVIOUS
<1>6. Append(<<>>, p) = <<p>>
  OBVIOUS
<1> QED
  BY <1>1, <1>2, <1>3, <1>4, <1>5, <1>6

\* A sequence of two.
LEMMA Double ==
  ASSUME NEW p, NEW b
  PROVE  /\ Append(<<p>>, b) = <<p, b>> /\ Len(<<p, b>>) = 2 /\ <<p, b>> # <<>>
         /\ Head(<<p, b>>) = p /\ Tail(<<p, b>>) = <<b>>
<1>a. PICK X, s : X = {p, b} /\ s = <<p>>
  OBVIOUS
<1>1. Len(<<p, b>>) = 2
  OBVIOUS
<1>2. <<p, b>>[1] = p /\ <<p, b>>[2] = b
  OBVIOUS
<1>3. <<p, b>> \in Seq(X)
  BY <1>a
<1>4. s \in Seq(X) /\ Len(s) = 1 /\ s[1] = p /\ b \in X
  BY <1>a
<1>5. Append(s, b) \in Seq(X) /\ Len(Append(s, b)) = 2 /\ Append(s, b)[1] = p /\ Append(s, b)[2] = b
  <2>1. s \in Seq(X) /\ b \in X
    BY <1>4
  <2>2. /\ Append(s, b) \in Seq(X) /\ Len(Append(s, b)) = Len(s) + 1
        /\ \A i \in 1..Len(s) : Append(s, b)[i] = s[i]
        /\ Append(s, b)[Len(s) + 1] = b
    BY <2>1, AppendProperties
  <2>3. Len(s) + 1 = 2 /\ 1 \in 1..Len(s)
    BY <1>4
  <2> QED
    BY <1>4, <2>2, <2>3
<1>6. Append(s, b) = <<p, b>>
  <2>1. Len(Append(s, b)) = Len(<<p, b>>)
    BY <1>1, <1>5
  <2>2. \A i \in 1..Len(Append(s, b)) : Append(s, b)[i] = <<p, b>>[i]
    <3>1. \A i \in 1..2 : i = 1 \/ i = 2
      OBVIOUS
    <3> QED
      BY <1>2, <1>5, <3>1
  <2> QED
    BY <1>3, <1>5, <2>1, <2>2, SeqEqual
<1>7. Head(<<p, b>>) = p
  OBVIOUS
<1>8. Tail(<<p, b>>) = <<b>>
  OBVIOUS
<1>9. <<p, b>> # <<>>
  OBVIOUS
<1> QED
  BY <1>1, <1>6, <1>7, <1>8, <1>9, <1>a

\* Of elements of X both are sequences over X.
LEMMA ShortSeq ==
  ASSUME NEW X, NEW p \in X, NEW c \in X
  PROVE  <<p>> \in Seq(X) /\ <<c, p>> \in Seq(X)
<1>1. <<p>> \in Seq(X)
  OBVIOUS
<1>2. <<c, p>> \in Seq(X)
  OBVIOUS
<1> QED
  BY <1>1, <1>2

\* Without the last element it is what it was.
LEMMA LastCut ==
  ASSUME NEW X, NEW s \in Seq(X), NEW c \in X
  PROVE  Append(s, c) # <<>> /\ Last(Append(s, c)) = c /\ Front(Append(s, c)) = s
<1>1. Append(s, c) # <<>>
  <2>1. Len(Append(s, c)) = Len(s) + 1 /\ Len(s) \in Nat
    OBVIOUS
  <2>2. Len(<<>>) = 0
    OBVIOUS
  <2>3. Len(Append(s, c)) # Len(<<>>)
    BY <2>1, <2>2
  <2> QED
    BY <2>3
<1>2. Last(Append(s, c)) = c
  BY DEF Last
<1>3. Front(Append(s, c)) = s
  BY DEF Front
<1> QED
  BY <1>1, <1>2, <1>3

\* A space after it is cut, and one before it then.
LEMMA SpaceCut ==
  ASSUME NEW X, NEW s \in Seq(X), " " \in X
  PROVE  Trimmed(Append(s, " ")) = IF s # <<>> /\ Head(s) = " " THEN Tail(s) ELSE s
<1>a. PICK t : t = Append(s, " ")
  OBVIOUS
<1>1. t # <<>> /\ Last(t) = " " /\ Front(t) = s
  BY <1>a, LastCut
<1> QED
  BY <1>1, <1>a DEF Trimmed

\* A page loses the spaces on either side.
LEMMA TrimmedPage ==
  ASSUME NEW p, p # " "
  PROVE  /\ Trimmed(<<p>>) = <<p>>
         /\ Trimmed(Append(<<p>>, " ")) = <<p>>
         /\ Trimmed(Append(<<" ", p>>, " ")) = <<p>>
<1>a. PICK c, X : c = " " /\ X = {p, c}
  OBVIOUS
<1>0. p \in X /\ c \in X
  BY <1>a
<1>1. <<p>> # <<>> /\ Head(<<p>>) = p
  BY Single
<1>2. Last(<<p>>) = p
  BY Single DEF Last
<1>3. Trimmed(<<p>>) = <<p>>
  BY <1>1, <1>2 DEF Trimmed
<1>4. Trimmed(Append(<<p>>, c)) = <<p>>
  <2>1. <<p>> \in Seq(X)
    BY <1>0, ShortSeq
  <2>2. Head(<<p>>) # c
    BY <1>1, <1>a
  <2> QED
    BY <1>0, <1>a, <2>1, <2>2, SpaceCut
<1>5. Trimmed(Append(<<c, p>>, c)) = <<p>>
  <2>1. <<c, p>> \in Seq(X)
    BY <1>0, ShortSeq
  <2>2. <<c, p>> # <<>> /\ Head(<<c, p>>) = c /\ Tail(<<c, p>>) = <<p>>
    BY Double
  <2> QED
    BY <1>0, <1>a, <2>1, <2>2, SpaceCut
<1> QED
  BY <1>3, <1>4, <1>5, <1>a

\* What is read so far: the steps, and what comes after the last arrow.
SoFar(steps, current) == [steps |-> steps, current |-> current]

\* Reading goes on at a page or a space.
LEMMA SignRead ==
  ASSUME NEW steps, NEW current, NEW c, c # "->"
  PROVE  ReadOn(SoFar(steps, current), c) = SoFar(steps, Append(current, c))
BY DEF ReadOn, SoFar

\* An arrow ends the step.
LEMMA ArrowRead ==
  ASSUME NEW steps, NEW current
  PROVE  ReadOn(SoFar(steps, current), "->") = SoFar(Append(steps, Trimmed(current)), <<>>)
BY DEF ReadOn, SoFar

\* From one page to the next, over a bare arrow.
LEMMA BareRead ==
  ASSUME NEW steps, NEW x, x # " ", NEW y, y # "->"
  PROVE  ReadOn(ReadOn(SoFar(steps, <<x>>), "->"), y) = SoFar(Append(steps, <<x>>), <<y>>)
<1>a. PICK z : z = Append(steps, <<x>>)
  OBVIOUS
<1>1. ReadOn(SoFar(steps, <<x>>), "->") = SoFar(z, <<>>)
  <2>1. Trimmed(<<x>>) = <<x>>
    BY TrimmedPage
  <2> QED
    BY <1>a, <2>1, ArrowRead
<1>2. ReadOn(SoFar(z, <<>>), y) = SoFar(z, Append(<<>>, y))
  BY SignRead
<1>3. Append(<<>>, y) = <<y>>
  BY Single
<1> QED
  BY <1>1, <1>2, <1>3, <1>a

\* Named, so that what is said of them can be instantiated.
Space == " "
Arrow == "->"

\* What parsePathString makes of p up to y, over an arrow between spaces.
OverSpaces(p, y) == ReadOn(ReadOn(ReadOn(ReadOn(p, Space), Arrow), Space), y)

\* The page ends c, and nothing or a space is before it.
ToThePage(c, page) == c = <<page>> \/ c = <<Space, page>>

\* From one page to the next, over an arrow between spaces.
LEMMA SpacedRead ==
  ASSUME NEW steps, NEW x, x # Space, NEW c, ToThePage(c, x), NEW y, y # Arrow
  PROVE  OverSpaces(SoFar(steps, c), y) = SoFar(Append(steps, <<x>>), <<Space, y>>)
<1>a. PICK z : z = Append(steps, <<x>>)
  OBVIOUS
<1>1. Space # "->" /\ y # "->"
  BY DEF Space, Arrow
<1>2. ReadOn(SoFar(steps, c), Space) = SoFar(steps, Append(c, Space))
  BY <1>1, SignRead
<1>3. Trimmed(Append(c, Space)) = <<x>>
  BY TrimmedPage DEF ToThePage, Space
<1>4. ReadOn(SoFar(steps, Append(c, Space)), Arrow) = SoFar(z, <<>>)
  <2>1. ReadOn(SoFar(steps, Append(c, Space)), Arrow) = SoFar(Append(steps, Trimmed(Append(c, Space))), <<>>)
    BY ArrowRead DEF Arrow
  <2> QED
    BY <1>3, <1>a, <2>1
<1>5. ReadOn(SoFar(z, <<>>), Space) = SoFar(z, <<Space>>)
  <2>1. Append(<<>>, Space) = <<Space>>
    BY Single
  <2>2. ReadOn(SoFar(z, <<>>), Space) = SoFar(z, Append(<<>>, Space))
    BY <1>1, SignRead
  <2> QED
    BY <2>1, <2>2
<1>6. ReadOn(SoFar(z, <<Space>>), y) = SoFar(z, <<Space, y>>)
  <2>1. Append(<<Space>>, y) = <<Space, y>>
    BY Double
  <2>2. ReadOn(SoFar(z, <<Space>>), y) = SoFar(z, Append(<<Space>>, y))
    BY <1>1, SignRead
  <2> QED
    BY <2>1, <2>2
<1> QED
  BY <1>2, <1>4, <1>5, <1>6, <1>a DEF OverSpaces

\* One more step.
LEMMA OneMoreStep ==
  ASSUME NEW f, NEW k \in Nat
  PROVE  Append(PageSteps(f, k), <<f[k + 1]>>) = PageSteps(f, k + 1)
<1>a. PICK s, t, x, X : /\ s = PageSteps(f, k) /\ t = PageSteps(f, k + 1) /\ x = <<f[k + 1]>>
                        /\ X = {<<f[i]>> : i \in 1..(k + 1)}
  OBVIOUS
<1>1. s \in [1..k -> X] /\ t \in [1..(k + 1) -> X] /\ k + 1 \in Nat
  BY <1>a DEF PageSteps
<1>2. s \in Seq(X) /\ Len(s) = k /\ t \in Seq(X) /\ Len(t) = k + 1
  BY <1>1, LenOfFunction
<1>3. x \in X
  BY <1>a
<1>4. /\ Append(s, x) \in Seq(X) /\ Len(Append(s, x)) = k + 1
      /\ \A i \in 1..k : Append(s, x)[i] = s[i]
      /\ Append(s, x)[k + 1] = x
  BY <1>2, <1>3, AppendProperties
<1>5. \A i \in 1..(k + 1) : t[i] = <<f[i]>>
  BY <1>a DEF PageSteps
<1>6. \A i \in 1..k : s[i] = <<f[i]>>
  BY <1>a DEF PageSteps
<1>7. \A i \in 1..(k + 1) : Append(s, x)[i] = t[i]
  <2>1. \A i \in 1..(k + 1) : i = k + 1 \/ i \in 1..k
    OBVIOUS
  <2>2. Append(s, x)[k + 1] = t[k + 1]
    BY <1>4, <1>5, <1>a
  <2>3. \A i \in 1..k : Append(s, x)[i] = t[i]
    BY <1>4, <1>5, <1>6
  <2> QED
    BY <2>1, <2>2, <2>3
<1>8. Append(s, x) = t
  BY <1>2, <1>4, <1>7, SeqEqual
<1> QED
  BY <1>8, <1>a

\* Of bare arrows, each page is a step.
LEMMA BareIs ==
  ASSUME NEW f \in Seq(Page), f # <<>>, NEW s, s = Bare(f)
  PROVE  s \in Seq(Sign) /\ parsePathString(s) = PageSteps(f, Len(f))
<1>a. PICK n, m : n = Len(f) /\ m = 2 * n - 1
  OBVIOUS
<1>1. n \in Nat /\ n >= 1 /\ m \in Nat /\ \A i \in 1..n : f[i] \in Page
  BY <1>a
<1>2. s = [k \in 1..m |-> IF k % 2 = 1 THEN f[(k + 1) \div 2] ELSE "->"]
  BY <1>a DEF Bare
<1>3. \A j \in 0..(n - 1) : 2 * j + 1 \in 1..m /\ s[2 * j + 1] = f[j + 1]
  <2> SUFFICES ASSUME NEW j \in 0..(n - 1) PROVE 2 * j + 1 \in 1..m /\ s[2 * j + 1] = f[j + 1]
    OBVIOUS
  <2>1. 2 * j + 1 \in 1..m /\ (2 * j + 1) % 2 = 1 /\ (2 * j + 1 + 1) \div 2 = j + 1
    BY <1>1, <1>a
  <2> QED
    BY <1>2, <2>1
<1>4. \A j \in 1..(n - 1) : 2 * j \in 1..m /\ s[2 * j] = "->"
  <2> SUFFICES ASSUME NEW j \in 1..(n - 1) PROVE 2 * j \in 1..m /\ s[2 * j] = "->"
    OBVIOUS
  <2>1. 2 * j \in 1..m /\ (2 * j) % 2 = 0
    BY <1>1, <1>a
  <2> QED
    BY <1>2, <2>1
<1>5. s \in Seq(Sign) /\ Len(s) = m
  <2>1. ASSUME NEW k \in 1..m PROVE s[k] \in Sign
    <3>1. CASE k % 2 = 1
      <4>1. (k + 1) \div 2 \in 1..n
        BY <1>1, <1>a
      <4> QED
        BY <1>1, <1>2, <3>1, <4>1 DEF Sign
    <3>2. CASE k % 2 # 1
      BY <1>2, <3>2 DEF Sign
    <3> QED
      BY <3>1, <3>2
  <2>2. s \in [1..m -> Sign]
    BY <1>2, <2>1
  <2> QED
    BY <1>1, <2>2, LenOfFunction
<1>6. PICK acc : ReadsTo(acc, s) /\ StepsRead(acc[m]) = parsePathString(s)
  BY <1>5, ReadLoop
<1>7. /\ acc[0] = SoFar(<<>>, <<>>)
      /\ \A k \in 1..m : acc[k] = ReadOn(acc[k - 1], s[k])
  BY <1>5, <1>6 DEF ReadsTo, NothingRead, SoFar
<1>b. PICK Q : Q = {j \in 0..(n - 1) : acc[2 * j + 1] = SoFar(PageSteps(f, j), <<f[j + 1]>>)}
  OBVIOUS
<1>8. \A p \in Page : p # "->" /\ p # " "
  BY AnalysesAssumption
<1>9. 0 \in Q
  <2>1. 0 \in 0..(n - 1) /\ 1 \in 1..m /\ s[1] = f[1] /\ f[1] \in Page
    BY <1>1, <1>3
  <2>2. acc[1] = ReadOn(SoFar(<<>>, <<>>), f[1])
    BY <1>7, <2>1
  <2>3. Append(<<>>, f[1]) = <<f[1]>> /\ PageSteps(f, 0) = <<>>
    BY Single DEF PageSteps
  <2>4. acc[1] = SoFar(PageSteps(f, 0), <<f[1]>>)
    <3>1. f[1] # "->"
      BY <1>8, <2>1
    <3>2. ReadOn(SoFar(<<>>, <<>>), f[1]) = SoFar(<<>>, Append(<<>>, f[1]))
      BY <3>1, SignRead
    <3> QED
      BY <2>2, <2>3, <3>2
  <2> QED
    BY <1>b, <2>1, <2>4
<1>10. \A j \in 1..(n - 1) : j - 1 \in Q => j \in Q
  <2> SUFFICES ASSUME NEW j \in 1..(n - 1), j - 1 \in Q PROVE j \in Q
    OBVIOUS
  <2>a. PICK a, x, y : a = PageSteps(f, j - 1) /\ x = f[j] /\ y = f[j + 1]
    OBVIOUS
  <2>1. /\ j \in 0..(n - 1) /\ j - 1 \in Nat /\ j \in 1..n /\ j + 1 \in 1..n
        /\ 2 * (j - 1) + 1 = 2 * j - 1 /\ (2 * j + 1) - 1 = 2 * j /\ (j - 1) + 1 = j
    BY <1>1
  <2>2. x \in Page /\ y \in Page
    BY <1>1, <2>1, <2>a
  <2>3. acc[2 * j - 1] = SoFar(a, <<x>>)
    BY <1>b, <2>1, <2>a
  <2>4. acc[2 * j] = ReadOn(acc[2 * j - 1], "->")
    <3>1. 2 * j \in 1..m /\ s[2 * j] = "->"
      BY <1>4
    <3> QED
      BY <1>7, <3>1
  <2>5. acc[2 * j + 1] = ReadOn(acc[2 * j], y)
    <3>1. 2 * j + 1 \in 1..m /\ s[2 * j + 1] = y
      BY <1>3, <2>1, <2>a
    <3> QED
      BY <1>7, <2>1, <3>1
  <2>6. acc[2 * j + 1] = SoFar(Append(a, <<x>>), <<y>>)
    <3>1. x # " " /\ y # "->"
      BY <1>8, <2>2
    <3>2. acc[2 * j + 1] = ReadOn(ReadOn(SoFar(a, <<x>>), "->"), y)
      BY <2>3, <2>4, <2>5
    <3> QED
      BY <3>1, <3>2, BareRead
  <2>7. Append(a, <<x>>) = PageSteps(f, j)
    BY <2>1, <2>a, OneMoreStep
  <2> QED
    BY <1>b, <2>1, <2>6, <2>7, <2>a
<1>11. n - 1 \in Q
  <2>1. Q \in SUBSET (0..(n - 1)) /\ n - 1 \in Nat
    BY <1>1, <1>b
  <2>2. Q = 0..(n - 1)
    BY <1>9, <1>10, <2>1, InductionUpTo
  <2> QED
    BY <2>1, <2>2
<1>12. acc[m] = SoFar(PageSteps(f, n - 1), <<f[n]>>)
  <2>1. 2 * (n - 1) + 1 = m /\ (n - 1) + 1 = n
    BY <1>1, <1>a
  <2> QED
    BY <1>11, <1>b, <2>1
<1>13. StepsRead(acc[m]) = Append(PageSteps(f, n - 1), <<f[n]>>)
  <2>1. <<f[n]>> # <<>>
    BY Single
  <2> QED
    BY <1>12, <2>1 DEF StepsRead, SoFar
<1>14. Append(PageSteps(f, n - 1), <<f[n]>>) = PageSteps(f, n)
  <2>1. n - 1 \in Nat /\ (n - 1) + 1 = n
    BY <1>1
  <2> QED
    BY <2>1, OneMoreStep
<1> QED
  BY <1>5, <1>6, <1>13, <1>14, <1>a

\* What stands between the arrows up to the j-th page; a space is before all but the first.
Ahead(f, j) == IF j = 1 THEN <<f[1]>> ELSE <<" ", f[j]>>

\* In the documented format, each page but the last is a step, and the last keeps its space.
LEMMA DocumentedIs ==
  ASSUME NEW f \in Seq(Page), f # <<>>, NEW s, s = Documented(f)
  PROVE  /\ s \in Seq(Sign)
         /\ parsePathString(s) = Append(PageSteps(f, Len(f) - 1), Ahead(f, Len(f)))
<1>a. PICK n, m : n = Len(f) /\ m = 4 * n - 3
  OBVIOUS
<1>1. n \in Nat /\ n >= 1 /\ m \in Nat /\ \A i \in 1..n : f[i] \in Page
  BY <1>a
<1>2. s = [k \in 1..m |-> IF k % 4 = 1 THEN f[(k + 3) \div 4] ELSE IF k % 4 = 3 THEN "->" ELSE " "]
  BY <1>a DEF Documented
<1>3. \A j \in 0..(n - 1) : 4 * j + 1 \in 1..m /\ s[4 * j + 1] = f[j + 1]
  <2> SUFFICES ASSUME NEW j \in 0..(n - 1) PROVE 4 * j + 1 \in 1..m /\ s[4 * j + 1] = f[j + 1]
    OBVIOUS
  <2>1. 4 * j + 1 \in 1..m /\ (4 * j + 1) % 4 = 1 /\ (4 * j + 1 + 3) \div 4 = j + 1
    BY <1>1, <1>a
  <2>a. PICK k : k = 4 * j + 1
    OBVIOUS
  <2>2. k \in 1..m /\ k % 4 = 1 /\ (k + 3) \div 4 = j + 1
    BY <2>1, <2>a
  <2>3. s[k] = f[(k + 3) \div 4]
    BY <1>2, <2>2
  <2> QED
    BY <2>2, <2>3, <2>a
<1>4. \A j \in 1..(n - 1) : /\ 4 * j - 2 \in 1..m /\ s[4 * j - 2] = " "
                           /\ 4 * j - 1 \in 1..m /\ s[4 * j - 1] = "->"
                           /\ 4 * j \in 1..m /\ s[4 * j] = " "
  <2> SUFFICES ASSUME NEW j \in 1..(n - 1)
               PROVE  /\ 4 * j - 2 \in 1..m /\ s[4 * j - 2] = " "
                      /\ 4 * j - 1 \in 1..m /\ s[4 * j - 1] = "->"
                      /\ 4 * j \in 1..m /\ s[4 * j] = " "
    OBVIOUS
  <2>1. 4 * j - 2 \in 1..m /\ 4 * j - 1 \in 1..m /\ 4 * j \in 1..m
    BY <1>1, <1>a
  <2>2. (4 * j - 2) % 4 = 2 /\ (4 * j - 1) % 4 = 3 /\ (4 * j) % 4 = 0
    OBVIOUS
  <2>3. \A k \in 1..m : k % 4 = 2 \/ k % 4 = 0 => s[k] = " "
    <3>1. ASSUME NEW k \in 1..m, k % 4 = 2 PROVE s[k] = " "
      <4>1. k % 4 # 1 /\ k % 4 # 3
        BY <3>1
      <4> QED
        BY <1>2, <4>1
    <3>2. ASSUME NEW k \in 1..m, k % 4 = 0 PROVE s[k] = " "
      <4>1. k % 4 # 1 /\ k % 4 # 3
        BY <3>2
      <4> QED
        BY <1>2, <4>1
    <3> QED
      BY <3>1, <3>2
  <2>4. \A k \in 1..m : k % 4 = 3 => s[k] = "->"
    <3> SUFFICES ASSUME NEW k \in 1..m, k % 4 = 3, k % 4 # 1 PROVE s[k] = "->"
      OBVIOUS
    <3> QED
      BY <1>2
  <2>5. s[4 * j - 2] = " "
    BY <2>1, <2>2, <2>3
  <2>6. s[4 * j - 1] = "->"
    BY <2>1, <2>2, <2>4
  <2>7. s[4 * j] = " "
    BY <2>1, <2>2, <2>3
  <2> QED
    BY <2>1, <2>5, <2>6, <2>7
<1>5. s \in Seq(Sign) /\ Len(s) = m
  <2>1. ASSUME NEW k \in 1..m PROVE s[k] \in Sign
    <3>1. CASE k % 4 = 1
      <4>1. (k + 3) \div 4 \in 1..n
        BY <1>1, <1>a
      <4> QED
        BY <1>1, <1>2, <3>1, <4>1 DEF Sign
    <3>2. CASE k % 4 # 1
      BY <1>2, <3>2 DEF Sign
    <3> QED
      BY <3>1, <3>2
  <2>2. s \in [1..m -> Sign]
    BY <1>2, <2>1
  <2> QED
    BY <1>1, <2>2, LenOfFunction
<1>6. PICK acc : ReadsTo(acc, s) /\ StepsRead(acc[m]) = parsePathString(s)
  BY <1>5, ReadLoop
<1>7. /\ acc[0] = SoFar(<<>>, <<>>)
      /\ \A k \in 1..m : acc[k] = ReadOn(acc[k - 1], s[k])
  BY <1>5, <1>6 DEF ReadsTo, NothingRead, SoFar
<1>b. PICK Q : Q = {j \in 0..(n - 1) : acc[4 * j + 1] = SoFar(PageSteps(f, j), Ahead(f, j + 1))}
  OBVIOUS
<1>8. \A p \in Page : p # "->" /\ p # " "
  BY AnalysesAssumption
<1>9. 0 \in Q
  <2>1. 0 \in 0..(n - 1) /\ 1 \in 1..m /\ s[1] = f[1] /\ f[1] \in Page
    BY <1>1, <1>3
  <2>2. acc[1] = ReadOn(SoFar(<<>>, <<>>), f[1])
    BY <1>7, <2>1
  <2>3. Append(<<>>, f[1]) = <<f[1]>> /\ PageSteps(f, 0) = <<>>
    BY Single DEF PageSteps
  <2>4. acc[1] = SoFar(PageSteps(f, 0), <<f[1]>>)
    <3>1. f[1] # "->"
      BY <1>8, <2>1
    <3>2. ReadOn(SoFar(<<>>, <<>>), f[1]) = SoFar(<<>>, Append(<<>>, f[1]))
      BY <3>1, SignRead
    <3> QED
      BY <2>2, <2>3, <3>2
  <2>5. Ahead(f, 0 + 1) = <<f[1]>>
    BY DEF Ahead
  <2> QED
    BY <1>b, <2>1, <2>4, <2>5
<1>10. \A j \in 1..(n - 1) : j - 1 \in Q => j \in Q
  <2> SUFFICES ASSUME NEW j \in 1..(n - 1), j - 1 \in Q PROVE j \in Q
    OBVIOUS
  <2>a. PICK a, x, y, c : a = PageSteps(f, j - 1) /\ x = f[j] /\ y = f[j + 1] /\ c = Ahead(f, j)
    OBVIOUS
  <2>1. /\ j \in 0..(n - 1) /\ j - 1 \in Nat /\ j \in 1..n /\ j + 1 \in 1..n /\ j + 1 # 1
        /\ 4 * (j - 1) + 1 = 4 * j - 3 /\ (4 * j - 2) - 1 = 4 * j - 3 /\ (4 * j - 1) - 1 = 4 * j - 2
        /\ (4 * j + 1) - 1 = 4 * j /\ (j - 1) + 1 = j
    BY <1>1
  <2>2. x \in Page /\ y \in Page
    BY <1>1, <2>1, <2>a
  <2>3. acc[4 * j - 3] = SoFar(a, c)
    BY <1>b, <2>1, <2>a
  <2>4. acc[4 * j - 2] = ReadOn(acc[4 * j - 3], " ")
    <3>1. 4 * j - 2 \in 1..m /\ s[4 * j - 2] = " "
      BY <1>4
    <3> QED
      BY <1>7, <2>1, <3>1
  <2>5. acc[4 * j - 1] = ReadOn(acc[4 * j - 2], "->")
    <3>1. 4 * j - 1 \in 1..m /\ s[4 * j - 1] = "->"
      BY <1>4
    <3> QED
      BY <1>7, <2>1, <3>1
  <2>6. acc[4 * j] = ReadOn(acc[4 * j - 1], " ")
    <3>1. 4 * j \in 1..m /\ s[4 * j] = " "
      BY <1>4
    <3> QED
      BY <1>7, <3>1
  <2>7. acc[4 * j + 1] = ReadOn(acc[4 * j], y)
    <3>1. 4 * j + 1 \in 1..m /\ s[4 * j + 1] = y
      BY <1>3, <2>1, <2>a
    <3> QED
      BY <1>7, <2>1, <3>1
  <2>8. acc[4 * j + 1] = SoFar(Append(a, <<x>>), <<Space, y>>)
    <3>1. x # Space /\ y # Arrow
      BY <1>8, <2>2 DEF Space, Arrow
    <3>2. acc[4 * j + 1] = OverSpaces(SoFar(a, c), y)
      BY <2>3, <2>4, <2>5, <2>6, <2>7 DEF OverSpaces, Space, Arrow
    <3>3. ToThePage(c, x)
      BY <2>a DEF Ahead, ToThePage, Space
    <3>4. OverSpaces(SoFar(a, c), y) = SoFar(Append(a, <<x>>), <<Space, y>>)
      BY <3>1, <3>3, SpacedRead
    <3> QED
      BY <3>2, <3>4
  <2>9. Append(a, <<x>>) = PageSteps(f, j)
    BY <2>1, <2>a, OneMoreStep
  <2>10. <<Space, y>> = Ahead(f, j + 1)
    BY <2>1, <2>a DEF Ahead, Space
  <2> QED
    BY <1>b, <2>1, <2>8, <2>9, <2>10
<1>11. n - 1 \in Q
  <2>1. Q \in SUBSET (0..(n - 1)) /\ n - 1 \in Nat
    BY <1>1, <1>b
  <2>2. Q = 0..(n - 1)
    BY <1>9, <1>10, <2>1, InductionUpTo
  <2> QED
    BY <2>1, <2>2
<1>12. acc[m] = SoFar(PageSteps(f, n - 1), Ahead(f, n))
  <2>1. 4 * (n - 1) + 1 = m /\ (n - 1) + 1 = n
    BY <1>1, <1>a
  <2> QED
    BY <1>11, <1>b, <2>1
<1>13. StepsRead(acc[m]) = Append(PageSteps(f, n - 1), Ahead(f, n))
  <2>1. Ahead(f, n) # <<>>
    BY Single, Double DEF Ahead
  <2> QED
    BY <1>12, <2>1 DEF StepsRead, SoFar
<1> QED
  BY <1>5, <1>6, <1>13, <1>a

-------------------------------------------------------------------------------
(* Walks over the users. *)

\* w gives each element of S once.
IsOrder(w, S) ==
  /\ w \in [1..Cardinality(S) -> S]
  /\ \A i, j \in 1..Cardinality(S) : i # j => w[i] # w[j]

\* An order of a finite set has each of its elements.
LEMMA OrderIs ==
  ASSUME NEW S, IsFiniteSet(S), NEW w, IsOrder(w, S)
  PROVE  /\ w \in Seq(S) /\ Len(w) = Cardinality(S) /\ DOMAIN w = 1..Cardinality(S)
         /\ \A x \in S : \E i \in DOMAIN w : w[i] = x
<1>a. PICK c : c = Cardinality(S)
  OBVIOUS
<1>1. c \in Nat /\ w \in [1..c -> S]
  BY <1>a, FS_CardinalityType DEF IsOrder
<1>2. w \in Seq(S) /\ Len(w) = c /\ DOMAIN w = 1..c
  BY <1>1, LenOfFunction
<1>3. w \in Injection(1..c, S)
  BY <1>1, <1>a DEF IsOrder, Injection, IsInjective
<1>4. IsFiniteSet(1..c) /\ Cardinality(1..c) = c
  <2>1. IsFiniteSet(1..c) /\ Cardinality(1..c) = IF 1 > c THEN 0 ELSE c - 1 + 1
    BY <1>1, FS_Interval
  <2> QED
    BY <1>1, <2>1
<1>5. w \in Surjection(1..c, S)
  BY <1>3, <1>4, <1>a, FS_Injection
<1> QED
  BY <1>2, <1>5, <1>a DEF Surjection

\* A map gives each user once.
IsWalk(w) == IsOrder(w, User)

\* A walk comes to every user.
LEMMA WalkIs ==
  ASSUME NEW w, IsWalk(w)
  PROVE  /\ w \in Seq(User) /\ DOMAIN w = 1..Cardinality(User)
         /\ \A u \in User : \E i \in DOMAIN w : w[i] = u
<1>1. IsFiniteSet(User)
  BY AnalysesAssumption
<1> QED
  BY <1>1, OrderIs DEF IsWalk

\* SetToSeq is a walk, and SetToSeqs are walks.
LEMMA WalksAre ==
  /\ IsWalk(SetToSeq(User))
  /\ \A w \in SetToSeqs(User) : IsWalk(w)
<1>a. PICK c : c = Cardinality(User)
  OBVIOUS
<1>0. IsFiniteSet(User)
  BY AnalysesAssumption
<1>1. \E f : f \in Bijection(1..c, User)
  BY <1>0, <1>a, FS_CardinalityType DEF ExistsBijection
<1>2. \E f \in [1..c -> User] : IsInjective(f)
  BY <1>1 DEF Bijection, Injection
<1>3. SetToSeq(User) \in [1..c -> User] /\ IsInjective(SetToSeq(User))
  BY <1>2, <1>a DEF SetToSeq
<1>4. IsWalk(SetToSeq(User))
  BY <1>3, <1>a DEF IsWalk, IsOrder, IsInjective
<1>5. \A w \in SetToSeqs(User) : IsWalk(w)
  BY DEF SetToSeqs, IsWalk, IsOrder
<1> QED
  BY <1>4, <1>5

\* Of a walk, each user of S is selected once.
LEMMA WalkSelected ==
  ASSUME NEW w, IsWalk(w), NEW S \in SUBSET User, NEW t, t = Selected(w, S)
  PROVE  /\ t \in Seq(User) /\ Len(t) = Cardinality(S) /\ ToSet(t) = S
         /\ \A E : Among(t, E) = Cardinality(S \cap E)
         /\ \A i, j \in DOMAIN t : i # j => t[i] # t[j]
<1>1. /\ w \in Seq(User) /\ DOMAIN w = 1..Cardinality(User)
      /\ \A u \in User : \E i \in DOMAIN w : w[i] = u
  BY WalkIs
<1>2. \A i, j \in DOMAIN w : i # j => w[i] # w[j]
  BY <1>1 DEF IsWalk, IsOrder
<1>3. ASSUME NEW E PROVE Among(w, E) = Cardinality(User \cap E)
  <2>a. PICK A, B : A = {i \in DOMAIN w : w[i] \in E} /\ B = User \cap E
    OBVIOUS
  <2>b. PICK f : f = [i \in A |-> w[i]]
    OBVIOUS
  <2>1. \A i \in A : i \in DOMAIN w /\ w[i] \in B /\ f[i] = w[i]
    <3>a. PICK c : c = Cardinality(User)
      OBVIOUS
    <3>1. w \in [1..c -> User]
      BY <3>a DEF IsWalk, IsOrder
    <3>2. \A i \in DOMAIN w : w[i] \in User
      BY <3>1
    <3> QED
      BY <2>a, <2>b, <3>2
  <2>2. f \in [A -> B]
    BY <2>1, <2>b
  <2>3. \A i, j \in A : f[i] = f[j] => i = j
    BY <1>2, <2>1
  <2>4. \A u \in B : \E i \in A : f[i] = u
    BY <1>1, <2>1, <2>a
  <2>5. ExistsBijection(A, B)
    BY <2>2, <2>3, <2>4 DEF ExistsBijection, Bijection, Injection, Surjection, IsInjective
  <2>6. IsFiniteSet(A)
    BY <1>1, <2>a, SeqFinite
  <2>7. Cardinality(A) = Cardinality(B)
    BY <2>5, <2>6, FS_Bijection
  <2> QED
    BY <2>7, <2>a DEF Among
<1>4. /\ t \in Seq(User) /\ Len(t) = Among(w, S) /\ \A i \in DOMAIN t : t[i] \in S
  BY <1>1, SelectedCounts
<1>5. \A E : Among(t, E) = Among(w, S \cap E)
  BY <1>1, SelectedCounts
<1>6. User \cap S = S
  OBVIOUS
<1>7. Len(t) = Cardinality(S)
  BY <1>3, <1>4, <1>6
<1>8. \A E : Among(t, E) = Cardinality(S \cap E)
  <2> SUFFICES ASSUME NEW E PROVE Among(t, E) = Cardinality(S \cap E)
    OBVIOUS
  <2>1. User \cap (S \cap E) = S \cap E
    OBVIOUS
  <2> QED
    BY <1>3, <1>5, <2>1
<1>9. PICK p : Drawn(p, t, w, {i \in DOMAIN w : w[i] \in S})
  <2>1. \E p : /\ Drawn(p, Selected(w, S), w, {i \in DOMAIN w : w[i] \in S})
               /\ Rising(p, Selected(w, S))
    BY <1>1, SelectedIs
  <2> QED
    BY <2>1
<1>10. \A i, j \in DOMAIN t : i # j => t[i] # t[j]
  BY <1>2, <1>9 DEF Drawn
<1>11. ToSet(t) = S
  <2>1. ASSUME NEW u \in S PROVE \E i \in DOMAIN t : t[i] = u
    <3>1. PICK k \in DOMAIN w : w[k] = u
      BY <1>1
    <3>2. PICK i \in DOMAIN t : p[i] = k
      BY <1>9, <3>1 DEF Drawn
    <3> QED
      BY <1>9, <3>1, <3>2 DEF Drawn
  <2> QED
    BY <1>4, <2>1 DEF ToSet
<1> QED
  BY <1>4, <1>7, <1>8, <1>10, <1>11

-------------------------------------------------------------------------------
(* Listings of paths. *)

\* The users whose paths begin in the period.
BegunIn(period) == {u \in User : InPeriod(StartTime(PathOf(u)), period) /\ PathOf(u) # <<>>}

\* A query by period alone matches the paths that begin in it;
LEMMA MatchesDates ==
  ASSUME NEW period, NEW u
  PROVE  PathMatches(u, PathsIn(period)) <=> InPeriod(StartTime(PathOf(u)), period)
<1>a. PICK q : q = PathsIn(period)
  OBVIOUS
<1>1. /\ q.period = period /\ q.minLength = 0 /\ q.maxLength = 0 /\ q.startPage = NoString
      /\ q.endPage = NoString /\ q.device = NoString
  BY <1>a DEF PathsIn
<1>2. q.minLength <= 0 /\ q.maxLength <= 0
  BY <1>1
<1> QED
  BY <1>1, <1>2, <1>a DEF PathMatches

\* with a start page, those of them that start there;
LEMMA MatchesStart ==
  ASSUME NEW period, NEW u, NEW p \in Page, NEW q, q = [PathsIn(period) EXCEPT !.startPage = p]
  PROVE  PathMatches(u, q) <=>
           InPeriod(StartTime(PathOf(u)), period) /\ StartsWithPage(PathOf(u), p)
<1>1. /\ q.period = period /\ q.minLength = 0 /\ q.maxLength = 0 /\ q.startPage = p
      /\ q.endPage = NoString /\ q.device = NoString
  BY DEF PathsIn
<1>2. q.minLength <= 0 /\ q.maxLength <= 0
  BY <1>1
<1>3. p # NoString
  BY AnalysesAssumption
<1> QED
  BY <1>1, <1>2, <1>3 DEF PathMatches

\* with an end page, those that end there;
LEMMA MatchesEnd ==
  ASSUME NEW period, NEW u, NEW p \in Page, NEW q, q = [PathsIn(period) EXCEPT !.endPage = p]
  PROVE  PathMatches(u, q) <=>
           InPeriod(StartTime(PathOf(u)), period) /\ EndsWithPage(PathOf(u), p)
<1>1. /\ q.period = period /\ q.minLength = 0 /\ q.maxLength = 0 /\ q.endPage = p
      /\ q.startPage = NoString /\ q.device = NoString
  BY DEF PathsIn
<1>2. q.minLength <= 0 /\ q.maxLength <= 0
  BY <1>1
<1>3. p # NoString
  BY AnalysesAssumption
<1> QED
  BY <1>1, <1>2, <1>3 DEF PathMatches

\* and with the device of one of its events, that path.
LEMMA MatchesDevice ==
  ASSUME Listed, NEW period, NEW u \in BegunIn(period), NEW i \in DOMAIN PathOf(u),
         NEW q, q = [PathsIn(period) EXCEPT !.device = PathOf(u)[i].device]
  PROVE  PathMatches(u, q)
<1>a. PICK path, s, e, d : path = PathOf(u) /\ s = ByTime(EventsOf(u)) /\ e = path[i] /\ d = e.device
  OBVIOUS
<1>1. /\ q.period = period /\ q.minLength = 0 /\ q.maxLength = 0 /\ q.device = d
      /\ q.startPage = NoString /\ q.endPage = NoString
  BY <1>a DEF PathsIn
<1>2. q.minLength <= 0 /\ q.maxLength <= 0
  BY <1>1
<1>3. path \in Seq(Event) /\ path # <<>> /\ InPeriod(StartTime(path), period)
  BY <1>a, PathIs DEF BegunIn
<1>4. e \in ToSet(EventsOf(u))
  <2>1. \E D, p : Drawn(p, path, s, D) /\ Rising(p, path) /\ FilledTo(path, D, s, Len(s))
    BY <1>a, PathIs
  <2>2. PICK D, p : Drawn(p, path, s, D) /\ FilledTo(path, D, s, Len(s))
    BY <2>1
  <2>3. s \in Seq(Event) /\ \A j \in DOMAIN s : s[j] \in ToSet(EventsOf(u))
    BY <1>a, SortedEvents
  <2>4. p[i] \in D /\ e = s[p[i]]
    BY <1>a, <2>2 DEF Drawn
  <2>5. p[i] \in 1..Len(s)
    BY <2>2, <2>4 DEF FilledTo
  <2> QED
    BY <2>3, <2>4, <2>5
<1>5. e.time \in (StartTime(path) - Hour + 1)..(EndTime(path) + Hour - 1)
  <2>a. PICK n, a, b : n = Len(path) /\ a = path[1] /\ b = path[n]
    OBVIOUS
  <2>1. n \in Nat /\ n >= 1 /\ DOMAIN path = 1..n
    BY <1>3, <2>a
  <2>2. StartTime(path) = a.time /\ EndTime(path) = b.time
    BY <1>3, <2>a DEF StartTime, EndTime, Last
  <2>3. a \in Event /\ b \in Event /\ e \in Event
    BY <1>3, <1>a, <2>1, <2>a
  <2>4. a.time \in Nat /\ b.time \in Nat /\ e.time \in Nat
    BY <2>3, AnalysesAssumption
  <2>5. a.time <= e.time /\ e.time <= b.time
    <3>a. PICK views : views = ViewsOf(u)
      OBVIOUS
    <3>1. \A k, l \in DOMAIN path : k < l => path[k].time <= path[l].time
      BY <1>a, <3>a, PathRunsForward
    <3>2. i \in 1..n /\ 1 \in 1..n /\ n \in 1..n
      BY <1>a, <2>1
    <3>3. i = 1 \/ 1 < i
      BY <3>2
    <3>4. i = n \/ i < n
      BY <3>2
    <3>5. a.time <= e.time
      <4>1. CASE i = 1
        BY <1>a, <2>a, <2>4, <4>1
      <4>2. CASE 1 < i
        BY <1>a, <2>a, <2>1, <3>1, <3>2, <4>2
      <4> QED
        BY <3>3, <4>1, <4>2
    <3>6. e.time <= b.time
      <4>1. CASE i = n
        BY <1>a, <2>a, <2>4, <4>1
      <4>2. CASE i < n
        BY <1>a, <2>a, <2>1, <3>1, <3>2, <4>2
      <4> QED
        BY <3>4, <4>1, <4>2
    <3> QED
      BY <3>5, <3>6
  <2>6. Hour \in Nat \ {0}
    BY AnalysesAssumption
  <2> QED
    BY <2>2, <2>4, <2>5, <2>6
<1> QED
  BY <1>1, <1>2, <1>3, <1>4, <1>5, <1>a DEF PathMatches

\* With no limit all paths that match are listed.
LEMMA AllListed ==
  ASSUME NEW w, IsWalk(w), NEW q, q.limit = 0, NEW S, S = {u \in User : PathMatches(u, q)}
  PROVE  ListPaths(w, q) = Selected(w, S) /\ ToSet(ListPaths(w, q)) = S
<1>1. ListPaths(w, q) = Selected(w, S)
  BY DEF ListPaths
<1> QED
  BY <1>1, WalkSelected

\* The path is on each step up to the i-th.
OnAll(path, steps, i) == \A j \in 1..i : OnStep(path, steps, j)

CoveredIn(period, steps, i) == Cardinality({u \in BegunIn(period) : OnAll(PathOf(u), steps, i)})

\* A step counts the paths of the period that have its page and all before.
LEMMA CoverageIs ==
  ASSUME Listed, NEW w, IsWalk(w), NEW text \in Seq(Sign), NEW period,
         NEW i \in DOMAIN parsePathString(text)
  PROVE  ComputePathCoverage(w, text, period)[i] = CoveredIn(period, parsePathString(text), i)
<1>a. PICK q, steps, S, t, Y : /\ q = PathsIn(period) /\ steps = parsePathString(text)
                               /\ S = {u \in User : PathMatches(u, q)} /\ t = Selected(w, S)
                               /\ Y = Sign
  OBVIOUS
<1>b. PICK E, R : /\ E = {u \in User : i \in StepsReached(PathOf(u), steps)}
                  /\ R = {u \in BegunIn(period) : OnAll(PathOf(u), steps, i)}
  OBVIOUS
<1>1. q.limit = 0
  BY <1>a DEF PathsIn
<1>2. ListPaths(w, q) = t
  BY <1>a, <1>1, AllListed
<1>3. t \in Seq(User) /\ Among(t, E) = Cardinality(S \cap E)
  <2>1. S \in SUBSET User
    BY <1>a
  <2>2. t = Selected(w, S)
    BY <1>a
  <2>3. t \in Seq(User) /\ \A F : Among(t, F) = Cardinality(S \cap F)
    BY <2>1, <2>2, WalkSelected
  <2> QED
    BY <2>3
<1>4. ComputePathCoverage(w, text, period)
        = [k \in DOMAIN steps |-> Cardinality({j \in DOMAIN t : k \in StepsReached(PathOf(t[j]), steps)})]
  BY <1>a, <1>2 DEF ComputePathCoverage
<1>5. {j \in DOMAIN t : i \in StepsReached(PathOf(t[j]), steps)} = {j \in DOMAIN t : t[j] \in E}
  <2>1. \A j \in DOMAIN t : t[j] \in User
    BY <1>3
  <2> QED
    BY <1>b, <2>1
<1>6. ComputePathCoverage(w, text, period)[i] = Cardinality(S \cap E)
  BY <1>3, <1>4, <1>5, <1>a DEF Among
<1>7. steps \in Seq(Seq(Y))
  <2>1. text \in Seq(Y)
    BY <1>a
  <2> QED
    BY <1>a, <2>1, ParsedIs
<1>8. i \in Nat /\ i >= 1 /\ i \in DOMAIN steps
  <2>1. Len(steps) \in Nat /\ DOMAIN steps = 1..Len(steps)
    BY <1>7
  <2>2. i \in 1..Len(steps)
    BY <2>1, <1>a
  <2> QED
    BY <2>1, <2>2
<1>9. \A u : i \in StepsReached(PathOf(u), steps) <=> \A j \in 1..i : OnStep(PathOf(u), steps, j)
  <2> SUFFICES ASSUME NEW u
               PROVE  i \in StepsReached(PathOf(u), steps) <=> \A j \in 1..i : OnStep(PathOf(u), steps, j)
    OBVIOUS
  <2>1. StepsReached(PathOf(u), steps)
          = {k \in DOMAIN steps : \A j \in 1..k : OnStep(PathOf(u), steps, j)}
    BY <1>7, StepsReachedIs
  <2> QED
    BY <1>8, <2>1
<1>10. \A u : PathOf(u) = <<>> => ~OnStep(PathOf(u), steps, 1)
  BY DEF OnStep, ToURLSequence, ToSet
<1>11. 1 \in 1..i
  BY <1>8
<1>12. \A u : PathMatches(u, q) <=> InPeriod(StartTime(PathOf(u)), period)
  BY <1>a, MatchesDates
<1>13. S \cap E = R
  BY <1>9, <1>10, <1>11, <1>12, <1>a, <1>b DEF BegunIn, OnAll
<1> QED
  BY <1>6, <1>13, <1>a, <1>b DEF CoveredIn

\* A path is listed under one start page and one end page.
LEMMA OneStart ==
  ASSUME Listed, NEW w, IsWalk(w), NEW period, NEW u \in BegunIn(period)
  PROVE  /\ Cardinality({p \in Page :
                u \in ToSet(ListPaths(w, [PathsIn(period) EXCEPT !.startPage = p]))}) = 1
         /\ Cardinality({p \in Page :
                u \in ToSet(ListPaths(w, [PathsIn(period) EXCEPT !.endPage = p]))}) = 1
<1>a. PICK path, n : path = PathOf(u) /\ n = Len(path)
  OBVIOUS
<1>0. u \in User /\ InPeriod(StartTime(path), period) /\ path # <<>>
  BY <1>a DEF BegunIn
<1>1. path \in Seq(Event)
  BY <1>a, PathIs
<1>2. path[1] \in Event /\ path[n] \in Event
  <2>1. n \in Nat /\ n >= 1 /\ DOMAIN path = 1..n
    BY <1>0, <1>1, <1>a
  <2>2. 1 \in DOMAIN path /\ n \in DOMAIN path
    BY <2>1
  <2> QED
    BY <1>1, <2>2
<1>3. path[1].page \in Page /\ path[n].page \in Page
  BY <1>2, AnalysesAssumption
<1>4. ASSUME NEW p \in Page
      PROVE  u \in ToSet(ListPaths(w, [PathsIn(period) EXCEPT !.startPage = p])) <=> p = path[1].page
  <2>a. PICK q, S : q = [PathsIn(period) EXCEPT !.startPage = p] /\ S = {v \in User : PathMatches(v, q)}
    OBVIOUS
  <2>1. q.limit = 0
    BY <2>a DEF PathsIn
  <2>2. ToSet(ListPaths(w, q)) = S
    BY <2>1, <2>a, AllListed
  <2>3. PathMatches(u, q) <=> InPeriod(StartTime(path), period) /\ StartsWithPage(path, p)
    BY <1>a, <2>a, MatchesStart
  <2>4. StartsWithPage(path, p) <=> p = path[1].page
    BY <1>0, <1>1 DEF StartsWithPage
  <2> QED
    BY <1>0, <2>2, <2>3, <2>4, <2>a
<1>5. ASSUME NEW p \in Page
      PROVE  u \in ToSet(ListPaths(w, [PathsIn(period) EXCEPT !.endPage = p])) <=> p = path[n].page
  <2>a. PICK q, S : q = [PathsIn(period) EXCEPT !.endPage = p] /\ S = {v \in User : PathMatches(v, q)}
    OBVIOUS
  <2>1. q.limit = 0
    BY <2>a DEF PathsIn
  <2>2. ToSet(ListPaths(w, q)) = S
    BY <2>1, <2>a, AllListed
  <2>3. PathMatches(u, q) <=> InPeriod(StartTime(path), period) /\ EndsWithPage(path, p)
    BY <1>a, <2>a, MatchesEnd
  <2>4. EndsWithPage(path, p) <=> p = path[n].page
    BY <1>0, <1>a DEF EndsWithPage, Last
  <2> QED
    BY <1>0, <2>2, <2>3, <2>4, <2>a
<1>6. {p \in Page : u \in ToSet(ListPaths(w, [PathsIn(period) EXCEPT !.startPage = p]))} = {path[1].page}
  BY <1>3, <1>4
<1>7. {p \in Page : u \in ToSet(ListPaths(w, [PathsIn(period) EXCEPT !.endPage = p]))} = {path[n].page}
  BY <1>3, <1>5
<1> QED
  BY <1>6, <1>7, FS_Singleton

\* A path is listed under the device of each of its views.
LEMMA EachDevice ==
  ASSUME Listed, NEW w, IsWalk(w), NEW period, NEW u \in BegunIn(period), NEW i \in DOMAIN PathOf(u)
  PROVE  /\ PathOf(u)[i].device \in Device
         /\ u \in ToSet(ListPaths(w, [PathsIn(period) EXCEPT !.device = PathOf(u)[i].device]))
<1>a. PICK path, d, q, S : /\ path = PathOf(u) /\ d = path[i].device
                           /\ q = [PathsIn(period) EXCEPT !.device = d]
                           /\ S = {v \in User : PathMatches(v, q)}
  OBVIOUS
<1>1. path[i] \in Event
  <2>1. path \in Seq(Event)
    BY <1>a, PathIs
  <2> QED
    BY <1>a, <2>1
<1>2. d \in Device
  BY <1>1, <1>a, AnalysesAssumption
<1>3. q.limit = 0
  BY <1>a DEF PathsIn
<1>4. ToSet(ListPaths(w, q)) = S
  BY <1>3, <1>a, AllListed
<1>5. PathMatches(u, q)
  BY <1>a, MatchesDevice
<1>6. u \in User
  BY DEF BegunIn
<1> QED
  BY <1>2, <1>4, <1>5, <1>6, <1>a

\* A list that is cut is as long as allowed, and has what the list has.
LEMMA CutIs ==
  ASSUME NEW X, NEW s \in Seq(X), NEW limit \in Nat,
         NEW t, t = IF Len(s) > limit THEN SubSeq(s, 1, limit) ELSE s
  PROVE  /\ t \in Seq(X) /\ Len(t) = Min({limit, Len(s)}) /\ Len(t) <= Len(s)
         /\ \A i \in DOMAIN t : i \in DOMAIN s /\ t[i] = s[i]
         /\ Len(t) < Len(s) => Len(t) = limit
<1>0. Len(s) \in Nat /\ DOMAIN s = 1..Len(s)
  OBVIOUS
<1>1. Min({limit, Len(s)}) = IF limit <= Len(s) THEN limit ELSE Len(s)
  BY <1>0, LesserOfTwo
<1>2. CASE Len(s) > limit
  <2>0. t = SubSeq(s, 1, limit)
    BY <1>2
  <2>1. t = [i \in 1..limit |-> s[i]]
    <3>1. t = [i \in 1..(limit - 1 + 1) |-> s[i + 1 - 1]]
      BY <1>0, <1>2, <2>0
    <3>2. limit - 1 + 1 = limit /\ \A i \in 1..limit : i + 1 - 1 = i
      OBVIOUS
    <3> QED
      BY <3>1, <3>2
  <2>2. \A i \in 1..limit : i \in DOMAIN s /\ s[i] \in X
    BY <1>0, <1>2
  <2>3. t \in [1..limit -> X]
    BY <2>1, <2>2
  <2>4. t \in Seq(X) /\ Len(t) = limit
    BY <2>3, LenOfFunction
  <2> QED
    BY <1>0, <1>1, <1>2, <2>1, <2>2, <2>4
<1>3. CASE ~(Len(s) > limit)
  <2>a. PICK n : n = Len(s)
    OBVIOUS
  <2>1. t = s /\ n \in Nat /\ n <= limit
    BY <1>3, <2>a
  <2>2. Min({limit, Len(s)}) = Len(s)
    BY <1>1, <2>1, <2>a
  <2>3. Len(t) <= Len(s) /\ ~(Len(t) < Len(s))
    BY <2>1, <2>a
  <2> QED
    BY <2>1, <2>2, <2>3
<1> QED
  BY <1>2, <1>3

\* q asks for paths that are not empty, as many as the limit.
AsksSome(q, period, limit) ==
  /\ q.period = period /\ q.minLength = 1 /\ q.maxLength = 0 /\ q.startPage = NoString
  /\ q.endPage = NoString /\ q.device = NoString /\ q.limit = limit

\* A query for one or two paths of any length stays one when it is validated.
LEMMA SomeAsked ==
  ASSUME NEW period, NEW limit \in {1, 2},
         NEW q, q = ValidatedPaths([PathsIn(period) EXCEPT !.limit = limit, !.minLength = 1])
  PROVE  AsksSome(q, period, limit)
<1>a. PICK r : r = [PathsIn(period) EXCEPT !.limit = limit, !.minLength = 1]
  OBVIOUS
<1>1. /\ r.period = period /\ r.minLength = 1 /\ r.maxLength = 0 /\ r.startPage = NoString
      /\ r.endPage = NoString /\ r.device = NoString /\ r.limit = limit
      /\ DOMAIN r = {"period", "minLength", "maxLength", "startPage", "endPage", "device", "limit"}
  BY <1>a DEF PathsIn
<1>2. limit \in 1..500 /\ ~(1 < 0)
  OBVIOUS
<1>3. q = [r EXCEPT !.limit = IF @ \in 1..500 THEN @ ELSE 20,
                    !.minLength = IF @ < 0 THEN 0 ELSE @]
  BY <1>a DEF ValidatedPaths
<1> QED
  BY <1>1, <1>2, <1>3 DEF AsksSome

\* It matches the paths that begin in its period.
LEMMA MatchesSome ==
  ASSUME Listed, NEW period, NEW limit \in {1, 2}, NEW u \in User,
         NEW q, q = ValidatedPaths([PathsIn(period) EXCEPT !.limit = limit, !.minLength = 1])
  PROVE  PathMatches(u, q) <=> u \in BegunIn(period)
<1>a. PICK path : path = PathOf(u)
  OBVIOUS
<1>1. /\ q.period = period /\ q.minLength = 1 /\ q.maxLength = 0 /\ q.startPage = NoString
      /\ q.endPage = NoString /\ q.device = NoString
  <2>1. AsksSome(q, period, limit)
    BY SomeAsked
  <2> QED
    BY <2>1 DEF AsksSome
<1>2. ~(1 <= 0) /\ 0 <= 0
  OBVIOUS
<1>3. path \in Seq(Event)
  BY <1>a, PathIs
<1>4. Len(path) >= 1 <=> path # <<>>
  BY <1>3
<1>5. PathMatches(u, q) <=> InPeriod(StartTime(path), period) /\ Len(path) >= 1
  BY <1>1, <1>2, <1>a DEF PathMatches
<1> QED
  BY <1>4, <1>5, <1>a DEF BegunIn

\* A listing that is cut is as long as allowed, in whatever order.
LEMMA CutListed ==
  ASSUME Listed, NEW w, IsWalk(w), NEW period, NEW limit \in {1, 2}, NEW shown,
         shown = ListPaths(w, ValidatedPaths([PathsIn(period) EXCEPT !.limit = limit, !.minLength = 1]))
  PROVE  ToSet(shown) \subseteq BegunIn(period) /\ Len(shown) = Min({limit, Cardinality(BegunIn(period))})
<1>a. PICK q, B, s : /\ q = ValidatedPaths([PathsIn(period) EXCEPT !.limit = limit, !.minLength = 1])
                     /\ B = BegunIn(period) /\ s = Selected(w, B)
  OBVIOUS
<1>1. B \in SUBSET User
  BY <1>a DEF BegunIn
<1>2. q.limit = limit /\ \A u \in User : PathMatches(u, q) <=> u \in B
  <2>1. q.limit = limit
    BY <1>a, SomeAsked DEF AsksSome
  <2>2. ASSUME NEW u \in User PROVE PathMatches(u, q) <=> u \in B
    BY <1>a, MatchesSome
  <2> QED
    BY <2>1, <2>2
<1>3. {u \in User : PathMatches(u, q)} = B
  BY <1>1, <1>2
<1>4. s \in Seq(User) /\ Len(s) = Cardinality(B) /\ ToSet(s) = B
  BY <1>1, <1>a, WalkSelected
<1>5. shown = IF limit > 0 /\ Len(s) >= limit THEN SubSeq(s, 1, limit) ELSE s
  BY <1>2, <1>3, <1>a DEF ListPaths
<1>6. shown = IF Len(s) > limit THEN SubSeq(s, 1, limit) ELSE s
  <2>1. CASE Len(s) = limit
    <3>1. SubSeq(s, 1, Len(s)) = s
      BY <1>4
    <3> QED
      BY <1>5, <2>1, <3>1
  <2>2. CASE Len(s) # limit
    <3>1. Len(s) \in Nat /\ limit \in Nat /\ limit > 0
      BY <1>4
    <3>2. (limit > 0 /\ Len(s) >= limit) <=> Len(s) > limit
      BY <2>2, <3>1
    <3> QED
      BY <1>5, <3>2
  <2> QED
    BY <2>1, <2>2
<1>7. /\ Len(shown) = Min({limit, Len(s)})
      /\ \A i \in DOMAIN shown : i \in DOMAIN s /\ shown[i] = s[i]
  <2>1. limit \in Nat
    OBVIOUS
  <2> QED
    BY <1>4, <1>6, <2>1, CutIs
<1>8. ToSet(shown) \subseteq ToSet(s)
  BY <1>7 DEF ToSet
<1> QED
  BY <1>4, <1>7, <1>8, <1>a

\* The path is on each of the first i pages of f.
HasAll(path, f, i) == \A j \in 1..i : \E k \in DOMAIN path : path[k].page = f[j]

\* The paths of the period that have them.
ReachedIn(period, f, i) == Cardinality({u \in BegunIn(period) : HasAll(PathOf(u), f, i)})

\* A path is on a step of one page if it has the page.
LEMMA OnPageStep ==
  ASSUME NEW path, NEW steps, NEW j, NEW p, steps[j] = <<p>>
  PROVE  OnStep(path, steps, j) <=> \E k \in DOMAIN path : path[k].page = p
<1>1. \A q : <<p>> = <<q>> <=> p = q
  OBVIOUS
<1>2. ToSet(ToURLSequence(path)) = {path[k].page : k \in DOMAIN path}
  BY DEF ToSet, ToURLSequence
<1> QED
  BY <1>1, <1>2 DEF OnStep

\* So where the first i steps are pages, the i-th counts the paths that have them.
LEMMA PagesCounted ==
  ASSUME Listed, NEW w, IsWalk(w), NEW text \in Seq(Sign), NEW period, NEW f, NEW i \in Nat,
         i \in DOMAIN parsePathString(text), \A j \in 1..i : parsePathString(text)[j] = <<f[j]>>
  PROVE  ComputePathCoverage(w, text, period)[i] = ReachedIn(period, f, i)
<1>a. PICK steps : steps = parsePathString(text)
  OBVIOUS
<1>1. \A path : OnAll(path, steps, i) <=> HasAll(path, f, i)
  <2> SUFFICES ASSUME NEW path PROVE OnAll(path, steps, i) <=> HasAll(path, f, i)
    OBVIOUS
  <2>1. \A j \in 1..i : OnStep(path, steps, j) <=> \E k \in DOMAIN path : path[k].page = f[j]
    BY <1>a, OnPageStep
  <2> QED
    BY <2>1 DEF OnAll, HasAll
<1>2. {u \in BegunIn(period) : OnAll(PathOf(u), steps, i)}
        = {u \in BegunIn(period) : HasAll(PathOf(u), f, i)}
  BY <1>1
<1>3. ComputePathCoverage(w, text, period)[i] = CoveredIn(period, parsePathString(text), i)
  BY CoverageIs
<1> QED
  BY <1>2, <1>3, <1>a DEF CoveredIn, ReachedIn

\* With bare arrows, each step counts the paths that have its page and all before.
LEMMA BareCounted ==
  ASSUME Listed, NEW w, IsWalk(w), NEW period, NEW f \in Seq(Page), f # <<>>
  PROVE  ComputePathCoverage(w, Bare(f), period) = [i \in DOMAIN f |-> ReachedIn(period, f, i)]
<1>a. PICK s, steps, n, c : /\ s = Bare(f) /\ steps = parsePathString(s) /\ n = Len(f)
                            /\ c = ComputePathCoverage(w, s, period)
  OBVIOUS
<1>1. s \in Seq(Sign) /\ steps = PageSteps(f, n)
  BY <1>a, BareIs
<1>2. n \in Nat /\ DOMAIN f = 1..n /\ DOMAIN steps = 1..n /\ \A j \in 1..n : steps[j] = <<f[j]>>
  BY <1>1, <1>a DEF PageSteps
<1>3. c = [i \in DOMAIN steps |-> c[i]]
  BY <1>a DEF ComputePathCoverage
<1>4. ASSUME NEW i \in 1..n PROVE c[i] = ReachedIn(period, f, i)
  <2>1. i \in Nat /\ \A j \in 1..i : j \in 1..n
    BY <1>2
  <2>2. \A j \in 1..i : parsePathString(s)[j] = <<f[j]>>
    BY <1>2, <1>a, <2>1
  <2>3. i \in DOMAIN parsePathString(s)
    BY <1>2, <1>a
  <2> QED
    BY <1>1, <1>a, <2>1, <2>2, <2>3, PagesCounted
<1> QED
  BY <1>2, <1>3, <1>4, <1>a

\* In the documented format, the last step of several counts none.
LEMMA DocumentedCounted ==
  ASSUME Listed, NEW w, IsWalk(w), NEW period, NEW f \in Seq(Page), f # <<>>
  PROVE  ComputePathCoverage(w, Documented(f), period)
           = [i \in DOMAIN f |-> IF i = Len(f) /\ i > 1 THEN 0 ELSE ReachedIn(period, f, i)]
<1>a. PICK s, steps, n, c, a : /\ s = Documented(f) /\ steps = parsePathString(s) /\ n = Len(f)
                               /\ c = ComputePathCoverage(w, s, period) /\ a = PageSteps(f, n - 1)
  OBVIOUS
<1>1. s \in Seq(Sign) /\ steps = Append(a, Ahead(f, n))
  BY <1>a, DocumentedIs
<1>2. n \in Nat /\ n >= 1 /\ n - 1 \in Nat /\ DOMAIN f = 1..n /\ \A j \in 1..n : f[j] \in Page
  BY <1>a
<1>b. PICK X : X = {<<f[j]>> : j \in 1..n} \cup {Ahead(f, n)}
  OBVIOUS
<1>3. a \in [1..(n - 1) -> X] /\ \A j \in 1..(n - 1) : a[j] = <<f[j]>>
  BY <1>2, <1>a, <1>b DEF PageSteps
<1>4. a \in Seq(X) /\ Len(a) = n - 1
  BY <1>2, <1>3, LenOfFunction
<1>5. /\ steps \in Seq(X) /\ Len(steps) = n /\ steps[n] = Ahead(f, n)
      /\ \A j \in 1..(n - 1) : steps[j] = <<f[j]>>
  <2>1. Ahead(f, n) \in X
    BY <1>b
  <2>2. /\ Append(a, Ahead(f, n)) \in Seq(X) /\ Len(Append(a, Ahead(f, n))) = (n - 1) + 1
        /\ Append(a, Ahead(f, n))[(n - 1) + 1] = Ahead(f, n)
        /\ \A j \in 1..(n - 1) : Append(a, Ahead(f, n))[j] = a[j]
    BY <1>4, <2>1, AppendProperties
  <2>3. (n - 1) + 1 = n
    BY <1>2
  <2> QED
    BY <1>1, <1>3, <2>2, <2>3
<1>6. DOMAIN steps = 1..n
  BY <1>5
<1>7. c = [i \in DOMAIN steps |-> c[i]]
  BY <1>a DEF ComputePathCoverage
<1>8. ASSUME NEW i \in 1..n, ~(i = n /\ i > 1) PROVE c[i] = ReachedIn(period, f, i)
  <2>1. i \in Nat /\ \A j \in 1..i : j \in 1..(n - 1) \/ (j = 1 /\ n = 1)
    BY <1>2, <1>8
  <2>2. n = 1 => Ahead(f, n) = <<f[1]>>
    BY DEF Ahead
  <2>3. \A j \in 1..i : parsePathString(s)[j] = <<f[j]>>
    BY <1>5, <1>a, <2>1, <2>2
  <2>4. i \in DOMAIN parsePathString(s)
    BY <1>6, <1>a
  <2> QED
    BY <1>1, <1>a, <2>1, <2>3, <2>4, PagesCounted
<1>9. ASSUME n > 1 PROVE c[n] = 0
  <2>1. n \in 1..n /\ n # 1
    BY <1>2, <1>9
  <2>2. steps[n] = <<" ", f[n]>>
    BY <1>5, <2>1 DEF Ahead
  <2>3. \A q : <<" ", f[n]>> # <<q>>
    OBVIOUS
  <2>4. \A path : ~OnAll(path, steps, n)
    BY <2>1, <2>2, <2>3 DEF OnAll, OnStep
  <2>5. {u \in BegunIn(period) : OnAll(PathOf(u), steps, n)} = {}
    BY <2>4
  <2>6. c[n] = CoveredIn(period, steps, n)
    <3>1. n \in DOMAIN parsePathString(s)
      BY <1>6, <1>a, <2>1
    <3>2. ComputePathCoverage(w, s, period)[n] = CoveredIn(period, parsePathString(s), n)
      BY <1>1, <3>1, CoverageIs
    <3> QED
      BY <1>a, <3>2
  <2> QED
    BY <2>5, <2>6, FS_EmptySet DEF CoveredIn
<1>10. \A i \in 1..n : c[i] = IF i = n /\ i > 1 THEN 0 ELSE ReachedIn(period, f, i)
  BY <1>8, <1>9
<1> QED
  BY <1>2, <1>6, <1>7, <1>10, <1>a

\* FunnelNarrows holds of every listing.
LEMMA FunnelHold == Listed => FunnelNarrows
<1> SUFFICES ASSUME Listed, NEW period \in Period
             PROVE  LET walk  == SetToSeq(User)
                        asked == PathsIn(period)
                        path  == [u \in User |-> PathOf(u)]
                        begun == {u \in User : InPeriod(StartTime(path[u]), period) /\ path[u] # <<>>}
                        Found(q)  == ToSet(ListPaths(walk, q))
                        starting  == [p \in Page |-> Found([asked EXCEPT !.startPage = p])]
                        ending    == [p \in Page |-> Found([asked EXCEPT !.endPage = p])]
                        on        == [d \in Device |-> Found([asked EXCEPT !.device = d])]
                    IN /\ \A funnel \in Funnel :
                            LET All(u, i) == \A j \in 1..i :
                                               \E k \in DOMAIN path[u] : path[u][k].page = funnel[j]
                                reached == [i \in DOMAIN funnel |-> Cardinality({u \in begun : All(u, i)})]
                            IN /\ ComputePathCoverage(walk, Bare(funnel), period) = reached
                               /\ ComputePathCoverage(walk, Documented(funnel), period)
                                    = [i \in DOMAIN funnel |->
                                         IF i = Len(funnel) /\ i > 1 THEN 0 ELSE reached[i]]
                       /\ \A u \in begun :
                            /\ Cardinality({p \in Page : u \in starting[p]}) = 1
                            /\ Cardinality({p \in Page : u \in ending[p]}) = 1
                            /\ \A i \in DOMAIN path[u] : u \in on[path[u][i].device]
                       /\ \A order \in SetToSeqs(User), limit \in {1, 2} :
                            LET shown == ListPaths(order, ValidatedPaths([asked EXCEPT !.limit = limit,
                                                                                       !.minLength = 1]))
                            IN ToSet(shown) \subseteq begun /\ Len(shown) = Min({limit, Cardinality(begun)})
  BY Zenon DEF FunnelNarrows
<1> DEFINE walk  == SetToSeq(User)
           asked == PathsIn(period)
           path  == [u \in User |-> PathOf(u)]
           begun == {u \in User : InPeriod(StartTime(path[u]), period) /\ path[u] # <<>>}
           Found(q)  == ToSet(ListPaths(walk, q))
           starting  == [p \in Page |-> Found([asked EXCEPT !.startPage = p])]
           ending    == [p \in Page |-> Found([asked EXCEPT !.endPage = p])]
           on        == [d \in Device |-> Found([asked EXCEPT !.device = d])]
<1>1. IsWalk(walk) /\ \A order \in SetToSeqs(User) : IsWalk(order)
  BY WalksAre
<1>2. /\ \A u \in User : path[u] = PathOf(u)
      /\ \A p \in Page : starting[p] = Found([asked EXCEPT !.startPage = p])
      /\ \A p \in Page : ending[p] = Found([asked EXCEPT !.endPage = p])
      /\ \A d \in Device : on[d] = Found([asked EXCEPT !.device = d])
  OBVIOUS
<1> HIDE DEF path, starting, ending, on
<1>3. begun = BegunIn(period)
  BY <1>2 DEF BegunIn
<1>4. begun \subseteq User
  OBVIOUS
<1> HIDE DEF begun
<1>5. ASSUME NEW f \in Funnel, NEW reached,
             reached = [i \in DOMAIN f |->
                          Cardinality({u \in begun : \A j \in 1..i :
                                         \E k \in DOMAIN path[u] : path[u][k].page = f[j]})]
      PROVE  /\ ComputePathCoverage(walk, Bare(f), period) = reached
             /\ ComputePathCoverage(walk, Documented(f), period)
                  = [i \in DOMAIN f |-> IF i = Len(f) /\ i > 1 THEN 0 ELSE reached[i]]
  <2>1. f \in Seq(Page) /\ f # <<>>
    BY AnalysesAssumption
  <2>2. \A i : {u \in begun : \A j \in 1..i : \E k \in DOMAIN path[u] : path[u][k].page = f[j]}
              = {u \in BegunIn(period) : HasAll(PathOf(u), f, i)}
    BY <1>2, <1>3, <1>4 DEF HasAll
  <2>3. reached = [i \in DOMAIN f |-> ReachedIn(period, f, i)]
    BY <1>5, <2>2 DEF ReachedIn
  <2>4. ComputePathCoverage(walk, Bare(f), period) = reached
    BY <1>1, <2>1, <2>3, BareCounted
  <2>5. \A i \in DOMAIN f : reached[i] = ReachedIn(period, f, i)
    BY <2>3
  <2>6. ComputePathCoverage(walk, Documented(f), period)
          = [i \in DOMAIN f |-> IF i = Len(f) /\ i > 1 THEN 0 ELSE ReachedIn(period, f, i)]
    BY <1>1, <2>1, DocumentedCounted
  <2> QED
    BY <2>4, <2>5, <2>6
<1>6. ASSUME NEW u \in begun
      PROVE  /\ Cardinality({p \in Page : u \in starting[p]}) = 1
             /\ Cardinality({p \in Page : u \in ending[p]}) = 1
  <2>1. /\ Cardinality({p \in Page :
              u \in ToSet(ListPaths(walk, [PathsIn(period) EXCEPT !.startPage = p]))}) = 1
        /\ Cardinality({p \in Page :
              u \in ToSet(ListPaths(walk, [PathsIn(period) EXCEPT !.endPage = p]))}) = 1
    BY <1>1, <1>3, OneStart
  <2>2. {p \in Page : u \in ToSet(ListPaths(walk, [PathsIn(period) EXCEPT !.startPage = p]))}
          = {p \in Page : u \in starting[p]}
    BY <1>2
  <2>3. {p \in Page : u \in ToSet(ListPaths(walk, [PathsIn(period) EXCEPT !.endPage = p]))}
          = {p \in Page : u \in ending[p]}
    BY <1>2
  <2> QED
    BY <2>1, <2>2, <2>3
<1>7. ASSUME NEW u \in begun, NEW i \in DOMAIN path[u]
      PROVE  u \in on[path[u][i].device]
  <2>1. path[u] = PathOf(u)
    BY <1>2, <1>4
  <2>2. /\ PathOf(u)[i].device \in Device
        /\ u \in ToSet(ListPaths(walk, [PathsIn(period) EXCEPT !.device = PathOf(u)[i].device]))
    BY <1>1, <1>3, <2>1, EachDevice
  <2> QED
    BY <1>2, <2>1, <2>2
<1>8. ASSUME NEW order \in SetToSeqs(User), NEW limit \in {1, 2}, NEW shown,
             shown = ListPaths(order, ValidatedPaths([asked EXCEPT !.limit = limit, !.minLength = 1]))
      PROVE  ToSet(shown) \subseteq begun /\ Len(shown) = Min({limit, Cardinality(begun)})
  BY <1>1, <1>3, <1>8, CutListed
<1> USE DEF path, starting, ending, on, begun
<1>9. /\ \A funnel \in Funnel :
           LET All(u, i) == \A j \in 1..i : \E k \in DOMAIN path[u] : path[u][k].page = funnel[j]
               reached == [i \in DOMAIN funnel |-> Cardinality({u \in begun : All(u, i)})]
           IN /\ ComputePathCoverage(walk, Bare(funnel), period) = reached
              /\ ComputePathCoverage(walk, Documented(funnel), period)
                   = [i \in DOMAIN funnel |-> IF i = Len(funnel) /\ i > 1 THEN 0 ELSE reached[i]]
      /\ \A u \in begun :
           /\ Cardinality({p \in Page : u \in starting[p]}) = 1
           /\ Cardinality({p \in Page : u \in ending[p]}) = 1
           /\ \A i \in DOMAIN path[u] : u \in on[path[u][i].device]
  <2> HIDE DEF path, starting, ending, on, begun
  <2> QED
    BY <1>5, <1>6, <1>7
<1> QED
  BY <1>8, <1>9, Zenon

-------------------------------------------------------------------------------
(* Recent events. *)

\* One of what is drawn is replaced.
LEMMA DrawnReplaced ==
  ASSUME NEW X, NEW t \in Seq(X), NEW s, NEW D, NEW p, Drawn(p, t, s, D),
         NEW o \in DOMAIN t, NEW d, d \notin D, s[d] \in X
  PROVE  /\ [t EXCEPT ![o] = s[d]] \in Seq(X) /\ Len([t EXCEPT ![o] = s[d]]) = Len(t)
         /\ \E q : Drawn(q, [t EXCEPT ![o] = s[d]], s, (D \ {p[o]}) \cup {d})
<1>a. PICK r, q, C, n : /\ r = [t EXCEPT ![o] = s[d]] /\ q = [p EXCEPT ![o] = d]
                        /\ C = (D \ {p[o]}) \cup {d} /\ n = Len(t)
  OBVIOUS
<1>1. n \in Nat /\ DOMAIN t = 1..n /\ t \in [1..n -> X]
  BY <1>a
<1>2. r \in [1..n -> X] /\ DOMAIN r = 1..n
  BY <1>1, <1>a
<1>3. r \in Seq(X) /\ Len(r) = n
  BY <1>1, <1>2, LenOfFunction
<1>4. /\ p \in [1..n -> D] /\ \A i, j \in 1..n : i # j => p[i] # p[j]
      /\ \A i \in 1..n : t[i] = s[p[i]]
      /\ \A x \in D : \E i \in 1..n : p[i] = x
  BY <1>1 DEF Drawn
<1>5. o \in 1..n
  BY <1>1
<1>6. /\ q[o] = d /\ r[o] = s[d]
      /\ \A i \in 1..n : i # o => q[i] = p[i] /\ r[i] = t[i]
  BY <1>1, <1>4, <1>5, <1>a
<1>7. q \in [1..n -> C]
  <2>1. DOMAIN q = 1..n /\ q = [i \in 1..n |-> q[i]]
    BY <1>4, <1>a
  <2>2. \A i \in 1..n : q[i] \in C
    BY <1>4, <1>5, <1>6, <1>a
  <2> QED
    BY <2>1, <2>2
<1>8. \A i, j \in 1..n : i # j => q[i] # q[j]
  <2>1. \A i \in 1..n : p[i] # d
    BY <1>4
  <2> QED
    BY <1>4, <1>6, <2>1
<1>9. \A i \in 1..n : r[i] = s[q[i]]
  BY <1>4, <1>6
<1>10. \A x \in C : \E i \in 1..n : q[i] = x
  <2> SUFFICES ASSUME NEW x \in C PROVE \E i \in 1..n : q[i] = x
    OBVIOUS
  <2>1. CASE x = d
    BY <1>5, <1>6, <2>1
  <2>2. CASE x # d
    <3>1. x \in D /\ x # p[o]
      BY <1>a, <2>2
    <3>2. PICK i \in 1..n : p[i] = x
      BY <1>4, <3>1
    <3> QED
      BY <1>6, <3>1, <3>2
  <2> QED
    BY <2>1, <2>2
<1>11. Drawn(q, r, s, C)
  BY <1>2, <1>7, <1>8, <1>9, <1>10 DEF Drawn
<1> QED
  BY <1>3, <1>11, <1>a

HasTime(X) == \A x \in X : x.time \in Nat

\* Oldest finds an entry that none is older than.
LEMMA OldestIs ==
  ASSUME NEW X, HasTime(X), NEW t \in Seq(X), t # <<>>, NEW o, o = Oldest(t)
  PROVE  o \in DOMAIN t /\ \A j \in DOMAIN t : t[o].time <= t[j].time
<1>1. \A i \in DOMAIN t : t[i].time \in Nat
  <2>1. \A i \in DOMAIN t : t[i] \in X
    OBVIOUS
  <2> QED
    BY <2>1 DEF HasTime
<1>a. PICK T, S : /\ T = {t[i].time : i \in DOMAIN t}
                  /\ S = {i \in DOMAIN t : \A j \in DOMAIN t : t[i].time <= t[j].time}
  OBVIOUS
<1>2. DOMAIN t = 1..Len(t) /\ Len(t) \in Nat /\ 1 \in DOMAIN t
  OBVIOUS
<1>3. T \in SUBSET Nat /\ T # {}
  BY <1>1, <1>2, <1>a
<1>4. PICK x \in T : \A y \in T : x <= y
  BY <1>3, LeastNatural
<1>5. S # {}
  BY <1>4, <1>a
<1>6. S \in SUBSET Nat
  BY <1>2, <1>a
<1>7. o = Min(S)
  BY <1>a DEF Oldest
<1>8. o \in S
  BY <1>5, <1>6, <1>7, MinIs
<1> QED
  BY <1>8, <1>a

\* The recent events t, at the places D of s, after k events.
KeptTo(t, D, s, limit, k) ==
  /\ D \subseteq 1..k
  /\ Len(t) <= limit
  /\ Len(t) < limit => D = 1..k
  /\ \A i \in (1..k) \ D, j \in DOMAIN t : s[i].time <= t[j].time

\* One more event is read, and takes the place of the oldest one that is older.
LEMMA KeepKeeps ==
  ASSUME NEW X, HasTime(X), NEW s \in Seq(X), NEW k \in 1..Len(s), NEW limit \in Nat \ {0},
         NEW t \in Seq(X), NEW D, NEW p, Drawn(p, t, s, D), KeptTo(t, D, s, limit, k - 1),
         NEW now, now = IF Len(t) < limit THEN Append(t, s[k])
                        ELSE IF s[k].time > t[Oldest(t)].time THEN [t EXCEPT ![Oldest(t)] = s[k]]
                        ELSE t
  PROVE  \E C, q : Drawn(q, now, s, C) /\ KeptTo(now, C, s, limit, k)
<1>a. PICK n, m, o : n = Len(s) /\ m = Len(t) /\ o = Oldest(t)
  OBVIOUS
<1>1. n \in Nat /\ m \in Nat /\ k \in 1..n /\ k \in Int /\ s[k] \in X
  BY <1>a
<1>2. (1..(k - 1)) \cup {k} = 1..k /\ k \notin 1..(k - 1)
  BY <1>1
<1>3. /\ D \subseteq 1..(k - 1) /\ m <= limit /\ (m < limit => D = 1..(k - 1))
      /\ \A i \in (1..(k - 1)) \ D, j \in DOMAIN t : s[i].time <= t[j].time
  BY <1>a DEF KeptTo
<1>4. k \notin D
  BY <1>2, <1>3
<1>5. CASE m < limit
  <2>a. PICK r : r = Append(t, s[k])
    OBVIOUS
  <2>1. \E q : Drawn(q, Append(t, s[k]), s, D \cup {k}) /\ Extends(q, p, t, k)
    BY <1>1, <1>4, DrawnAppended
  <2>2. PICK q : Drawn(q, r, s, D \cup {k})
    BY <2>1, <2>a
  <2>3. D \cup {k} = 1..k
    BY <1>2, <1>3, <1>5
  <2>4. Len(r) = m + 1
    BY <1>1, <1>a, <2>a, AppendProperties
  <2>5. Len(r) <= limit
    BY <1>1, <1>5, <2>4
  <2>6. KeptTo(r, 1..k, s, limit, k)
    BY <2>5 DEF KeptTo
  <2>7. now = r
    BY <1>5, <1>a, <2>a
  <2> QED
    BY <2>2, <2>3, <2>6, <2>7
<1>6. ASSUME ~(m < limit)
      PROVE  o \in 1..m /\ t[o] \in X /\ \A j \in 1..m : t[j] \in X /\ t[o].time <= t[j].time
  <2>1. m # 0 /\ DOMAIN t = 1..m
    BY <1>1, <1>6, <1>a
  <2>2. t # <<>>
    BY <2>1, <1>a
  <2>3. o \in DOMAIN t /\ \A j \in DOMAIN t : t[o].time <= t[j].time
    BY <1>a, <2>2, OldestIs
  <2>4. \A j \in DOMAIN t : t[j] \in X
    OBVIOUS
  <2> QED
    BY <2>1, <2>3, <2>4
<1>7. \A e \in X : e.time \in Int
  <2> SUFFICES ASSUME NEW e \in X PROVE e.time \in Int
    OBVIOUS
  <2>1. e.time \in Nat
    BY DEF HasTime
  <2> QED
    BY <2>1
<1>8. \A i \in 1..k : s[i] \in X
  <2>1. \A i \in 1..k : i \in 1..n
    BY <1>1
  <2> QED
    BY <2>1, <1>a
<1>9. CASE ~(m < limit) /\ s[k].time > t[o].time
  <2>a. PICK r, C : r = [t EXCEPT ![o] = s[k]] /\ C = (D \ {p[o]}) \cup {k}
    OBVIOUS
  <2>1. o \in DOMAIN t
    BY <1>6, <1>9, <1>1, <1>a
  <2>2. /\ [t EXCEPT ![o] = s[k]] \in Seq(X) /\ Len([t EXCEPT ![o] = s[k]]) = Len(t)
        /\ \E q : Drawn(q, [t EXCEPT ![o] = s[k]], s, (D \ {p[o]}) \cup {k})
    BY <1>1, <1>4, <2>1, DrawnReplaced
  <2>3. PICK q : Drawn(q, r, s, C)
    BY <2>2, <2>a
  <2>4. r \in Seq(X) /\ Len(r) = m
    BY <2>2, <2>a, <1>a
  <2>5. C \subseteq 1..k
    BY <1>2, <1>3, <2>a
  <2>6. s[p[o]] = t[o] /\ p[o] \in D
    BY <2>1 DEF Drawn
  <2>7. ASSUME NEW i \in (1..k) \ C, NEW j \in 1..m PROVE s[i].time <= r[j].time
    <3>1. s[i].time <= t[o].time /\ s[i].time <= t[j].time
      <4>1. i \in D => i = p[o]
        BY <2>a
      <4>2. CASE i \in D
        <5>1. s[i] = t[o] /\ s[i] \in X
          BY <1>8, <2>6, <4>1, <4>2
        <5> QED
          BY <1>6, <1>7, <1>9, <5>1
      <4>3. CASE i \notin D
        <5>1. i \in (1..(k - 1)) \ D
          BY <1>2, <2>a, <4>3
        <5>2. j \in DOMAIN t
          BY <1>1, <1>a
        <5> QED
          BY <1>3, <2>1, <5>1, <5>2
      <4> QED
        BY <4>2, <4>3
    <3>2. r[j] = IF j = o THEN s[k] ELSE t[j]
      BY <1>1, <1>a, <2>a
    <3>3. s[i].time \in Int /\ t[o].time \in Int /\ s[k].time \in Int
      BY <1>1, <1>6, <1>7, <1>8, <1>9
    <3> QED
      BY <1>9, <3>1, <3>2, <3>3
  <2>8. KeptTo(r, C, s, limit, k)
    <3>1. DOMAIN r = 1..m
      BY <2>4
    <3>2. Len(r) <= limit /\ ~(Len(r) < limit)
      BY <1>3, <1>9, <2>4
    <3> QED
      BY <2>5, <2>7, <3>1, <3>2 DEF KeptTo
  <2>9. now = r
    BY <1>9, <1>a, <2>a
  <2> QED
    BY <2>3, <2>8, <2>9
<1>10. CASE ~(m < limit) /\ ~(s[k].time > t[o].time)
  <2>1. now = t
    BY <1>10, <1>a
  <2>2. ASSUME NEW i \in (1..k) \ D, NEW j \in DOMAIN t PROVE s[i].time <= t[j].time
    <3>1. CASE i = k
      <4>1. j \in 1..m
        BY <1>1, <1>a
      <4>2. t[o].time <= t[j].time /\ t[o] \in X /\ t[j] \in X
        BY <1>6, <1>10, <4>1
      <4>3. s[k].time \in Int /\ t[o].time \in Int /\ t[j].time \in Int
        BY <1>1, <1>7, <4>2
      <4> QED
        BY <1>10, <3>1, <4>2, <4>3
    <3>2. CASE i # k
      <4>1. i \in (1..(k - 1)) \ D
        BY <1>2, <3>2
      <4> QED
        BY <1>3, <4>1
    <3> QED
      BY <3>1, <3>2
  <2>3. D \subseteq 1..k
    BY <1>2, <1>3
  <2>4. KeptTo(t, D, s, limit, k)
    BY <1>3, <1>10, <1>a, <2>2, <2>3 DEF KeptTo
  <2> QED
    BY <2>1, <2>4
<1> QED
  BY <1>5, <1>9, <1>10

\* The places of the recent entries among all, and what is not there is no later.
IsPlaced(place, recent, all) ==
  /\ \A k, l \in DOMAIN recent : k # l => place[k] # place[l]
  /\ \A k \in DOMAIN recent : recent[k] = all[place[k]]
  /\ \A i \in DOMAIN all \ ToSet(place), k \in DOMAIN recent : all[i].time <= recent[k].time

\* The recent entries are as many as asked for, each of another place, and no other is later.
LEMMA RecentIs ==
  ASSUME NEW X, HasTime(X), NEW all \in Seq(X), NEW limit \in Nat \ {0},
         NEW recent, recent = RecentEvents(all, limit)
  PROVE  /\ recent \in Seq(X) /\ Len(recent) = Min({limit, Len(all)})
         /\ \E place \in [DOMAIN recent -> DOMAIN all] : IsPlaced(place, recent, all)
<1>a. PICK n : n = Len(all)
  OBVIOUS
<1>1. all \in Seq(X)
  OBVIOUS
<1>2. n \in Nat /\ DOMAIN all = 1..n
  BY <1>1, <1>a
<1>3. \E acc \in [0..Len(all) -> Seq(X)] :
        KeepsTo(acc, all, limit) /\ acc[Len(all)] = RecentEvents(all, limit)
  BY <1>1, KeepLoop
<1>4. PICK acc \in [0..n -> Seq(X)] : KeepsTo(acc, all, limit) /\ acc[n] = recent
  BY <1>3, <1>a
<1>b. PICK Q : Q = {k \in 0..n : \E D, p : Drawn(p, acc[k], all, D) /\ KeptTo(acc[k], D, all, limit, k)}
  OBVIOUS
<1>5. 0 \in Q
  <2>1. acc[0] = <<>>
    BY <1>4 DEF KeepsTo
  <2>2. PICK p : Drawn(p, <<>>, all, {})
    <3>1. \E p : Drawn(p, <<>>, all, {}) /\ Rising(p, <<>>)
      BY NothingDrawn
    <3> QED
      BY <3>1
  <2>3. KeptTo(<<>>, {}, all, limit, 0)
    BY DEF KeptTo
  <2>4. \E D, q : Drawn(q, acc[0], all, D) /\ KeptTo(acc[0], D, all, limit, 0)
    BY <2>1, <2>2, <2>3
  <2> QED
    BY <1>2, <1>b, <2>4
<1>6. \A k \in 1..n : k - 1 \in Q => k \in Q
  <2> SUFFICES ASSUME NEW k \in 1..n, k - 1 \in Q PROVE k \in Q
    OBVIOUS
  <2>a. PICK t, now : t = acc[k - 1] /\ now = acc[k]
    OBVIOUS
  <2>1. PICK D, p : Drawn(p, t, all, D) /\ KeptTo(t, D, all, limit, k - 1)
    BY <1>b, <2>a
  <2>2. now = IF Len(t) < limit THEN Append(t, all[k])
              ELSE IF all[k].time > t[Oldest(t)].time THEN [t EXCEPT ![Oldest(t)] = all[k]]
              ELSE t
    BY <1>4, <1>a, <2>a DEF KeepsTo
  <2>3. t \in Seq(X) /\ k \in 1..Len(all)
    <3>1. k - 1 \in 0..n
      BY <1>2
    <3> QED
      BY <1>4, <1>a, <2>a, <3>1
  <2>4. \E C, q : Drawn(q, now, all, C) /\ KeptTo(now, C, all, limit, k)
    BY <1>1, <2>1, <2>2, <2>3, KeepKeeps
  <2>5. k \in 0..n
    BY <1>2
  <2> QED
    BY <1>b, <2>4, <2>5, <2>a
<1>7. Q = 0..n
  <2>1. Q \in SUBSET (0..n)
    BY <1>b
  <2> QED
    BY <1>2, <1>5, <1>6, <2>1, InductionUpTo
<1>8. PICK D, p : Drawn(p, recent, all, D) /\ KeptTo(recent, D, all, limit, n)
  <2>1. n \in Q
    BY <1>2, <1>7
  <2> QED
    BY <1>4, <1>b, <2>1
<1>c. PICK m : m = Len(recent)
  OBVIOUS
<1>9. recent \in Seq(X)
  <2>1. n \in 0..n
    BY <1>2
  <2> QED
    BY <1>4, <2>1
<1>10. IsFiniteSet(D) /\ Cardinality(D) = m /\ m \in Nat
  BY <1>8, <1>9, <1>c, DrawnAmong
<1>11. D \subseteq 1..n /\ m <= limit /\ (m < limit => D = 1..n)
  BY <1>8, <1>c DEF KeptTo
<1>12. IsFiniteSet(1..n) /\ Cardinality(1..n) = n
  <2>1. IsFiniteSet(1..n) /\ Cardinality(1..n) = IF 1 > n THEN 0 ELSE n - 1 + 1
    BY <1>2, FS_Interval
  <2> QED
    BY <1>2, <2>1
<1>13. m <= n
  <2>1. D \in SUBSET (1..n)
    BY <1>11
  <2>2. Cardinality(D) <= Cardinality(1..n)
    BY <1>12, <2>1, FS_Subset
  <2> QED
    BY <1>10, <1>12, <2>2
<1>14. Len(recent) = Min({limit, Len(all)})
  <2>1. Min({limit, n}) = IF limit <= n THEN limit ELSE n
    BY <1>2, LesserOfTwo
  <2>2. m < limit => m = n
    BY <1>10, <1>11, <1>12
  <2>3. m = IF limit <= n THEN limit ELSE n
    BY <1>2, <1>10, <1>11, <1>13, <2>2
  <2> QED
    BY <2>1, <2>3, <1>a, <1>c
<1>15. p \in [DOMAIN recent -> D] /\ ToSet(p) = D
  BY <1>8 DEF Drawn, ToSet
<1>16. p \in [DOMAIN recent -> DOMAIN all]
  BY <1>2, <1>11, <1>15
<1>17. IsPlaced(p, recent, all)
  <2>1. \A i \in DOMAIN all \ ToSet(p), k \in DOMAIN recent : all[i].time <= recent[k].time
    BY <1>2, <1>8, <1>15 DEF KeptTo
  <2> QED
    BY <1>8, <2>1 DEF IsPlaced, Drawn
<1> QED
  BY <1>9, <1>14, <1>16, <1>17

\* The places of what is in E.
Places(s, E) == {k \in DOMAIN s : s[k] \in E}

\* What is recent is there no more often than in all of them, and if less often, one of
\* the places left out has it.
LEMMA PlacesKept ==
  ASSUME NEW X, NEW all \in Seq(X), NEW recent \in Seq(X), NEW place \in [DOMAIN recent -> DOMAIN all],
         IsPlaced(place, recent, all), NEW E
  PROVE  /\ Cardinality(Places(recent, E)) <= Cardinality(Places(all, E))
         /\ Cardinality(Places(recent, E)) < Cardinality(Places(all, E))
              => \E i \in Places(all, E) : i \notin ToSet(place)
<1>a. PICK K, A, f : /\ K = Places(recent, E) /\ A = Places(all, E) /\ f = [k \in K |-> place[k]]
  OBVIOUS
<1>1. IsFiniteSet(K) /\ IsFiniteSet(A)
  <2>1. DOMAIN recent = 1..Len(recent) /\ DOMAIN all = 1..Len(all) /\ Len(recent) \in Nat /\ Len(all) \in Nat
    OBVIOUS
  <2>2. IsFiniteSet(1..Len(recent)) /\ IsFiniteSet(1..Len(all))
    BY <2>1, FS_Interval
  <2>3. K \in SUBSET (1..Len(recent)) /\ A \in SUBSET (1..Len(all))
    BY <1>a, <2>1 DEF Places
  <2> QED
    BY <2>2, <2>3, FS_Subset
<1>2. Cardinality(K) \in Nat /\ Cardinality(A) \in Nat
  BY <1>1, FS_CardinalityType
<1>3. \A k \in K : k \in DOMAIN recent /\ place[k] \in A /\ f[k] = place[k]
  <2> SUFFICES ASSUME NEW k \in K PROVE k \in DOMAIN recent /\ place[k] \in A /\ f[k] = place[k]
    OBVIOUS
  <2>1. k \in DOMAIN recent /\ recent[k] \in E
    BY <1>a DEF Places
  <2>2. place[k] \in DOMAIN all /\ all[place[k]] = recent[k]
    BY <2>1 DEF IsPlaced
  <2> QED
    BY <1>a, <2>1, <2>2 DEF Places
<1>4. f \in [K -> A]
  BY <1>3, <1>a
<1>5. f \in Injection(K, A)
  <2>1. \A k, l \in K : k # l => f[k] # f[l]
    BY <1>3 DEF IsPlaced
  <2> QED
    BY <1>4, <2>1 DEF Injection, IsInjective
<1>6. Cardinality(K) <= Cardinality(A)
  BY <1>1, <1>5, FS_Injection
<1>7. ASSUME \A i \in A : i \in ToSet(place) PROVE Cardinality(A) <= Cardinality(K)
  <2>1. ASSUME NEW i \in A PROVE \E k \in K : f[k] = i
    <3>1. PICK k \in DOMAIN recent : place[k] = i
      BY <1>7 DEF ToSet
    <3>2. recent[k] = all[i] /\ all[i] \in E
      BY <1>a, <3>1 DEF IsPlaced, Places
    <3>3. k \in K
      BY <1>a, <3>2 DEF Places
    <3> QED
      BY <1>3, <3>1, <3>3
  <2>2. f \in Surjection(K, A)
    BY <1>4, <2>1 DEF Surjection
  <2> QED
    BY <1>1, <2>2, FS_Surjection
<1>8. Cardinality(K) < Cardinality(A) => \E i \in A : i \notin ToSet(place)
  BY <1>2, <1>7
<1> QED
  BY <1>6, <1>8, <1>a

\* An index of u.
LEMMA IndexIs ==
  ASSUME Listed, NEW u, NEW index \in Indexes(u)
  PROVE  \E X : /\ HasTime(X) /\ index \in Seq(X)
                /\ \A i \in DOMAIN listing : listing[i].user = u =>
                     /\ Cardinality({k \in DOMAIN index : index[k].row = i}) \in 1..2
                     /\ \A x \in X : x.row = i => x.time = listing[i].time
<1>a. PICK R, S, T, X :
        /\ R = {i \in DOMAIN listing : listing[i].user = u}
        /\ S = {[row |-> i, time |-> listing[i].time] : i \in R}
        /\ T = {[row |-> 0, time |-> e.time] : e \in {e \in Event : e.user = u}}
        /\ X = S \cup T
  OBVIOUS
<1>1. index \in SeqOf(X, MaxIndex) /\ \A i \in R : Cardinality({k \in DOMAIN index : index[k].row = i}) \in 1..2
  BY <1>a DEF Indexes
<1>2. \E m \in 0..MaxIndex : index \in [1..m -> X]
  BY <1>1 DEF SeqOf
<1>3. index \in Seq(X)
  <2>1. PICK m \in 0..MaxIndex : index \in [1..m -> X]
    BY <1>2
  <2>2. m \in Nat
    OBVIOUS
  <2> QED
    BY <2>1, <2>2, LenOfFunction
<1>4. \A e \in Event : e.time \in Nat
  BY AnalysesAssumption
<1>5. \A i \in DOMAIN listing : listing[i] \in Event /\ i # 0
  BY DEF Listed
<1>6. HasTime(X)
  <2>1. \A x \in S : x.time \in Nat
    BY <1>4, <1>5, <1>a
  <2>2. \A x \in T : x.time \in Nat
    BY <1>4, <1>a
  <2> QED
    BY <1>a, <2>1, <2>2 DEF HasTime
<1>7. ASSUME NEW i \in DOMAIN listing, NEW x \in X, x.row = i PROVE x.time = listing[i].time
  <2>1. x \notin T
    BY <1>5, <1>7, <1>a
  <2>2. PICK j \in R : x = [row |-> j, time |-> listing[j].time]
    BY <1>a, <2>1
  <2> QED
    BY <1>7, <2>2
<1> QED
  BY <1>1, <1>3, <1>6, <1>7, <1>a

\* How often x is among the entries.
TimesIn(x, entries) == Cardinality({k \in DOMAIN entries : entries[k] = x})

\* None of what is left out of the index is later than what is shown.
ShowsLatest(recent, index) ==
  \A x \in ToSet(index) :
    /\ TimesIn(x, recent) <= TimesIn(x, index)
    /\ TimesIn(x, recent) < TimesIn(x, index) => \A k \in DOMAIN recent : x.time <= recent[k].time

\* Nor is an event of u that is not shown.
ShowsEvents(recent, u) ==
  \A i \in DOMAIN listing : listing[i].user = u =>
    LET shown == {k \in DOMAIN recent : recent[k].row = i}
    IN /\ Cardinality(shown) <= 2
       /\ shown = {} => \A k \in DOMAIN recent : listing[i].time <= recent[k].time

\* So it is of the recent entries of any index.
LEMMA RecentShown ==
  ASSUME Listed, NEW u, NEW limit \in Nat \ {0}, NEW index \in Indexes(u),
         NEW recent, recent = RecentEvents(index, limit)
  PROVE  Len(recent) = Min({limit, Len(index)}) /\ ShowsLatest(recent, index) /\ ShowsEvents(recent, u)
<1>1. PICK X : /\ HasTime(X) /\ index \in Seq(X)
               /\ \A i \in DOMAIN listing : listing[i].user = u =>
                    /\ Cardinality({k \in DOMAIN index : index[k].row = i}) \in 1..2
                    /\ \A x \in X : x.row = i => x.time = listing[i].time
  BY IndexIs
<1>2. /\ recent \in Seq(X) /\ Len(recent) = Min({limit, Len(index)})
      /\ \E place \in [DOMAIN recent -> DOMAIN index] : IsPlaced(place, recent, index)
  BY <1>1, RecentIs
<1>3. PICK place \in [DOMAIN recent -> DOMAIN index] : IsPlaced(place, recent, index)
  BY <1>2
<1>4. \A E : /\ Cardinality(Places(recent, E)) <= Cardinality(Places(index, E))
             /\ Cardinality(Places(recent, E)) < Cardinality(Places(index, E))
                  => \E i \in Places(index, E) : i \notin ToSet(place)
  BY <1>1, <1>2, <1>3, PlacesKept
<1>5. \A i \in DOMAIN index, k \in DOMAIN recent :
        i \notin ToSet(place) => index[i].time <= recent[k].time
  BY <1>3 DEF IsPlaced
<1>6. ASSUME NEW x \in ToSet(index)
      PROVE  /\ TimesIn(x, recent) <= TimesIn(x, index)
             /\ TimesIn(x, recent) < TimesIn(x, index)
                  => \A k \in DOMAIN recent : x.time <= recent[k].time
  <2>1. TimesIn(x, recent) = Cardinality(Places(recent, {x})) /\ TimesIn(x, index) = Cardinality(Places(index, {x}))
    BY DEF TimesIn, Places
  <2>2. \A i \in Places(index, {x}) : i \in DOMAIN index /\ index[i] = x
    BY DEF Places
  <2> QED
    BY <1>4, <1>5, <2>1, <2>2
<1>7. ASSUME NEW i \in DOMAIN listing, listing[i].user = u,
             NEW shown, shown = {k \in DOMAIN recent : recent[k].row = i}
      PROVE  /\ Cardinality(shown) <= 2
             /\ shown = {} => \A k \in DOMAIN recent : listing[i].time <= recent[k].time
  <2>a. PICK E, held : E = {x \in X : x.row = i} /\ held = {k \in DOMAIN index : index[k].row = i}
    OBVIOUS
  <2>1. shown = Places(recent, E) /\ held = Places(index, E)
    <3>1. (\A k \in DOMAIN recent : recent[k] \in X) /\ (\A k \in DOMAIN index : index[k] \in X)
      BY <1>1, <1>2
    <3> QED
      BY <1>7, <2>a, <3>1 DEF Places
  <2>2. Cardinality(held) \in 1..2
    BY <1>1, <1>7, <2>a
  <2>3. IsFiniteSet(shown) /\ Cardinality(shown) \in Nat
    <3>1. DOMAIN recent = 1..Len(recent) /\ Len(recent) \in Nat /\ IsFiniteSet(1..Len(recent))
      BY <1>2, FS_Interval
    <3>2. shown \in SUBSET (1..Len(recent))
      BY <1>7, <3>1
    <3> QED
      BY <3>1, <3>2, FS_Subset, FS_CardinalityType
  <2>4. Cardinality(shown) <= Cardinality(held)
    BY <1>4, <2>1
  <2>5. Cardinality(shown) <= 2
    BY <2>2, <2>3, <2>4
  <2>6. ASSUME shown = {}, NEW k \in DOMAIN recent PROVE listing[i].time <= recent[k].time
    <3>1. Cardinality(shown) < Cardinality(held)
      BY <2>2, <2>6, FS_EmptySet
    <3>2. PICK j \in held : j \notin ToSet(place)
      BY <1>4, <2>1, <3>1
    <3>3. j \in DOMAIN index /\ index[j].row = i /\ index[j] \in X
      BY <1>1, <2>a, <3>2
    <3>4. index[j].time = listing[i].time
      BY <1>1, <1>7, <3>3
    <3> QED
      BY <1>5, <3>2, <3>3, <3>4
  <2> QED
    BY <2>5, <2>6
<1>8. ShowsLatest(recent, index)
  BY <1>6 DEF ShowsLatest
<1>9. ShowsEvents(recent, u)
  BY <1>7 DEF ShowsEvents
<1> QED
  BY <1>2, <1>8, <1>9

-------------------------------------------------------------------------------
(* Rows that are sorted by visits, and cut. *)

\* Rows that are sorted by visits are the same rows, and their visits fall.
LEMMA SortedRows ==
  ASSUME NEW S, IsFiniteSet(S), Visited(S), NEW rows \in SetToSeqs(S),
         NEW t, t = FoldLeft(Insert, <<>>, rows)
  PROVE  /\ t \in Seq(S) /\ Len(t) = Cardinality(S) /\ Len(rows) = Cardinality(S)
         /\ Falling(t)
         /\ \A r \in S : \E i \in DOMAIN t : t[i] = r
<1>a. PICK key, n : key = [r \in S |-> -r.visits] /\ n = Len(rows)
  OBVIOUS
<1>1. \A r \in S : r.visits \in Int /\ key[r] = -r.visits
  BY <1>a DEF Visited
<1>2. key \in [S -> Int]
  <2>1. \A r \in S : -r.visits \in Int
    BY <1>1
  <2> QED
    BY <2>1, <1>a
<1>3. IsOrder(rows, S)
  BY DEF SetToSeqs, IsOrder
<1>4. /\ rows \in Seq(S) /\ n = Cardinality(S) /\ DOMAIN rows = 1..n
      /\ \A r \in S : \E i \in DOMAIN rows : rows[i] = r
  BY <1>3, <1>a, OrderIs
<1>5. n \in Nat
  BY <1>4, FS_CardinalityType
<1>6. PICK acc \in [0..Len(rows) -> Seq(S)] :
        SortsTo(acc, rows, key) /\ acc[Len(rows)] = FoldLeft(Insert, <<>>, rows)
  BY <1>4, <1>a, InsertLoop
<1>7. t \in Seq(S)
  <2>1. Len(rows) \in 0..Len(rows)
    BY <1>5, <1>a
  <2> QED
    BY <1>6, <2>1
<1>8. /\ \E p : Drawn(p, acc[Len(rows)], rows, DOMAIN rows)
      /\ NeverFalls(acc[Len(rows)], key)
  BY <1>2, <1>4, <1>6, SortedIs
<1>9. PICK p : Drawn(p, t, rows, DOMAIN rows)
  BY <1>6, <1>8
<1>10. NeverFalls(t, key)
  BY <1>6, <1>8
<1>11. Len(t) = n
  <2>1. Cardinality(DOMAIN rows) = Len(t)
    BY <1>7, <1>9, DrawnAmong
  <2>2. Cardinality(1..n) = IF 1 > n THEN 0 ELSE n - 1 + 1
    BY <1>5, FS_Interval
  <2> QED
    BY <1>4, <1>5, <2>1, <2>2
<1>12. Falling(t)
  <2> SUFFICES ASSUME NEW i \in DOMAIN t, NEW j \in DOMAIN t, i < j
               PROVE  t[i] # t[j] /\ t[i].visits >= t[j].visits
    BY DEF Falling
  <2>0. i \in Int /\ j \in Int /\ i # j
    <3>1. DOMAIN t = 1..Len(t) /\ Len(t) \in Nat
      BY <1>7
    <3> QED
      BY <3>1
  <2>1. p[i] # p[j] /\ p[i] \in DOMAIN rows /\ p[j] \in DOMAIN rows
        /\ t[i] = rows[p[i]] /\ t[j] = rows[p[j]]
    BY <1>9, <2>0 DEF Drawn
  <2>2. t[i] # t[j]
    BY <1>3, <1>4, <2>1 DEF IsOrder
  <2>3. key[t[i]] <= key[t[j]]
    BY <1>10 DEF NeverFalls
  <2>4. t[i] \in S /\ t[j] \in S
    BY <1>7
  <2>a. PICK a, b : a = t[i].visits /\ b = t[j].visits
    OBVIOUS
  <2>5. a \in Int /\ b \in Int /\ -a <= -b
    BY <1>1, <2>3, <2>4, <2>a
  <2>6. a >= b
    BY <2>5
  <2> QED
    BY <2>2, <2>6, <2>a
<1>13. \A r \in S : \E i \in DOMAIN t : t[i] = r
  BY <1>4, <1>9 DEF Drawn
<1> QED
  BY <1>4, <1>7, <1>11, <1>12, <1>13, <1>a

\* shown is the top of all: what is left out is no better.
ShowsTop(shown, all, most) ==
  /\ Len(shown) = Min({most, Cardinality(all)})
  /\ Falling(shown)
  /\ \A row \in all \ ToSet(shown), i \in DOMAIN shown : row.visits <= shown[i].visits

\* Cut to a number, they are the most visited.
LEMMA CutShowsTop ==
  ASSUME NEW S, IsFiniteSet(S), Visited(S), NEW rows \in SetToSeqs(S), NEW most \in Nat,
         NEW t, t = FoldLeft(Insert, <<>>, rows),
         NEW shown, shown = IF Len(t) > most THEN SubSeq(t, 1, most) ELSE t
  PROVE  ShowsTop(shown, S, most)
<1>1. /\ t \in Seq(S) /\ Len(t) = Cardinality(S) /\ Falling(t)
      /\ \A r \in S : \E i \in DOMAIN t : t[i] = r
  BY SortedRows
<1>a. PICK n, m : n = Len(t) /\ m = Len(shown)
  OBVIOUS
<1>2. /\ shown \in Seq(S) /\ Len(shown) = Min({most, Len(t)}) /\ Len(shown) <= Len(t)
      /\ \A i \in DOMAIN shown : i \in DOMAIN t /\ shown[i] = t[i]
  BY <1>1, CutIs
<1>3. n \in Nat /\ m \in Nat /\ DOMAIN t = 1..n /\ DOMAIN shown = 1..m
  <2>1. t \in Seq(S) /\ shown \in Seq(S)
    BY <1>1, <1>2
  <2>2. Len(t) \in Nat /\ DOMAIN t = 1..Len(t)
    BY <2>1
  <2>3. Len(shown) \in Nat /\ DOMAIN shown = 1..Len(shown)
    BY <2>1
  <2> QED
    BY <2>2, <2>3, <1>a
<1>4. Falling(shown)
  BY <1>1, <1>2 DEF Falling
<1>5. ASSUME NEW r \in S, r \notin ToSet(shown), NEW i \in DOMAIN shown
      PROVE  r.visits <= shown[i].visits
  <2>1. PICK k \in DOMAIN t : t[k] = r
    BY <1>1
  <2>2. k \notin DOMAIN shown
    BY <1>2, <1>5, <2>1 DEF ToSet
  <2>3. i < k
    <3>1. i \in 1..m /\ k \in 1..n /\ k \notin 1..m
      BY <1>3, <2>2
    <3>2. i \in Int /\ k \in Int /\ i <= m /\ 1 <= k /\ ~(k <= m)
      BY <1>3, <3>1
    <3> QED
      BY <1>3, <3>2
  <2>4. t[i].visits >= r.visits
    BY <1>1, <1>2, <2>1, <2>3 DEF Falling
  <2>5. t[i].visits \in Int /\ r.visits \in Int
    BY <1>1, <1>2 DEF Visited
  <2> QED
    BY <1>2, <2>4, <2>5
<1> QED
  BY <1>1, <1>2, <1>4, <1>5 DEF ShowsTop

\* The rows of pages are finitely many, with numbers of visits.
LEMMA PageRowsAre ==
  ASSUME Listed, NEW period
  PROVE  IsFiniteSet(PageRows(period)) /\ Visited(PageRows(period))
<1>a. PICK V, P : V = RowsOf("page_view", period) /\ P = PageRows(period)
  OBVIOUS
<1>1. V \in SUBSET DOMAIN listing /\ IsFiniteSet(V)
  BY <1>a, RowsOfTypes, RowsFinite
<1>b. PICK page : page = [i \in V |-> listing[i].page]
  OBVIOUS
<1>c. PICK pages : pages = {page[i] : i \in V}
  OBVIOUS
<1>d. PICK views : views = Group(V, OnPage)
  OBVIOUS
<1>2. DOMAIN views = pages /\ \A p \in pages : views[p] \in SUBSET V
  BY <1>b, <1>c, <1>d DEF Group, OnPage
<1>e. PICK row : row = [p \in pages |->
     [page        |-> p,
      visits      |-> Cardinality(views[p]),
      users       |-> Cardinality(Users(views[p])),
      avgDuration |-> Fraction(TimeSpent(views[p]), Cardinality(views[p]))]]
  OBVIOUS
<1>3. P = {row[p] : p \in pages}
  <2>1. P = {[page        |-> p,
              visits      |-> Cardinality(views[p]),
              users       |-> Cardinality(Users(views[p])),
              avgDuration |-> Fraction(TimeSpent(views[p]), Cardinality(views[p]))]
             : p \in DOMAIN views}
    BY <1>a, <1>d, Zenon DEF PageRows
  <2> QED
    BY <1>2, <1>e, <2>1, Zenon
<1>4. IsFiniteSet(pages)
  BY <1>1, <1>c, ValuesOfKey
<1>5. IsFiniteSet(P)
  BY <1>3, <1>4, ValuesOfKey
<1>6. ASSUME NEW p \in pages PROVE row[p].visits \in Int
  <2>1. \E a, b, c : row[p] = [page |-> a, visits |-> Cardinality(views[p]), users |-> b, avgDuration |-> c]
    BY <1>e
  <2>2. row[p].visits = Cardinality(views[p])
    BY <2>1
  <2>3. Cardinality(views[p]) \in Nat
    <3>1. views[p] \in SUBSET V
      BY <1>2
    <3>2. views[p] \in SUBSET DOMAIN listing
      BY <1>1, <3>1
    <3> QED
      BY <3>2, RowsFinite
  <2> QED
    BY <2>2, <2>3
<1> QED
  BY <1>3, <1>5, <1>6, <1>a DEF Visited

\* The patterns' rows count every path once.
LEMMA PatternsAre ==
  /\ IsFiniteSet(Patterns) /\ Visited(Patterns)
  /\ SumOver(Patterns, LAMBDA row : row.visits) = Cardinality(User)
<1>a. PICK P, urls : P = Patterns /\ urls = [u \in User |-> ToURLSequence(PathOf(u))]
  OBVIOUS
<1>b. PICK all : all = {urls[u] : u \in User}
  OBVIOUS
<1>0. IsFiniteSet(User)
  BY AnalysesAssumption
<1>c. PICK like : like = [x \in all |-> {u \in User : urls[u] = x}]
  OBVIOUS
<1>d. PICK row : row = [x \in all |->
        [path |-> x, visits |-> Cardinality(PathsLike(x)),
         time |-> SumOver(PathsLike(x), LAMBDA u : ComputeDuration(PathOf(u)))]]
  OBVIOUS
<1>1. all = {ToURLSequence(PathOf(u)) : u \in User} /\ \A x \in all : PathsLike(x) = like[x]
  BY <1>a, <1>b, <1>c DEF PathsLike
<1>2. P = {row[x] : x \in all}
  <2>1. P = {[path |-> x, visits |-> Cardinality(PathsLike(x)),
              time |-> SumOver(PathsLike(x), LAMBDA u : ComputeDuration(PathOf(u)))]
             : x \in all}
    BY <1>1, <1>a, Zenon DEF Patterns
  <2> QED
    BY <1>d, <2>1, Zenon
<1>3. ASSUME NEW x \in all
      PROVE  row[x].path = x /\ row[x].visits = Cardinality(like[x])
  <2>1. \E t : row[x] = [path |-> x, visits |-> Cardinality(PathsLike(x)), time |-> t]
    BY <1>d
  <2> QED
    BY <1>1, <2>1
<1>4. IsFiniteSet(all)
  BY <1>0, <1>b, ValuesOfKey
<1>5. IsFiniteSet(P)
  BY <1>2, <1>4, ValuesOfKey
<1>6. \A r \in P : r.path \in all /\ r = row[r.path] /\ r.visits = Cardinality(like[r.path])
  BY <1>2, <1>3
<1>e. PICK part, h : /\ part = [r \in P |-> {u \in User : urls[u] = r.path}]
                     /\ h = [r \in P |-> r.visits]
  OBVIOUS
<1>7. part \in [P -> SUBSET User] /\ h = [r \in P |-> Cardinality(part[r])]
  BY <1>6, <1>c, <1>e
<1>8. \A q, r \in P : q # r => part[q] \cap part[r] = {}
  BY <1>6, <1>e
<1>9. UNION {part[r] : r \in P} = User
  <2>1. ASSUME NEW u \in User PROVE \E r \in P : u \in part[r]
    <3>1. urls[u] \in all
      BY <1>b
    <3>2. row[urls[u]] \in P /\ row[urls[u]].path = urls[u]
      BY <1>2, <1>3, <3>1
    <3> QED
      BY <1>e, <3>2
  <2> QED
    BY <1>7, <2>1
<1>10. SumFunction(h) = Cardinality(User)
  BY <1>0, <1>5, <1>7, <1>8, <1>9, TotalOfParts
<1>11. Visited(P)
  <2>1. ASSUME NEW r \in P PROVE r.visits \in Int
    <3>1. like[r.path] \in SUBSET User
      BY <1>6, <1>c
    <3>2. Cardinality(like[r.path]) \in Nat
      BY <1>0, <3>1, FS_Subset, FS_CardinalityType
    <3> QED
      BY <1>6, <3>2
  <2> QED
    BY <2>1 DEF Visited
<1> QED
  BY <1>5, <1>10, <1>11, <1>a, <1>e DEF SumOver

\* Hot paths fall in visits, for every order of the map.
LEMMA PathStatsTop ==
  ASSUME NEW rows \in SetToSeqs(Patterns), NEW limit \in 0..2
  PROVE  ShowsTop(PathStats(rows, limit), Patterns, IF limit = 0 THEN Len(rows) ELSE limit)
<1>a. PICK S, t, most, n : /\ S = Patterns /\ t = FoldLeft(Insert, <<>>, rows)
                           /\ most = (IF limit = 0 THEN Len(rows) ELSE limit)
                           /\ n = Len(t)
  OBVIOUS
<1>1. IsFiniteSet(S) /\ Visited(S) /\ rows \in SetToSeqs(S)
  BY <1>a, PatternsAre
<1>2. t \in Seq(S) /\ Len(t) = Cardinality(S) /\ Len(rows) = Cardinality(S)
  BY <1>1, <1>a, SortedRows
<1>3. n \in Nat /\ n = Len(rows)
  BY <1>2, <1>a
<1>4. most \in Nat
  BY <1>3, <1>a
<1>5. PathStats(rows, limit) = IF limit > 0 /\ n > limit THEN SubSeq(t, 1, limit) ELSE t
  BY <1>a DEF PathStats
<1>6. PathStats(rows, limit) = IF Len(t) > most THEN SubSeq(t, 1, most) ELSE t
  <2>1. CASE limit = 0
    <3>1. ~(limit > 0) /\ ~(n > most)
      BY <1>3, <1>a, <2>1
    <3> QED
      BY <1>5, <1>a, <3>1
  <2>2. CASE limit # 0
    <3>1. limit > 0 /\ most = limit
      BY <1>a, <2>2
    <3> QED
      BY <1>5, <1>a, <3>1
  <2> QED
    BY <2>1, <2>2
<1>7. ShowsTop(PathStats(rows, limit), S, most)
  BY <1>1, <1>4, <1>6, <1>a, CutShowsTop
<1> QED
  BY <1>7, <1>a

\* And so do pages.
LEMMA PageStatsTop ==
  ASSUME Listed, NEW rows \in SetToSeqs(PageRows(Always)), NEW limit \in Nat
  PROVE  ShowsTop(GetPageStats(rows, limit), PageRows(Always), limit)
<1>a. PICK S, t : S = PageRows(Always) /\ t = FoldLeft(Insert, <<>>, rows)
  OBVIOUS
<1>1. IsFiniteSet(S) /\ Visited(S) /\ rows \in SetToSeqs(S)
  BY <1>a, PageRowsAre
<1>2. GetPageStats(rows, limit) = IF Len(t) > limit THEN SubSeq(t, 1, limit) ELSE t
  BY <1>a DEF GetPageStats
<1>3. ShowsTop(GetPageStats(rows, limit), S, limit)
  BY <1>1, <1>2, <1>a, CutShowsTop
<1> QED
  BY <1>3, <1>a

\* The popular pages are the most visited, 20 of them when no number is asked for.
LEMMA PopularPagesTop ==
  ASSUME Listed, NEW rows \in SetToSeqs(PageRows(Always)), NEW limit \in Nat
  PROVE  ShowsTop(GetPopularPages(rows, limit), PageRows(Always), IF limit = 0 THEN 20 ELSE limit)
<1>a. PICK most : most = IF limit = 0 THEN 20 ELSE limit
  OBVIOUS
<1>1. most \in Nat /\ most = IF limit <= 0 THEN 20 ELSE limit
  BY <1>a
<1>2. GetPopularPages(rows, limit) = GetPageStats(rows, most)
  BY <1>1 DEF GetPopularPages
<1>3. ShowsTop(GetPageStats(rows, most), PageRows(Always), most)
  BY <1>1, PageStatsTop
<1> QED
  BY <1>2, <1>3, <1>a

\* TopIsTop holds of every listing.
LEMMA TopHold == Listed => TopIsTop
<1> SUFFICES ASSUME Listed PROVE TopIsTop
  OBVIOUS
<1>1. SumOver(Patterns, LAMBDA row : row.visits) = Cardinality(User)
  BY PatternsAre
<1>2. \A limit \in 0..2 :
        /\ \A rows \in SetToSeqs(Patterns) :
             ShowsTop(PathStats(rows, limit), Patterns, IF limit = 0 THEN Len(rows) ELSE limit)
        /\ \A rows \in SetToSeqs(PageRows(Always)) :
             /\ ShowsTop(GetPageStats(rows, limit), PageRows(Always), limit)
             /\ ShowsTop(GetPopularPages(rows, limit), PageRows(Always),
                         IF limit = 0 THEN 20 ELSE limit)
  <2>1. \A limit \in 0..2 : limit \in Nat
    OBVIOUS
  <2>2. ASSUME NEW limit \in 0..2, NEW rows \in SetToSeqs(Patterns)
        PROVE  ShowsTop(PathStats(rows, limit), Patterns, IF limit = 0 THEN Len(rows) ELSE limit)
    BY PathStatsTop
  <2>3. ASSUME NEW limit \in 0..2, NEW rows \in SetToSeqs(PageRows(Always))
        PROVE  /\ ShowsTop(GetPageStats(rows, limit), PageRows(Always), limit)
               /\ ShowsTop(GetPopularPages(rows, limit), PageRows(Always),
                           IF limit = 0 THEN 20 ELSE limit)
    BY <2>1, PageStatsTop, PopularPagesTop
  <2> QED
    BY <2>2, <2>3
<1>3. \A u \in User, limit \in 1..2 : \A index \in Indexes(u) :
        /\ Len(RecentEvents(index, limit)) = Min({limit, Len(index)})
        /\ ShowsLatest(RecentEvents(index, limit), index)
        /\ ShowsEvents(RecentEvents(index, limit), u)
  <2> SUFFICES ASSUME NEW u \in User, NEW limit \in 1..2, NEW index \in Indexes(u)
               PROVE  /\ Len(RecentEvents(index, limit)) = Min({limit, Len(index)})
                      /\ ShowsLatest(RecentEvents(index, limit), index)
                      /\ ShowsEvents(RecentEvents(index, limit), u)
    OBVIOUS
  <2>1. limit \in Nat \ {0}
    OBVIOUS
  <2> QED
    BY <2>1, RecentShown
<1> QED
  BY <1>1, <1>2, <1>3, Zenon DEF TopIsTop, ShowsTop, ShowsLatest, ShowsEvents, TimesIn

-------------------------------------------------------------------------------
(* Theorems *)

\* CountsAddUp holds of every listing.
LEMMA CountsHold == Listed => CountsAddUp
BY PageRowsAddUp, HourlyAddsUp, DaysAddUp, DevicesAddUp, DurationsAddUp, CountriesAgree,
   DimensionAddsUp, Zenon DEF CountsAddUp

\* The scan counts as converted exactly the users who saw the end page at or after a
\* start page, and the average time to convert stays below one second in either
\* direction, for every listing, goal and set of users.
THEOREM ConversionsAddUpCorrect == Spec => []ConversionsAddUp
BY AnalysesListed, ConversionsHold, PTL

\* A path runs forward in time, is as long as allowed and has the earliest views, for
\* every listing and every order of its events.
THEOREM PathsRunForwardCorrect == Spec => []PathsRunForward
BY AnalysesListed, PathsHold, PTL

\* With bare arrows a step of the funnel counts the paths that have its page and all
\* before; in the documented format the last step of several counts none. And the listing
\* of paths is one that can be searched and cut. So it is for every listing, period,
\* funnel and order of the users.
THEOREM FunnelNarrowsCorrect == Spec => []FunnelNarrows
BY AnalysesListed, FunnelHold, PTL

\* What a cut list leaves out is no better than what it shows, for every listing, every
\* order of the map, and every index of a user with its events once or twice and entries
\* for deleted ones.
THEOREM TopIsTopCorrect == StatsSpec => []TopIsTop
BY ListedHolds, TopHold, PTL

\* The services count the same events in different ways and agree, for every listing
\* and every period.
THEOREM CountsAddUpCorrect == StatsSpec => []CountsAddUp
BY ListedHolds, CountsHold, PTL

\* What a request of several calls puts together is off by no more than what came and
\* went while it ran, for every listing, period, and number of changes.
THEOREM RequestsAddUpCorrect == StatsSpec => []RequestsAddUp
BY ListedHolds, StartedHolds, RequestsHold, PTL
===============================================================================
