---------------------------- MODULE LRUCacheProofs ----------------------------
(* Proofs about LRUCache, for any clients, keys, capacity and number of crossing Gets. *)
EXTENDS LRUCache, SetFolds, SequenceTheorems

TypeOK ==
  /\ items \subseteq Key /\ IsFiniteSet(items)
  /\ order \in Seq(Key)
  /\ looking \in [Client -> SUBSET Key]
  /\ ghosts \in Nat

-------------------------------------------------------------------------------
(* Sequences of keys. *)

LEMMA MinOfNaturals ==
  ASSUME NEW S \in SUBSET Nat, S # {}
  PROVE  Min(S) \in S /\ \A y \in S : Min(S) <= y
BY LeastNatural DEF Min

\* What RemoveFirst does when the key is there: one place goes, of the key, and the
\* others move up.
LEMMA RemoveFirstAt ==
  ASSUME NEW s \in Seq(Key), NEW k \in ToSet(s)
  PROVE  \E p \in 1..Len(s) :
           /\ s[p] = k /\ RemoveFirst(s, k) \in Seq(Key)
           /\ Len(RemoveFirst(s, k)) = Len(s) - 1
           /\ \A i \in 1..(Len(s) - 1) :
                RemoveFirst(s, k)[i] = IF i < p THEN s[i] ELSE s[i + 1]
<1>1. PICK p \in 1..Len(s) :
        s[p] = k /\ RemoveFirst(s, k) = SubSeq(s, 1, p - 1) \o SubSeq(s, p + 1, Len(s))
  <2> DEFINE I == {i \in 1..Len(s) : s[i] = k}
  <2>1. I # {} /\ I \in SUBSET Nat
    BY DEF ToSet
  <2>2. Min(I) \in I
    <3> HIDE DEF I
    <3> QED
      BY <2>1, MinOfNaturals
  <2>3. RemoveFirst(s, k) = SubSeq(s, 1, Min(I) - 1) \o SubSeq(s, Min(I) + 1, Len(s))
    BY <2>1 DEF RemoveFirst, RemoveAt, SelectInSeq
  <2> QED
    BY <2>2, <2>3
<1>4. Len(s) \in Nat /\ p \in Int /\ 1 <= p /\ p <= Len(s)
  OBVIOUS
<1>2. PICK a, b : a = SubSeq(s, 1, p - 1) /\ b = SubSeq(s, p + 1, Len(s))
  OBVIOUS
<1>5. /\ a \in Seq(Key) /\ Len(a) = p - 1 /\ \A i \in 1..(p - 1) : a[i] = s[i]
      /\ b \in Seq(Key) /\ Len(b) = Len(s) - p /\ \A i \in 1..(Len(s) - p) : b[i] = s[p + i]
  BY <1>2, <1>4, SubSeqProperties
<1>6. /\ a \o b \in Seq(Key) /\ Len(a \o b) = Len(s) - 1
      /\ \A i \in 1..(Len(s) - 1) : (a \o b)[i] = IF i < p THEN s[i] ELSE s[i + 1]
  <2>1. a \o b \in Seq(Key) /\ Len(a \o b) = Len(a) + Len(b)
    BY <1>5, ConcatProperties
  <2>2. Len(a) + Len(b) = Len(s) - 1
    BY <1>4, <1>5
  <2>3. ASSUME NEW i \in 1..(Len(s) - 1)
        PROVE  (a \o b)[i] = IF i < p THEN s[i] ELSE s[i + 1]
    <3>1. (a \o b)[i] = IF i <= Len(a) THEN a[i] ELSE b[i - Len(a)]
      BY <1>5, <2>2, ConcatProperties
    <3>2. CASE i < p
      <4>1. i <= Len(a) /\ i \in 1..(p - 1)
        BY <1>4, <1>5, <3>2
      <4> QED
        BY <1>5, <3>1, <3>2, <4>1
    <3>3. CASE ~(i < p)
      <4>1. /\ ~(i <= Len(a)) /\ i - Len(a) \in 1..(Len(s) - p)
            /\ p + (i - Len(a)) = i + 1
        BY <1>4, <1>5, <3>3
      <4>2. b[i - Len(a)] = s[i + 1]
        BY <1>5, <4>1
      <4> QED
        BY <3>1, <3>3, <4>1, <4>2
    <3> QED
      BY <3>2, <3>3
  <2> QED
    BY <2>1, <2>2, <2>3
<1> QED
  BY <1>1, <1>2, <1>6

LEMMA RemoveFirstNone ==
  ASSUME NEW s \in Seq(Key), NEW k, k \notin ToSet(s)
  PROVE  RemoveFirst(s, k) = s
BY DEF RemoveFirst, ToSet

LEMMA RemoveFirstKeeps ==
  ASSUME NEW s \in Seq(Key), NEW k
  PROVE  /\ RemoveFirst(s, k) \in Seq(Key)
         /\ Len(RemoveFirst(s, k)) = IF k \in ToSet(s) THEN Len(s) - 1 ELSE Len(s)
         /\ ToSet(s) \ {k} \subseteq ToSet(RemoveFirst(s, k))
         /\ ToSet(RemoveFirst(s, k)) \subseteq ToSet(s)
<1> PICK t : t = RemoveFirst(s, k)
  OBVIOUS
<1>1. CASE k \notin ToSet(s)
  BY <1>1, RemoveFirstNone
<1>2. CASE k \in ToSet(s)
  <2>1. PICK p \in 1..Len(s) :
          /\ s[p] = k /\ t \in Seq(Key) /\ Len(t) = Len(s) - 1
          /\ \A i \in 1..(Len(s) - 1) : t[i] = IF i < p THEN s[i] ELSE s[i + 1]
    BY <1>2, RemoveFirstAt
  <2>2. ASSUME NEW x \in ToSet(s), x # k
        PROVE  x \in ToSet(t)
    <3>1. PICK i \in 1..Len(s) : s[i] = x
      BY DEF ToSet
    <3>2. CASE i < p
      BY <2>1, <3>1, <3>2 DEF ToSet
    <3>3. CASE i > p
      <4>1. i - 1 \in 1..(Len(s) - 1) /\ t[i - 1] = s[i]
        BY <2>1, <3>3
      <4> QED
        BY <2>1, <3>1, <4>1 DEF ToSet
    <3> QED
      BY <2>1, <2>2, <3>1, <3>2, <3>3
  <2>3. ToSet(t) \subseteq ToSet(s)
    BY <2>1 DEF ToSet
  <2> QED
    BY <1>2, <2>1, <2>2, <2>3
<1> QED
  BY <1>1, <1>2

LEMMA AppendKeeps ==
  ASSUME NEW s \in Seq(Key), NEW k \in Key
  PROVE  /\ Append(s, k) \in Seq(Key) /\ Len(Append(s, k)) = Len(s) + 1
         /\ ToSet(Append(s, k)) = ToSet(s) \cup {k}
         /\ \A i \in 1..Len(s) : Append(s, k)[i] = s[i]
         /\ Append(s, k)[Len(s) + 1] = k
BY AppendProperties DEF ToSet

LEMMA TailKeeps ==
  ASSUME NEW s \in Seq(Key), s # <<>>
  PROVE  /\ Tail(s) \in Seq(Key) /\ Len(Tail(s)) = Len(s) - 1 /\ Len(s) > 0
         /\ Head(s) = s[1] /\ \A i \in 1..(Len(s) - 1) : Tail(s)[i] = s[i + 1]
         /\ ToSet(s) \ {Head(s)} \subseteq ToSet(Tail(s))
<1>1. /\ Tail(s) \in Seq(Key) /\ Len(Tail(s)) = Len(s) - 1 /\ Len(s) > 0
      /\ Head(s) = s[1] /\ \A i \in 1..(Len(s) - 1) : Tail(s)[i] = s[i + 1]
  BY HeadTailProperties
<1>2. ASSUME NEW x \in ToSet(s), x # Head(s)
      PROVE  x \in ToSet(Tail(s))
  <2>1. PICK i \in 1..Len(s) : s[i] = x
    BY DEF ToSet
  <2>2. i # 1 /\ i - 1 \in 1..(Len(s) - 1)
    BY <1>1, <1>2, <2>1
  <2>3. Tail(s)[i - 1] = x
    BY <1>1, <2>1, <2>2
  <2>4. i - 1 \in DOMAIN Tail(s)
    BY <1>1, <2>2
  <2> QED
    BY <2>3, <2>4 DEF ToSet
<1> QED
  BY <1>1, <1>2

LEMMA TailWithin ==
  ASSUME NEW s \in Seq(Key), s # <<>>
  PROVE  ToSet(Tail(s)) \subseteq ToSet(s)
<1>1. \A i \in DOMAIN Tail(s) : i + 1 \in DOMAIN s /\ Tail(s)[i] = s[i + 1]
  BY TailKeeps
<1> QED
  BY <1>1 DEF ToSet

\* A sequence has no more elements than places.
LEMMA ToSetFinite ==
  ASSUME NEW s \in Seq(Key)
  PROVE  IsFiniteSet(ToSet(s)) /\ Cardinality(ToSet(s)) <= Len(s) /\ ToSet(s) \subseteq Key
<1>1. s \in Surjection(1..Len(s), ToSet(s))
  BY DEF Surjection, ToSet
<1>2. IsFiniteSet(1..Len(s)) /\ Cardinality(1..Len(s)) = Len(s)
  <2>1. Len(s) \in Nat /\ 1 \in Int
    OBVIOUS
  <2> QED
    BY <2>1, FS_Interval
<1> QED
  BY <1>1, <1>2, FS_Surjection DEF ToSet

\* The keys of a sequence differ, and each was stored or moved to the end after those
\* before it.
Ordered(s) == \A i, j \in DOMAIN s : i < j => s[i] # s[j] /\ <<s[j], s[i]>> \in newer

LEMMA RemoveFirstOrdered ==
  ASSUME NEW s \in Seq(Key), Ordered(s), NEW k
  PROVE  Ordered(RemoveFirst(s, k)) /\ k \notin ToSet(RemoveFirst(s, k))
<1> PICK t : t = RemoveFirst(s, k)
  OBVIOUS
<1>1. CASE k \notin ToSet(s)
  BY <1>1, RemoveFirstNone
<1>2. CASE k \in ToSet(s)
  <2>1. PICK p \in 1..Len(s) :
          /\ s[p] = k /\ t \in Seq(Key) /\ Len(t) = Len(s) - 1
          /\ \A i \in 1..(Len(s) - 1) : t[i] = IF i < p THEN s[i] ELSE s[i + 1]
    BY <1>2, RemoveFirstAt
  <2> DEFINE from(i) == IF i < p THEN i ELSE i + 1
  <2>2. \A i \in DOMAIN t : from(i) \in DOMAIN s /\ from(i) # p /\ t[i] = s[from(i)]
    BY <2>1
  <2>3. \A i, j \in DOMAIN t : i < j => from(i) < from(j)
    BY <2>1
  <2> HIDE DEF from
  <2>4. Ordered(t)
    BY <2>2, <2>3 DEF Ordered
  <2>5. ASSUME NEW i \in DOMAIN s, i # p
        PROVE  s[i] # k
    <3>1. i < p \/ p < i
      BY <2>1, <2>5
    <3>2. p \in DOMAIN s /\ s[p] = k
      BY <2>1
    <3> HIDE DEF from
    <3> QED
      BY <2>5, <3>1, <3>2 DEF Ordered
  <2> QED
    BY <2>2, <2>4, <2>5 DEF ToSet
<1> QED
  BY <1>1, <1>2

\* What Cleanup leaves of the order, one expired key after the other.
Removing(o, E) ==
  CHOOSE f : f = [T \in SUBSET E |->
                    IF T = {} THEN o ELSE RemoveFirst(f[T \ {AnyOf(T)}], AnyOf(T))]

LEMMA CleanupFold ==
  ASSUME NEW E, Cleanup(E)
  PROVE  order' = Removing(order, E)[E]
BY DEF Cleanup, FoldSet, MapThenFoldSet, Removing, AnyOf

Removes(f, o, E) ==
  /\ f[{}] = o
  /\ \A T \in SUBSET E : T # {} => f[T] = RemoveFirst(f[T \ {AnyOf(T)}], AnyOf(T))

LEMMA RemovingRemoves ==
  ASSUME NEW o \in Seq(Key), NEW E, IsFiniteSet(E)
  PROVE  Removes(Removing(o, E), o, E)
<1> DEFINE F == [k \in E |-> [s \in Seq(Key) |-> RemoveFirst(s, k)]]
<1>2. F \in [E -> [Seq(Key) -> Seq(Key)]]
  BY RemoveFirstKeeps
<1>3. PICK g \in [SUBSET E -> Seq(Key)] : IsFold(g, o, F, E)
  <2> HIDE DEF F
  <2> QED
    BY <1>2, FoldExists
<1>4. ASSUME NEW T \in SUBSET E, T # {}
      PROVE  F[AnyOf(T)][g[T \ {AnyOf(T)}]] = RemoveFirst(g[T \ {AnyOf(T)}], AnyOf(T))
  <2>1. AnyOf(T) \in E /\ g[T \ {AnyOf(T)}] \in Seq(Key)
    BY <1>3, <1>4 DEF AnyOf
  <2> QED
    BY <2>1
<1> HIDE DEF F
<1>5. g = [T \in SUBSET E |-> IF T = {} THEN o ELSE RemoveFirst(g[T \ {AnyOf(T)}], AnyOf(T))]
  <2>1. \A T \in SUBSET E :
          g[T] = IF T = {} THEN o ELSE RemoveFirst(g[T \ {AnyOf(T)}], AnyOf(T))
    BY <1>3, <1>4 DEF IsFold
  <2> QED
    BY <1>3, <2>1
<1> PICK f : f = Removing(o, E)
  OBVIOUS
<1>6. f = [T \in SUBSET E |-> IF T = {} THEN o ELSE RemoveFirst(f[T \ {AnyOf(T)}], AnyOf(T))]
  BY <1>5 DEF Removing
<1>7. f[{}] = o
  BY <1>6
<1>8. ASSUME NEW T \in SUBSET E, T # {}
      PROVE  f[T] = RemoveFirst(f[T \ {AnyOf(T)}], AnyOf(T))
  BY <1>6, <1>8
<1> QED
  BY <1>7, <1>8 DEF Removes

\* A cleanup takes each expired key out of the order once, and keeps the others and
\* the order they were in.
LEMMA CleanupKeeps ==
  ASSUME NEW o \in Seq(Key), NEW E, IsFiniteSet(E), E \subseteq ToSet(o),
         NEW t, t = Removing(o, E)[E]
  PROVE  /\ t \in Seq(Key) /\ Len(t) + Cardinality(E) = Len(o)
         /\ ToSet(o) \ E \subseteq ToSet(t)
         /\ Ordered(o) => Ordered(t)
<1>1. PICK g : t = g[E] /\ Removes(g, o, E)
  BY RemovingRemoves
<1> DEFINE Q == {T \in SUBSET E :
                   /\ g[T] \in Seq(Key) /\ Len(g[T]) + Cardinality(T) = Len(o)
                   /\ ToSet(o) \ T \subseteq ToSet(g[T])
                   /\ Ordered(o) => Ordered(g[T])}
<1>2. {} \in Q
  <2>1. Len(o) + Cardinality({}) = Len(o)
    BY FS_EmptySet
  <2> QED
    BY <1>1, <2>1 DEF Removes
<1>3. ASSUME NEW T \in SUBSET E, T # {}, \A x \in T : T \ {x} \in Q
      PROVE  T \in Q
  <2> PICK x : x = AnyOf(T)
    OBVIOUS
  <2> PICK s : s = g[T \ {x}]
    OBVIOUS
  <2>1. x \in T
    BY <1>3 DEF AnyOf
  <2>2. /\ s \in Seq(Key) /\ Len(s) + Cardinality(T \ {x}) = Len(o)
        /\ ToSet(o) \ (T \ {x}) \subseteq ToSet(s)
        /\ Ordered(o) => Ordered(s)
    BY <1>3, <2>1
  <2>3. g[T] = RemoveFirst(s, x)
    BY <1>1, <1>3 DEF Removes
  <2>4. x \in ToSet(s)
    BY <2>1, <2>2
  <2>5. /\ RemoveFirst(s, x) \in Seq(Key) /\ Len(RemoveFirst(s, x)) = Len(s) - 1
        /\ ToSet(s) \ {x} \subseteq ToSet(RemoveFirst(s, x))
    BY <2>2, <2>4, RemoveFirstKeeps
  <2>6. Ordered(o) => Ordered(RemoveFirst(s, x))
    BY <2>2, RemoveFirstOrdered
  <2>7. Cardinality(T \ {x}) = Cardinality(T) - 1 /\ Cardinality(T) \in Nat
    BY <2>1, FS_Subset, FS_RemoveElement, FS_CardinalityType
  <2>8. Len(RemoveFirst(s, x)) + Cardinality(T) = Len(o)
    BY <2>2, <2>5, <2>7
  <2>9. ToSet(o) \ T \subseteq ToSet(RemoveFirst(s, x))
    BY <2>1, <2>2, <2>5
  <2> QED
    BY <2>3, <2>5, <2>6, <2>8, <2>9
<1> HIDE DEF Q
<1>4. E \in Q
  <2>1. Q \subseteq SUBSET E
    BY DEF Q
  <2>2. Inductive(Q, E)
    BY <1>2, <1>3, <2>1 DEF Inductive
  <2> QED
    BY <2>2, SubsetInduction
<1> QED
  BY <1>1, <1>4 DEF Q

\* The key used last, put at the end of an order it is not in, keeps the order.
LEMMA AppendedOrdered ==
  ASSUME NEW s \in Seq(Key), Ordered(s), NEW k \in Key, k \notin ToSet(s),
         Used(k), order' = Append(s, k)
  PROVE  Ordered(order)'
<1> PICK t : t = order'
  OBVIOUS
<1>1. /\ t \in Seq(Key) /\ Len(t) = Len(s) + 1 /\ t[Len(s) + 1] = k
      /\ \A i \in 1..Len(s) : t[i] = s[i]
  BY AppendKeeps
<1>2. \A i \in 1..Len(s) : s[i] \in Key /\ s[i] # k
  BY DEF ToSet
<1>3. \A i, j \in 1..Len(s) : i < j => s[i] # s[j] /\ <<s[j], s[i]>> \in newer
  BY DEF Ordered
<1>4. ASSUME NEW i \in DOMAIN t, NEW j \in DOMAIN t, i < j
      PROVE  t[i] # t[j] /\ <<t[j], t[i]>> \in newer'
  <2>1. i \in 1..Len(s) /\ t[i] = s[i] /\ s[i] # k /\ s[i] \in Key
    BY <1>1, <1>2, <1>4
  <2>2. CASE j = Len(s) + 1
    <3>1. t[j] = k
      BY <1>1, <2>2
    <3>2. <<k, s[i]>> \in newer'
      BY <2>1 DEF Used
    <3> QED
      BY <2>1, <3>1, <3>2
  <2>3. CASE j # Len(s) + 1
    <3>1. j \in 1..Len(s) /\ t[j] = s[j]
      BY <1>1, <1>4, <2>3
    <3>2. s[i] # s[j] /\ <<s[j], s[i]>> \in newer
      BY <1>3, <1>4, <2>1, <3>1
    <3>3. <<s[j], s[i]>> \in newer'
      BY <2>1, <3>2 DEF Used
    <3> QED
      BY <2>1, <3>1, <3>2, <3>3
  <2> QED
    BY <2>2, <2>3
<1> QED
  BY <1>4 DEF Ordered

LEMMA TailOrdered ==
  ASSUME NEW s \in Seq(Key), s # <<>>, Ordered(s)
  PROVE  /\ Ordered(Tail(s)) /\ Head(s) \notin ToSet(Tail(s))
         /\ (ToSet(s) \ {Head(s)}) \X {Head(s)} \subseteq newer
<1> PICK t : t = Tail(s)
  OBVIOUS
<1>1. /\ t \in Seq(Key) /\ Len(t) = Len(s) - 1 /\ Len(s) > 0 /\ Head(s) = s[1]
      /\ \A i \in 1..(Len(s) - 1) : t[i] = s[i + 1]
  BY TailKeeps
<1>2. \A i \in DOMAIN t : i + 1 \in DOMAIN s /\ 1 < i + 1 /\ t[i] = s[i + 1]
  BY <1>1
<1>3. 1 \in DOMAIN s
  BY <1>1
<1>4. Ordered(t)
  <2>1. ASSUME NEW i \in DOMAIN t, NEW j \in DOMAIN t, i < j
        PROVE  t[i] # t[j] /\ <<t[j], t[i]>> \in newer
    <3>1. i + 1 < j + 1
      BY <1>1, <2>1
    <3> QED
      BY <1>2, <3>1 DEF Ordered
  <2> QED
    BY <2>1 DEF Ordered
<1>5. Head(s) \notin ToSet(t)
  <2>1. ASSUME NEW i \in DOMAIN t
        PROVE  t[i] # Head(s)
    <3>1. i + 1 \in DOMAIN s /\ 1 < i + 1 /\ t[i] = s[i + 1]
      BY <1>2
    <3>2. s[1] # s[i + 1]
      BY <1>3, <3>1 DEF Ordered
    <3> QED
      BY <1>1, <3>1, <3>2
  <2> QED
    BY <2>1 DEF ToSet
<1>6. ASSUME NEW x \in ToSet(s), x # Head(s)
      PROVE  <<x, Head(s)>> \in newer
  <2>1. PICK i \in DOMAIN s : s[i] = x
    BY DEF ToSet
  <2>2. 1 < i
    BY <1>1, <1>6, <2>1
  <2> QED
    BY <1>1, <1>3, <2>1, <2>2 DEF Ordered
<1> QED
  BY <1>4, <1>5, <1>6

-------------------------------------------------------------------------------
(* The inductive invariant. *)

\* While no Get has crossed a removal, the order has each key once, from the least to
\* the most recently used.
Recency == ghosts = 0 => Ordered(order)

IInv == TypeOK /\ EveryItemOrdered /\ GrowthBound /\ Recency

LEMMA InitHolds == Init => IInv
<1> SUFFICES ASSUME Init PROVE IInv
  OBVIOUS
<1>1. /\ items = {} /\ IsFiniteSet(items) /\ Cardinality(items) = 0
      /\ order = <<>> /\ Len(order) = 0 /\ ghosts = 0
  BY FS_EmptySet DEF Init
<1>2. TypeOK
  BY <1>1 DEF TypeOK, Init
<1>3. EveryItemOrdered
  BY <1>1 DEF EveryItemOrdered
<1>4. GrowthBound
  BY <1>1, CacheAssumption DEF GrowthBound
<1>5. Recency
  BY <1>1 DEF Recency, Ordered
<1> QED
  BY <1>2, <1>3, <1>4, <1>5 DEF IInv

\* What the invariant says of the sizes, and that without a crossing Get the keys of
\* the order are the items.
LEMMA Sizes ==
  ASSUME IInv
  PROVE  /\ Cardinality(items) \in Nat /\ Len(order) \in Nat
         /\ Cardinality(items) <= Len(order)
         /\ ghosts = 0 => items = ToSet(order)
<1>1. /\ IsFiniteSet(ToSet(order)) /\ Cardinality(ToSet(order)) <= Len(order)
      /\ Cardinality(ToSet(order)) \in Nat /\ Cardinality(items) \in Nat
      /\ Len(order) \in Nat
  BY ToSetFinite, FS_CardinalityType DEF IInv, TypeOK
<1>2. Cardinality(items) <= Cardinality(ToSet(order))
  BY <1>1, FS_Subset DEF IInv, EveryItemOrdered
<1>3. ASSUME ghosts = 0
      PROVE  items = ToSet(order)
  <2>1. Cardinality(ToSet(order)) = Cardinality(items)
    BY <1>1, <1>2, <1>3 DEF IInv, GrowthBound
  <2> QED
    BY <1>1, <2>1, FS_Subset DEF IInv, EveryItemOrdered
<1> QED
  BY <1>1, <1>2, <1>3

LEMMA MoveToEndKeeps ==
  ASSUME IInv, NEW k \in Key
  PROVE  /\ moveToEnd(k) \in Seq(Key)
         /\ Len(moveToEnd(k)) = IF k \in ToSet(order) THEN Len(order) ELSE Len(order) + 1
         /\ ToSet(order) \cup {k} \subseteq ToSet(moveToEnd(k))
         /\ Ordered(order) /\ Used(k) /\ order' = moveToEnd(k) => Ordered(order)'
<1> PICK s : s = RemoveFirst(order, k)
  OBVIOUS
<1>1. /\ s \in Seq(Key) /\ Len(s) = IF k \in ToSet(order) THEN Len(order) - 1 ELSE Len(order)
      /\ ToSet(order) \ {k} \subseteq ToSet(s)
  BY RemoveFirstKeeps DEF IInv, TypeOK
<1>2. /\ Append(s, k) \in Seq(Key) /\ Len(Append(s, k)) = Len(s) + 1
      /\ ToSet(Append(s, k)) = ToSet(s) \cup {k}
  BY <1>1, AppendKeeps
<1>3. ASSUME Ordered(order), Used(k), order' = moveToEnd(k)
      PROVE  Ordered(order)'
  <2>1. Ordered(s) /\ k \notin ToSet(s)
    BY <1>3, RemoveFirstOrdered DEF IInv, TypeOK
  <2> QED
    BY <1>1, <1>3, <2>1, AppendedOrdered DEF moveToEnd
<1>4. Len(order) \in Nat
  BY Sizes
<1> QED
  BY <1>1, <1>2, <1>3, <1>4 DEF moveToEnd

\* Deleting a key, with its item or with none.
LEMMA DropKeeps ==
  ASSUME IInv, NEW k \in Key, Drop(k), ghosts' = ghosts, newer' = newer,
         looking' \in [Client -> SUBSET Key]
  PROVE  IInv'
<1>0. Cardinality(items) \in Nat /\ Len(order) \in Nat /\ ghosts \in Nat
  BY Sizes DEF IInv, TypeOK
<1>1. /\ items' = items \ {k}
      /\ order' \in Seq(Key) /\ ToSet(order) \ {k} \subseteq ToSet(order')
      /\ Len(order') = IF k \in ToSet(order) THEN Len(order) - 1 ELSE Len(order)
  BY RemoveFirstKeeps DEF IInv, TypeOK, Drop
<1>2. IsFiniteSet(items') /\ items' \subseteq Key
  BY <1>1, FS_Subset DEF IInv, TypeOK
<1>3. TypeOK'
  BY <1>1, <1>2 DEF IInv, TypeOK
<1>4. EveryItemOrdered'
  BY <1>1 DEF IInv, EveryItemOrdered
<1>5. GrowthBound'
  <2>1. CASE k \in items
    <3>1. Cardinality(items') = Cardinality(items) - 1
      BY <1>1, <2>1, FS_RemoveElement DEF IInv, TypeOK
    <3>2. Len(order') = Len(order) - 1
      BY <1>1, <2>1 DEF IInv, EveryItemOrdered
    <3> QED
      BY <1>0, <3>1, <3>2, CacheAssumption DEF IInv, GrowthBound
  <2>2. CASE k \notin items
    <3>1. items' = items /\ Len(order') <= Len(order) /\ Len(order') \in Nat
      BY <1>0, <1>1, <2>2
    <3> QED
      BY <1>0, <3>1, CacheAssumption DEF IInv, GrowthBound
  <2> QED
    BY <2>1, <2>2
<1>6. Recency'
  <2>1. ASSUME Ordered(order)
        PROVE  Ordered(order')
    BY <2>1, RemoveFirstOrdered DEF IInv, TypeOK, Drop
  <2> QED
    BY <2>1 DEF IInv, Recency, Ordered
<1> QED
  BY <1>3, <1>4, <1>5, <1>6 DEF IInv

\* Moving a key to the end, with its item or with none.
LEMMA MoveKeeps ==
  ASSUME IInv, NEW k \in Key, order' = moveToEnd(k), items' = items, Used(k),
         ghosts' = IF k \in ToSet(order) THEN ghosts ELSE ghosts + 1,
         looking' \in [Client -> SUBSET Key]
  PROVE  IInv'
<1>0. Cardinality(items) \in Nat /\ Len(order) \in Nat /\ ghosts \in Nat
  BY Sizes DEF IInv, TypeOK
<1>1. /\ order' \in Seq(Key) /\ ToSet(order) \subseteq ToSet(order')
      /\ Len(order') = IF k \in ToSet(order) THEN Len(order) ELSE Len(order) + 1
      /\ Ordered(order) => Ordered(order)'
  BY MoveToEndKeeps
<1>2. ghosts' \in Nat
  BY <1>0
<1>3. TypeOK'
  BY <1>1, <1>2 DEF IInv, TypeOK
<1>4. EveryItemOrdered'
  BY <1>1 DEF IInv, EveryItemOrdered
<1>5. GrowthBound'
  BY <1>0, <1>1, CacheAssumption DEF IInv, GrowthBound
<1>6. Recency'
  <2>1. ghosts' = 0 => ghosts = 0
    BY <1>0
  <2> QED
    BY <1>1, <2>1 DEF IInv, Recency
<1> QED
  BY <1>3, <1>4, <1>5, <1>6 DEF IInv

LEMMA LookUpKeeps ==
  ASSUME IInv, NEW c \in Client, NEW k \in Key, LookUp(c, k)
  PROVE  IInv'
<1>1. UNCHANGED <<items, order, ghosts, newer>> /\ looking' \in [Client -> SUBSET Key]
  BY DEF LookUp, cache, IInv, TypeOK
<1> QED
  BY <1>1 DEF IInv, TypeOK, EveryItemOrdered, GrowthBound, Recency, Ordered

LEMMA TouchKeeps ==
  ASSUME IInv, NEW c \in Client, Touch(c)
  PROVE  IInv'
<1>1. PICK k \in looking[c] :
        /\ order' = moveToEnd(k) /\ items' = items /\ Used(k)
        /\ ghosts' = IF k \in ToSet(order) THEN ghosts ELSE ghosts + 1
        /\ looking' = [looking EXCEPT ![c] = {}]
  BY DEF Touch
<1>2. k \in Key /\ looking' \in [Client -> SUBSET Key]
  BY <1>1 DEF IInv, TypeOK
<1> QED
  BY <1>1, <1>2, MoveKeeps

LEMMA DropExpiredKeeps ==
  ASSUME IInv, NEW c \in Client, DropExpired(c)
  PROVE  IInv'
<1>1. PICK k \in looking[c] :
        Drop(k) /\ looking' = [looking EXCEPT ![c] = {}] /\ UNCHANGED <<ghosts, newer>>
  BY DEF DropExpired
<1>2. k \in Key /\ looking' \in [Client -> SUBSET Key]
  BY <1>1 DEF IInv, TypeOK
<1> QED
  BY <1>1, <1>2, DropKeeps

\* What Set leaves when it puts a new key below the capacity, and at it.
LEMMA SetCases ==
  ASSUME IInv, NEW k \in Key, Set(k)
  PROVE  \/ k \in items /\ order' = moveToEnd(k) /\ items' = items
         \/ /\ k \notin items /\ Cardinality(items) < maxItems
            /\ items' = items \cup {k} /\ order' = Append(order, k)
         \/ /\ k \notin items /\ Cardinality(items) >= maxItems /\ order # <<>>
            /\ items' = (items \ {Head(order)}) \cup {k}
            /\ order' = Append(Tail(order), k)
<1>1. CASE k \in items
  BY <1>1 DEF Set
<1>2. CASE k \notin items /\ Cardinality(items) < maxItems
  <2>1. ~(Cardinality(items) >= maxItems)
    BY <1>2, Sizes, CacheAssumption
  <2> QED
    BY <1>2, <2>1 DEF Set, cache
<1>3. CASE k \notin items /\ Cardinality(items) >= maxItems
  <2>1. order # <<>>
    BY <1>3, Sizes, CacheAssumption
  <2> QED
    BY <1>3, <2>1 DEF Set, evict
<1> QED
  BY <1>1, <1>2, <1>3, Sizes, CacheAssumption

LEMMA SetKeeps ==
  ASSUME IInv, NEW k \in Key, Set(k)
  PROVE  IInv'
<1>0. /\ Cardinality(items) \in Nat /\ Len(order) \in Nat /\ ghosts \in Nat
      /\ ghosts' = ghosts /\ Used(k) /\ looking' \in [Client -> SUBSET Key]
      /\ items \subseteq Key /\ IsFiniteSet(items) /\ order \in Seq(Key)
  BY Sizes DEF IInv, TypeOK, Set
<1>1. CASE k \in items /\ order' = moveToEnd(k) /\ items' = items
  <2>1. k \in ToSet(order)
    BY <1>1 DEF IInv, EveryItemOrdered
  <2> QED
    BY <1>0, <1>1, <2>1, MoveKeeps
<1>2. CASE /\ k \notin items /\ Cardinality(items) < maxItems
           /\ items' = items \cup {k} /\ order' = Append(order, k)
  <2>1. /\ order' \in Seq(Key) /\ Len(order') = Len(order) + 1
        /\ ToSet(order') = ToSet(order) \cup {k}
    BY <1>0, <1>2, AppendKeeps
  <2>2. IsFiniteSet(items') /\ Cardinality(items') = Cardinality(items) + 1
    BY <1>0, <1>2, FS_AddElement
  <2>3. TypeOK'
    BY <1>0, <1>2, <2>1, <2>2 DEF TypeOK
  <2>4. EveryItemOrdered'
    BY <1>2, <2>1 DEF IInv, EveryItemOrdered
  <2>5. GrowthBound'
    BY <1>0, <1>2, <2>1, <2>2, CacheAssumption DEF IInv, GrowthBound
  <2>6. Recency'
    <3>1. ASSUME ghosts = 0
          PROVE  Ordered(order)'
      <4>1. k \notin ToSet(order) /\ Ordered(order)
        BY <1>2, <3>1, Sizes DEF IInv, Recency
      <4> QED
        BY <1>0, <1>2, <4>1, AppendedOrdered
    <3> QED
      BY <1>0, <3>1 DEF Recency
  <2> QED
    BY <2>3, <2>4, <2>5, <2>6 DEF IInv
<1>3. CASE /\ k \notin items /\ Cardinality(items) >= maxItems /\ order # <<>>
           /\ items' = (items \ {Head(order)}) \cup {k}
           /\ order' = Append(Tail(order), k)
  <2>1. /\ Tail(order) \in Seq(Key) /\ Len(Tail(order)) = Len(order) - 1
        /\ ToSet(order) \ {Head(order)} \subseteq ToSet(Tail(order))
    BY <1>0, <1>3, TailKeeps
  <2>2. /\ order' \in Seq(Key) /\ Len(order') = Len(order)
        /\ ToSet(order') = ToSet(Tail(order)) \cup {k}
    <3> PICK t : t = Tail(order)
      OBVIOUS
    <3>1. /\ Append(t, k) \in Seq(Key) /\ Len(Append(t, k)) = Len(t) + 1
          /\ ToSet(Append(t, k)) = ToSet(t) \cup {k}
      BY <2>1, AppendKeeps
    <3>2. order' = Append(t, k)
      BY <1>3
    <3> QED
      BY <1>0, <2>1, <3>1, <3>2
  <2>3. IsFiniteSet(items') /\ Cardinality(items') >= Cardinality(items)
    <3> DEFINE rest == items \ {Head(order)}
    <3>1. /\ IsFiniteSet(rest) /\ Cardinality(rest) \in Nat
          /\ Cardinality(rest) >= Cardinality(items) - 1
      <4>1. IsFiniteSet(rest) /\ Cardinality(rest) \in Nat
        BY <1>0, FS_Subset, FS_CardinalityType
      <4>2. CASE Head(order) \in items
        <5>1. Cardinality(rest) = Cardinality(items) - 1
          BY <1>0, <4>2, FS_RemoveElement
        <5> QED
          BY <1>0, <4>1, <5>1
      <4>3. CASE Head(order) \notin items
        <5>1. rest = items
          BY <4>3
        <5> HIDE DEF rest
        <5> QED
          BY <1>0, <4>1, <5>1
      <4> QED
        BY <4>2, <4>3
    <3>2. k \notin rest /\ items' = rest \cup {k}
      BY <1>3
    <3> HIDE DEF rest
    <3>3. IsFiniteSet(items') /\ Cardinality(items') = Cardinality(rest) + 1
      BY <3>1, <3>2, FS_AddElement
    <3> QED
      BY <1>0, <3>1, <3>3
  <2>4. TypeOK'
    BY <1>0, <1>3, <2>2, <2>3 DEF TypeOK
  <2>5. EveryItemOrdered'
    BY <1>3, <2>1, <2>2 DEF IInv, EveryItemOrdered
  <2>6. GrowthBound'
    <3>1. Cardinality(items') \in Nat
      BY <2>3, FS_CardinalityType
    <3> QED
      BY <1>0, <2>2, <2>3, <3>1, CacheAssumption DEF IInv, GrowthBound
  <2>7. Recency'
    <3>1. ASSUME ghosts = 0
          PROVE  Ordered(order)'
      <4>1. k \notin ToSet(order) /\ Ordered(order)
        BY <1>3, <3>1, Sizes DEF IInv, Recency
      <4>2. Ordered(Tail(order))
        BY <1>0, <1>3, <4>1, TailOrdered
      <4>3. k \notin ToSet(Tail(order))
        BY <1>0, <1>3, <4>1, TailWithin
      <4> QED
        BY <1>0, <1>3, <2>1, <4>2, <4>3, AppendedOrdered
    <3> QED
      BY <1>0, <3>1 DEF Recency
  <2> QED
    BY <2>4, <2>5, <2>6, <2>7 DEF IInv
<1> QED
  BY <1>1, <1>2, <1>3, SetCases

LEMMA DeleteKeeps ==
  ASSUME IInv, NEW k \in Key, Delete(k)
  PROVE  IInv'
BY DropKeeps DEF Delete, IInv, TypeOK

LEMMA CleanupStep ==
  ASSUME IInv, NEW E \in SUBSET items, Cleanup(E)
  PROVE  IInv'
<1>0. /\ Cardinality(items) \in Nat /\ Len(order) \in Nat /\ ghosts \in Nat
      /\ items \subseteq Key /\ IsFiniteSet(items) /\ order \in Seq(Key)
      /\ items' = items \ E /\ looking' = looking /\ ghosts' = ghosts /\ newer' = newer
  BY Sizes DEF IInv, TypeOK, Cleanup
<1>1. /\ IsFiniteSet(E) /\ E \subseteq ToSet(order) /\ Cardinality(E) \in Nat
      /\ Cardinality(E) <= Cardinality(items)
  BY <1>0, FS_Subset, FS_CardinalityType DEF IInv, EveryItemOrdered
<1>2. order' = Removing(order, E)[E]
  BY CleanupFold
<1>3. /\ order' \in Seq(Key) /\ Len(order') + Cardinality(E) = Len(order)
      /\ ToSet(order) \ E \subseteq ToSet(order')
      /\ Ordered(order) => Ordered(order')
  BY <1>0, <1>1, <1>2, CleanupKeeps
<1>4. /\ IsFiniteSet(items')
      /\ Cardinality(items') = Cardinality(items) - Cardinality(E)
  <2>1. IsFiniteSet(items \ E)
    BY <1>0, FS_Difference
  <2>2. Cardinality(items \ E) = Cardinality(items) - Cardinality(items \cap E)
    BY <1>0, FS_Difference
  <2>3. items \cap E = E
    OBVIOUS
  <2> QED
    BY <1>0, <2>1, <2>2, <2>3
<1>5. TypeOK'
  BY <1>0, <1>3, <1>4 DEF IInv, TypeOK
<1>6. EveryItemOrdered'
  BY <1>0, <1>3 DEF IInv, EveryItemOrdered
<1>7. GrowthBound'
  <2>1. Len(order') \in Nat
    BY <1>3
  <2> QED
    BY <1>0, <1>1, <1>3, <1>4, <2>1, CacheAssumption DEF IInv, GrowthBound
<1>8. Recency'
  BY <1>0, <1>3 DEF IInv, Recency, Ordered
<1> QED
  BY <1>5, <1>6, <1>7, <1>8 DEF IInv

LEMMA FlushKeeps ==
  ASSUME IInv, Flush
  PROVE  IInv'
<1>1. /\ items' = {} /\ order' = <<>> /\ Len(order') = 0 /\ IsFiniteSet(items')
      /\ Cardinality(items') = 0 /\ looking' = looking /\ ghosts' = ghosts
  BY FS_EmptySet DEF Flush
<1>2. TypeOK'
  BY <1>1 DEF IInv, TypeOK
<1>3. EveryItemOrdered'
  BY <1>1 DEF EveryItemOrdered
<1>4. GrowthBound'
  BY <1>1, CacheAssumption DEF IInv, TypeOK, GrowthBound
<1>5. Recency'
  BY <1>1 DEF Recency, Ordered
<1> QED
  BY <1>2, <1>3, <1>4, <1>5 DEF IInv

LEMMA NextHolds == IInv /\ [Next]_vars => IInv'
<1> SUFFICES ASSUME IInv, [Next]_vars PROVE IInv'
  OBVIOUS
<1>1. CASE UNCHANGED vars
  BY <1>1 DEF vars, cache, IInv, TypeOK, EveryItemOrdered, GrowthBound, Recency, Ordered
<1>2. CASE Next
  <2>1. ASSUME NEW c \in Client, NEW k \in Key, LookUp(c, k) PROVE IInv'
    BY <2>1, LookUpKeeps
  <2>2. ASSUME NEW c \in Client, Touch(c) PROVE IInv'
    BY <2>2, TouchKeeps
  <2>3. ASSUME NEW c \in Client, DropExpired(c) PROVE IInv'
    BY <2>3, DropExpiredKeeps
  <2>4. ASSUME NEW k \in Key, Set(k) PROVE IInv'
    BY <2>4, SetKeeps
  <2>5. ASSUME NEW k \in Key, Delete(k) PROVE IInv'
    BY <2>5, DeleteKeeps
  <2>6. ASSUME NEW E \in SUBSET items, Cleanup(E) PROVE IInv'
    BY <2>6, CleanupStep
  <2>7. CASE Flush
    BY <2>7, FlushKeeps
  <2> QED
    BY <1>2, <2>1, <2>2, <2>3, <2>4, <2>5, <2>6, <2>7 DEF Next
<1> QED
  BY <1>1, <1>2

LEMMA InvHolds == Spec => []IInv
BY InitHolds, NextHolds, PTL DEF Spec

-------------------------------------------------------------------------------
(* Theorems *)

\* The types are kept: the order only ever holds keys, and the items stay finitely many
\* (lru.go's map and slice).
THEOREM TypeCorrect == Spec => []TypeOK
BY InvHolds, PTL DEF IInv

\* Eviction and deletion find every item in the order, whatever Gets, deletes, cleanups
\* and flushes cross one another.
THEOREM EveryItemOrderedCorrect == Spec => []EveryItemOrdered
BY InvHolds, PTL DEF IInv

\* The order outgrows the items, and the items maxItems, by no more than the Gets that
\* crossed the removal of their key.
THEOREM GrowthBoundCorrect == Spec => []GrowthBound
BY InvHolds, PTL DEF IInv

\* While no Get has crossed a removal, the key that Set evicts is the one that was used
\* least recently.
THEOREM EvictsLeastRecentCorrect == Spec => EvictsLeastRecent
<1> DEFINE Evicts == \A k \in items \ items' :
                       ghosts = 0 /\ items' \ items # {} => (items \ {k}) \X {k} \subseteq newer
<1>1. ASSUME IInv, NEW k \in Key, Set(k) PROVE Evicts
  <2>1. ASSUME NEW l \in items \ items', ghosts = 0
        PROVE  (items \ {l}) \X {l} \subseteq newer
    <3>1. order # <<>> /\ l = Head(order)
      BY <1>1, <2>1, SetCases
    <3>2. items = ToSet(order) /\ Ordered(order)
      BY <1>1, <2>1, Sizes DEF IInv, Recency
    <3> QED
      BY <1>1, <3>1, <3>2, TailOrdered DEF IInv, TypeOK
  <2> QED
    BY <2>1
<1>2. ASSUME Next, \A k \in Key : ~Set(k) PROVE items' \subseteq items
  BY <1>2 DEF Next, LookUp, Touch, DropExpired, Delete, Drop, Cleanup, Flush, cache
<1>3. IInv /\ [Next]_vars => [Evicts]_vars
  <2> SUFFICES ASSUME IInv, Next PROVE Evicts
    BY DEF vars
  <2>1. CASE \E k \in Key : Set(k)
    BY <1>1, <2>1
  <2>2. CASE \A k \in Key : ~Set(k)
    BY <1>2, <2>2
  <2> QED
    BY <2>1, <2>2
<1>4. IInv /\ [Next]_vars =>
        [\A k \in items \ items' :
           ghosts = 0 /\ items' \ items # {} => (items \ {k}) \X {k} \subseteq newer]_vars
  BY <1>3
<1> QED
  BY <1>4, InvHolds, PTL DEF Spec, EvictsLeastRecent
===============================================================================
