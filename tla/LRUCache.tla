------------------------------- MODULE LRUCache -------------------------------
(***************************************************************************)
(* LRUCache (pkg/cache/lru.go), shared by goroutines that call its methods *)
(* in any order. Set, Delete, Cleanup and Flush hold the mutex throughout  *)
(* and are one step. Get is two: it looks the item up under the read lock, *)
(* unlocks, looks at the clock, and locks again to move the key to the end *)
(* of the order or to delete it.                                           *)
(*                                                                         *)
(* Values do not matter here. Nor does the clock: a ttl is any duration,   *)
(* so a look may find any entry expired or not.                            *)
(***************************************************************************)
EXTENDS Integers, FiniteSets, SequencesExt

CONSTANTS Client,     \* goroutines in Get
          Key,
          maxItems,
          MaxGhosts   \* bound: times that a Get appends a key that is not there

ASSUME CacheAssumption == maxItems \in Nat \ {0} /\ MaxGhosts \in Nat

VARIABLES items,      \* keys of c.items
          order,      \* c.order
          looking,    \* the key each Get has found, as a set of at most one
          \* history
          ghosts,     \* times that moveToEnd appended a key absent from the order
          newer       \* <<k, l>>: k was stored or moved to the end after l

cache == <<items, order>>
vars == <<cache, looking, ghosts, newer>>

\* NewLRUCache
Init ==
  /\ items = {}
  /\ order = <<>>
  /\ looking = [c \in Client |-> {}]
  /\ ghosts = 0
  /\ newer = {}

-------------------------------------------------------------------------------
(* Helpers, called with the mutex held. *)

\* Mutant: the key keeps its place.
KeepInOrder(k) == IF k \in ToSet(order) THEN order ELSE Append(order, k)

\* Mutant: the key leaves its place and is not appended.
TakeOut(k) == RemoveFirst(order, k)

\* moveToEnd appends the key whether or not it was in the order.
moveToEnd(k) == Append(RemoveFirst(order, k), k)

\* What evict leaves: the first key of the order goes, and its item if it has one.
evict ==
  IF order = <<>>
  THEN cache
  ELSE <<items \ {Head(order)}, Tail(order)>>

\* k is the most recently used key now.
Used(k) == newer' = {p \in newer : p[2] # k} \cup ({k} \X (Key \ {k}))

\* The body of Delete.
Drop(k) ==
  /\ items' = items \ {k}
  /\ order' = RemoveFirst(order, k)

-------------------------------------------------------------------------------
(* Get *)

\* The item is found under the read lock. (A miss changes nothing.)
LookUp(c, k) ==
  /\ looking[c] = {}
  /\ k \in items
  /\ looking' = [looking EXCEPT ![c] = {k}]
  /\ UNCHANGED <<cache, ghosts, newer>>

\* It has not expired: a hit.
Touch(c) ==
  \E k \in looking[c] :
    /\ k \in ToSet(order) \/ ghosts < MaxGhosts
    /\ order' = moveToEnd(k)
    /\ ghosts' = IF k \in ToSet(order) THEN ghosts ELSE ghosts + 1
    /\ Used(k)
    /\ looking' = [looking EXCEPT ![c] = {}]
    /\ UNCHANGED items

\* It has expired: whatever is under the key by now is deleted.
DropExpired(c) ==
  \E k \in looking[c] :
    /\ Drop(k)
    /\ looking' = [looking EXCEPT ![c] = {}]
    /\ UNCHANGED <<ghosts, newer>>

-------------------------------------------------------------------------------
\* Mutant: the cache evicts once it holds more than maxItems.
SetLateEvict(k) ==
  /\ IF k \in items
     THEN order' = moveToEnd(k) /\ UNCHANGED items
     ELSE LET left == IF Cardinality(items) > maxItems THEN evict ELSE cache
          IN /\ items' = left[1] \cup {k}
             /\ order' = Append(left[2], k)
  /\ Used(k)
  /\ UNCHANGED <<looking, ghosts>>

\* A key that is not there evicts when the cache is full.
Set(k) ==
  /\ IF k \in items
     THEN order' = moveToEnd(k) /\ UNCHANGED items
     ELSE LET left == IF Cardinality(items) >= maxItems THEN evict ELSE cache
          IN /\ items' = left[1] \cup {k}
             /\ order' = Append(left[2], k)
  /\ Used(k)
  /\ UNCHANGED <<looking, ghosts>>

Delete(k) ==
  /\ Drop(k)
  /\ UNCHANGED <<looking, ghosts, newer>>

\* E are the items found expired; each loses its first place in the order.
Cleanup(E) ==
  /\ items' = items \ E
  /\ order' = FoldSet(LAMBDA k, o : RemoveFirst(o, k), order, E)
  /\ UNCHANGED <<looking, ghosts, newer>>

Flush ==
  /\ items' = {}
  /\ order' = <<>>
  /\ UNCHANGED <<looking, ghosts, newer>>

Next ==
  \/ \E c \in Client : (\E k \in Key : LookUp(c, k)) \/ Touch(c) \/ DropExpired(c)
  \/ \E k \in Key : Set(k) \/ Delete(k)
  \/ \E E \in SUBSET items : Cleanup(E)
  \/ Flush

Spec == Init /\ [][Next]_vars

-------------------------------------------------------------------------------
(* Properties *)

\* Every item is in the order, so eviction and deletion can reach it, whatever
\* Gets, deletes and expiries cross each other.
EveryItemOrdered == items \subseteq ToSet(order)

\* A Get that crosses the removal of its key leaves the key in the order with no
\* item, and that is the only way the order outgrows the items and the items
\* outgrow maxItems: by no more than the number of such Gets. (So without one, every
\* item being in the order, the order holds the items once each and nothing else.)
GrowthBound ==
  /\ Len(order) <= Cardinality(items) + ghosts
  /\ Len(order) <= maxItems + ghosts

\* While no Get has crossed a removal, the item that Set evicts is the least recently
\* used one.
EvictsLeastRecent ==
  [][\A k \in items \ items' :
       ghosts = 0 /\ items' \ items # {} => (items \ {k}) \X {k} \subseteq newer]_vars
===============================================================================
