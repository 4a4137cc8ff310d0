-------------------------------- MODULE TTLCache --------------------------------
(***************************************************************************)
(* TTLCache: the map of the cache with a time to live (pkg/cache/cache.go).*)
(* Set, Delete, Clear and Cleanup hold the mutex throughout.  Get does not *)
(* and is composed of these operators by the module that calls it          *)
(* (Conversions).                                                          *)
(*                                                                         *)
(* An entry expires when the time comes, whoever looks; from then on it is *)
(* marked so until it is removed or replaced.                              *)
(***************************************************************************)
EXTENDS Integers, FiniteSets, Functions

VARIABLE items   \* [value, expired] records

New == items = <<>>

Set(k, value) ==
  items' = [j \in DOMAIN items \cup {k} |->
              IF j = k THEN [value |-> value, expired |-> FALSE] ELSE items[j]]

Has(k) == k \in DOMAIN items

IsExpired(k) == items[k].expired

\* The non-expired keys.
Keys == {k \in DOMAIN items : ~IsExpired(k)}

Delete(k) == items' = Restrict(items, DOMAIN items \ {k})

Clear == items' = <<>>

\* Mutant: the entries that have not expired are removed.
CleanupFresh ==
  /\ \E k \in DOMAIN items : IsExpired(k)
  /\ items' = Restrict(items, DOMAIN items \ Keys)

\* Removes the expired entries.
Cleanup ==
  /\ \E k \in DOMAIN items : IsExpired(k)
  /\ items' = Restrict(items, Keys)

\* The time of k's entry comes.
Expire(k) ==
  /\ k \in Keys
  /\ items' = [items EXCEPT ![k].expired = TRUE]
===============================================================================
