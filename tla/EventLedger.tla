----------------------------- MODULE EventLedger -----------------------------
(***************************************************************************)
(* What event ingestion promises, without goroutines, buffer or indexes.   *)
(*                                                                         *)
(* POST /api/events writes the event at once and owes it one more write,   *)
(* which some later flush makes; POST /api/events/batch writes its events  *)
(* once and owes nothing. A delete removes an event that is stored. The    *)
(* owed write is made once, whether or not the event was deleted           *)
(* meanwhile, and a closed store is never written again.                   *)
(***************************************************************************)
CONSTANT Event

VARIABLES account,  \* [Event -> Standing]
          stored,   \* the events GET /api/events/{id} finds
          open      \* the store accepts writes

ledgerVars == <<account, stored, open>>

Standing == {"new", "owed", "settled"}

LedgerTypeOK ==
  /\ account \in [Event -> Standing]
  /\ stored \in SUBSET Event
  /\ open \in BOOLEAN

Init ==
  /\ account = [e \in Event |-> "new"]
  /\ stored = {}
  /\ open = TRUE

All(E, standing) == \A e \in E : account[e] = standing
Mark(E, standing) ==
  account' = [e \in Event |-> IF e \in E THEN standing ELSE account[e]]

\* E is accepted, and will be owed a second write or not.
Accept(E, standing) ==
  /\ open
  /\ All(E, "new")
  /\ Mark(E, standing)
  /\ stored' = stored \cup E
  /\ UNCHANGED open

\* One flush makes the owed write of all of E, or drops it on a closed store.
Settle(E) ==
  /\ All(E, "owed")
  /\ Mark(E, "settled")
  /\ stored' = IF open THEN stored \cup E ELSE stored
  /\ UNCHANGED open

Remove(e) ==
  /\ e \in stored
  /\ stored' = stored \ {e}
  /\ UNCHANGED <<account, open>>

Close ==
  /\ open' = FALSE
  /\ UNCHANGED <<account, stored>>

Next ==
  \/ \E e \in Event : Accept({e}, "owed") \/ Remove(e)
  \/ \E E \in SUBSET Event : Accept(E, "settled") \/ Settle(E)
  \/ Close

Spec == Init /\ [][Next]_ledgerVars
==============================================================================
