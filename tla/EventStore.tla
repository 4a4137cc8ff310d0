------------------------------ MODULE EventStore ------------------------------
(***************************************************************************)
(* The event part of MemoryStore (internal/store/memory_store.go): the     *)
(* events map, the two secondary indexes and the open flag. Every          *)
(* operation holds the store's mutex from its first read to its last       *)
(* write, so each is one step.                                             *)
(*                                                                         *)
(* An index is a slice of pointers per user (or session). An event belongs *)
(* to one user, and only the number of its pointers in the slice tells     *)
(* behaviours apart, so an index is the number of occurrences of every     *)
(* event.                                                                  *)
(***************************************************************************)
EXTENDS Naturals

CONSTANTS Event,         \* events, each with the ID ToEvent generated for it
          SessionEvent   \* those whose SessionID is not empty

ASSUME SessionAssumption == SessionEvent \subseteq Event

VARIABLES events,        \* keys of the events map
          userIndex,     \* eventsByUser: occurrences of each event
          sessionIndex,  \* eventsBySession: occurrences of each event
          isOpen

storeVars == <<events, userIndex, sessionIndex, isOpen>>

StoreTypeOK ==
  /\ events \in SUBSET Event
  /\ userIndex \in [Event -> Nat]
  /\ sessionIndex \in [Event -> Nat]
  /\ isOpen \in BOOLEAN

NewMemoryStore ==
  /\ events = {}
  /\ userIndex = [e \in Event |-> 0]
  /\ sessionIndex = [e \in Event |-> 0]
  /\ isOpen = TRUE

AppendEach(index, E) ==
  [e \in Event |-> IF e \in E THEN index[e] + 1 ELSE index[e]]

\* Remove the first occurrence of e, if there is one.
DropFirst(index, e) ==
  [index EXCEPT ![e] = IF @ = 0 THEN 0 ELSE @ - 1]

-------------------------------------------------------------------------------
\* Mutant: a closed store still takes the batch.
CreateEventsWhenClosed(E) ==
  /\ events' = events \cup E
  /\ userIndex' = AppendEach(userIndex, E)
  /\ sessionIndex' = AppendEach(sessionIndex, E \cap SessionEvent)
  /\ UNCHANGED isOpen

\* CreateEvents: map entry, then both indexes, whether or not the event is
\* already there. A closed store changes nothing (ErrStoreClosed).
CreateEvents(E) ==
  IF isOpen
  THEN /\ events' = events \cup E
       /\ userIndex' = AppendEach(userIndex, E)
       /\ sessionIndex' = AppendEach(sessionIndex, E \cap SessionEvent)
       /\ UNCHANGED isOpen
  ELSE UNCHANGED storeVars

\* CreateEvent does for one event what CreateEvents does for each of a batch.
CreateEvent(e) == CreateEvents({e})

\* Mutant: the indexes are not cleaned up.
DeleteEventMapOnly(e) ==
  /\ events' = events \ {e}
  /\ UNCHANGED <<userIndex, sessionIndex, isOpen>>

\* DeleteEvent: there is no isOpen check, and each index loses one occurrence.
\* An unknown ID changes nothing (ErrEventNotFound).
DeleteEvent(e) ==
  IF e \in events
  THEN /\ events' = events \ {e}
       /\ userIndex' = DropFirst(userIndex, e)
       /\ sessionIndex' = IF e \in SessionEvent
                          THEN DropFirst(sessionIndex, e)
                          ELSE sessionIndex
       /\ UNCHANGED isOpen
  ELSE UNCHANGED storeVars

Close ==
  /\ isOpen' = FALSE
  /\ UNCHANGED <<events, userIndex, sessionIndex>>
===============================================================================
