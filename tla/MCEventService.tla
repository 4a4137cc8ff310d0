---------------------------- MODULE MCEventService ----------------------------
(* EventService on a small instance: the handlers are interchangeable, and so
   are the events that have a session. *)
EXTENDS EventService, TLC

Symmetry == Permutations(Handler) \cup Permutations(SessionEvent)
===============================================================================
