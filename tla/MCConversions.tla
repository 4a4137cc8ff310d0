----------------------------- MODULE MCConversions -----------------------------
(* Two goals and two clients. The queries by goal are those of funnels. *)
EXTENDS Conversions, TLC

CONSTANTS c1, c2, g1, g2

MCClient == {c1, c2}
MCId == {g1, g2}
Symmetry == Permutations(MCClient) \cup Permutations(MCId)
MCPage == {"home", "cart"}
MCDay == {1}
MCPages == {<<"home", "cart">>}
MCUpdate == {<<"cart", "home">>}
Asking(id, start, end) == [id |-> id, start |-> start, end |-> end, day |-> 1]
MCQuery == {Asking(NoGoal, "home", "cart")}
===============================================================================
