------------------------------- MODULE MCAnalyses -------------------------------
(* Three users on two pages; the times leave some events within a second of each other.
   Instants 1 and 2 are of another hour than the rest, and 4 and 5 of another day. *)
EXTENDS Statistics

On(u, type, p, t, d, c) ==
  [user |-> u, type |-> type, page |-> p, time |-> t, device |-> d, country |-> c,
   duration |-> IF type = "duration" THEN 7 ELSE 0]

MCUser == {"ann", "bob", "eve"}
MCPage == {"home", "cart"}
MCDevice == {"mobile", "other", NoString}
MCCountry == {"fr", NoString}
MCEvent ==
  {On("ann", "page_view", "home", 1, "mobile", "fr"),
   On("ann", "page_view", "cart", 2, NoString, NoString),
   On("ann", "page_view", "home", 5, "mobile", "fr"),
   On("bob", "page_view", "home", 2, "other", NoString),
   On("eve", "page_view", "cart", 3, "mobile", NoString),
   On("ann", "click", "home", 2, "mobile", "fr"),
   On("bob", "duration", "cart", 4, "other", NoString),
   On("eve", "custom", "home", 5, NoString, "fr")}
MCGoal == {<<"home", "cart">>, <<"cart", "home">>, <<"home", "home">>}
MCFunnel == {<<"home", "cart">>, <<"cart", "home", "home">>}
MCPeriod == {<<0, 0>>, <<2, 4>>}
MCPeriods == {<<<<2, 4>>, <<0, 0>>>>, <<<<0, 0>>, <<2, 4>>>>}
MCToday == <<4, 5>>
MCHourOf == [t \in 1..5 |-> IF t < 3 THEN 0 ELSE 23]
MCDayOf == [t \in 1..5 |-> IF t < 4 THEN 1 ELSE 2]
===============================================================================
