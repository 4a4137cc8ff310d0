------------------------------- MODULE MCListings -------------------------------
(* Three records of two types, operating systems and pages, at three instants, and a clock
   that goes on for one more. *)
EXTENDS Listings, TLC

CONSTANTS r1, r2, r3

a == "a"
b == "b"

MCRecord == {r1, r2, r3}
MCField == {"type", "os", "page"}
MCValue == {a, b}
MCAttr == (r1 :> [type |-> a, os |-> a, page |-> b]) @@ (r2 :> [type |-> a, os |-> b, page |-> a])
          @@ (r3 :> [type |-> b, os |-> a, page |-> a])
MCAt == (r1 :> 6) @@ (r2 :> 7) @@ (r3 :> 8)
MCContaining == {<<a, a>>, <<b, b>>, <<b, a>>}
MCMaxPageSize == [events |-> 3, sessions |-> 2, query |-> 4]
MCAsk == {0, 1, 2, 3, 9}

\* From 8 to 9 the default range loses r1, the long one nothing; today loses all, and
\* yesterday, which had r1, gets the other two.
MCSpan == ("" :> 2) @@ ("last_30d" :> 7)

All == [f \in Field |-> Unset]
MCWhere ==
  {[field |-> All, start |-> 0, end |-> 0],
   [field |-> [All EXCEPT !["type"] = a], start |-> 7, end |-> 0],
   [field |-> All, start |-> 0, end |-> 7],
   [field |-> All, start |-> 8, end |-> 7]}

Cond(dim, op, value) == [dim |-> dim, op |-> op, value |-> value]
MCConditions ==
  {<<>>,
   <<Cond("os", "eq", a)>>,
   <<Cond("os", "eq", NotString), Cond("page", "neq", a)>>,
   <<Cond("os", "in", a), Cond("os", "eq", b)>>,
   <<Cond("os", "neq", b)>>,
   <<Cond("os", "eq", a), Cond("page", "contains", a)>>,
   <<Cond("user_type", "eq", a), Cond("page", "gt", a)>>}
===============================================================================
