----------------------------- MODULE MCDispatch -----------------------------
(* Dispatch with three themes, a role that each of them may bind, a token   *)
(* and a stroke width that one of them may have, and short block lists.     *)
EXTENDS Dispatch
CONSTANTS t1, t2, t3

MCItems == <<{"role"}, {"token"}, {"strokeWidth"}>>
MCGivable == (Themes \X {"role"}) \union {<<t2, "token">>, <<t3, "strokeWidth">>}
MCLists == {<<"uri1", "blank", "uri2">>, <<"comment">>}
=============================================================================
