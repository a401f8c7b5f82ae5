----------------------------- MODULE MCZoneQuery -----------------------------
(***************************************************************************)
(* Queries in small zones: an apex, a name below it, a name below that     *)
(* one, and the wildcard below the apex.                                   *)
(***************************************************************************)
EXTENDS ZoneQuery, TLC

CONSTANTS a, b, A, x, y

Names3 == {Apex, <<a>>, <<a, b>>}

Contents(names, soa, d, s) ==
    [rr   |-> [k \in names \X Types |->
                  CASE k = <<Apex, SOA>>    -> soa
                    [] k = <<<<a>>, A>>    -> d
                    [] k = <<<<Star>>, A>> -> s
                    [] OTHER              -> None],
     role |-> [n \in names |-> "none"]]
Initial3 == {Contents(Names3, {0}, {x}, None), Contents(Names3, {0}, None, None)}

Data3 == {<<<<a>>, A>>, <<<<a, b>>, A>>}
==============================================================================
