---------------------------- MODULE MCZoneAnswers ----------------------------
(***************************************************************************)
(* Queries and walks in a zone of four names, as two families of           *)
(* behaviours, all of them Spec's: a tree two levels deep with zone cuts,  *)
(* and a wildcard beside a name that comes and goes, with aliases and cuts *)
(* that have a DS RRset.                                                   *)
(***************************************************************************)
EXTENDS MCZoneQuery

VARIABLE family

Names4 == {Apex, <<a>>, <<a, b>>, <<Star>>}
Initial4 == {Contents(Names4, {0}, {x}, None), Contents(Names4, {0}, None, None),
             Contents(Names4, {0}, None, {x})}
Data4 == {<<<<a>>, A>>, <<<<a, b>>, A>>, <<<<Star>>, A>>}

Deep == INSTANCE ZoneQuery WITH Editable <- {<<<<a>>, A>>, <<<<a, b>>, A>>}, Specials <- {"cut"}

Wide == INSTANCE ZoneQuery WITH
    Editable <- {<<<<Star>>, A>>}, Specials <- {"cname", "cut_with_DS"}

FamilyInit == Init /\ family = IF <<Star>> \in exists THEN "wide" ELSE "deep"

FamilyNext ==
    \/ family = "deep" /\ Deep!Next /\ <<Star>> \notin exists' /\ UNCHANGED family
    \/ family = "wide" /\ Wide!Next /\ <<a, b>> \notin exists' /\ UNCHANGED family

FamilySpec == FamilyInit /\ [][FamilyNext]_<<vars, family>>
==============================================================================
