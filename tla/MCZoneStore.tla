----------------------------- MODULE MCZoneStore -----------------------------
(***************************************************************************)
(* A small zone: an apex with one name below it.                           *)
(***************************************************************************)
EXTENDS ZoneStore, TLC

CONSTANTS a, A, x, w1

Names2 == {Apex, <<a>>}

\* SOA RRset soa at the apex and RRset d at a, nothing else.
Contents(names, soa, d) ==
    [rr   |-> [k \in names \X {SOA, A} |->
                  IF k = <<Apex, SOA>> THEN soa ELSE IF k = <<<<a>>, A>> THEN d ELSE None],
     role |-> [n \in names |-> "none"]]
Initial2 == {Contents(Names2, {0}, {x})}

Data2 == {<<<<a>>, A>>}
SoaAndData == {<<Apex, SOA>>, <<<<a>>, A>>}

(* Two families of behaviours, all of them Spec's: two writers over three  *)
(* versions, and a writer that records diffs and edits the SOA record.     *)
VARIABLE family

Versioning == INSTANCE ZoneStore WITH Editable <- Data2, Bumps <- {TRUE}, Diffs <- {FALSE}

Diffing == INSTANCE ZoneStore WITH Specials <- {}, MaxVersion <- 1, Diffs <- {TRUE}, Writers <- {w1},
    Readers <- {}

FamilyInit == Init /\ family \in {"versions", "diffs"}

FamilyNext ==
    \/ family = "versions" /\ Versioning!Next /\ UNCHANGED family
    \/ family = "diffs" /\ Diffing!Next /\ UNCHANGED family

FamilySpec == FamilyInit /\ [][FamilyNext]_<<vars, family>>
==============================================================================
