-------------------------------- MODULE IdPool --------------------------------
(***************************************************************************)
(* What a table of outstanding queries promises its connection: every      *)
(* outstanding query owns one message ID, no two own the same, and a query *)
(* keeps the ID it was sent with until it is released.                     *)
(***************************************************************************)
EXTENDS Naturals

CONSTANTS MaxId, Req

VARIABLE pool      \* from the message IDs in use to their queries

Init == DOMAIN pool = {}

\* A new query gets an ID nobody has; the others keep theirs.
Alloc(id, req) ==
    /\ id \notin DOMAIN pool
    /\ pool' = [i \in DOMAIN pool \cup {id} |-> IF i = id THEN req ELSE pool[i]]

\* A query is answered, or cannot be sent after all.
Release(id) ==
    /\ id \in DOMAIN pool
    /\ pool' = [i \in DOMAIN pool \ {id} |-> pool[i]]

\* The connection fails: all queries end.
Clear == DOMAIN pool' = {}

Next ==
    \/ Clear
    \/ \E id \in 0 .. MaxId : Release(id)
    \/ \E id \in 0 .. MaxId, req \in Req : Alloc(id, req)

Spec == Init /\ [][Next]_pool
==============================================================================
