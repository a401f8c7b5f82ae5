------------------------------ MODULE ZoneQuery ------------------------------
(***************************************************************************)
(* What readers of the in-memory zone store are told                       *)
(* (zonetree/in_memory/read.rs) and what the diff of a commit says         *)
(* (write.rs, zonetree/types.rs).                                          *)
(*                                                                         *)
(* A query descends from the apex one label at a time; it stops at the     *)
(* first node that is missing, is a zone cut or is marked NxDomain.  It    *)
(* holds the lock of each map of children it is below, and looks at one    *)
(* version only, so it is one step.  Queries for type ANY are left out.    *)
(***************************************************************************)
EXTENDS ZoneStore

CONSTANTS
    Star,        \* the label *
    DS

\* NodeAnswer: its kind, and the RRset it carries.
Answer(kind, x) == [kind |-> kind, rrset |-> x]
NoData == Answer("no data", None)
NxDomain == Answer("nx domain", None)

Special(n, v) == Get(special[n], v)

Cuts == {"cut", "cut_with_DS"}

ASSUME CutsAssumption == None \notin Cuts \cup {"cname"}

\* query_rrsets
QueryRRsets(n, t, v) ==
    IF Get(rr[<<n, t>>], v) = None THEN NoData ELSE Answer("data", Get(rr[<<n, t>>], v))

\* query_at_cut
QueryAtCut(s, t) ==
    IF t # DS THEN Answer("referral", None)
    ELSE IF s = "cut" THEN NoData ELSE Answer("data", "DS")

\* query_node_here_but_not_below
QueryHere(n, t, v) ==
    LET s == Special(n, v)
    IN  CASE s \in Cuts       -> QueryAtCut(s, t)
          [] s = "cname"      -> Answer("cname", None)
          [] s = "NxDomain"   -> NxDomain
          [] OTHER            -> QueryRRsets(n, t, v)

\* Where a query for q goes no further: at q, at nodes that are missing, cut off or marked.
Stops(q, v) ==
    {n \in Path[q] : n = q \/ n \notin exists \/ Special(n, v) \in Cuts \cup {"NxDomain"}}

\* The first name on the path of q that is in S.
FirstOn(q, S) == CHOOSE n \in Path[q] : n \in S /\ Path[n] \cap S = {n}

\* The node where a query for q ends.
EndOf(q, v) == FirstOn(q, Stops(q, v))

\* query_children, step 2: no child has the label.
QueryWild(parent, t, v) ==
    LET wild == Append(parent, Star)
    IN  IF wild \in exists THEN QueryHere(wild, t, v) ELSE NxDomain

\* Mutant: a zone cut above the name is not looked at.
MQuery(q, t, v) ==
    IF q = Apex THEN QueryRRsets(Apex, t, v)
    ELSE IF Path[q] \subseteq exists THEN QueryHere(q, t, v) ELSE NxDomain

\* query: query_node, query_node_here_and_below and query_children along the path.
Query(q, t, v) ==
    IF q = Apex THEN QueryRRsets(Apex, t, v)
    ELSE LET n == EndOf(q, v)
         IN  CASE n \notin exists                -> QueryWild(Parent[n], t, v)
               [] n \in exists /\ n = q          -> QueryHere(q, t, v)
               [] OTHER -> IF Special(n, v) = "NxDomain" THEN NxDomain
                           ELSE Answer("referral", None)

\* walk: the names whose RRsets are visited.
Walked(v) ==
    {n \in {Apex} \cup exists :
        \A m \in Path[n] \ {n} : Special(m, v) \notin Cuts \cup {"NxDomain"}}

------------------------------------------------------------------------------

\* Versions somebody looks at.
ReadVersions == {current} \cup ({reader[r] : r \in Readers} \ {None})

\* A reader is told the same for as long as it reads, whatever is written, committed
\* or rolled back, unless update_child makes a node; and if the query ends at a node,
\* not even then.  (Only the apex has a SOA RRset, which queries treat as any other.)
\* (The first disjunct implies the second: answers are made from these three.)
AnswersStable ==
    [][\/ UNCHANGED <<rr, special, exists>>
       \/ \A r \in Readers :
             reader[r] # None /\ reader'[r] = reader[r] =>
                 \A q \in Names \ {Apex} :
                     exists' = exists \/ EndOf(q, reader[r]) \in exists =>
                         \A t \in Types \ {SOA} :
                             Query(q, t, reader[r])' = Query(q, t, reader[r])]_vars

\* What the contents of a version say about a name with RRsets or a role.
Reference(q, t, c) ==
    IF \E n \in Path[q] \ {q} : c.role[n] \in Cuts THEN Answer("referral", None)
    ELSE CASE c.role[q] \in Cuts    -> QueryAtCut(c.role[q], t)
           [] c.role[q] = "cname"   -> Answer("cname", None)
           [] c.role[q] = "regular" -> IF c.rr[<<q, t>>] = None THEN NoData
                                       ELSE Answer("data", c.rr[<<q, t>>])

\* A name that has RRsets or a role in a version, as all names between it and the
\* apex do, is answered from the contents of that version: no mark that an earlier
\* version, a removal or a rollback has left behind hides it.
QueriesFindContents ==
    \A q \in Names \ {Apex}, t \in Types \ {SOA}, v \in ReadVersions :
        (\A n \in Path[q] : Special(n, v) \in Specials \/ ~ NoRRsets(rr, n, v)) =>
            Query(q, t, v) = Reference(q, t, View(v))

\* walk visits the RRsets of such a name too, unless it is below a zone cut: a zone
\* transfer leaves none of them out.
WalkFindsContents ==
    \A n \in Names \ {Apex}, t \in Types \ {SOA}, v \in ReadVersions :
        /\ Get(rr[<<n, t>>], v) # None
        /\ \A m \in Path[n] \ {n} : Special(m, v) \in Specials \ Cuts \/ ~ NoRRsets(rr, m, v)
        /\ \A m \in Path[n] \ {n} : Special(m, v) \notin Cuts
        => n \in Walked(v)

\* Queries and walks, the two ways to read a zone, find what a version contains.
ReadersFindContents == QueriesFindContents /\ WalkFindsContents

------------------------------------------------------------------------------
(* What the documentation says and the code does not do. *)

\* WritableZone::commit: readers from before a commit "will not see any of the
\* changes made since the last commit".
ReadersUnaffected ==
    [][\A r \in Readers :
          reader[r] # None /\ reader'[r] = reader[r] =>
              \A q \in Names, t \in Types :
                  Query(q, t, reader[r])' = Query(q, t, reader[r])]_vars
==============================================================================
