------------------------------ MODULE QueryTable ------------------------------
(***************************************************************************)
(* The table of outstanding queries under every sequence of the operations *)
(* the stream transport applies to it (net/client/stream.rs, insert_req,   *)
(* demux_reply and error).  The transport is one task, so each of these    *)
(* runs to its end before the next one starts.                             *)
(***************************************************************************)
EXTENDS Queries

CONSTANT Queued      \* the queries

ASSUME QueuedAssumption == None \notin Queued

VARIABLE query_vec   \* query_vec of Transport::run

QInit == query_vec = Empty

\* insert_req, the message could be built.
InsertQuery(req) ==
    /\ ~ InsertFails(query_vec)
    /\ query_vec' = Insert(query_vec, req)

\* insert_req, convert_query fails: the query is taken out again.
InsertUnsendable(req) ==
    /\ ~ InsertFails(query_vec)
    /\ query_vec' = TryRemove(Insert(query_vec, req), InsertIdx(query_vec))

\* demux_reply, the last answer of a query.
Answer(id) ==
    /\ id \in Occupied(query_vec)
    /\ query_vec' = TryRemove(query_vec, id)

\* demux_reply, one answer of a stream of answers: the query is put back.
AnswerMore(id) ==
    /\ id \in Occupied(query_vec)
    /\ query_vec' = InsertAt(TryRemove(query_vec, id), id, query_vec.vec[id])

\* error: the connection failed.
Fail == query_vec' = Drain(query_vec)

QNext ==
    \/ \E req \in Queued : InsertQuery(req) \/ InsertUnsendable(req)
    \/ \E id \in 0 .. MaxId : Answer(id) \/ AnswerMore(id)
    \/ Fail

QSpec == QInit /\ [][QNext]_query_vec

------------------------------------------------------------------------------

\* The three fields of Queries have their types: a slot holds a query or None.
QTypeOK == IsTable(query_vec, Queued)

\* The cached number of outstanding queries is exact.  is_empty() decides on it
\* whether the connection goes idle, insert() whether the table is full.
CountExact == CountIsExact(query_vec)

\* Every slot before `curr' is taken, so a scan that starts at `curr' misses no
\* empty slot.
CurrExact == FullBelowCurr(query_vec)

\* Every slot index is a message ID: `expect("query vec too large")' in insert()
\* never panics, although the vector grows whenever it is more than half full
\* and never shrinks before the connection ends.
IdsFit == IdxFits(query_vec)

\* The table hands out message IDs as a pool of IDs does: a new query never
\* lands on an ID in use, and a query that is waiting for more answers gets its
\* own ID back.
Pool == INSTANCE IdPool WITH Req <- Queued,
            pool <- [i \in Occupied(query_vec) |-> query_vec.vec[i]]
IsPool == Pool!Spec
==============================================================================
