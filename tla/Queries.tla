------------------------------- MODULE Queries -------------------------------
(***************************************************************************)
(* The table of outstanding queries of a client stream connection: struct  *)
(* Queries of net/client/stream.rs.  The slot a query sits in is the DNS   *)
(* message ID the query is sent with, so a slot index has to fit a u16.    *)
(*                                                                         *)
(* A table is a record: `vec' is a function on the slots 0 .. len-1 (the   *)
(* Rust vector counts from zero), holding a query or None; `count' and     *)
(* `curr' are the two cached numbers the code keeps beside the vector.     *)
(***************************************************************************)
EXTENDS Integers, FiniteSets

CONSTANTS MaxId,   \* u16::MAX
          None     \* the empty slot

ASSUME MaxIdAssumption == MaxId \in Nat

Slots(q) == 0 .. (q.len - 1)

\* The slots holding a query: what `count' is meant to be the number of.
Occupied(q) == {i \in Slots(q) : q.vec[i] # None}

\* Queries::new
Empty == [count |-> 0, curr |-> 0, len |-> 0, vec |-> [i \in {} |-> None]]

\* Queries::is_empty
IsEmpty(q) == q.count = 0

\* The slots Queries::insert scans for an empty one.
FreeFromCurr(q) == {i \in q.curr .. (q.len - 1) : q.vec[i] = None}

\* Mutant: insert refuses a query only when every ID is in use.
MInsertFails(q) == q.count > MaxId

\* Queries::insert refuses the query.
InsertFails(q) == 2 * q.count > MaxId

\* Mutant: the slot at `curr' is taken to be empty.
MInsertIdx(q) == q.curr

\* The slot Queries::insert puts the query in: the first empty one at or after
\* `curr' when at least half of the vector is empty, a new one at the end
\* otherwise, or when the scan finds nothing.
InsertIdx(q) ==
    IF q.len >= 2 * q.count /\ FreeFromCurr(q) # {}
    THEN CHOOSE i \in FreeFromCurr(q) : \A j \in FreeFromCurr(q) : i <= j
    ELSE q.len

\* `curr' steps over the slot it points at once that slot is filled.
StepCurr(q, i) == IF i = q.curr THEN q.curr + 1 ELSE q.curr

\* Queries::insert, when it does not refuse.
Insert(q, req) ==
    LET idx == InsertIdx(q)
        len == IF idx = q.len THEN q.len + 1 ELSE q.len
    IN  [count |-> q.count + 1,
         curr  |-> StepCurr(q, idx),
         len   |-> len,
         vec   |-> [i \in 0 .. (len - 1) |-> IF i = idx THEN req ELSE q.vec[i]]]

\* Queries::insert_at.
InsertAt(q, id, req) ==
    [count |-> q.count + 1,
     curr  |-> StepCurr(q, id),
     len   |-> q.len,
     vec   |-> [q.vec EXCEPT ![id] = req]]

\* Queries::try_remove of a slot that holds a query; for any other index the
\* code returns None and changes nothing.
TryRemove(q, index) ==
    [count |-> IF q.count = 0 THEN 0 ELSE q.count - 1,
     curr  |-> IF index < q.curr THEN index ELSE q.curr,
     len   |-> q.len,
     vec   |-> [q.vec EXCEPT ![index] = None]]

\* Queries::drain.
Drain(q) == Empty

------------------------------------------------------------------------------

\* q is a table of entries of the set E.
IsTable(q, E) ==
    /\ q.count \in Nat
    /\ q.curr \in Nat
    /\ q.len \in Nat
    /\ q.vec \in [Slots(q) -> E \cup {None}]
    /\ q = [count |-> q.count, curr |-> q.curr, len |-> q.len, vec |-> q.vec]

\* The cached number of queries is exact.
CountIsExact(q) == q.count = Cardinality(Occupied(q))

\* Every slot before `curr' is taken.
FullBelowCurr(q) ==
    /\ q.curr <= q.len
    /\ \A i \in 0 .. (q.curr - 1) : q.vec[i] # None

\* Every slot index is a message ID.
IdxFits(q) == q.len <= MaxId + 1
==============================================================================
